---------------------------- MODULE Commands_proofs ----------------------------
(***************************************************************************)
(* Proofs about Commands, for every set of calls, every input, every       *)
(* device and every number of calls: what the exit code and the            *)
(* acknowledgements say about the device, and that the program is an       *)
(* OtcatProcess.                                                           *)
(***************************************************************************)
EXTENDS Commands, ModbusClient_proofs, FiniteSetTheorems

(***************************************************************************)
(* The inductive invariant.                                                *)
(***************************************************************************)
Early   == {"argv", "start", "explain"}
Working == {"line", "wait", "print"}
Stages  == Early \union {"gate", "watching", "returned"} \union Working
Exits   == {"none", "ok", "usage", "connection", "protocol", "aborted", "io"}

(* What validate lets through. *)
Lines == {SkipLine, BadLine} \union {Line(c) : c \in Calls}

CommandOK ==
    /\ cmd.action \in {"none", "read", "watch", "write"}
    /\ cmd.stub \in BOOLEAN /\ cmd.confirm \in BOOLEAN /\ cmd.fromStdin \in BOOLEAN
    /\ cmd.dryRun \in BOOLEAN /\ cmd.terminal \in BOOLEAN
    /\ cmd.lines \in Seq(Lines)
    /\ \A i \in CallLines : LET c == cmd.lines[i].call
                            IN  /\ cmd.action = "read" => c.fc \in Reads
                                /\ cmd.action = "write" => c.fc \in Writes
    /\ Len(cmd.lines) <= MaxLines
    /\ ~cmd.fromStdin => Len(cmd.lines) <= 1
    /\ cmd.dryRun => cmd.action = "write"
    /\ cmd.action = "none" => cmd = NoCommand

CommandTypeOK ==
    /\ stage \in Stages
    /\ exit \in Exits
    /\ exit = "none" <=> stage # "returned"
    /\ hadErr \in BOOLEAN
    /\ sent \in Seq(Nat) /\ acked \in Seq(Nat) /\ applied \in Seq(Nat) /\ planned \in Seq(Nat)

(* Where the command is, and what that says of the connection. *)
Route ==
    /\ stage \in Early => dials = 0
    /\ stage \in Working \union {"gate", "watching"} =>
         conn = 1 /\ dials = 1 /\ ~cmd.stub /\ ~DryRun
    /\ stage = "returned" => conn = 0
    /\ cmd.dryRun \/ cmd.stub => dials = 0
    /\ stage # "wait" => pc = "idle"
    /\ stage = "argv" => cmd = NoCommand
    /\ stage = "start" => cmd.action # "none"
    /\ stage = "explain" => DryRun /\ ~cmd.stub
    /\ stage = "gate" => cmd.action = "write"
    /\ stage = "watching" => cmd.action = "watch"
    /\ stage \in Working => cmd.action \in {"read", "write"}

(* Before the first call nothing has happened, and without consent there   *)
(* is none.                                                                *)
Quiet ==
    /\ stage \notin Working \union {"returned"} => n = 0
    /\ stage \in Early \union {"gate", "watching"} => acked = <<>>
    /\ n = 0 => ~Underway /\ mem = InitMem
    /\ cmd.action = "write" /\ ~Consented => n = 0 /\ stage \notin Working

(* The calls made, acknowledged and carried out: of the last one only may  *)
(* it be open whether it was carried out.                                  *)
Books ==
    /\ n = Len(sent)
    /\ sent = acked \/ \E x \in CallLines : sent = Append(acked, x)
    /\ applied \in {acked, sent}
    /\ InOrder(sent)
    /\ n > 0 => call = cmd.lines[sent[n]].call
    /\ \A k \in Conns : \A i \in 1..Len(requests[k]) :
          requests[k][i].n = n /\ applied = acked /\ sent # acked
    /\ Holds(applied)

(* How far the input has been taken. *)
Taken(s) == \A i \in CallLines : i <= next <=> \E j \in 1..Len(s) : s[j] = i
GoodSoFar == \A i \in 1..next : cmd.lines[i] # BadLine

Reading == stage \in Working => Taken(sent) /\ GoodSoFar

Planning ==
    /\ stage = "explain" /\ ~cmd.fromStdin => ~hadErr
    /\ stage = "explain" /\ ~hadErr => InOrder(planned) /\ Taken(planned) /\ GoodSoFar
    /\ stage \in {"argv", "start"} => next = 0 /\ ~hadErr /\ planned = <<>>
    /\ stage \in {"gate"} => next = 0

(* Between the calls, during one, and after it. *)
Settled ==
    /\ stage \in {"gate", "line", "print"} => clean
    /\ stage = "line" => sent = acked
    /\ stage = "print" => applied = sent /\ sent = Append(acked, next)
    /\ stage = "wait" =>
         /\ sent = Append(acked, next)
         /\ pc # "idle" =>
              /\ clean
              /\ answer # <<>> =>
                   /\ ~Underway
                   /\ applied = IF Interpret(call, answer).kind = "ok" THEN sent ELSE acked
         /\ pc = "idle" =>
              /\ last.kind = "ok" => clean /\ applied = sent
              /\ last.kind \notin {"ok", "timeout", "eof"} => applied = acked /\ ~Underway

(* What the exit code says. *)
Verdict ==
    /\ exit = "ok" /\ ~cmd.dryRun => sent = acked /\ AllOf(acked)
    /\ exit = "ok" /\ cmd.dryRun => AllOf(planned)
    /\ exit = "ok" => \A i \in 1..Len(cmd.lines) : cmd.lines[i] # BadLine
    /\ cmd.action = "write" /\ exit \in {"usage", "protocol", "aborted"} =>
         applied = acked /\ ~Underway

CInv == CommandTypeOK /\ Route /\ Quiet /\ Books /\ Reading /\ Planning /\ Settled /\ Verdict

(***************************************************************************)
(* What the command line comes to.                                         *)
(***************************************************************************)
LEMMA LineFacts ==
    ASSUME CommandOK, NEW i \in 1..Len(cmd.lines)
    PROVE  /\ cmd.lines[i] = SkipLine \/ cmd.lines[i] = BadLine \/ i \in CallLines
           /\ i \in CallLines =>
                /\ cmd.lines[i] # SkipLine /\ cmd.lines[i] # BadLine
                /\ cmd.lines[i].call \in Calls
                /\ cmd.action = "write" => cmd.lines[i].call.fc \in Writes
           /\ cmd.lines[i] = SkipLine \/ cmd.lines[i] = BadLine => i \notin CallLines
           /\ SkipLine # BadLine
  <1>1. SkipLine.kind = "skip" /\ BadLine.kind = "bad" /\ SkipLine # BadLine
    BY DEF SkipLine, BadLine
  <1>2. cmd.lines[i] \in Lines
    BY DEF CommandOK
  <1>3. PICK l : l = cmd.lines[i]
    OBVIOUS
  <1>4. l = SkipLine \/ l = BadLine \/ \E c \in Calls : l = Line(c)
    BY <1>2, <1>3 DEF Lines
  <1>5. \A c \in Calls : Line(c).kind = "call" /\ Line(c).call = c
    BY DEF Line
  <1>6. i \in CallLines <=> l.kind = "call"
    BY <1>3 DEF CallLines
  <1>7. i \in CallLines /\ cmd.action = "write" => cmd.lines[i].call.fc \in Writes
    BY DEF CommandOK
  <1> QED BY <1>1, <1>3, <1>4, <1>5, <1>6, <1>7

LEMMA CallLine ==
    ASSUME CommandOK, next \in 0..Len(cmd.lines), More, Current.kind = "call"
    PROVE  next + 1 \in CallLines /\ Current.call \in Calls
  <1>1. next + 1 \in 1..Len(cmd.lines)
    BY DEF More, CommandOK
  <1>2. next + 1 \in CallLines
    BY <1>1 DEF CallLines, Current
  <1> QED BY <1>1, <1>2, LineFacts DEF Current

(* The lines of the command line are lines. *)
LEMMA InputLines ==
    ASSUME NEW f \in CommandLines, NEW ls \in Inputs(f), Single(f.actions)
    PROVE  /\ ls \in Seq(Lines) /\ Len(ls) <= MaxLines
           /\ ~f.fromStdin => Len(ls) <= 1
           /\ \A i \in 1..Len(ls) : ls[i].kind = "call" =>
                /\ f.actions = {"read"} => ls[i].call.fc \in Reads
                /\ f.actions = {"write"} => ls[i].call.fc \in Writes
  <1>1. /\ ReadLines \subseteq Lines /\ ValueLines \subseteq Lines /\ SkipLine \in Lines
        /\ BadLine.kind = "bad" /\ SkipLine.kind = "skip"
        /\ \A c \in Calls : Line(c).kind = "call" /\ Line(c).call = c
    BY DEF ReadLines, ValueLines, Lines, BadLine, SkipLine, Line
  <1>2. /\ \A l \in ReadLines : l.kind = "call" => l.call.fc \in Reads
        /\ \A l \in ValueLines \union {SkipLine} : l.kind = "call" => l.call.fc \in Writes
    BY <1>1 DEF ReadLines, ValueLines
  <1>3. MaxLines \in Nat /\ 1 <= MaxLines
    BY MaxLinesAssumption
  <1>4. CASE ls = <<>>
    BY <1>3, <1>4
  <1>5. CASE f.actions = {"read"} /\ \E l \in ReadLines : ls = <<l>>
    <2>1. PICK l \in ReadLines : ls = <<l>>
      BY <1>5
    <2>2. ls \in Seq(Lines) /\ Len(ls) = 1 /\ ls[1] = l
      BY <1>1, <2>1
    <2>3. \A i \in 1..Len(ls) : ls[i] = l
      BY <2>2
    <2> QED BY <1>2, <1>3, <1>5, <2>2, <2>3
  <1>6. CASE f.actions # {"read"} /\ \E l \in ValueLines : ls = <<l>>
    <2>1. PICK l \in ValueLines : ls = <<l>>
      BY <1>6
    <2>2. ls \in Seq(Lines) /\ Len(ls) = 1 /\ ls[1] = l
      BY <1>1, <2>1
    <2>3. \A i \in 1..Len(ls) : ls[i] = l
      BY <2>2
    <2> QED BY <1>2, <1>3, <1>6, <2>2, <2>3
  <1>7. CASE /\ f.actions # {"read"} /\ f.fromStdin
             /\ ls \in BoundedSeq(ValueLines \union {SkipLine}, MaxLines)
    <2>1. PICK m \in 0..MaxLines : ls \in [1..m -> ValueLines \union {SkipLine}]
      BY <1>7 DEF BoundedSeq, SeqOf
    <2>2. m \in Nat /\ m <= MaxLines
      BY <1>3
    <2>3. ls \in [1..m -> Lines]
      BY <1>1, <2>1
    <2>4. ls \in Seq(Lines) /\ Len(ls) = m
      BY <2>2, <2>3
    <2>5. \A i \in 1..Len(ls) : ls[i] \in ValueLines \union {SkipLine}
      BY <2>1, <2>4
    <2> QED BY <1>2, <1>7, <2>2, <2>4, <2>5
  <1> QED BY <1>4, <1>5, <1>6, <1>7 DEF Inputs

(* What validate lets through. *)
LEMMA ParseMakesCommand ==
    ASSUME NEW f \in CommandLines, Validate(f), cmd' \in Commanded(f)
    PROVE  CommandOK' /\ cmd'.action # "none"
  <1>1. PICK a \in {"read", "watch", "write"} : f.actions = {a}
    BY DEF Validate, Single, CommandLines
  <1>2. (CHOOSE x \in f.actions : TRUE) = a
    BY <1>1
  <1>3. PICK t \in BOOLEAN, ls \in Inputs(f) :
          cmd' = [action |-> a, stub |-> f.endpoints = {"stub"},
                  confirm |-> f.confirm, fromStdin |-> f.fromStdin, dryRun |-> f.dryRun = "yes",
                  terminal |-> t, lines |-> ls]
    <2>1. PICK w : w = CHOOSE x \in f.actions : TRUE
      OBVIOUS
    <2>2. Commanded(f) =
            {[action |-> w, stub |-> f.endpoints = {"stub"},
              confirm |-> f.confirm, fromStdin |-> f.fromStdin, dryRun |-> f.dryRun = "yes",
              terminal |-> t, lines |-> ls] :
             t \in BOOLEAN, ls \in Inputs(f)}
      BY <2>1 DEF Commanded
    <2>3. w = a
      BY <1>2, <2>1
    <2> QED BY <2>2, <2>3
  <1>4. /\ ls \in Seq(Lines) /\ Len(ls) <= MaxLines
        /\ ~f.fromStdin => Len(ls) <= 1
        /\ \A i \in 1..Len(ls) : ls[i].kind = "call" =>
             /\ f.actions = {"read"} => ls[i].call.fc \in Reads
             /\ f.actions = {"write"} => ls[i].call.fc \in Writes
    BY InputLines DEF Validate
  <1>5. f.dryRun = "yes" => a = "write"
    BY <1>1 DEF Validate
  <1>6. f.confirm \in BOOLEAN /\ f.fromStdin \in BOOLEAN
    BY DEF CommandLines
  <1>7. /\ cmd'.action = a /\ cmd'.lines = ls /\ cmd'.fromStdin = f.fromStdin
        /\ cmd'.confirm = f.confirm /\ cmd'.terminal = t
        /\ cmd'.stub \in BOOLEAN /\ cmd'.dryRun \in BOOLEAN
        /\ cmd'.dryRun => f.dryRun = "yes"
    BY <1>3
  <1> QED BY <1>1, <1>4, <1>5, <1>6, <1>7 DEF CommandOK, CallLines

CmdInv == /\ CommandOK
          /\ next \in 0..Len(cmd.lines)
          /\ stage = "argv" => next = 0
          /\ flags \in CommandLines


(***************************************************************************)
(* A command is a caller of the client: what is proved of ModbusClient     *)
(* holds underneath it.                                                    *)
(***************************************************************************)
LEMMA ReturnIsStep ==
    ASSUME NEW code, Return(code)
    PROVE  [Next]_vars
  BY DEF Return, Next

(* Only Parse changes the command, and only before anything is taken. *)
LEMMA CmdInvariance == CommandSpec => []CmdInv
  <1>1. CommandInit => CmdInv
    <2> SUFFICES ASSUME CommandInit PROVE CmdInv
      OBVIOUS
    <2>1. cmd = NoCommand /\ next = 0 /\ flags \in CommandLines
      BY DEF CommandInit
    <2>2. cmd.lines = <<>> /\ Len(cmd.lines) = 0
      BY <2>1 DEF NoCommand
    <2>3. CallLines = {}
      BY <2>2 DEF CallLines
    <2>4. CommandOK
      BY <2>1, <2>2, <2>3, MaxLinesAssumption DEF CommandOK, NoCommand
    <2> QED BY <2>1, <2>2, <2>4 DEF CmdInv
  <1>2. ASSUME CmdInv, [CommandNext]_allVars
        PROVE  CmdInv'
    <2>1. Len(cmd.lines) \in Nat
      BY DEF CmdInv, CommandOK
    <2>2. CASE Parse
      <3>1. CommandOK' /\ next' = 0 /\ stage' = "start"
        BY <1>2, <2>2, ParseMakesCommand DEF Parse, CmdInv
      <3>2. NoFlags \in CommandLines
        <4>1. \E f \in CommandLines : f.actions = {}
          <5>1. PICK f : f = [endpoints |-> {}, actions |-> {}, value |-> TRUE,
                              fromStdin |-> TRUE, confirm |-> TRUE, dryRun |-> "no",
                              asks |-> "nothing", wrong |-> "nothing"]
            OBVIOUS
          <5>2. f \in CommandLines /\ f.actions = {}
            BY <5>1 DEF CommandLines
          <5> QED BY <5>2
        <4> QED BY <4>1 DEF NoFlags
      <3>3. flags' \in CommandLines
        BY <2>2, <3>2 DEF Parse
      <3>4. Len(cmd.lines)' \in Nat
        BY <3>1 DEF CommandOK
      <3> QED BY <3>1, <3>3, <3>4 DEF CmdInv
    <2>3. CASE /\ UNCHANGED <<cmd, flags>>
               /\ next' = next \/ (More /\ next' = next + 1)
               /\ stage' = stage \/ stage' # "argv"
               /\ stage = "argv" => next' = next
      <3>1. next' \in 0..Len(cmd.lines)
        BY <1>2, <2>1, <2>3 DEF CmdInv, More
      <3> QED BY <1>2, <2>3, <3>1 DEF CmdInv, CommandOK, CallLines
    <2>4. CASE ParseFails \/ StubFails \/ DialFails \/ Refused \/ SaysNo \/ PromptFails
               \/ Reject \/ CallFails \/ PrintFails \/ EndOfInput \/ InputFails \/ EndOfDryRun
      BY <2>3, <2>4 DEF ParseFails, StubFails, DialFails, Refused, SaysNo, PromptFails,
           Reject, CallFails, PrintFails, EndOfInput, InputFails, EndOfDryRun, Return
    <2>5. CASE StartDryRun \/ Confirmed \/ SaysYes \/ Skip \/ PrintResult \/ Explain
      BY <2>3, <2>5 DEF StartDryRun, Confirmed, SaysYes, Pass, Skip, PrintResult, Explain,
           Explained
    <2>6. CASE CallSucceeds \/ Dial \/ StartCall
      BY <2>3, <2>6 DEF CallSucceeds, Dial, StartCall, Return
    <2>7. CASE Late \/ Progress \/ (\E k \in Conns : CarryOut(k) \/ Lost(k))
                    \/ UNCHANGED allVars
      BY <2>3, <2>7 DEF Late, Progress, CarryOut, Lost, cmdVars, allVars
    <2> QED BY <1>2, <2>2, <2>4, <2>5, <2>6, <2>7 DEF CommandNext, Step
  <1> QED BY <1>1, <1>2, PTL DEF CommandSpec

LEMMA StepIsStep == CmdInv /\ CommandNext => [Next]_vars
  <1> SUFFICES ASSUME CmdInv, CommandNext PROVE [Next]_vars
    OBVIOUS
  <1>1. CASE ParseFails \/ StubFails \/ DialFails \/ Refused \/ SaysNo \/ PromptFails
             \/ Reject \/ CallFails \/ PrintFails \/ EndOfInput \/ InputFails \/ EndOfDryRun
    BY <1>1, ReturnIsStep DEF ParseFails, StubFails, DialFails, Refused, SaysNo, PromptFails,
         Reject, CallFails, PrintFails, EndOfInput, InputFails, EndOfDryRun
  <1>2. CASE Parse \/ StartDryRun \/ Confirmed \/ SaysYes \/ Skip \/ PrintResult \/ Explain
    BY <1>2 DEF Parse, StartDryRun, Confirmed, SaysYes, Pass, Skip, PrintResult, Explain,
         Explained
  <1>3. CASE CallSucceeds
    BY <1>3, ReturnIsStep DEF CallSucceeds
  <1>4. CASE Dial
    BY <1>4 DEF Dial, Next
  <1>5. CASE StartCall
    <2>1. More /\ Current.kind = "call"
      BY <1>5 DEF StartCall
    <2>2. PICK c : c = Current.call
      OBVIOUS
    <2>3. c \in Calls
      BY <2>1, <2>2, CallLine DEF CmdInv
    <2>4. RefuseCall(c) \/ SendRequest(c) \/ SendIntoClosed(c) \/ WriteError(c)
      BY <1>5, <2>2 DEF StartCall
    <2> QED BY <2>3, <2>4 DEF Next
  <1>6. CASE Late \/ Progress \/ (\E k \in Conns : CarryOut(k) \/ Lost(k))
    BY <1>6 DEF Late, Progress, CarryOut, Lost, Next
  <1> QED BY <1>1, <1>2, <1>3, <1>4, <1>5, <1>6 DEF CommandNext, Step

(* Each command is a caller of the client that ModbusClient describes.     *)
THEOREM CommandsCallClient == CommandSpec => Spec
  <1>1. CommandInit => Init
    BY DEF CommandInit
  <1>2. UNCHANGED allVars => UNCHANGED vars
    BY DEF allVars
  <1> QED BY <1>1, <1>2, CmdInvariance, StepIsStep, PTL DEF CommandSpec, Spec

(***************************************************************************)
(* What a step that leaves some variables alone leaves true.               *)
(***************************************************************************)
LEMMA BooksFrame ==
    ASSUME Books, UNCHANGED <<n, sent, acked, applied, cmd, call, requests, mem>>
    PROVE  Books'
  <1>1. UNCHANGED <<CallLines, Conns>> /\ \A i, t, a : Covers(i, t, a)' <=> Covers(i, t, a)
    BY DEF CallLines, Conns, Covers
  <1>2. InOrder(sent)'
    BY <1>1 DEF Books, InOrder
  <1>3. Holds(applied)'
    BY <1>1 DEF Books, Holds, Addresses
  <1> QED BY <1>1, <1>2, <1>3 DEF Books

LEMMA QuietFrame ==
    ASSUME Quiet, UNCHANGED <<n, acked, cmd, said, requests, mem>>,
           stage' \in Stages, stage' \in Working => Consented \/ cmd.action # "write",
           stage' \in Early \union {"gate", "watching"} =>
             stage \in Early \union {"gate", "watching"}
    PROVE  Quiet'
  <1>1. (Underway' <=> Underway) /\ (Consented' <=> Consented)
    BY DEF Underway, Conns, Consented
  <1> QED BY <1>1 DEF Quiet, Working, Early, Stages

(* The program ends. *)
LEMMA ReturnKeeps ==
    ASSUME IInv, CInv, stage # "returned",
           NEW code \in Exits \ {"none"}, Return(code), acked' = acked,
           code = "ok" /\ ~cmd.dryRun => sent = acked /\ AllOf(acked),
           code = "ok" /\ cmd.dryRun => AllOf(planned),
           code = "ok" => \A i \in 1..Len(cmd.lines) : cmd.lines[i] # BadLine,
           cmd.action = "write" /\ code \in {"usage", "protocol", "aborted"} =>
             applied = acked /\ ~Underway
    PROVE  CInv'
  <1>1. /\ stage' = "returned" /\ exit' = code
        /\ UNCHANGED <<flags, cmd, said, planned, hadErr, sent, applied>>
        /\ conn' = 0 /\ pc' = "idle"
        /\ UNCHANGED <<dials, n, call, requests, mem, answer, clean, last>>
    BY DEF Return, Close, vars, IInv, InProgress
  <1>2. CommandTypeOK'
    BY <1>1 DEF CInv, CommandTypeOK, Stages
  <1>3. Route'
    BY <1>1 DEF CInv, Route, Early, Working
  <1>4. Quiet'
    BY <1>1, QuietFrame DEF CInv, Stages, Working, Early
  <1>5. Books'
    BY <1>1, BooksFrame DEF CInv
  <1>6. Reading' /\ Planning' /\ Settled'
    BY <1>1 DEF Reading, Planning, Settled, Working
  <1>7. Verdict'
    <2>1. UNCHANGED <<CallLines, Underway>>
      BY <1>1 DEF CallLines, Underway, Conns
    <2>2. AllOf(acked)' = AllOf(acked) /\ AllOf(planned)' = AllOf(planned)
      BY <1>1, <2>1 DEF AllOf, InOrder
    <2> QED BY <1>1, <2>1, <2>2 DEF Verdict, BadLine
  <1> QED BY <1>2, <1>3, <1>4, <1>5, <1>6, <1>7 DEF CInv

(* Nothing is under way once the last call is accounted for. *)
LEMMA NotUnderway ==
    ASSUME IInv, Books, applied = sent \/ sent = acked
    PROVE  ~Underway
  <1> SUFFICES ASSUME Underway PROVE FALSE
    OBVIOUS
  <1>1. PICK k \in Conns : requests[k] # <<>>
    BY DEF Underway
  <1>2. requests[k] \in Seq(Request)
    BY DEF IInv, TypeOK
  <1>3. 1 \in 1..Len(requests[k])
    <2>1. Len(requests[k]) # 0 /\ Len(requests[k]) \in Nat
      BY <1>1, <1>2, EmptySeq, LenProperties
    <2> QED BY <2>1
  <1> QED BY <1>3 DEF Books

LEMMA NothingYet ==
    ASSUME IInv, CInv, stage \in Early \union {"gate", "watching"}
    PROVE  /\ n = 0 /\ sent = <<>> /\ acked = <<>> /\ applied = <<>>
           /\ ~Underway /\ mem = InitMem
  <1>1. n = 0 /\ acked = <<>>
    BY DEF CInv, Quiet, Working, Early
  <1>2. sent = <<>>
    BY <1>1, EmptySeq DEF CInv, Books, CommandTypeOK
  <1> QED BY <1>1, <1>2 DEF CInv, Quiet, Books

(* A call stands for a line of the input. *)
LEMMA LastCall ==
    ASSUME CInv, CmdInv, n # 0
    PROVE  /\ n \in 1..Len(sent) /\ sent[n] \in CallLines
           /\ call = cmd.lines[sent[n]].call /\ call \in Calls
           /\ cmd.action = "write" => call.fc \in Writes
  <1>1. n \in Nat /\ n = Len(sent) /\ n > 0
    <2>1. Len(sent) \in Nat /\ n = Len(sent)
      BY LenProperties DEF CInv, Books, CommandTypeOK
    <2> QED BY <2>1
  <1>2. n \in 1..Len(sent)
    BY <1>1
  <1>3. sent[n] \in CallLines /\ call = cmd.lines[sent[n]].call
    BY <1>1, <1>2 DEF CInv, Books, InOrder
  <1>4. sent[n] \in 1..Len(cmd.lines)
    BY <1>3 DEF CallLines
  <1> QED BY <1>2, <1>3, <1>4, LineFacts DEF CmdInv

LEMMA ExitCodesAre ==
    ASSUME NEW kind, NEW code \in ExitCodes(kind)
    PROVE  /\ code \in {"protocol", "connection", "io"}
           /\ code = "protocol" => kind = "exception"
  BY DEF ExitCodes

(* Only a value that was read can turn out not to fit. *)
LEMMA MisfitReads ==
    ASSUME CInv, CmdInv, CallDone, Misfit
    PROVE  cmd.action # "write"
  <1> SUFFICES ASSUME cmd.action = "write" PROVE FALSE
    OBVIOUS
  <1>1. n # 0
    <2>1. sent = Append(acked, next) /\ acked \in Seq(Nat) /\ n = Len(sent)
      BY DEF CallDone, CInv, Settled, Books, CommandTypeOK
    <2>2. n = Len(acked) + 1 /\ Len(acked) \in Nat
      BY <2>1
    <2> QED BY <2>2
  <1>2. call.fc \in Writes
    BY <1>1, LastCall
  <1> QED BY <1>2, Codes DEF Misfit

(* At the end of the input every call line is taken. *)
LEMMA AllTaken ==
    ASSUME CmdInv, ~More, NEW s, InOrder(s), Taken(s)
    PROVE  AllOf(s)
  <1>1. next = Len(cmd.lines)
    <2>1. Len(cmd.lines) \in Nat /\ next \in 0..Len(cmd.lines)
      BY DEF CmdInv, CommandOK
    <2> QED BY <2>1 DEF More
  <1>2. \A i \in CallLines : i <= next
    BY <1>1 DEF CallLines, CmdInv, CommandOK
  <1> QED BY <1>2 DEF AllOf, Taken

LEMMA EarlyEndKeeps ==
    ASSUME IInv, CInv, CmdInv,
           ParseFails \/ StubFails \/ DialFails \/ Refused \/ SaysNo \/ PromptFails
    PROVE  CInv'
  <1>1. stage \in Early \union {"gate", "watching"} /\ acked' = acked
    BY DEF ParseFails, StubFails, DialFails, Refused, SaysNo, PromptFails, Prompting, Early
  <1>2. n = 0 /\ sent = <<>> /\ acked = <<>> /\ applied = <<>> /\ ~Underway
    BY <1>1, NothingYet
  <1>3. stage # "returned"
    BY <1>1 DEF Early
  <1>4. ASSUME NEW code \in {"usage", "connection", "aborted", "io"}, Return(code)
        PROVE  CInv'
    <2>1. code \in Exits \ {"none"} /\ code # "ok"
      BY DEF Exits
    <2> QED BY <1>1, <1>2, <1>3, <1>4, <2>1, ReturnKeeps
  <1>5. CASE stage = "argv" /\ Return("ok")
    <2>1. cmd = NoCommand
      BY <1>5 DEF CInv, Route
    <2>2. cmd.lines = <<>> /\ ~cmd.dryRun /\ cmd.action = "none"
      BY <2>1 DEF NoCommand
    <2>3. Len(cmd.lines) = 0
      BY <2>2
    <2>4. CallLines = {}
      BY <2>3 DEF CallLines
    <2>5. AllOf(acked)
      BY <1>2, <2>4 DEF AllOf, InOrder
    <2>6. "ok" \in Exits \ {"none"}
      BY DEF Exits
    <2> QED BY <1>1, <1>2, <1>3, <1>5, <2>2, <2>3, <2>5, <2>6, ReturnKeeps
  <1>6. (\E code \in {"usage", "connection", "aborted", "io"} : Return(code))
        \/ (stage = "argv" /\ Return("ok"))
    BY DEF ParseFails, StubFails, DialFails, Refused, SaysNo, PromptFails
  <1> QED BY <1>4, <1>5, <1>6

LEMMA LateEndKeeps ==
    ASSUME IInv, CInv, CmdInv,
           Reject \/ (CallSucceeds /\ Misfit) \/ CallFails \/ PrintFails \/ EndOfInput
             \/ InputFails \/ EndOfDryRun
    PROVE  CInv'
  <1>1. acked' = acked /\ stage # "returned"
    BY DEF Reject, CallSucceeds, CallFails, PrintFails, EndOfInput, InputFails, EndOfDryRun,
           CallDone
  <1>2. stage = "line" => applied = acked /\ sent = acked /\ ~Underway
    BY NotUnderway DEF CInv, Settled, Books
  <1>3. "usage" \in Exits \ {"none"} /\ "io" \in Exits \ {"none"} /\ "ok" \in Exits \ {"none"}
    BY DEF Exits
  <1>4. ASSUME Return("io")
        PROVE  CInv'
    BY <1>1, <1>3, <1>4, ReturnKeeps
  <1>5. CASE Reject
    BY <1>1, <1>2, <1>3, <1>5, ReturnKeeps DEF Reject
  <1>6. CASE CallSucceeds /\ Misfit
    <2>1. cmd.action # "write"
      BY <1>6, MisfitReads DEF CallSucceeds
    <2>2. Return("usage")
      BY <1>6 DEF CallSucceeds
    <2> QED BY <1>1, <1>3, <2>1, <2>2, ReturnKeeps
  <1>7. CASE CallFails
    <2>1. PICK code \in ExitCodes(last.kind) : Return(code)
      BY <1>7 DEF CallFails
    <2>2. /\ code \in {"protocol", "connection", "io"}
          /\ code = "protocol" => last.kind = "exception"
      BY ExitCodesAre
    <2>3. last.kind = "exception" => applied = acked /\ ~Underway
      BY <1>7 DEF CallFails, CallDone, CInv, Settled
    <2>4. code \in Exits \ {"none"}
      BY <2>2 DEF Exits
    <2> QED BY <1>1, <2>1, <2>2, <2>3, <2>4, ReturnKeeps
  <1>8. CASE PrintFails \/ InputFails
    BY <1>4, <1>8 DEF PrintFails, InputFails
  <1>9. CASE EndOfInput
    <2>1. stage = "line" /\ ~More /\ Return("ok")
      BY <1>9 DEF EndOfInput
    <2>2. next = Len(cmd.lines)
      <3>1. Len(cmd.lines) \in Nat /\ next \in 0..Len(cmd.lines)
        BY DEF CmdInv, CommandOK
      <3> QED BY <2>1, <3>1 DEF More
    <2>3. ~cmd.dryRun
      BY <2>1 DEF CInv, Route, Working
    <2>4. Taken(sent) /\ GoodSoFar
      BY <2>1 DEF CInv, Reading, Working
    <2>5. AllOf(acked)
      BY <1>2, <2>1, <2>4, AllTaken DEF CInv, Books
    <2> QED BY <1>1, <1>2, <1>3, <2>1, <2>2, <2>3, <2>4, <2>5, ReturnKeeps DEF GoodSoFar
  <1>10. CASE EndOfDryRun
    <2>1. stage = "explain" /\ ~More /\ Return(IF hadErr THEN "usage" ELSE "ok")
      BY <1>10 DEF EndOfDryRun
    <2>2. next = Len(cmd.lines)
      <3>1. Len(cmd.lines) \in Nat /\ next \in 0..Len(cmd.lines)
        BY DEF CmdInv, CommandOK
      <3> QED BY <2>1, <3>1 DEF More
    <2>3. applied = acked /\ ~Underway
      BY <2>1, NothingYet DEF Early
    <2>4. CASE hadErr
      BY <1>1, <1>3, <2>1, <2>3, <2>4, ReturnKeeps
    <2>5. CASE ~hadErr
      <3>1. InOrder(planned) /\ Taken(planned) /\ GoodSoFar
        BY <2>1, <2>5 DEF CInv, Planning
      <3>2. AllOf(planned)
        BY <2>1, <3>1, AllTaken
      <3>3. cmd.dryRun
        BY <2>1 DEF CInv, Route, DryRun
      <3> QED BY <1>1, <1>3, <2>1, <2>2, <2>5, <3>1, <3>2, <3>3, ReturnKeeps DEF GoodSoFar
    <2> QED BY <2>4, <2>5
  <1> QED BY <1>5, <1>6, <1>7, <1>8, <1>9, <1>10

(***************************************************************************)
(* Going through the input.                                                *)
(***************************************************************************)
TakenTo(s, upto) == \A i \in CallLines : i <= upto <=> \E j \in 1..Len(s) : s[j] = i

LEMMA TakeCallLine ==
    ASSUME CmdInv, NEW s \in Seq(Nat), InOrder(s), Taken(s), next + 1 \in CallLines
    PROVE  /\ InOrder(Append(s, next + 1))
           /\ TakenTo(Append(s, next + 1), next + 1)
           /\ Append(s, next + 1) \in Seq(Nat)
  <1>1. PICK x \in Nat : x = next + 1
    BY DEF CmdInv
  <1>2. PICK t : t = Append(s, x)
    OBVIOUS
  <1>3. /\ t \in Seq(Nat) /\ Len(t) = Len(s) + 1 /\ Len(s) \in Nat
        /\ t[Len(s) + 1] = x /\ \A j \in 1..Len(s) : t[j] = s[j]
    BY <1>2
  <1>4. \A i \in CallLines : i \in Nat
    BY DEF CallLines
  <1>5. \A i \in CallLines : i < x <=> \E j \in 1..Len(s) : s[j] = i
    <2>1. next \in Int /\ \A i \in CallLines : i < x <=> i <= next
      BY <1>1, <1>4 DEF CmdInv
    <2> QED BY <2>1 DEF Taken
  <1>6. ASSUME NEW j \in 1..Len(t)
        PROVE  /\ t[j] \in CallLines
               /\ \A i \in CallLines : i < t[j] <=> \E l \in 1..(j - 1) : t[l] = i
    <2>1. CASE j = Len(s) + 1
      <3>1. t[j] = x /\ j - 1 = Len(s)
        BY <1>3, <2>1
      <3> QED BY <1>1, <1>3, <1>5, <3>1
    <2>2. CASE j # Len(s) + 1
      <3>1. j \in 1..Len(s)
        BY <1>3, <2>2
      <3>2. \A l \in 1..(j - 1) : l \in 1..Len(s)
        BY <1>3, <3>1
      <3>3. t[j] = s[j] /\ \A l \in 1..(j - 1) : t[l] = s[l]
        BY <1>3, <3>1, <3>2
      <3>4. s[j] \in CallLines /\ \A i \in CallLines : i < s[j] <=> \E l \in 1..(j - 1) : s[l] = i
        BY <3>1 DEF InOrder
      <3>5. \A i : (\E l \in 1..(j - 1) : t[l] = i) <=> (\E l \in 1..(j - 1) : s[l] = i)
        BY <3>3
      <3> QED BY <3>3, <3>4, <3>5
    <2> QED BY <2>1, <2>2
  <1>7. ASSUME NEW i \in CallLines
        PROVE  i <= x <=> \E j \in 1..Len(t) : t[j] = i
    <2>1. i <= x <=> i < x \/ i = x
      BY <1>4
    <2>2. CASE i <= x
      <3>1. CASE i = x
        <4>1. Len(s) + 1 \in 1..Len(t)
          BY <1>3
        <4> QED BY <1>3, <3>1, <4>1
      <3>2. CASE i < x
        <4>1. PICK j \in 1..Len(s) : s[j] = i
          BY <1>5, <3>2
        <4>2. j \in 1..Len(t)
          BY <1>3
        <4> QED BY <1>3, <2>2, <4>1, <4>2
      <3> QED BY <2>1, <2>2, <3>1, <3>2
    <2>3. ASSUME NEW j \in 1..Len(t), t[j] = i
          PROVE  i <= x
      <3>1. j \in 1..Len(s) \/ j = Len(s) + 1
        BY <1>3
      <3>2. i = x \/ i < x
        BY <1>3, <1>5, <2>3, <3>1
      <3> QED BY <2>1, <3>2
    <2> QED BY <2>2, <2>3
  <1>8. InOrder(t)
    BY <1>6, Zenon DEF InOrder
  <1>9. TakenTo(t, x)
    BY <1>7, Zenon DEF TakenTo
  <1> QED BY <1>1, <1>2, <1>3, <1>8, <1>9

(* A line that stands for no call. *)
LEMMA TakeOtherLine ==
    ASSUME CmdInv, NEW s, Taken(s), next + 1 \notin CallLines
    PROVE  TakenTo(s, next + 1)
  <1>1. \A i \in CallLines : i <= next <=> i <= next + 1
    <2>1. \A i \in CallLines : i \in Nat /\ i # next + 1
      BY DEF CallLines
    <2>2. next \in Int
      BY DEF CmdInv
    <2> QED BY <2>1, <2>2
  <1> QED BY <1>1 DEF Taken, TakenTo

LEMMA NextLine ==
    ASSUME CmdInv, More
    PROVE  next + 1 \in 1..Len(cmd.lines)
  BY DEF CmdInv, CommandOK, More

LEMMA GoodLine ==
    ASSUME CmdInv, More, GoodSoFar, Current # BadLine, cmd' = cmd, next' = next + 1
    PROVE  GoodSoFar'
  <1>1. \A i \in 1..(next + 1) : i \in 1..next \/ i = next + 1
    BY DEF CmdInv
  <1> QED BY <1>1 DEF GoodSoFar, Current, BadLine

(* A line is skipped. *)
LEMMA SkipKeeps ==
    ASSUME IInv, CInv, CmdInv, Skip
    PROVE  CInv'
  <1>1. /\ stage \in {"line", "explain"} /\ More /\ Current = SkipLine /\ next' = next + 1
        /\ UNCHANGED <<vars, flags, cmd, stage, said, planned, hadErr, acked, exit, sent, applied>>
    BY DEF Skip
  <1>2. next + 1 \notin CallLines /\ Current # BadLine
    BY <1>1, NextLine, LineFacts DEF CmdInv, Current
  <1>3. UNCHANGED <<CallLines, Underway, Consented>>
    BY <1>1 DEF CallLines, Underway, Conns, Consented, vars
  <1>4. CommandTypeOK' /\ Route' /\ Books'
    BY <1>1, BooksFrame DEF CInv, CommandTypeOK, Route, DryRun, vars
  <1>5. Quiet'
    BY <1>1, <1>3 DEF CInv, Quiet, vars
  <1>6. Reading'
    <2> SUFFICES ASSUME stage \in Working PROVE Taken(sent)' /\ GoodSoFar'
      BY <1>1 DEF Reading
    <2>1. Taken(sent) /\ GoodSoFar
      BY DEF CInv, Reading
    <2>2. TakenTo(sent, next + 1)
      BY <1>2, <2>1, TakeOtherLine
    <2>3. Taken(sent)'
      BY <1>1, <1>3, <2>2 DEF Taken, TakenTo
    <2> QED BY <1>1, <1>2, <2>1, <2>3, GoodLine
  <1>7. Planning'
    <2>1. CASE stage = "explain" /\ ~hadErr
      <3>1. InOrder(planned) /\ Taken(planned) /\ GoodSoFar
        BY <2>1 DEF CInv, Planning
      <3>2. TakenTo(planned, next + 1)
        BY <1>2, <3>1, TakeOtherLine
      <3>3. Taken(planned)' /\ InOrder(planned)'
        BY <1>1, <1>3, <3>1, <3>2 DEF Taken, TakenTo, InOrder
      <3>4. GoodSoFar'
        BY <1>1, <1>2, <3>1, GoodLine
      <3> QED BY <1>1, <2>1, <3>3, <3>4 DEF Planning
    <2>2. CASE ~(stage = "explain" /\ ~hadErr)
      BY <1>1, <2>2 DEF CInv, Planning
    <2> QED BY <2>1, <2>2
  <1>8. Settled' /\ Verdict'
    BY <1>1 DEF CInv, Settled, Verdict, CommandTypeOK, vars
  <1> QED BY <1>4, <1>5, <1>6, <1>7, <1>8 DEF CInv

(***************************************************************************)
(* Until the first call: the command line, the dial, the prompt.           *)
(***************************************************************************)
LEMMA EmptyBooks ==
    ASSUME n' = 0, sent' = <<>>, acked' = <<>>, applied' = <<>>, ~Underway', mem' = InitMem
    PROVE  Books'
  <1>1. \A k \in Conns : Len(requests'[k]) = 0
    BY DEF Underway, Conns
  <1>2. InOrder(sent)'
    BY DEF InOrder
  <1>3. Holds(applied)'
    BY DEF Holds
  <1> QED BY <1>1, <1>2, <1>3, BoundsAssumption DEF Books, Conns

LEMMA ParseKeeps ==
    ASSUME IInv, CInv, CmdInv, Parse
    PROVE  CInv'
  <1>1. /\ stage = "argv" /\ stage' = "start"
        /\ UNCHANGED <<vars, next, said, planned, hadErr, acked, exit, sent, applied>>
    BY DEF Parse
  <1>2. n = 0 /\ sent = <<>> /\ acked = <<>> /\ applied = <<>> /\ ~Underway /\ mem = InitMem
    BY <1>1, NothingYet DEF Early
  <1>3. n' = 0 /\ ~Underway' /\ mem' = InitMem
    BY <1>1, <1>2 DEF vars, Underway, Conns
  <1>4. CommandOK' /\ cmd'.action # "none"
    BY ParseMakesCommand DEF Parse, CmdInv
  <1>5. CommandTypeOK' /\ Quiet' /\ Books'
    BY <1>1, <1>2, <1>3, EmptyBooks DEF CInv, CommandTypeOK, Quiet, Stages, Early, Working
  <1>6. Route'
    BY <1>1, <1>4 DEF CInv, Route, Early, Working, vars
  <1>7. Reading' /\ Planning' /\ Settled' /\ Verdict'
    BY <1>1 DEF CInv, Reading, Planning, Settled, Verdict, Working, CommandTypeOK
  <1> QED BY <1>5, <1>6, <1>7 DEF CInv

(* Before anything is taken. *)
LEMMA NothingTaken ==
    ASSUME CmdInv, next = 0, NEW s, Len(s) = 0
    PROVE  Taken(s) /\ InOrder(s) /\ GoodSoFar
  <1>1. \A i \in CallLines : ~(i <= next)
    BY DEF CallLines
  <1> QED BY <1>1 DEF Taken, InOrder, GoodSoFar

LEMMA StartDryRunKeeps ==
    ASSUME IInv, CInv, CmdInv, StartDryRun
    PROVE  CInv'
  <1>1. /\ stage = "start" /\ stage' = "explain" /\ DryRun /\ ~cmd.stub
        /\ UNCHANGED <<vars, flags, cmd, next, said, planned, hadErr, acked, exit, sent, applied>>
    BY DEF StartDryRun
  <1>2. Taken(planned) /\ InOrder(planned) /\ GoodSoFar /\ ~hadErr
    <2>1. next = 0 /\ ~hadErr /\ planned = <<>> /\ Len(planned) = 0
      BY <1>1 DEF CInv, Planning
    <2> QED BY <2>1, NothingTaken
  <1>3. CommandTypeOK' /\ Route'
    BY <1>1 DEF CInv, CommandTypeOK, Route, DryRun, Stages, Early, Working, vars
  <1>4. Quiet'
    BY <1>1, QuietFrame DEF CInv, Stages, Early, Working, vars
  <1>5. Books'
    BY <1>1, BooksFrame DEF CInv, vars
  <1>6. Planning'
    <2>1. CallLines' = CallLines
      BY <1>1 DEF CallLines
    <2>2. Taken(planned)' /\ InOrder(planned)' /\ GoodSoFar'
      BY <1>1, <1>2, <2>1 DEF Taken, InOrder, GoodSoFar, BadLine
    <2> QED BY <1>1, <1>2, <2>2 DEF Planning
  <1>7. Reading' /\ Settled' /\ Verdict'
    BY <1>1 DEF CInv, Reading, Settled, Verdict, Working, CommandTypeOK
  <1> QED BY <1>3, <1>4, <1>5, <1>6, <1>7 DEF CInv

LEMMA DialKeeps ==
    ASSUME IInv, CInv, CmdInv, Dial
    PROVE  CInv'
  <1>1. /\ stage = "start" /\ ~DryRun /\ ~cmd.stub
        /\ stage' = CASE cmd.action = "read" -> "line"
                      [] cmd.action = "watch" -> "watching"
                      [] OTHER -> "gate"
        /\ UNCHANGED <<flags, cmd, next, said, planned, hadErr, acked, exit, sent, applied>>
        /\ UNCHANGED <<n, call, requests, mem, pc>>
        /\ conn' = dials + 1 /\ dials' = dials + 1 /\ clean' /\ pc = "idle"
    BY DEF Dial, Connect
  <1>2. n = 0 /\ sent = <<>> /\ acked = <<>> /\ applied = <<>>
    BY <1>1, NothingYet DEF Early
  <1>3. cmd.action \in {"read", "watch", "write"} /\ dials = 0 /\ next = 0
    BY <1>1 DEF CInv, Route, Early, CmdInv, CommandOK, Planning
  <1>4. /\ cmd.action = "read" => stage' = "line"
        /\ cmd.action = "watch" => stage' = "watching"
        /\ cmd.action = "write" => stage' = "gate"
    BY <1>1
  <1>5. CommandTypeOK'
    BY <1>1, <1>3, <1>4 DEF CInv, CommandTypeOK, Stages, Early, Working
  <1>6. Route'
    <2>1. ~cmd.dryRun
      BY <1>1 DEF DryRun, CmdInv, CommandOK
    <2> QED BY <1>1, <1>3, <1>4, <2>1 DEF Route, DryRun, Early, Working
  <1>7. Quiet'
    BY <1>1, <1>3, <1>4, QuietFrame DEF CInv, Stages, Early, Working
  <1>8. Books'
    BY <1>1, BooksFrame DEF CInv
  <1>9. Reading'
    <2>1. CallLines' = CallLines
      BY <1>1 DEF CallLines
    <2>2. Taken(sent) /\ GoodSoFar
      BY <1>2, <1>3, NothingTaken
    <2>3. Taken(sent)' /\ GoodSoFar'
      BY <1>1, <2>1, <2>2 DEF Taken, GoodSoFar, BadLine
    <2> QED BY <2>3 DEF Reading
  <1>10. Planning' /\ Settled' /\ Verdict'
    BY <1>1, <1>2, <1>3, <1>4 DEF CInv, Planning, Settled, Verdict, CommandTypeOK
  <1> QED BY <1>5, <1>6, <1>7, <1>8, <1>9, <1>10 DEF CInv

LEMMA PassKeeps ==
    ASSUME IInv, CInv, CmdInv, Confirmed \/ SaysYes
    PROVE  CInv'
  <1>1. /\ stage = "gate" /\ stage' = "line"
        /\ UNCHANGED <<vars, flags, cmd, next, planned, hadErr, acked, exit, sent, applied>>
        /\ Consented'
    BY DEF Confirmed, SaysYes, Prompting, Pass, Consented
  <1>2. n = 0 /\ sent = <<>> /\ acked = <<>> /\ applied = <<>> /\ ~Underway /\ mem = InitMem
    BY <1>1, NothingYet
  <1>3. cmd.action = "write" /\ next = 0
    BY <1>1 DEF CInv, Route, Planning
  <1>4. CommandTypeOK' /\ Route'
    BY <1>1, <1>3 DEF CInv, CommandTypeOK, Route, DryRun, Stages, Early, Working, vars
  <1>5. Quiet'
    BY <1>1, <1>2 DEF Quiet, Working, Early, Underway, Conns, vars
  <1>6. Books'
    BY <1>1, BooksFrame DEF CInv, vars
  <1>7. Reading'
    <2>1. CallLines' = CallLines
      BY <1>1 DEF CallLines
    <2>2. Taken(sent) /\ GoodSoFar
      BY <1>2, <1>3, NothingTaken
    <2>3. Taken(sent)' /\ GoodSoFar'
      BY <1>1, <2>1, <2>2 DEF Taken, GoodSoFar, BadLine
    <2> QED BY <2>3 DEF Reading
  <1>8. Planning' /\ Settled' /\ Verdict'
    BY <1>1, <1>2, <1>3 DEF CInv, Planning, Settled, Verdict, CommandTypeOK, vars
  <1> QED BY <1>4, <1>5, <1>6, <1>7, <1>8 DEF CInv

(***************************************************************************)
(* The dry run.                                                            *)
(***************************************************************************)
LEMMA ExplainKeeps ==
    ASSUME IInv, CInv, CmdInv, Explain
    PROVE  CInv'
  <1>1. /\ stage = "explain" /\ More /\ next' = next + 1
        /\ UNCHANGED <<vars, flags, cmd, said, acked, sent, applied>>
    BY DEF Explain, Explained
  <1>2. PICK code \in {"usage", "ok", "io"} :
          /\ code = "usage" => Current = BadLine
          /\ code = "ok" => Current.kind = "call" /\ planned' = Append(planned, next + 1)
          /\ code # "ok" => planned' = planned
          /\ IF cmd.fromStdin
             THEN hadErr' = (hadErr \/ code # "ok") /\ stage' = stage /\ exit' = exit
             ELSE stage' = "returned" /\ exit' = code /\ hadErr' = hadErr
    BY DEF Explain, Explained
  <1>3. applied = acked /\ ~Underway /\ n = 0
    BY <1>1, NothingYet DEF Early
  <1>4. DryRun /\ ~cmd.stub /\ cmd.dryRun /\ conn = 0 /\ dials = 0
    BY <1>1 DEF CInv, Route, DryRun, Early, IInv, TypeOK
  <1>5. planned' \in Seq(Nat)
    <2>1. next + 1 \in Nat /\ planned \in Seq(Nat)
      BY DEF CmdInv, CInv, CommandTypeOK
    <2>2. Append(planned, next + 1) \in Seq(Nat)
      BY <2>1
    <2> QED BY <1>2, <2>1, <2>2
  <1>6. UNCHANGED <<CallLines, Underway>>
    BY <1>1 DEF CallLines, Underway, Conns, vars
  <1>7. CommandTypeOK'
    <2>1. code \in Exits \ {"none"}
      BY DEF Exits
    <2>2. stage' \in Stages /\ exit' \in Exits /\ (exit' = "none" <=> stage' # "returned")
      BY <1>1, <1>2, <2>1 DEF CInv, CommandTypeOK, Stages
    <2>3. hadErr' \in BOOLEAN
      BY <1>2 DEF CInv, CommandTypeOK
    <2> QED BY <1>1, <1>5, <2>2, <2>3 DEF CInv, CommandTypeOK
  <1>8. Route' /\ Books'
    BY <1>1, <1>2, <1>4, BooksFrame DEF CInv, Route, DryRun, Early, Working, vars
  <1>9. Quiet'
    BY <1>1, <1>2, QuietFrame DEF CInv, Stages, Early, Working, vars
  <1>10. Reading' /\ Settled'
    BY <1>1, <1>2 DEF Reading, Settled, Working
  <1>11. ~hadErr /\ code = "ok" => InOrder(planned)' /\ Taken(planned)' /\ GoodSoFar'
    <2> SUFFICES ASSUME ~hadErr, code = "ok" PROVE InOrder(planned)' /\ Taken(planned)' /\ GoodSoFar'
      OBVIOUS
    <2>1. InOrder(planned) /\ Taken(planned) /\ GoodSoFar /\ planned \in Seq(Nat)
      BY <1>1 DEF CInv, Planning, CommandTypeOK
    <2>2. next + 1 \in CallLines /\ Current # BadLine
      <3>1. next + 1 \in CallLines /\ next + 1 \in 1..Len(cmd.lines)
        BY <1>1, <1>2, CallLine DEF CmdInv, CallLines
      <3> QED BY <3>1, LineFacts DEF CmdInv, Current
    <2>3. InOrder(Append(planned, next + 1)) /\ TakenTo(Append(planned, next + 1), next + 1)
      BY <2>1, <2>2, TakeCallLine
    <2>4. PICK t : t = Append(planned, next + 1)
      OBVIOUS
    <2>5. planned' = t /\ next' = next + 1 /\ CallLines' = CallLines
      BY <1>1, <1>2, <1>6, <2>4
    <2>6. InOrder(t) /\ TakenTo(t, next + 1)
      BY <2>3, <2>4
    <2>7. InOrder(planned)' /\ Taken(planned)'
      BY ONLY <2>5, <2>6 DEF InOrder, Taken, TakenTo
    <2> QED BY <1>1, <2>1, <2>2, <2>7, GoodLine
  <1>12. Planning'
    <2>1. stage' = "explain" => cmd.fromStdin
      BY <1>2
    <2>2. stage' = "explain" /\ ~hadErr' => ~hadErr /\ code = "ok"
      BY <1>2
    <2>3. stage' \notin {"argv", "start", "gate"} /\ cmd' = cmd
      BY <1>1, <1>2
    <2> QED BY <1>11, <2>1, <2>2, <2>3 DEF Planning
  <1>13. Verdict'
    <2>1. CASE exit' = "ok"
      <3>1. code = "ok" /\ ~cmd.fromStdin
        BY <1>1, <1>2, <2>1 DEF CInv, CommandTypeOK
      <3>2. ~hadErr
        BY <1>1, <3>1 DEF CInv, Planning
      <3>3. Len(cmd.lines) \in Nat /\ Len(cmd.lines) <= 1 /\ next \in Nat
        BY <3>1 DEF CmdInv, CommandOK
      <3>4. next' = Len(cmd.lines)
        BY <1>1, <3>3 DEF More
      <3>5. \A i \in CallLines : i <= next'
        BY <3>4 DEF CallLines
      <3>6. AllOf(planned)'
        BY <1>6, <1>11, <3>1, <3>2, <3>5 DEF AllOf, Taken
      <3>7. (\A i \in 1..Len(cmd.lines) : cmd.lines[i] # BadLine)'
        BY <1>1, <1>11, <3>1, <3>2, <3>4 DEF GoodSoFar
      <3> QED BY <1>1, <1>4, <2>1, <3>6, <3>7 DEF Verdict
    <2>2. CASE exit' # "ok"
      BY <1>1, <1>3, <1>6, <2>2 DEF Verdict
    <2> QED BY <2>1, <2>2
  <1> QED BY <1>7, <1>8, <1>9, <1>10, <1>12, <1>13 DEF CInv

(***************************************************************************)
(* The calls.                                                              *)
(***************************************************************************)
LEMMA PrintKeeps ==
    ASSUME IInv, CInv, CmdInv, PrintResult
    PROVE  CInv'
  <1>1. /\ stage = "print" /\ stage' = "line" /\ acked' = Append(acked, next)
        /\ UNCHANGED <<vars, flags, cmd, next, said, planned, hadErr, exit, sent, applied>>
    BY DEF PrintResult
  <1>2. applied = sent /\ acked' = sent
    BY <1>1 DEF CInv, Settled
  <1>3. \A k \in Conns : requests'[k] = <<>>
    BY <1>1, <1>2, NotUnderway DEF CInv, Underway, vars
  <1>4. CommandTypeOK' /\ Route'
    BY <1>1, <1>2 DEF CInv, CommandTypeOK, Route, DryRun, Stages, Early, Working, vars
  <1>5. Quiet'
    <2>1. (Underway' <=> Underway) /\ (Consented' <=> Consented)
      BY <1>1 DEF Underway, Conns, Consented, vars
    <2> QED BY <1>1, <2>1 DEF CInv, Quiet, Working, Early, vars
  <1>6. Books'
    <2>1. CallLines' = CallLines /\ \A i, t, a : Covers(i, t, a)' <=> Covers(i, t, a)
      BY <1>1 DEF CallLines, Covers, vars
    <2>2. InOrder(sent)' /\ Holds(applied)'
      BY <1>1, <2>1 DEF CInv, Books, InOrder, Holds, Addresses, vars
    <2>3. \A k \in Conns : Len(requests'[k]) = 0
      BY <1>3
    <2> QED BY <1>1, <1>2, <2>1, <2>2, <2>3 DEF CInv, Books, Conns, vars
  <1>7. Reading'
    <2>1. CallLines' = CallLines
      BY <1>1 DEF CallLines
    <2> QED BY <1>1, <2>1 DEF CInv, Reading, Taken, GoodSoFar, BadLine, Working
  <1>8. Planning' /\ Settled' /\ Verdict'
    BY <1>1, <1>2 DEF CInv, Planning, Settled, Verdict, CommandTypeOK, vars
  <1> QED BY <1>4, <1>5, <1>6, <1>7, <1>8 DEF CInv

LEMMA SucceedsKeeps ==
    ASSUME IInv, CInv, CmdInv, CallSucceeds, ~Misfit
    PROVE  CInv'
  <1>1. /\ stage = "wait" /\ pc = "idle" /\ last.kind = "ok" /\ stage' = "print"
        /\ UNCHANGED <<vars, flags, cmd, next, said, planned, hadErr, acked, exit, sent, applied>>
    BY DEF CallSucceeds, CallDone
  <1>2. CommandTypeOK' /\ Route'
    BY <1>1 DEF CInv, CommandTypeOK, Route, DryRun, Stages, Early, Working, vars
  <1>3. Quiet'
    <2>1. (Underway' <=> Underway) /\ (Consented' <=> Consented)
      BY <1>1 DEF Underway, Conns, Consented, vars
    <2> QED BY <1>1, <2>1 DEF CInv, Quiet, Working, Early, vars
  <1>4. Books'
    BY <1>1, BooksFrame DEF CInv, vars
  <1>5. Reading'
    <2>1. CallLines' = CallLines
      BY <1>1 DEF CallLines
    <2> QED BY <1>1, <2>1 DEF CInv, Reading, Taken, GoodSoFar, BadLine, Working
  <1>6. Planning' /\ Settled' /\ Verdict'
    BY <1>1 DEF CInv, Planning, Settled, Verdict, CommandTypeOK, vars
  <1> QED BY <1>2, <1>3, <1>4, <1>5, <1>6 DEF CInv

LEMMA StartCallKeeps ==
    ASSUME IInv, CInv, CmdInv, StartCall
    PROVE  CInv'
  <1>1. /\ stage = "line" /\ stage' = "wait" /\ More /\ Current.kind = "call"
        /\ next' = next + 1 /\ sent' = Append(sent, next + 1)
        /\ UNCHANGED <<flags, cmd, said, planned, hadErr, acked, exit, applied>>
    BY DEF StartCall
  <1>2. PICK c : c = Current.call
    OBVIOUS
  <1>3. RefuseCall(c) \/ SendRequest(c) \/ SendIntoClosed(c) \/ WriteError(c)
    BY <1>2 DEF StartCall
  <1>4. /\ pc = "idle" /\ n' = n + 1 /\ call' = c /\ answer' = <<>>
        /\ UNCHANGED <<conn, dials, stream, mem, clean>>
    BY <1>3 DEF RefuseCall, SendRequest, SendIntoClosed, WriteError, CanSend, Begin
  <1>5. next + 1 \in CallLines /\ c \in Calls
    BY <1>1, <1>2, CallLine DEF CmdInv
  <1>6. sent = acked /\ applied = acked /\ clean /\ ~Underway /\ Taken(sent) /\ GoodSoFar
    BY <1>1, NotUnderway DEF CInv, Settled, Books, Reading, Working
  <1>7. /\ sent \in Seq(Nat) /\ n = Len(sent) /\ n \in Nat /\ InOrder(sent)
        /\ Holds(applied)
    BY LenProperties DEF CInv, CommandTypeOK, Books
  <1>8. InOrder(sent') /\ TakenTo(sent', next + 1) /\ sent' \in Seq(Nat)
    BY <1>1, <1>5, <1>6, <1>7, TakeCallLine
  <1>9. Len(sent') = n + 1 /\ sent'[n + 1] = next + 1
    BY <1>1, <1>7
  <1>10. UNCHANGED CallLines /\ \A i, t, a : Covers(i, t, a)' <=> Covers(i, t, a)
    BY <1>1 DEF CallLines, Covers
  <1>11. CommandTypeOK' /\ Route'
    BY <1>1, <1>4, <1>8 DEF CInv, CommandTypeOK, Route, DryRun, Stages, Early, Working
  <1>12. Quiet'
    <2>1. n' # 0 /\ (Consented' <=> Consented)
      BY <1>1, <1>4, <1>7 DEF Consented
    <2> QED BY <1>1, <2>1 DEF CInv, Quiet, Working, Early
  <1>13. Reading'
    <2>1. Taken(sent)'
      BY <1>1, <1>8, <1>10 DEF Taken, TakenTo
    <2>2. GoodSoFar'
      <3>1. next + 1 \in 1..Len(cmd.lines)
        BY <1>5 DEF CallLines
      <3>2. Current # BadLine
        BY <1>5, <3>1, LineFacts DEF CmdInv, Current
      <3> QED BY <1>1, <1>6, <3>2, GoodLine
    <2> QED BY <2>1, <2>2 DEF Reading
  <1>14. Planning' /\ Verdict'
    BY <1>1 DEF CInv, Planning, Verdict, CommandTypeOK
  <1>15. \A k \in Conns : Len(requests[k]) = 0 /\ requests[k] = <<>>
    BY <1>6 DEF Underway
  <1>16. sent' # acked
    <2>1. Len(sent') # Len(acked)
      BY <1>6, <1>7, <1>9
    <2> QED BY <2>1
  <1>17. /\ requests' = requests \/ pc' # "idle"
         /\ \A k \in Conns : \A i \in 1..Len(requests'[k]) : requests'[k][i].n = n + 1
    <2>1. CASE SendRequest(c)
      <3>1. PICK r : r = [n |-> n + 1, call |-> c,
                          frame |-> Frame(nextTxID, UnitID, RequestPDU(c))]
        OBVIOUS
      <3>2. requests' = [requests EXCEPT ![conn] = Append(requests[conn], r)]
        BY <2>1, <3>1 DEF SendRequest
      <3>3. requests \in [Conns -> Seq(Request)] /\ conn \in Conns
        BY <2>1, BoundsAssumption DEF SendRequest, CanSend, IInv, TypeOK, Conns
      <3>4. requests'[conn] = <<r>> /\ \A k \in Conns : k # conn => requests'[k] = <<>>
        <4>1. Append(<<>>, r) = <<r>>
          OBVIOUS
        <4>2. requests[conn] = <<>>
          BY <1>15, <3>3
        <4>3. requests' = [requests EXCEPT ![conn] = <<r>>]
          BY <3>2, <4>1, <4>2
        <4> QED BY <1>15, <3>3, <4>3
      <3>5. Len(<<r>>) = 1 /\ <<r>>[1] = r /\ r.n = n + 1
        BY <3>1
      <3>6. \A k \in Conns : \A i \in 1..Len(requests'[k]) : requests'[k][i].n = n + 1
        BY <3>4, <3>5
      <3> QED BY <2>1, <3>6 DEF SendRequest
    <2>2. CASE requests' = requests
      BY <1>15, <2>2
    <2> QED BY <1>3, <2>1, <2>2 DEF RefuseCall, SendIntoClosed, WriteError
  <1>18. Books'
    <2>1. InOrder(sent)' /\ Holds(applied)'
      BY <1>1, <1>4, <1>7, <1>8, <1>10 DEF InOrder, Holds, Addresses
    <2>2. n' = Len(sent') /\ call' = cmd.lines[sent'[n']].call
      BY <1>1, <1>2, <1>4, <1>9 DEF Current
    <2>3. (sent = acked \/ \E x \in CallLines : sent = Append(acked, x))'
      BY <1>1, <1>5, <1>6, <1>10
    <2>4. \A k \in Conns : \A i \in 1..Len(requests'[k]) :
             requests'[k][i].n = n' /\ applied' = acked' /\ sent' # acked'
      BY <1>1, <1>4, <1>6, <1>16, <1>17
    <2> QED BY <1>1, <1>6, <2>1, <2>2, <2>3, <2>4 DEF Books, Conns
  <1>19. Settled'
    <2>1. sent' = Append(acked', next')
      BY <1>1, <1>6
    <2>2. CASE pc' # "idle"
      BY <1>1, <1>4, <1>6, <2>1, <2>2 DEF Settled
    <2>3. CASE pc' = "idle"
      <3>1. requests' = requests
        BY <1>17, <2>3
      <3>2. ~Underway'
        BY <1>6, <3>1 DEF Underway, Conns
      <3>3. last'.kind \in {"notConnected", "limit", "write"}
        BY <1>3, <2>3 DEF RefuseCall, SendRequest, SendIntoClosed, WriteError, Result, Outcome
      <3> QED BY <1>1, <1>6, <2>1, <2>3, <3>2, <3>3 DEF Settled
    <2> QED BY <2>2, <2>3
  <1> QED BY <1>11, <1>12, <1>13, <1>14, <1>18, <1>19 DEF CInv

(***************************************************************************)
(* What goes on underneath.                                                *)
(***************************************************************************)

(* The client reads, or gives up. *)
LEMMA ReadsKeep ==
    ASSUME IInv, MInv, CInv, ReadHeader \/ ReadPDU \/ Timeout \/ ReadEOF, UNCHANGED cmdVars
    PROVE  CInv'
  <1>1. /\ pc # "idle"
        /\ UNCHANGED <<flags, cmd, stage, next, said, planned, hadErr, acked, exit, sent, applied>>
        /\ UNCHANGED <<conn, dials, txID, n, call, link, requests, mem, answer>>
    BY DEF ReadHeader, ReadPDU, Timeout, ReadEOF, Finish, cmdVars
  <1>2. stage = "wait" /\ clean
    BY <1>1 DEF CInv, Route, Settled
  <1>3. /\ sent = Append(acked, next)
        /\ answer # <<>> =>
             /\ ~Underway
             /\ applied = IF Interpret(call, answer).kind = "ok" THEN sent ELSE acked
    BY <1>1, <1>2 DEF CInv, Settled
  <1>4. UNCHANGED <<CallLines, Underway, Consented>>
    BY <1>1 DEF CallLines, Underway, Conns, Consented
  <1>5. CommandTypeOK' /\ Route'
    BY <1>1, <1>2 DEF CInv, CommandTypeOK, Route, DryRun, Early, Working
  <1>6. Quiet' /\ Books'
    BY <1>1, <1>2, <1>4, BooksFrame DEF CInv, Quiet, Early, Working
  <1>7. Reading' /\ Planning' /\ Verdict'
    <2>1. Verdict'
      BY <1>1, <1>2 DEF CInv, Verdict, CommandTypeOK
    <2>2. Planning'
      BY <1>1, <1>2 DEF Planning
    <2>3. Reading'
      BY <1>1, <1>4 DEF CInv, Reading, Taken, GoodSoFar, BadLine
    <2> QED BY <2>1, <2>2, <2>3
  <1>8. Settled'
    <2>1. CASE ReadHeader
      <3>1. pc' = "pdu" /\ clean' = clean
        BY <1>2, <2>1, CleanAnswer, AnswerHeader
      <3> QED BY <1>1, <1>2, <1>3, <1>4, <3>1 DEF Settled
    <2>2. CASE ReadPDU
      <3>1. answer # <<>> /\ SubSeq(stream, 1, pduLen) = answer
        BY <1>2, <2>2, CleanAnswer, AnswerPDU
      <3>2. PICK out : out = Interpret(call, answer)
        OBVIOUS
      <3>3. Finish(out)
        BY <2>2, <3>1, <3>2 DEF ReadPDU
      <3>4. out.kind \in {"ok", "exception"}
        BY <3>1, <3>2, MeantKind DEF MInv, AnswerMeant, Answered
      <3>5. pc' = "idle" /\ last'.kind = out.kind /\ clean'
        BY <1>2, <3>3, <3>4 DEF Finish, Result, Answered
      <3> QED BY <1>1, <1>2, <1>3, <1>4, <3>1, <3>2, <3>4, <3>5 DEF Settled
    <2>3. CASE Timeout \/ ReadEOF
      <3>1. pc' = "idle" /\ last'.kind \in {"timeout", "eof"}
        BY <2>3 DEF Timeout, ReadEOF, Finish, Result, Outcome
      <3> QED BY <1>1, <1>2, <1>3, <3>1 DEF Settled
    <2> QED BY <2>1, <2>2, <2>3
  <1> QED BY <1>5, <1>6, <1>7, <1>8 DEF CInv

(* The device carries a call out or refuses it. *)
LEMMA DoneMeans ==
    ASSUME IInv, NEW k \in Conns, requests[k] # <<>>
    PROVE  Done(k) <=> InTable(requests[k][1].call)
  <1>1. PICK r : r = Head(requests[k])
    OBVIOUS
  <1>2. /\ 1 \in 1..Len(requests[k]) /\ r = requests[k][1] /\ r \in Request
        /\ mem \in Memory
    <2>1. requests[k] \in Seq(Request) /\ mem \in Memory
      BY DEF IInv, TypeOK
    <2>2. Len(requests[k]) # 0
      BY <2>1, EmptySeq
    <2> QED BY <1>1, <2>1, <2>2, LenProperties, HeadTailProperties
  <1>3. PICK tx : tx = WordAt(r.frame, 1)
    OBVIOUS
  <1>4. /\ r.call \in Calls /\ QuantityOK(r.call) /\ tx \in TxIDs
        /\ r.frame = Frame(tx, UnitID, RequestPDU(r.call))
    BY <1>2, <1>3 DEF Request, IInv, RequestsFaithful
  <1>5. PICK d : d = Dispatch(mem, SubSeq(r.frame, mbapLen + 1, Len(r.frame)))
    OBVIOUS
  <1>6. d = Dispatch(mem, RequestPDU(r.call))
    BY <1>2, <1>4, <1>5, ServeFacts
  <1>7. Interpret(r.call, d.resp) = Meant(mem, r.call)
    <2>1. WellFormed(r.call) /\ r.call.addr \in Addresses
      BY <1>4, CallsAssumption
    <2> QED BY <1>2, <1>4, <1>6, <2>1, ExchangeMeans
  <1>8. IsException(d.resp) <=> Interpret(r.call, d.resp).kind = "exception"
    BY DEF Interpret, Outcome, DecodeRead, DecodeWriteEcho
  <1>9. Meant(mem, r.call).kind = "exception" <=> ~InTable(r.call)
    BY DEF Meant, Outcome
  <1>10. Done(k) <=> ~IsException(d.resp)
    BY <1>1, <1>5 DEF Done
  <1> QED BY <1>2, <1>7, <1>8, <1>9, <1>10

(* What is on its way is the last call, and that only. *)
LEMMA OnlyRequest ==
    ASSUME IInv, MInv, CInv, CmdInv, NEW k \in Conns, requests[k] # <<>>
    PROVE  /\ Len(requests[k]) = 1 /\ requests[k][1].n = n /\ requests[k][1].call = call
           /\ \A j \in Conns : j # k => requests[j] = <<>>
           /\ applied = acked /\ sent = Append(acked, sent[n]) /\ n # 0
           /\ stage \in {"wait", "returned"}
  <1>1. requests \in [Conns -> Seq(Request)]
    BY DEF IInv, TypeOK
  <1>2. 1 \in 1..Len(requests[k])
    <2>1. Len(requests[k]) # 0 /\ Len(requests[k]) \in Nat
      BY <1>1, EmptySeq, LenProperties
    <2> QED BY <2>1
  <1>3. \A j \in Conns : \A i \in 1..Len(requests[j]) :
           requests[j][i].n = n /\ applied = acked /\ sent # acked
    BY DEF CInv, Books
  <1>4. requests[k][1].n = n /\ requests[k][1].call = call /\ applied = acked /\ sent # acked
    BY <1>2, <1>3 DEF MInv, OwnNumber
  <1>5. \A j \in Conns : \A i \in 1..Len(requests[j]) : j = k /\ i = 1
    BY <1>2, <1>3 DEF MInv, Distinct
  <1>6. Len(requests[k]) = 1
    <2>1. Len(requests[k]) \in Nat
      BY <1>1, LenProperties
    <2>2. PICK m \in Nat : m = Len(requests[k])
      BY <2>1
    <2>3. 1 \in 1..m /\ \A i \in 1..m : i = 1
      BY <1>2, <1>5, <2>2
    <2>4. m = 0 \/ m = 1 \/ 2 \in 1..m
      OBVIOUS
    <2>5. m # 0
      BY <2>3
    <2>6. 2 # 1
      OBVIOUS
    <2> QED BY <2>2, <2>3, <2>4, <2>5, <2>6
  <1>7. ASSUME NEW j \in Conns, j # k
        PROVE  requests[j] = <<>>
    <2>1. requests[j] \in Seq(Request) /\ Len(requests[j]) \in Nat
      BY <1>1, LenProperties
    <2>2. 1 \notin 1..Len(requests[j])
      BY <1>5, <1>7
    <2>3. Len(requests[j]) = 0
      BY <2>1, <2>2
    <2> QED BY <2>1, <2>3, EmptySeq
  <1>8. PICK x \in CallLines : sent = Append(acked, x)
    BY <1>4 DEF CInv, Books
  <1>9. n = Len(acked) + 1 /\ Len(acked) \in Nat /\ sent[n] = x
    <2>1. acked \in Seq(Nat) /\ n = Len(sent)
      BY DEF CInv, CommandTypeOK, Books
    <2> QED BY <1>8, <2>1
  <1>10. n # 0
    BY <1>9
  <1>11. stage \in {"wait", "returned"}
    BY <1>4, <1>10 DEF CInv, CommandTypeOK, Stages, Early, Working, Quiet, Settled
  <1> QED BY <1>4, <1>6, <1>7, <1>8, <1>9, <1>10, <1>11

(* One cell after a call. *)
LEMMA CellAfter ==
    ASSUME NEW m \in Memory, NEW c \in Calls, NEW t \in DOMAIN m, NEW a \in Addresses
    PROVE  /\ DOMAIN Written(m, c) = DOMAIN m
           /\ Written(m, c)[t][a] =
                IF /\ InTable(c) /\ c.fc \in Writes /\ TableOf(c.fc) = t
                   /\ a \in c.addr..(c.addr + c.qty - 1)
                THEN c.vals[a - c.addr + 1] ELSE m[t][a]
  <1>1. CASE ~(InTable(c) /\ c.fc \in Writes)
    BY <1>1 DEF Written
  <1>2. CASE InTable(c) /\ c.fc \in Writes
    <2>1. c.qty = Len(c.vals)
      BY <1>2, CallsAssumption DEF WellFormed
    <2>2. PICK tab : tab = TableOf(c.fc)
      OBVIOUS
    <2>3. PICK new : new = [b \in Addresses |->
                              IF b \in c.addr..(c.addr + Len(c.vals) - 1)
                              THEN c.vals[b - c.addr + 1] ELSE m[tab][b]]
      OBVIOUS
    <2>4. Written(m, c) = [m EXCEPT ![tab] = new]
      BY <1>2, <2>2, <2>3 DEF Written, Overwrite
    <2>5. DOMAIN m = {"coils", "discrete", "holding", "input"}
      BY DEF Memory
    <2>6. tab \in DOMAIN m
      BY <2>2, <2>5 DEF TableOf
    <2>7. DOMAIN Written(m, c) = DOMAIN m
      BY <2>4
    <2>8. Written(m, c)[t] = IF t = tab THEN new ELSE m[t]
      BY <2>4, <2>6 DEF Memory
    <2>9. new[a] = IF a \in c.addr..(c.addr + c.qty - 1)
                   THEN c.vals[a - c.addr + 1] ELSE m[tab][a]
      BY <2>1, <2>3
    <2> QED BY <1>2, <2>2, <2>7, <2>8, <2>9
  <1> QED BY <1>1, <1>2

(* What Holds says of one cell, and of the state after a step.             *)
CellHolds(m, s, t, a) ==
    \/ m[t][a] = InitMem[t][a] /\ \A j \in 1..Len(s) : ~Covers(s[j], t, a)
    \/ \E j \in 1..Len(s) :
          /\ Covers(s[j], t, a) /\ \A l \in (j + 1)..Len(s) : ~Covers(s[l], t, a)
          /\ m[t][a] = LET d == cmd.lines[s[j]].call IN d.vals[a - d.addr + 1]

LEMMA HoldsNext ==
    ASSUME UNCHANGED cmd, NEW s,
           \A t \in DOMAIN mem' : \A a \in Addresses : CellHolds(mem', s, t, a)
    PROVE  Holds(s)'
  <1> SUFFICES ASSUME NEW t \in DOMAIN mem', NEW a \in Addresses
               PROVE  \/ mem'[t][a] = InitMem[t][a] /\ \A j \in 1..Len(s) : ~Covers(s[j], t, a)'
                      \/ \E j \in 1..Len(s) :
                            /\ Covers(s[j], t, a)'
                            /\ \A l \in (j + 1)..Len(s) : ~Covers(s[l], t, a)'
                            /\ mem'[t][a] = (LET d == cmd.lines[s[j]].call
                                             IN  d.vals[a - d.addr + 1])'
    BY DEF Holds, Addresses
  <1>1. \A i : Covers(i, t, a)' <=> Covers(i, t, a)
    BY DEF Covers
  <1>2. CASE mem'[t][a] = InitMem[t][a] /\ \A j \in 1..Len(s) : ~Covers(s[j], t, a)
    BY <1>1, <1>2
  <1>3. ASSUME NEW j \in 1..Len(s), Covers(s[j], t, a),
               \A l \in (j + 1)..Len(s) : ~Covers(s[l], t, a),
               mem'[t][a] = LET d == cmd.lines[s[j]].call IN d.vals[a - d.addr + 1]
        PROVE  /\ Covers(s[j], t, a)'
               /\ \A l \in (j + 1)..Len(s) : ~Covers(s[l], t, a)'
               /\ mem'[t][a] = (LET d == cmd.lines[s[j]].call IN d.vals[a - d.addr + 1])'
    BY <1>1, <1>3
  <1>4. CellHolds(mem', s, t, a)
    OBVIOUS
  <1> QED BY <1>2, <1>3, <1>4 DEF CellHolds

LEMMA HoldsAfter ==
    ASSUME mem \in Memory, cmd' = cmd, NEW s \in Seq(Nat), NEW x \in CallLines,
           cmd.lines[x].call \in Calls, Holds(s), mem' = Written(mem, cmd.lines[x].call)
    PROVE  /\ InTable(cmd.lines[x].call) => Holds(Append(s, x))'
           /\ ~InTable(cmd.lines[x].call) => Holds(s)'
  <1>1. PICK c : c = cmd.lines[x].call
    OBVIOUS
  <1>2. \A i, t, a : Covers(i, t, a)' <=> Covers(i, t, a)
    BY DEF Covers
  <1>3. PICK u : u = Append(s, x)
    OBVIOUS
  <1>4. /\ Len(s) \in Nat /\ Len(u) = Len(s) + 1 /\ u[Len(s) + 1] = x
        /\ \A j \in 1..Len(s) : u[j] = s[j]
    BY <1>3, x \in Nat DEF CallLines
  <1>5. ASSUME NEW t \in DOMAIN mem, NEW a \in Addresses
        PROVE  /\ DOMAIN mem' = DOMAIN mem
               /\ Covers(x, t, a) /\ InTable(c) => mem'[t][a] = c.vals[a - c.addr + 1]
               /\ ~Covers(x, t, a) \/ ~InTable(c) => mem'[t][a] = mem[t][a]
    BY <1>1, CellAfter DEF Covers
  <1>6. DOMAIN mem' = DOMAIN mem
    <2>1. "coils" \in DOMAIN mem /\ 0 \in Addresses
      BY TableSizeAssumption DEF Memory, Addresses
    <2> QED BY <1>5, <2>1
  <1>7. ASSUME InTable(c)
        PROVE  Holds(u)'
    <2> SUFFICES ASSUME NEW t \in DOMAIN mem, NEW a \in Addresses
                 PROVE  CellHolds(mem', u, t, a)
      BY <1>6, HoldsNext
    <2>1. CASE Covers(x, t, a)
      <3>1. Len(u) \in 1..Len(u) /\ u[Len(u)] = x /\ \A l \in (Len(u) + 1)..Len(u) : FALSE
        BY <1>4
      <3> QED BY <1>1, <1>5, <1>7, <2>1, <3>1 DEF CellHolds
    <2>2. CASE ~Covers(x, t, a)
      <3>1. mem'[t][a] = mem[t][a]
        BY <1>5, <2>2
      <3>2. \A j \in 1..Len(u) : j \in 1..Len(s) \/ j = Len(s) + 1
        BY <1>4
      <3>3. CASE mem[t][a] = InitMem[t][a] /\ \A j \in 1..Len(s) : ~Covers(s[j], t, a)
        BY <1>4, <2>2, <3>1, <3>2, <3>3 DEF CellHolds
      <3>4. CASE \E j \in 1..Len(s) :
                   /\ Covers(s[j], t, a) /\ \A l \in (j + 1)..Len(s) : ~Covers(s[l], t, a)
                   /\ mem[t][a] = LET d == cmd.lines[s[j]].call IN d.vals[a - d.addr + 1]
        <4>1. PICK j \in 1..Len(s) :
                   /\ Covers(s[j], t, a) /\ \A l \in (j + 1)..Len(s) : ~Covers(s[l], t, a)
                   /\ mem[t][a] = LET d == cmd.lines[s[j]].call IN d.vals[a - d.addr + 1]
          BY <3>4
        <4>2. j \in 1..Len(u) /\ u[j] = s[j]
          BY <1>4
        <4>3. ASSUME NEW l \in (j + 1)..Len(u)
              PROVE  ~Covers(u[l], t, a)
          <5>1. (l \in (j + 1)..Len(s) /\ l \in 1..Len(s)) \/ l = Len(s) + 1
            BY <1>4
          <5> QED BY <1>4, <2>2, <4>1, <5>1
        <4> QED BY <3>1, <4>1, <4>2, <4>3 DEF CellHolds
      <3> QED BY <3>3, <3>4 DEF Holds
    <2> QED BY <2>1, <2>2
  <1>8. ASSUME ~InTable(c)
        PROVE  Holds(s)'
    <2>1. \A t \in DOMAIN mem : \A a \in Addresses : mem'[t][a] = mem[t][a]
      BY <1>5, <1>8
    <2> SUFFICES ASSUME NEW t \in DOMAIN mem, NEW a \in Addresses
                 PROVE  CellHolds(mem', s, t, a)
      BY <1>6, HoldsNext
    <2>2. mem'[t][a] = mem[t][a]
      BY <2>1
    <2> QED BY <2>2 DEF Holds, CellHolds
  <1> QED BY <1>1, <1>3, <1>7, <1>8

LEMMA CarryOutKeeps ==
    ASSUME IInv, MInv, CInv, CmdInv, NEW k \in Conns, CarryOut(k)
    PROVE  CInv'
  <1>1. /\ Serve(k) \/ AnswerLost(k)
        /\ requests[k] # <<>>
        /\ UNCHANGED <<flags, cmd, stage, next, said, planned, hadErr, acked, exit, sent>>
    BY DEF CarryOut, Serve, AnswerLost, Unanswered
  <1>2. PICK r \in Request, resp \in Seq(Byte) :
              /\ 1 \in 1..Len(requests[k]) /\ r = requests[k][1]
              /\ WellFormed(r.call) /\ QuantityOK(r.call)
              /\ mem' = Written(mem, r.call)
              /\ requests' = [requests EXCEPT ![k] = Tail(requests[k])]
              /\ resp # <<>> /\ Interpret(r.call, resp) = Meant(mem, r.call)
              /\ answer' \in {answer, IF pc # "idle" /\ r.n = n THEN resp ELSE answer}
              /\ UNCHANGED <<conn, txID, pc, n, call, pduLen, dials, link, clean, last>>
    <2>1. CASE Serve(k)
      BY <2>1, ServeStep
    <2>2. CASE AnswerLost(k)
      <3>1. /\ mem' = Handled(k).mem
            /\ requests' = [requests EXCEPT ![k] = Tail(requests[k])]
            /\ UNCHANGED <<conn, txID, pc, n, call, pduLen, dials, link, answer, clean, last>>
        BY <2>2 DEF AnswerLost, Unanswered, clientVars
      <3> QED BY <3>1, <1>1, HandledMeans
    <2> QED BY <1>1, <2>1, <2>2
  <1>3. /\ Len(requests[k]) = 1 /\ r.n = n /\ r.call = call
        /\ \A j \in Conns : j # k => requests[j] = <<>>
        /\ applied = acked /\ sent = Append(acked, sent[n]) /\ n # 0
        /\ stage \in {"wait", "returned"}
    BY <1>1, <1>2, OnlyRequest
  <1>4. sent[n] \in CallLines /\ call = cmd.lines[sent[n]].call /\ call \in Calls
    BY <1>3, LastCall
  <1>5. \A j \in Conns : requests'[j] = <<>>
    <2>1. requests \in [Conns -> Seq(Request)]
      BY DEF IInv, TypeOK
    <2>2. Tail(requests[k]) = <<>>
      <3>1. Tail(requests[k]) \in Seq(Request) /\ Len(Tail(requests[k])) = 0
        BY <1>1, <1>3, <2>1, HeadTailProperties
      <3> QED BY <3>1, EmptySeq
    <2> QED BY <1>2, <1>3, <2>1, <2>2
  <1>6. ~Underway'
    BY <1>5 DEF Underway, Conns
  <1>7. Head(requests[k]) = r
    <2>1. requests[k] \in Seq(Request)
      BY DEF IInv, TypeOK
    <2> QED BY <1>1, <1>2, <2>1, HeadTailProperties
  <1>8. applied' = IF InTable(call) THEN sent ELSE acked
    <2>1. applied' = IF Done(k) THEN Append(applied, sent[n]) ELSE applied
      BY <1>3, <1>7 DEF CarryOut
    <2>2. Done(k) <=> InTable(call)
      BY <1>1, <1>2, <1>3, DoneMeans
    <2> QED BY <1>3, <2>1, <2>2
  <1>9. Holds(applied)'
    <2>1. mem \in Memory /\ acked \in Seq(Nat) /\ Holds(acked)
      BY <1>3 DEF IInv, TypeOK, CInv, CommandTypeOK, Books
    <2>2. PICK s \in Seq(Nat), x \in CallLines : s = acked /\ x = sent[n]
      BY <1>4, <2>1
    <2>3. /\ InTable(call) => Holds(Append(s, x))'
          /\ ~InTable(call) => Holds(s)'
      <3>1. call = cmd.lines[x].call /\ cmd' = cmd /\ mem' = Written(mem, call) /\ Holds(s)
        BY <1>1, <1>2, <1>3, <1>4, <2>1, <2>2
      <3> QED BY <1>4, <2>1, <3>1, HoldsAfter
    <2>4. CASE InTable(call)
      <3>1. PICK u : u = Append(s, x)
        OBVIOUS
      <3>2. applied' = u /\ Holds(u)'
        BY <1>3, <1>8, <2>2, <2>3, <2>4, <3>1
      <3> QED BY <3>2 DEF Holds
    <2>5. CASE ~InTable(call)
      <3>1. applied' = s /\ Holds(s)'
        BY <1>8, <2>2, <2>3, <2>5
      <3> QED BY <3>1 DEF Holds
    <2> QED BY <2>4, <2>5
  <1>10. CallLines' = CallLines /\ (Consented' <=> Consented)
    BY <1>1 DEF CallLines, Consented
  <1>11. CommandTypeOK' /\ Route'
    <2>1. applied' \in Seq(Nat)
      BY <1>8 DEF CInv, CommandTypeOK
    <2> QED BY <1>1, <1>2, <2>1 DEF CInv, CommandTypeOK, Route, DryRun
  <1>12. Quiet'
    BY <1>1, <1>2, <1>3, <1>10 DEF CInv, Quiet
  <1>13. Books'
    <2>1. InOrder(sent)'
      BY <1>1, <1>10 DEF CInv, Books, InOrder
    <2>2. \A j \in Conns : Len(requests'[j]) = 0
      BY <1>5
    <2> QED BY <1>1, <1>2, <1>3, <1>8, <1>9, <1>10, <2>1, <2>2 DEF CInv, Books, Conns
  <1>14. Reading' /\ Planning'
    <2>1. Reading'
      BY <1>1, <1>10 DEF CInv, Reading, Taken, GoodSoFar, BadLine
    <2>2. Planning'
      BY <1>1, <1>3 DEF Planning
    <2> QED BY <2>1, <2>2
  <1>15. Underway /\ sent # acked
    <2>1. Underway
      BY <1>1 DEF Underway
    <2>2. 1 \in 1..Len(requests[k])
      BY <1>2
    <2> QED BY <2>1, <2>2 DEF CInv, Books
  <1>16. Settled'
    <2>1. CASE stage = "wait" /\ pc # "idle"
      <3>1. sent = Append(acked, next) /\ clean
        BY <2>1 DEF CInv, Settled
      <3>2. answer' \in {<<>>, resp} /\ Interpret(call, resp) = Meant(mem, call)
        <4>1. answer = <<>>
          BY <1>15, <2>1 DEF CInv, Settled
        <4> QED BY <4>1, <1>2, <1>3, <2>1
      <3>3. Meant(mem, call).kind = "ok" <=> InTable(call)
        BY DEF Meant, Outcome
      <3>4. applied' = IF Interpret(call, resp).kind = "ok" THEN sent ELSE acked
        BY <1>8, <3>2, <3>3
      <3> QED BY <1>1, <1>2, <1>6, <2>1, <3>1, <3>2, <3>4 DEF Settled
    <2>2. CASE stage = "wait" /\ pc = "idle"
      <3>1. sent = Append(acked, next) /\ last.kind \in {"timeout", "eof"}
        BY <1>3, <1>15, <2>2 DEF CInv, Settled
      <3> QED BY <1>1, <1>2, <2>2, <3>1 DEF Settled
    <2>3. CASE stage = "returned"
      BY <1>1, <2>3 DEF Settled
    <2> QED BY <1>3, <2>1, <2>2, <2>3
  <1>17. Verdict'
    <2>1. exit = "ok" => cmd.dryRun
      BY <1>15 DEF CInv, Verdict
    <2>2. ~(cmd.action = "write" /\ exit \in {"usage", "protocol", "aborted"})
      BY <1>15 DEF CInv, Verdict
    <2>3. AllOf(planned)' <=> AllOf(planned)
      BY <1>1, <1>10 DEF AllOf, InOrder
    <2> QED BY <1>1, <2>1, <2>2, <2>3 DEF CInv, Verdict, BadLine
  <1> QED BY <1>11, <1>12, <1>13, <1>14, <1>16, <1>17 DEF CInv

(* At most one request is on its way, so the one that is lost was the last. *)
LEMMA LostRequest ==
    ASSUME IInv, MInv, CInv, CmdInv, NEW k \in Conns, Lost(k)
    PROVE  /\ requests'[k] = <<>>
           /\ \A j \in Conns : j # k => requests'[j] = requests[j]
  <1>1. requests \in [Conns -> Seq(Request)]
    BY DEF IInv, TypeOK
  <1>2. CASE Drop(k)
    BY <1>1, <1>2 DEF Drop
  <1>3. CASE RequestLost(k)
    <2>1. requests[k] # <<>> /\ requests' = [requests EXCEPT ![k] = Tail(requests[k])]
      BY <1>3 DEF RequestLost, Unanswered
    <2>2. Len(requests[k]) = 1
      BY <2>1, OnlyRequest
    <2>3. Tail(requests[k]) \in Seq(Request) /\ Len(Tail(requests[k])) = 0
      BY <1>1, <2>1, <2>2, HeadTailProperties
    <2>4. Tail(requests[k]) = <<>>
      BY <2>3, EmptySeq
    <2> QED BY <1>1, <2>1, <2>4
  <1> QED BY <1>2, <1>3 DEF Lost

LEMMA LostKeeps ==
    ASSUME IInv, MInv, CInv, CmdInv, NEW k \in Conns, Lost(k)
    PROVE  CInv'
  <1>1. /\ UNCHANGED <<conn, txID, pc, n, call, pduLen, dials, mem, answer, clean, last>>
        /\ UNCHANGED <<flags, cmd, stage, next, said, planned, hadErr, acked, exit, sent, applied>>
    BY DEF Lost, RequestLost, Unanswered, Drop, clientVars, cmdVars
  <1>2. /\ requests'[k] = <<>> /\ Len(requests'[k]) = 0
        /\ \A j \in Conns : j # k => requests'[j] = requests[j]
    BY LostRequest
  <1>3. ~Underway => ~Underway'
    BY <1>2 DEF Underway, Conns
  <1>4. CallLines' = CallLines /\ (Consented' <=> Consented)
        /\ \A i, t, a : Covers(i, t, a)' <=> Covers(i, t, a)
    BY <1>1 DEF CallLines, Consented, Covers
  <1>5. CommandTypeOK' /\ Route'
    BY <1>1 DEF CInv, CommandTypeOK, Route, DryRun
  <1>6. Quiet'
    BY <1>1, <1>3, <1>4 DEF CInv, Quiet
  <1>7. Books'
    <2>1. InOrder(sent)' /\ Holds(applied)'
      BY <1>1, <1>4 DEF CInv, Books, InOrder, Holds, Addresses
    <2>2. \A j \in Conns : \A i \in 1..Len(requests'[j]) :
             requests'[j][i].n = n /\ applied = acked /\ sent # acked
      BY <1>2 DEF CInv, Books
    <2> QED BY <1>1, <1>4, <2>1, <2>2 DEF CInv, Books, Conns
  <1>8. Reading' /\ Planning'
    <2>1. Reading'
      BY <1>1, <1>4 DEF CInv, Reading, Taken, GoodSoFar, BadLine
    <2>2. Planning'
      BY <1>1, <1>4 DEF CInv, Planning, InOrder, Taken, GoodSoFar, BadLine
    <2> QED BY <2>1, <2>2
  <1>9. Settled'
    BY <1>1, <1>3 DEF CInv, Settled
  <1>10. Verdict'
    <2>1. /\ AllOf(planned)' <=> AllOf(planned)
          /\ AllOf(acked)' <=> AllOf(acked)
      BY <1>1, <1>4 DEF AllOf, InOrder
    <2> QED BY <1>1, <1>3, <2>1 DEF CInv, Verdict, BadLine
  <1> QED BY <1>5, <1>6, <1>7, <1>8, <1>9, <1>10 DEF CInv

LEMMA StutterKeeps ==
    ASSUME CInv, UNCHANGED allVars
    PROVE  CInv'
  <1>1. /\ UNCHANGED vars
        /\ UNCHANGED <<flags, cmd, stage, next, said, planned, hadErr, acked, exit, sent, applied>>
    BY DEF allVars, cmdVars
  <1>2. UNCHANGED <<CallLines, Underway, Consented>>
    BY <1>1 DEF CallLines, Consented, Underway, Conns, vars
  <1>3. CommandTypeOK' /\ Route' /\ Quiet' /\ Books'
    BY <1>1, <1>2, BooksFrame DEF CInv, CommandTypeOK, Route, DryRun, Quiet, vars
  <1>4. Reading' /\ Planning' /\ Settled'
    BY <1>1, <1>2 DEF CInv, Reading, Planning, Settled, InOrder, Taken, GoodSoFar, BadLine, vars
  <1>5. Verdict'
    <2>1. /\ AllOf(planned)' <=> AllOf(planned)
          /\ AllOf(acked)' <=> AllOf(acked)
      BY <1>1, <1>2 DEF AllOf, InOrder
    <2> QED BY <1>1, <1>2, <2>1 DEF CInv, Verdict, BadLine
  <1> QED BY <1>3, <1>4, <1>5 DEF CInv

LEMMA InitCInv == CommandInit => CInv
  <1> SUFFICES ASSUME CommandInit PROVE CInv
    OBVIOUS
  <1>1. /\ cmd = NoCommand /\ stage = "argv" /\ next = 0 /\ planned = <<>> /\ hadErr = FALSE
        /\ acked = <<>> /\ exit = "none" /\ sent = <<>> /\ applied = <<>>
        /\ conn = 0 /\ dials = 0 /\ pc = "idle" /\ n = 0 /\ mem = InitMem
        /\ \A k \in Conns : requests[k] = <<>>
    BY DEF CommandInit, Init
  <1>2. cmd.action = "none" /\ ~cmd.dryRun /\ ~cmd.stub
    BY <1>1 DEF NoCommand
  <1>3. CommandTypeOK /\ Route
    <2>1. stage \in Stages /\ exit \in Exits /\ stage # "returned" /\ <<>> \in Seq(Nat)
      BY <1>1 DEF Stages, Exits, Early, Working
    <2>2. CommandTypeOK
      BY <1>1, <2>1 DEF CommandTypeOK
    <2>3. Route
      BY <1>1, <1>2 DEF Route, Early, Working
    <2> QED BY <2>2, <2>3
  <1>4. Quiet
    BY <1>1, <1>2 DEF Quiet, Early, Working, Underway
  <1>5. Books
    <2>1. \A k \in Conns : Len(requests[k]) = 0
      BY <1>1
    <2> QED BY <1>1, <2>1 DEF Books, InOrder, Holds
  <1>6. Reading /\ Planning /\ Settled /\ Verdict
    BY <1>1 DEF Reading, Planning, Settled, Verdict, Working
  <1> QED BY <1>3, <1>4, <1>5, <1>6 DEF CInv

(***************************************************************************)
(* The theorems.                                                           *)
(***************************************************************************)
LEMMA CommandInvariance == CommandSpec => [](IInv /\ MInv /\ CmdInv /\ CInv)
  <1>1. ASSUME IInv, MInv, CmdInv, CInv, [CommandNext]_allVars
        PROVE  CInv'
    <2>1. CASE ParseFails \/ StubFails \/ DialFails \/ Refused \/ SaysNo \/ PromptFails
      BY <1>1, <2>1, EarlyEndKeeps
    <2>2. CASE Reject \/ CallFails \/ PrintFails \/ EndOfInput \/ InputFails \/ EndOfDryRun
      BY <1>1, <2>2, LateEndKeeps
    <2>3. CASE CallSucceeds
      BY <1>1, <2>3, LateEndKeeps, SucceedsKeeps
    <2>4. CASE Parse \/ StartDryRun \/ Dial \/ Confirmed \/ SaysYes
      BY <1>1, <2>4, ParseKeeps, StartDryRunKeeps, DialKeeps, PassKeeps
    <2>5. CASE Skip \/ StartCall \/ PrintResult \/ Explain
      BY <1>1, <2>5, SkipKeeps, StartCallKeeps, PrintKeeps, ExplainKeeps
    <2>6. CASE Late \/ Progress
      BY <1>1, <2>6, ReadsKeep DEF Late, Progress
    <2>7. ASSUME NEW k \in Conns, CarryOut(k) \/ Lost(k)
          PROVE  CInv'
      BY <1>1, <2>7, CarryOutKeeps, LostKeeps
    <2>8. CASE UNCHANGED allVars
      BY <1>1, <2>8, StutterKeeps
    <2> QED BY <1>1, <2>1, <2>2, <2>3, <2>4, <2>5, <2>6, <2>7, <2>8 DEF CommandNext, Step
  <1> QED BY <1>1, InitCInv, CmdInvariance, CommandsCallClient, MeansInvariance, PTL
             DEF CommandSpec

(* Without consent, given on the command line or at a terminal, no write   *)
(* ever reaches the device (actions.go, gateWrite): for every input, every *)
(* device and every command line.                                          *)
THEOREM ConsentComesFirst == CommandSpec => []NothingWithoutConsent
  <1>1. IInv /\ CInv => NothingWithoutConsent
    <2> SUFFICES ASSUME IInv, CInv, cmd.action = "write", ~Consented
                 PROVE  ~Underway /\ applied = <<>> /\ mem = InitMem
      BY DEF NothingWithoutConsent
    <2>1. n = 0
      BY DEF CInv, Quiet
    <2>2. sent = <<>>
      BY <2>1, EmptySeq DEF CInv, Books, CommandTypeOK
    <2>3. acked = <<>>
      <3>1. ASSUME NEW x, sent = Append(acked, x) PROVE FALSE
        <4>1. acked \in Seq(Nat) /\ Len(acked) \in Nat
          BY LenProperties DEF CInv, CommandTypeOK
        <4>2. Len(Append(acked, x)) = Len(acked) + 1
          BY <4>1
        <4> QED BY <2>2, <3>1, <4>1, <4>2
      <3> QED BY <2>2, <3>1 DEF CInv, Books
    <2> QED BY <2>1, <2>2, <2>3 DEF CInv, Quiet, Books
  <1> QED BY <1>1, CommandInvariance, PTL

(* A command that has --dry-run, as the program understood it, never       *)
(* dials, and neither does one for a protocol that is a stub (cliapp.go,   *)
(* Run).                                                                   *)
THEOREM DryRunIsOffline == CommandSpec => []DryRunNeverDials
  <1>1. CInv => DryRunNeverDials
    BY DEF CInv, Route, DryRunNeverDials
  <1> QED BY <1>1, CommandInvariance, PTL

(* The device carries out the lines in the order of the input, none twice  *)
(* and none left out, each is acknowledged only once it is carried out,    *)
(* and at most one is carried out and not acknowledged (actions.go,        *)
(* runWriteStream, over client.go, do).                                    *)
THEOREM EachInItsTurn == CommandSpec => []InOrderOnce
  <1>1. CInv => InOrderOnce
    <2> SUFFICES ASSUME CInv PROVE InOrderOnce
      OBVIOUS
    <2>1. acked \in Seq(Nat) /\ Len(acked) \in Nat /\ InOrder(sent)
      BY LenProperties DEF CInv, CommandTypeOK, Books
    <2>2. CASE sent = acked
      BY <2>1, <2>2 DEF CInv, Books, InOrderOnce, Begins
    <2>3. ASSUME NEW x \in CallLines, sent = Append(acked, x)
          PROVE  InOrderOnce
      <3>1. PICK y \in Nat : y = x
        BY DEF CallLines
      <3>2. Len(sent) = Len(acked) + 1 /\ \A i \in 1..Len(acked) : sent[i] = acked[i]
        BY <2>1, <2>3, <3>1
      <3>3. InOrder(acked)
        <4>1. \A j \in 1..Len(acked) : j \in 1..Len(sent) /\ \A l \in 1..(j - 1) : l \in 1..Len(acked)
          BY <2>1, <3>2
        <4> QED BY <2>1, <3>2, <4>1 DEF InOrder
      <3>4. Begins(acked, sent) /\ Begins(acked, acked)
        BY <2>1, <3>2 DEF Begins
      <3> QED BY <2>1, <3>2, <3>3, <3>4 DEF CInv, Books, InOrderOnce
    <2> QED BY <2>2, <2>3 DEF CInv, Books
  <1> QED BY <1>1, CommandInvariance, PTL

(* After exit codes usage, protocol and aborted the line that failed was   *)
(* not carried out and never will be (cliapp.go, classifyErr).             *)
THEOREM RefusalsAreTrue == CommandSpec => []RefusedMeansUndone
  <1>1. CInv => RefusedMeansUndone
    BY DEF CInv, Verdict, RefusedMeansUndone
  <1> QED BY <1>1, CommandInvariance, PTL

(* Exit code 0 means that every line was good, was carried out and was     *)
(* acknowledged, and that the device's tables hold what the lines wrote,   *)
(* or, for a dry run, that the plan of every line was printed.             *)
THEOREM SuccessIsTrue == CommandSpec => []OkMeansDone
  <1>1. CInv => OkMeansDone
    <2> SUFFICES ASSUME CInv, exit = "ok" PROVE OkMeansDone
      BY DEF OkMeansDone
    <2>1. \A i \in 1..Len(cmd.lines) : cmd.lines[i] # BadLine
      BY DEF CInv, Verdict
    <2>2. CASE cmd.dryRun
      BY <2>1, <2>2 DEF CInv, Verdict, OkMeansDone
    <2>3. CASE ~cmd.dryRun
      <3>1. sent = acked /\ AllOf(acked)
        BY <2>3 DEF CInv, Verdict
      <3> QED BY <2>1, <2>3, <3>1 DEF CInv, Books, OkMeansDone
    <2> QED BY <2>2, <2>3
  <1> QED BY <1>1, CommandInvariance, PTL

-----------------------------------------------------------------------------
(***************************************************************************)
(* The refinement: to whoever started it the program is an OtcatProcess.   *)
(***************************************************************************)

LEMMA FirstNumbers ==
    ASSUME NEW b \in Nat
    PROVE  IsFiniteSet(1..b) /\ Cardinality(1..b) = b
  <1>1. IsFiniteSet(1..b) /\ Cardinality(1..b) = IF 1 > b THEN 0 ELSE b - 1 + 1
    BY FS_Interval
  <1>2. (IF 1 > b THEN 0 ELSE b - 1 + 1) = b
    OBVIOUS
  <1> QED BY <1>1, <1>2

(* Lines in their turn are counted by the number of calls the input has.   *)
LEMMA CountCalls ==
    ASSUME CommandOK, NEW s \in Seq(Nat), InOrder(s)
    PROVE  /\ Cardinality(CallLines) \in 0..MaxLines
           /\ Len(s) <= Cardinality(CallLines)
           /\ AllOf(s) => Len(s) = Cardinality(CallLines)
  <1>1. Len(s) \in Nat /\ Len(cmd.lines) \in Nat /\ Len(cmd.lines) <= MaxLines
    BY LenProperties DEF CommandOK
  <1>2. /\ IsFiniteSet(CallLines) /\ Cardinality(CallLines) \in Nat
        /\ Cardinality(CallLines) <= Len(cmd.lines)
    <2>1. IsFiniteSet(1..Len(cmd.lines)) /\ Cardinality(1..Len(cmd.lines)) = Len(cmd.lines)
      BY <1>1, FirstNumbers
    <2>2. CallLines \in SUBSET (1..Len(cmd.lines))
      BY DEF CallLines
    <2> QED BY <2>1, <2>2, FS_Subset, FS_CardinalityType
  <1>3. PICK f : f = [j \in 1..Len(s) |-> s[j]]
    OBVIOUS
  <1>4. f \in [1..Len(s) -> CallLines]
    BY <1>3 DEF InOrder
  <1>5. \A j \in 1..Len(s) : \A l \in 1..(j - 1) : s[l] # s[j]
    <2> SUFFICES ASSUME NEW j \in 1..Len(s), NEW l \in 1..(j - 1)
                 PROVE  s[l] # s[j]
      OBVIOUS
    <2>1. l \in 1..Len(s)
      BY <1>1
    <2>2. s[l] \in CallLines /\ s[l] < s[j]
      BY <2>1 DEF InOrder
    <2>3. s[l] \in Nat /\ s[j] \in Nat
      BY <2>1, ElementOfSeq
    <2> QED BY <2>2, <2>3
  <1>6. f \in Injection(1..Len(s), CallLines)
    <2> SUFFICES ASSUME NEW a \in 1..Len(s), NEW b \in 1..Len(s), f[a] = f[b]
                 PROVE  a = b
      BY <1>4 DEF Injection, IsInjective
    <2>1. s[a] = s[b]
      BY <1>3
    <2>2. a = b \/ a \in 1..(b - 1) \/ b \in 1..(a - 1)
      BY <1>1
    <2> QED BY <1>5, <2>1, <2>2
  <1>7. IsFiniteSet(1..Len(s)) /\ Cardinality(1..Len(s)) = Len(s)
    BY <1>1, FirstNumbers
  <1>8. /\ Len(s) <= Cardinality(CallLines)
        /\ Len(s) = Cardinality(CallLines) <=> f \in Surjection(1..Len(s), CallLines)
    BY <1>2, <1>6, <1>7, FS_Injection
  <1>9. AllOf(s) => f \in Surjection(1..Len(s), CallLines)
    BY <1>3, <1>4 DEF AllOf, Surjection
  <1>10. Cardinality(CallLines) \in 0..MaxLines
    BY <1>1, <1>2, MaxLinesAssumption
  <1> QED BY <1>8, <1>9, <1>10

(* The job a command is, and the phase it is in. *)
JobFacts ==
    /\ cmd.action \in {"none", "watch"} => JobOf = NoJob /\ ~JobOf.writes
    /\ cmd.action \in {"read", "write"} =>
         /\ JobOf # NoJob
         /\ JobOf.writes = (cmd.action = "write")
         /\ JobOf.calls = Cardinality(CallLines)
         /\ JobOf.dry = cmd.dryRun
         /\ cmd.action = "read" \/ cmd.confirm => JobOf.consent = "given"
         /\ cmd.action = "write" /\ ~cmd.confirm /\ ~cmd.fromStdin /\ cmd.terminal =>
              JobOf.consent = "ask"

LEMMA JobIs == JobFacts
  <1> USE DEF JobFacts
  <1>1. CASE cmd.action \in {"none", "watch"}
    BY <1>1 DEF JobOf, NoJob
  <1>2. CASE cmd.action \in {"read", "write"}
    <2>1. PICK co : co = CASE cmd.action = "read" \/ cmd.confirm -> "given"
                           [] cmd.action = "write" /\ ~cmd.confirm
                                /\ (cmd.fromStdin \/ ~cmd.terminal) -> "refused"
                           [] OTHER -> "ask"
      OBVIOUS
    <2>2. PICK j : j = [writes |-> cmd.action = "write", calls |-> Cardinality(CallLines),
                        consent |-> co, dry |-> cmd.dryRun]
      OBVIOUS
    <2>3. JobOf = j
      BY <1>2, <2>1, <2>2 DEF JobOf
    <2>4. /\ cmd.action = "read" \/ cmd.confirm => co = "given"
          /\ cmd.action = "write" /\ ~cmd.confirm /\ ~cmd.fromStdin /\ cmd.terminal => co = "ask"
      BY <2>1
    <2>5. /\ j.writes = (cmd.action = "write") /\ j.calls = Cardinality(CallLines)
          /\ j.dry = cmd.dryRun /\ j.consent = co
      BY <2>2
    <2>6. NoJob.writes = FALSE /\ NoJob.consent = "refused"
      BY DEF NoJob
    <2>7. j # NoJob
      BY <1>2, <2>4, <2>5, <2>6
    <2> QED BY <1>2, <2>3, <2>4, <2>5, <2>7
  <1> QED BY <1>1, <1>2

PhaseFacts ==
    /\ stage = "returned" => PhaseOf = "exited"
    /\ stage # "returned" /\ cmd.action \in {"none", "watch"} => PhaseOf = "argv"
    /\ cmd.action \in {"read", "write"} =>
         /\ stage \in {"start", "explain"} => PhaseOf = "started"
         /\ stage = "gate" => PhaseOf = IF Prompting THEN "asking" ELSE "started"
         /\ stage = "line" => PhaseOf = "ready"
         /\ stage \in {"wait", "print"} => PhaseOf = "waiting"

LEMMA PhaseIs == PhaseFacts
  BY JobIs DEF PhaseOf, JobFacts, PhaseFacts

IsJob == JobOf \in [writes : BOOLEAN, calls : 0..MaxLines,
                    consent : {"given", "ask", "refused"}, dry : BOOLEAN]

LEMMA JobType == CommandOK => IsJob
  <1> SUFFICES ASSUME CommandOK PROVE IsJob
    OBVIOUS
  <1>1. PICK count : count = Cardinality(CallLines)
    OBVIOUS
  <1>2. count \in 0..MaxLines
    <2>1. <<>> \in Seq(Nat) /\ InOrder(<<>>)
      BY DEF InOrder
    <2> QED BY <1>1, <2>1, CountCalls
  <1>3. 0 \in 0..MaxLines
    BY MaxLinesAssumption
  <1>4. PICK co \in {"given", "ask", "refused"} :
               co = CASE cmd.action = "read" \/ cmd.confirm -> "given"
                      [] cmd.action = "write" /\ ~cmd.confirm
                           /\ (cmd.fromStdin \/ ~cmd.terminal) -> "refused"
                      [] OTHER -> "ask"
    OBVIOUS
  <1>5. JobOf = NoJob \/ JobOf = [writes |-> cmd.action = "write", calls |-> count,
                                  consent |-> co, dry |-> cmd.dryRun]
    BY <1>1, <1>4 DEF JobOf
  <1>6. cmd.dryRun \in BOOLEAN
    BY DEF CommandOK
  <1>7. PICK w \in BOOLEAN : w = (cmd.action = "write")
    BY Zenon
  <1>8. PICK d \in BOOLEAN : d = cmd.dryRun
    BY <1>6
  <1>9. [writes |-> w, calls |-> count, consent |-> co, dry |-> d]
          \in [writes : BOOLEAN, calls : 0..MaxLines,
               consent : {"given", "ask", "refused"}, dry : BOOLEAN]
    BY <1>2
  <1>10. NoJob \in [writes : BOOLEAN, calls : 0..MaxLines,
                    consent : {"given", "ask", "refused"}, dry : BOOLEAN]
    BY <1>3 DEF NoJob
  <1> QED BY <1>5, <1>7, <1>8, <1>9, <1>10, Zenon DEF IsJob

LEMMA JobFrame ==
    ASSUME UNCHANGED cmd
    PROVE  UNCHANGED <<JobOf, CallLines>>
  BY DEF JobOf, CallLines, NoJob

LEMMA UnderwayFrame ==
    ASSUME UNCHANGED requests
    PROVE  UNCHANGED Underway
  BY DEF Underway, Conns

LEMMA ProcessInit == CommandInit => Process!Init
  <1> SUFFICES ASSUME CommandInit PROVE Process!Init
    OBVIOUS
  <1>1. /\ cmd = NoCommand /\ stage = "argv" /\ acked = <<>> /\ applied = <<>> /\ exit = "none"
        /\ \A k \in Conns : requests[k] = <<>>
    BY DEF CommandInit, Init
  <1>2. cmd.action = "none"
    BY <1>1 DEF NoCommand
  <1>3. JobOf = Process!NoJob
    BY <1>2, JobIs DEF NoJob, Process!NoJob, Process!Job, JobFacts
  <1>4. PhaseOf = "argv"
    BY <1>1, <1>2, PhaseIs DEF PhaseFacts
  <1>5. Underway = FALSE /\ Len(acked) = 0 /\ Len(applied) = 0
    BY <1>1 DEF Underway
  <1> QED BY <1>1, <1>3, <1>4, <1>5 DEF Process!Init

(* The program exits. *)
LEMMA ExitStep ==
    ASSUME stage # "returned", NEW code \in Process!Codes, Return(code), acked' = acked,
           Process!MayExit(code), PhaseOf # "exited"
    PROVE  Process!Exit(code)
  <1>1. /\ UNCHANGED <<cmd, applied, requests>> /\ stage' = "returned" /\ exit' = code
    BY DEF Return, Close, vars
  <1>2. UNCHANGED <<JobOf, Underway>> /\ Len(applied)' = Len(applied) /\ Len(acked)' = Len(acked)
    BY <1>1, JobFrame, UnderwayFrame
  <1>3. PhaseOf' = "exited"
    BY <1>1 DEF PhaseOf
  <1> QED BY <1>1, <1>2, <1>3 DEF Process!Exit

(* When an end is one that is allowed. *)
LEMMA Allowed ==
    /\ PhaseOf = "argv" => Process!MayExit("ok")
    /\ PhaseOf = "started" /\ JobOf.dry => Process!MayExit("ok")
    /\ PhaseOf = "ready" /\ Len(acked) = JobOf.calls => Process!MayExit("ok")
    /\ PhaseOf = "waiting" /\ applied = acked /\ ~Underway => Process!MayExit("protocol")
    /\ JobOf.writes /\ PhaseOf \in {"started", "asking"} => Process!MayExit("aborted")
    /\ ~JobOf.writes \/ (applied = acked /\ ~Underway) => Process!MayExit("usage")
    /\ Process!MayExit("connection") /\ Process!MayExit("io")
    /\ {"ok", "usage", "connection", "protocol", "aborted", "io"} \subseteq Process!Codes
  <1>1. applied = acked => Len(applied) = Len(acked)
    OBVIOUS
  <1> QED BY <1>1 DEF Process!MayExit, Process!Codes

LEMMA StillRunning ==
    ASSUME CInv, stage # "returned"
    PROVE  PhaseOf # "exited"
  BY DEF PhaseOf

LEMMA EarlyEndStep ==
    ASSUME IInv, CInv, CmdInv,
           ParseFails \/ StubFails \/ DialFails \/ Refused \/ SaysNo \/ PromptFails
    PROVE  \E code \in Process!Codes : Process!Exit(code)
  <1>1. stage \in Early \union {"gate", "watching"} /\ acked' = acked /\ stage # "returned"
    BY DEF ParseFails, StubFails, DialFails, Refused, SaysNo, PromptFails, Prompting, Early
  <1>2. applied = acked /\ ~Underway /\ PhaseOf # "exited"
    BY <1>1, NothingYet, StillRunning
  <1>3. ASSUME NEW code \in Process!Codes, Return(code), Process!MayExit(code)
        PROVE  Process!Exit(code)
    BY <1>1, <1>2, <1>3, ExitStep
  <1>4. CASE StubFails
    BY <1>2, <1>3, <1>4, Allowed DEF StubFails
  <1>5. CASE ParseFails
    <2>1. cmd.action = "none" /\ stage = "argv"
      <3>1. stage = "argv" /\ cmd = NoCommand
        BY <1>5 DEF ParseFails, CInv, Route
      <3>2. NoCommand.action = "none"
        BY DEF NoCommand
      <3> QED BY <3>1, <3>2
    <2>2. PhaseOf = "argv" /\ ~JobOf.writes
      BY <2>1, PhaseIs, JobIs DEF JobFacts, PhaseFacts
    <2> QED BY <1>3, <1>5, <2>2, Allowed DEF ParseFails
  <1>6. CASE DialFails \/ PromptFails
    BY <1>3, <1>6, Allowed DEF DialFails, PromptFails
  <1>7. CASE Refused \/ SaysNo
    <2>1. stage = "gate" /\ cmd.action = "write" /\ Return("aborted")
      BY <1>7 DEF Refused, SaysNo, Prompting, CInv, Route
    <2>2. PhaseOf \in {"started", "asking"} /\ JobOf.writes
      BY <2>1, PhaseIs, JobIs DEF JobFacts, PhaseFacts
    <2> QED BY <1>3, <2>1, <2>2, Allowed
  <1> QED BY <1>4, <1>5, <1>6, <1>7

LEMMA LateEndStep ==
    ASSUME IInv, CInv, CmdInv,
           Reject \/ (CallSucceeds /\ Misfit) \/ CallFails \/ PrintFails \/ EndOfInput
             \/ InputFails \/ EndOfDryRun
    PROVE  \E code \in Process!Codes : Process!Exit(code)
  <1>1. acked' = acked /\ stage # "returned" /\ PhaseOf # "exited"
    BY StillRunning DEF Reject, CallSucceeds, CallFails, PrintFails, EndOfInput, InputFails,
           EndOfDryRun, CallDone
  <1>2. stage = "line" => applied = acked /\ sent = acked /\ ~Underway
    BY NotUnderway DEF CInv, Settled, Books
  <1>3. ASSUME NEW code \in Process!Codes, Return(code), Process!MayExit(code)
        PROVE  Process!Exit(code)
    BY <1>1, <1>3, ExitStep
  <1>4. CASE Reject
    BY <1>2, <1>3, <1>4, Allowed DEF Reject
  <1>5. CASE CallSucceeds /\ Misfit
    <2>1. cmd.action = "read"
      BY <1>5, MisfitReads DEF CallSucceeds, CallDone, CInv, Route, Working
    <2>2. ~JobOf.writes /\ Return("usage")
      BY <1>5, <2>1, JobIs DEF CallSucceeds, JobFacts
    <2> QED BY <1>3, <2>2, Allowed
  <1>6. CASE CallFails
    <2>1. PICK code \in ExitCodes(last.kind) : Return(code)
      BY <1>6 DEF CallFails
    <2>2. /\ code \in {"protocol", "connection", "io"}
          /\ code = "protocol" => last.kind = "exception"
      BY ExitCodesAre
    <2>3. last.kind = "exception" => applied = acked /\ ~Underway
      BY <1>6 DEF CallFails, CallDone, CInv, Settled
    <2>4. PhaseOf = "waiting"
      BY <1>6, PhaseIs DEF CallFails, CallDone, CInv, Route, Working, PhaseFacts
    <2> QED BY <1>3, <2>1, <2>2, <2>3, <2>4, Allowed
  <1>7. CASE PrintFails \/ InputFails
    BY <1>3, <1>7, Allowed DEF PrintFails, InputFails
  <1>8. CASE EndOfInput
    <2>1. stage = "line" /\ ~More /\ Return("ok")
      BY <1>8 DEF EndOfInput
    <2>2. cmd.action \in {"read", "write"}
      BY <2>1 DEF CInv, Route, Working
    <2>3. AllOf(acked)
      BY <1>2, <2>1, AllTaken DEF CInv, Reading, Working, Books
    <2>4. Len(acked) = JobOf.calls
      BY <2>2, <2>3, CountCalls, JobIs DEF CmdInv, CInv, CommandTypeOK, AllOf, JobFacts
    <2>5. PhaseOf = "ready"
      BY <2>1, <2>2, PhaseIs DEF PhaseFacts
    <2> QED BY <1>3, <2>1, <2>4, <2>5, Allowed
  <1>9. CASE EndOfDryRun
    <2>1. stage = "explain" /\ Return(IF hadErr THEN "usage" ELSE "ok")
      BY <1>9 DEF EndOfDryRun
    <2>2. applied = acked /\ ~Underway
      BY <2>1, NothingYet DEF Early
    <2>3. cmd.action = "write" /\ cmd.dryRun
      BY <2>1 DEF CInv, Route, DryRun
    <2>4. PhaseOf = "started" /\ JobOf.dry
      BY <2>1, <2>3, PhaseIs, JobIs DEF JobFacts, PhaseFacts
    <2> QED BY <1>3, <2>1, <2>2, <2>4, Allowed
  <1> QED BY <1>4, <1>5, <1>6, <1>7, <1>8, <1>9

(* A step that changes nothing the process is known by. *)
LEMMA ProcessFrame ==
    ASSUME UNCHANGED <<cmd, acked, applied, requests, exit>>
    PROVE  /\ UNCHANGED <<JobOf, CallLines, Underway, Len(acked), Len(applied), exit>>
           /\ PhaseOf' = PhaseOf => UNCHANGED Process!jobVars
  BY JobFrame, UnderwayFrame DEF Process!jobVars

(* Up to the first call. *)
LEMMA ParseStep ==
    ASSUME IInv, CInv, CmdInv, CInv', CmdInv', Parse
    PROVE  [Process!Next]_(Process!jobVars)
  <1>1. /\ stage = "argv" /\ stage' = "start"
        /\ UNCHANGED <<vars, acked, exit, applied>>
    BY DEF Parse
  <1>2. cmd.action = "none"
    <2>1. cmd = NoCommand
      BY <1>1 DEF CInv, Route
    <2>2. NoCommand.action = "none"
      BY DEF NoCommand
    <2> QED BY <2>1, <2>2
  <1>3. CommandOK' /\ cmd'.action \in {"read", "watch", "write"}
    <2>1. CommandOK' /\ cmd'.action # "none"
      BY ParseMakesCommand DEF Parse, CmdInv
    <2> QED BY <2>1 DEF CommandOK
  <1>4. PhaseOf = "argv" /\ JobOf = NoJob
    BY <1>1, <1>2, PhaseIs, JobIs DEF JobFacts, PhaseFacts
  <1>5. UNCHANGED <<Underway, Len(acked), Len(applied), exit>>
    BY <1>1, UnderwayFrame DEF vars
  <1>6. (JobFacts /\ PhaseFacts)'
    BY JobIs, PhaseIs, PTL
  <1>7. CASE cmd'.action = "watch"
    <2>1. UNCHANGED <<JobOf, PhaseOf>>
      BY <1>1, <1>4, <1>6, <1>7 DEF JobFacts, PhaseFacts, NoJob
    <2> QED BY <1>5, <2>1 DEF Process!jobVars
  <1>8. CASE cmd'.action \in {"read", "write"}
    <2>1. PhaseOf' = "started"
      BY <1>1, <1>6, <1>8 DEF PhaseFacts
    <2>2. IsJob'
      BY <1>3, JobType, PTL
    <2>3. Process!Accept
      BY <1>4, <1>5, <2>1, <2>2 DEF Process!Accept, IsJob
    <2> QED BY <2>3 DEF Process!Next
  <1> QED BY <1>3, <1>7, <1>8

LEMMA DialStep ==
    ASSUME IInv, CInv, CmdInv, Dial
    PROVE  [Process!Next]_(Process!jobVars)
  <1>1. /\ stage = "start" /\ ~DryRun
        /\ stage' = CASE cmd.action = "read" -> "line"
                      [] cmd.action = "watch" -> "watching"
                      [] OTHER -> "gate"
        /\ UNCHANGED <<cmd, acked, exit, applied, requests>>
    BY DEF Dial, Connect
  <1>2. cmd.action \in {"read", "watch", "write"} /\ ~cmd.dryRun
    BY <1>1 DEF CInv, Route, DryRun, CmdInv, CommandOK
  <1>3. /\ UNCHANGED <<JobOf, Underway, Len(acked), Len(applied), exit>>
        /\ PhaseOf' = PhaseOf => UNCHANGED Process!jobVars
    BY <1>1, ProcessFrame
  <1>4. JobFacts /\ PhaseFacts /\ PhaseFacts'
    BY JobIs, PhaseIs, PTL
  <1>5. CASE cmd.action = "watch"
    <2>1. PhaseOf = "argv" /\ PhaseOf' = "argv"
      BY <1>1, <1>4, <1>5 DEF PhaseFacts
    <2> QED BY <1>3, <2>1
  <1>6. CASE cmd.action = "read"
    <2>1. PhaseOf = "started" /\ PhaseOf' = "ready" /\ ~JobOf.dry /\ JobOf.consent = "given"
      BY <1>1, <1>2, <1>4, <1>6 DEF PhaseFacts, JobFacts
    <2> QED BY <1>3, <2>1 DEF Process!Next, Process!Proceed, Process!Goes
  <1>7. CASE cmd.action = "write"
    <2>1. PhaseOf = "started" /\ ~JobOf.dry
      BY <1>1, <1>2, <1>4, <1>7 DEF PhaseFacts, JobFacts
    <2>2. stage' = "gate" /\ PhaseOf' = IF Prompting' THEN "asking" ELSE "started"
      BY <1>1, <1>4, <1>7 DEF PhaseFacts
    <2>3. CASE Prompting'
      <3>1. JobOf.consent = "ask"
        BY <1>1, <1>4, <1>7, <2>3 DEF Prompting, JobFacts
      <3> QED BY <1>3, <2>1, <2>2, <2>3, <3>1 DEF Process!Next, Process!Ask, Process!Goes
    <2>4. CASE ~Prompting'
      BY <1>3, <2>1, <2>2, <2>4
    <2> QED BY <2>3, <2>4
  <1> QED BY <1>2, <1>5, <1>6, <1>7

LEMMA PassStep ==
    ASSUME IInv, CInv, CmdInv, Confirmed \/ SaysYes
    PROVE  [Process!Next]_(Process!jobVars)
  <1>1. /\ stage = "gate" /\ stage' = "line"
        /\ cmd.confirm \/ Prompting
        /\ UNCHANGED <<vars, cmd, acked, exit, applied>>
    BY DEF Confirmed, SaysYes, Prompting, Pass
  <1>2. cmd.action = "write" /\ ~cmd.dryRun
    <2>1. cmd.action = "write" /\ ~DryRun
      BY <1>1 DEF CInv, Route
    <2> QED BY <2>1 DEF DryRun
  <1>3. UNCHANGED <<JobOf, Underway, Len(acked), Len(applied), exit>>
    BY <1>1, ProcessFrame DEF vars
  <1>4. JobFacts /\ PhaseFacts /\ PhaseFacts'
    BY JobIs, PhaseIs, PTL
  <1>5. /\ ~JobOf.dry /\ PhaseOf' = "ready"
        /\ cmd.confirm => JobOf.consent = "given"
        /\ PhaseOf = IF Prompting THEN "asking" ELSE "started"
    BY <1>1, <1>2, <1>4 DEF JobFacts, PhaseFacts
  <1>6. cmd.confirm => ~Prompting
    BY DEF Prompting
  <1> QED BY <1>1, <1>3, <1>5, <1>6 DEF Process!Next, Process!Proceed, Process!Goes

(* The dry run's lines. *)
LEMMA ExplainStep ==
    ASSUME IInv, CInv, CmdInv, Explain
    PROVE  [Process!Next]_(Process!jobVars)
  <1>1. /\ stage = "explain" /\ UNCHANGED <<vars, cmd, acked, applied>>
    BY DEF Explain, Explained
  <1>2. \/ UNCHANGED <<stage, exit>>
        \/ stage' = "returned" /\ exit' \in {"usage", "ok", "io"}
    BY DEF Explain, Explained
  <1>3. cmd.action = "write" /\ cmd.dryRun
    BY <1>1 DEF CInv, Route, DryRun
  <1>4. applied = acked /\ ~Underway
    BY <1>1, NothingYet DEF Early
  <1>5. UNCHANGED <<JobOf, Underway>> /\ Len(acked)' = Len(acked) /\ Len(applied)' = Len(applied)
    BY <1>1, JobFrame, UnderwayFrame DEF vars
  <1>6. JobFacts /\ PhaseFacts /\ PhaseFacts'
    BY JobIs, PhaseIs, PTL
  <1>7. PhaseOf = "started" /\ JobOf.dry
    BY <1>1, <1>3, <1>6 DEF PhaseFacts, JobFacts
  <1>8. CASE UNCHANGED <<stage, exit>>
    <2>1. PhaseOf' = "started"
      BY <1>1, <1>3, <1>6, <1>8 DEF PhaseFacts
    <2> QED BY <1>5, <1>7, <1>8, <2>1 DEF Process!jobVars
  <1>9. ASSUME NEW code \in {"usage", "ok", "io"}, stage' = "returned", exit' = code
        PROVE  Process!Next
    <2>1. PhaseOf' = "exited"
      BY <1>6, <1>9 DEF PhaseFacts
    <2>2. Process!MayExit(code) /\ code \in Process!Codes
      BY <1>4, <1>7, <1>9, Allowed
    <2>3. Process!Exit(code)
      BY <1>5, <1>7, <1>9, <2>1, <2>2 DEF Process!Exit
    <2> QED BY <2>2, <2>3 DEF Process!Next
  <1> QED BY <1>2, <1>8, <1>9

(* A call is made, and its outcome printed. *)
LEMMA StartCallStep ==
    ASSUME IInv, CInv, CmdInv, CInv', CmdInv', StartCall
    PROVE  Process!Next
  <1>1. /\ stage = "line" /\ stage' = "wait" /\ sent' = Append(sent, next + 1)
        /\ UNCHANGED <<cmd, acked, exit, applied>>
    BY DEF StartCall
  <1>2. cmd.action \in {"read", "write"} /\ sent = acked
    BY <1>1 DEF CInv, Route, Working, Settled
  <1>3. Len(acked) < Cardinality(CallLines)
    <2>1. PICK s : s = sent'
      OBVIOUS
    <2>2. s \in Seq(Nat) /\ InOrder(s)
      <3>1. sent' \in Seq(Nat) /\ InOrder(sent)' /\ CallLines' = CallLines
        BY <1>1, JobFrame DEF CInv, CommandTypeOK, Books
      <3> QED BY <2>1, <3>1 DEF InOrder
    <2>3. Len(s) <= Cardinality(CallLines) /\ Cardinality(CallLines) \in Nat
      BY <2>2, CountCalls, MaxLinesAssumption DEF CmdInv
    <2>4. Len(s) = Len(acked) + 1 /\ Len(acked) \in Nat
      BY <1>1, <1>2, <2>1 DEF CInv, CommandTypeOK
    <2> QED BY <2>3, <2>4
  <1>4. UNCHANGED JobOf /\ Len(acked)' = Len(acked) /\ Len(applied)' = Len(applied)
    BY <1>1, JobFrame
  <1>5. JobFacts /\ PhaseFacts /\ PhaseFacts'
    BY JobIs, PhaseIs, PTL
  <1>6. PhaseOf = "ready" /\ PhaseOf' = "waiting" /\ JobOf.calls = Cardinality(CallLines)
    BY <1>1, <1>2, <1>5 DEF PhaseFacts, JobFacts
  <1>7. Underway' \in BOOLEAN
    BY DEF Underway
  <1> QED BY <1>1, <1>3, <1>4, <1>6, <1>7 DEF Process!Next, Process!Call

LEMMA PrintStep ==
    ASSUME IInv, CInv, CmdInv, PrintResult
    PROVE  Process!Next
  <1>1. /\ stage = "print" /\ stage' = "line" /\ acked' = Append(acked, next)
        /\ UNCHANGED <<vars, cmd, exit, applied>>
    BY DEF PrintResult
  <1>2. applied = Append(acked, next) /\ cmd.action \in {"read", "write"}
    BY <1>1 DEF CInv, Settled, Route, Working
  <1>3. Len(applied) = Len(acked) + 1 /\ Len(acked)' = Len(applied) /\ Len(applied)' = Len(applied)
    BY <1>1, <1>2 DEF CInv, CommandTypeOK
  <1>4. UNCHANGED <<JobOf, Underway>>
    BY <1>1, JobFrame, UnderwayFrame DEF vars
  <1>5. PhaseFacts /\ PhaseFacts'
    BY PhaseIs, PTL
  <1>6. PhaseOf = "waiting" /\ PhaseOf' = "ready"
    BY <1>1, <1>2, <1>5 DEF PhaseFacts
  <1> QED BY <1>1, <1>3, <1>4, <1>6 DEF Process!Next, Process!Acknowledge, Process!Goes

(* The device carries the call out, refuses it, or never hears of it. *)
LEMMA EffectStep ==
    ASSUME IInv, MInv, CInv, CmdInv, CInv', NEW k \in Conns, CarryOut(k)
    PROVE  Process!Next
  <1>1. /\ requests[k] # <<>> /\ UNCHANGED <<cmd, stage, acked, exit>>
        /\ applied' = applied \/ \E x : applied' = Append(applied, x)
    BY DEF CarryOut, Serve, AnswerLost, Unanswered
  <1>2. Underway
    BY <1>1 DEF Underway
  <1>3. ~Underway'
    <2>1. /\ Len(requests[k]) = 1 /\ \A j \in Conns : j # k => requests[j] = <<>>
          /\ requests[k] \in Seq(Request) /\ requests \in [Conns -> Seq(Request)]
      BY <1>1, OnlyRequest DEF IInv, TypeOK
    <2>2. Tail(requests[k]) = <<>>
      <3>1. Tail(requests[k]) \in Seq(Request) /\ Len(Tail(requests[k])) = 0
        BY <1>1, <2>1, HeadTailProperties
      <3> QED BY <3>1, EmptySeq
    <2>3. requests' = [requests EXCEPT ![k] = Tail(requests[k])]
      BY DEF CarryOut, Serve, AnswerLost, Unanswered
    <2>4. \A j \in Conns : requests'[j] = <<>>
      BY <2>1, <2>2, <2>3
    <2> QED BY <2>4 DEF Underway, Conns
  <1>4. UNCHANGED JobOf /\ Len(acked)' = Len(acked) /\ PhaseOf' = PhaseOf
    BY <1>1, JobFrame DEF PhaseOf, Prompting, NoJob
  <1>5. CASE applied' = applied
    <2>1. Len(applied)' = Len(applied)
      BY <1>5
    <2> QED BY <1>1, <1>2, <1>3, <1>4, <2>1 DEF Process!Next, Process!Lose
  <1>6. CASE \E x : applied' = Append(applied, x)
    <2>1. Len(applied)' = Len(applied) + 1
      BY <1>6 DEF CInv, CommandTypeOK
    <2> QED BY <1>1, <1>2, <1>3, <1>4, <2>1 DEF Process!Next, Process!TakeEffect
  <1> QED BY <1>1, <1>5, <1>6

LEMMA LostStep ==
    ASSUME IInv, MInv, CInv, CmdInv, NEW k \in Conns, Lost(k)
    PROVE  [Process!Next]_(Process!jobVars)
  <1>1. /\ requests'[k] = <<>> /\ \A j \in Conns : j # k => requests'[j] = requests[j]
        /\ UNCHANGED cmdVars
    BY LostRequest DEF Lost
  <1>2. UNCHANGED <<JobOf, PhaseOf>> /\ Len(acked)' = Len(acked) /\ Len(applied)' = Len(applied)
        /\ exit' = exit
    BY <1>1, JobFrame DEF cmdVars, PhaseOf, Prompting, NoJob
  <1>3. CASE requests[k] = <<>>
    <2>1. \A j \in Conns : requests'[j] = requests[j]
      BY <1>1, <1>3
    <2>2. Underway' <=> Underway
      BY <2>1 DEF Underway, Conns
    <2> QED BY <1>2, <2>2 DEF Process!jobVars
  <1>4. CASE requests[k] # <<>>
    <2>1. Underway
      BY <1>4 DEF Underway
    <2>2. \A j \in Conns : requests'[j] = <<>>
      BY <1>1, <1>4, OnlyRequest DEF IInv, TypeOK
    <2>3. ~Underway'
      BY <2>2 DEF Underway, Conns
    <2> QED BY <1>2, <2>1, <2>3 DEF Process!Next, Process!Lose
  <1> QED BY <1>3, <1>4

(* The steps nobody outside notices. *)
LEMMA HiddenStep ==
    ASSUME IInv, CInv, CmdInv,
           \/ StartDryRun \/ Skip \/ (CallSucceeds /\ ~Misfit) \/ Late \/ Progress
           \/ UNCHANGED allVars
    PROVE  UNCHANGED Process!jobVars
  <1>1. UNCHANGED <<cmd, acked, applied, requests, exit>>
    BY DEF StartDryRun, Skip, CallSucceeds, Late, Progress, allVars, vars, cmdVars,
           Timeout, ReadHeader, ReadPDU, ReadEOF, Finish
  <1>2. PhaseFacts /\ PhaseFacts'
    BY PhaseIs, PTL
  <1>3. CASE StartDryRun
    <2>1. stage = "start" /\ stage' = "explain" /\ cmd.action = "write"
      BY <1>3 DEF StartDryRun, DryRun
    <2>2. PhaseOf' = PhaseOf
      BY <1>1, <1>2, <2>1 DEF PhaseFacts
    <2> QED BY <1>1, <2>2, ProcessFrame
  <1>4. CASE CallSucceeds /\ ~Misfit
    <2>1. stage = "wait" /\ stage' = "print" /\ cmd.action \in {"read", "write"}
      BY <1>4 DEF CallSucceeds, CallDone, CInv, Route, Working
    <2>2. PhaseOf' = PhaseOf
      BY <1>1, <1>2, <2>1 DEF PhaseFacts
    <2> QED BY <1>1, <2>2, ProcessFrame
  <1>5. CASE stage' = stage
    <2>1. PhaseOf' = PhaseOf
      BY <1>1, <1>5, JobFrame DEF PhaseOf, Prompting, NoJob
    <2> QED BY <1>1, <2>1, ProcessFrame
  <1> QED BY <1>3, <1>4, <1>5 DEF Skip, Late, Progress, allVars, cmdVars

(* To whoever started it, the program that ends by itself does what an     *)
(* OtcatProcess may do and nothing else: for every command line, input,    *)
(* device and order of events (cliapp.go, Run; actions.go; client.go, do). *)
THEOREM CommandsAreProcesses == CommandSpec => IsOtcatProcess
  <1>1. ASSUME IInv, MInv, CmdInv, CInv, CmdInv', CInv', [CommandNext]_allVars
        PROVE  [Process!Next]_(Process!jobVars)
    <2>1. CASE ParseFails \/ StubFails \/ DialFails \/ Refused \/ SaysNo \/ PromptFails
      BY <1>1, <2>1, EarlyEndStep DEF Process!Next
    <2>2. CASE Reject \/ CallFails \/ PrintFails \/ EndOfInput \/ InputFails \/ EndOfDryRun
      BY <1>1, <2>2, LateEndStep DEF Process!Next
    <2>3. CASE CallSucceeds /\ Misfit
      BY <1>1, <2>3, LateEndStep DEF Process!Next
    <2>4. CASE Parse \/ Dial \/ Confirmed \/ SaysYes
      BY <1>1, <2>4, ParseStep, DialStep, PassStep
    <2>5. CASE StartCall \/ PrintResult \/ Explain
      BY <1>1, <2>5, StartCallStep, PrintStep, ExplainStep
    <2>6. ASSUME NEW k \in Conns, CarryOut(k) \/ Lost(k)
          PROVE  [Process!Next]_(Process!jobVars)
      BY <1>1, <2>6, EffectStep, LostStep
    <2>7. CASE \/ StartDryRun \/ Skip \/ (CallSucceeds /\ ~Misfit) \/ Late \/ Progress
               \/ UNCHANGED allVars
      BY <1>1, <2>7, HiddenStep
    <2> QED BY <1>1, <2>1, <2>2, <2>3, <2>4, <2>5, <2>6, <2>7 DEF CommandNext, Step
  <1> QED BY <1>1, ProcessInit, CommandInvariance, PTL DEF CommandSpec, IsOtcatProcess,
             Process!Spec
================================================================================
