------------------------------- MODULE Commands -------------------------------
(***************************************************************************)
(* The command line, and the commands that end by themselves: otcat --read,*)
(* otcat --write with --value or --from-stdin, and --write --dry-run       *)
(* (flags.go; cliapp.go, Run, validate, buildDriver; actions.go, runRead,  *)
(* runWrite, gateWrite, runWriteStream, runDryRun).  Each is a caller of   *)
(* ModbusClient, as WatchLoop is, which has the fourth command.            *)
(*                                                                         *)
(* What the operator gives is a sequence of lines.  A line is skipped      *)
(* (blank, or a comment), bad (the address or the value does not parse: a  *)
(* modbus.ErrInvalidInput before anything is sent), or stands for one call *)
(* of the client.  --read and --value are a single line that is not skipped.*)
(*                                                                         *)
(* SIGINT and SIGTERM change nothing once the dial is over: cliapp.Run     *)
(* catches them, and of the context they cancel these commands only use    *)
(* the deadline.                                                           *)
(***************************************************************************)
EXTENDS ModbusClient, SequencesExt

CONSTANTS MaxLines,   \* the longest input (bound)
          Width       \* registers per value of the --type in use: 1 or 2

ASSUME MaxLinesAssumption == MaxLines \in Nat \ {0} /\ Width \in {1, 2}

(* Driver.Write: one coil or register goes out by a single write, several  *)
(* by a multiple one, and every value of a line takes Width registers; all *)
(* lines write to the one address of --write.                              *)
ASSUME DriverAssumption ==
    \A c \in Calls : /\ c.fc \in MultiWrites => c.qty # 1
                     /\ c.fc \in Writes \ CoilWrites => c.qty % Width = 0
                     /\ \A d \in Calls : {c.fc, d.fc} \subseteq Writes =>
                          c.addr = d.addr /\ TableOf(c.fc) = TableOf(d.fc)

VARIABLES flags,      \* the command line
          cmd,        \* what it asks for
          stage,      \* where the command is
          next,       \* lines taken
          said,       \* what the operator answered to the prompt
          planned,    \* dry run: the lines a plan was printed for
          hadErr,     \* dry run: runDryRun's hadErr
          acked,      \* the lines whose value or acknowledgement was printed
          exit,       \* the exit code, by name
          sent,       \* ghost: sent[i] is the line call number i was made for
          applied     \* ghost: the lines the device carried out, in its order

cmdVars == <<flags, cmd, stage, next, said, planned, hadErr, acked, exit, sent, applied>>
allVars == <<vars, cmdVars>>

SkipLine  == [kind |-> "skip"]
BadLine   == [kind |-> "bad"]
Line(c)   == [kind |-> "call", call |-> c]
ReadLines == {BadLine} \union {Line(c) : c \in {c \in Calls : c.fc \in Reads}}
ValueLines == {BadLine} \union {Line(c) : c \in {c \in Calls : c.fc \in Writes}}

(***************************************************************************)
(* The command line, abstracted to what is looked at: which flags are      *)
(* given, and whether one of them is wrong: not to be parsed, --csv with   *)
(* --raw, a --timeout or a --unit out of range, an --interval out of range,*)
(* or a --type or an order that does not exist.  One stub stands for the   *)
(* three.  The flag package stops at the first word that belongs to no     *)
(* flag, and parseArgs does not ask whether anything is left: "lost" is a  *)
(* --dry-run, the last flag given, with such a word right before it.       *)
(***************************************************************************)
CommandLines ==
    [endpoints : SUBSET {"modbus", "stub"}, actions : SUBSET {"read", "watch", "write"},
     value : BOOLEAN, fromStdin : BOOLEAN, confirm : BOOLEAN, dryRun : {"no", "yes", "lost"},
     asks : {"nothing", "h", "help or version"},
     wrong : {"nothing", "syntax", "formats", "range", "interval", "type"}]

(* -h is answered where parsing has got to: before or after the error.     *)
ParseArgs(f) ==
    CASE f.asks = "h" -> IF f.wrong = "syntax" THEN {"usage", "ok"} ELSE {"ok"}
      [] f.asks # "h" /\ f.wrong \in {"syntax", "formats"} -> {"usage"}
      [] OTHER -> {IF f.asks # "nothing" THEN "ok" ELSE "go on"}

Single(S) == \E x \in S : S = {x}

(* Mutant: --dry-run passes with any action. *)
ValidateLoose(f) ==
    /\ Single(f.endpoints) /\ Single(f.actions)
    /\ IF f.actions = {"write"} THEN f.fromStdin # f.value
       ELSE ~(f.value \/ f.fromStdin \/ f.confirm)
    /\ f.wrong # "range"
    /\ f.actions = {"watch"} => f.wrong # "interval"

Validate(f) ==
    /\ Single(f.endpoints) /\ Single(f.actions)
    /\ IF f.actions = {"write"} THEN f.fromStdin # f.value
       ELSE ~(f.value \/ f.fromStdin \/ f.dryRun = "yes" \/ f.confirm)
    /\ f.wrong # "range"
    /\ f.actions = {"watch"} => f.wrong # "interval"

(* Only the Modbus driver looks at its options. *)
BuildDriver(f) == f.endpoints = {"modbus"} => f.wrong # "type"

NoCommand == [action |-> "none", stub |-> FALSE, confirm |-> FALSE, fromStdin |-> FALSE,
              dryRun |-> FALSE, terminal |-> FALSE, lines |-> <<>>]

(* What there is to do, and where: a stub does not look at it. *)
Inputs(f) == CASE f.endpoints = {"stub"} \/ f.actions = {"watch"} -> {<<>>}
               [] f.endpoints # {"stub"} /\ f.actions = {"read"} -> {<<l>> : l \in ReadLines}
               [] OTHER -> IF f.fromStdin THEN BoundedSeq(ValueLines \union {SkipLine}, MaxLines)
                           ELSE {<<l>> : l \in ValueLines}

Commanded(f) ==
    {[action |-> CHOOSE a \in f.actions : TRUE, stub |-> f.endpoints = {"stub"},
      confirm |-> f.confirm, fromStdin |-> f.fromStdin, dryRun |-> f.dryRun = "yes",
      terminal |-> t, lines |-> ls] : t \in BOOLEAN, ls \in Inputs(f)}

CommandInit == /\ Init
               /\ call = CHOOSE c \in Calls : TRUE    \* looked at in a call only
               /\ flags \in CommandLines
               /\ cmd = NoCommand
               /\ stage = "argv"
               /\ next = 0
               /\ said = "nothing"
               /\ planned = <<>>
               /\ hadErr = FALSE
               /\ acked = <<>>
               /\ exit = "none"
               /\ sent = <<>>
               /\ applied = <<>>

(* Mutant: what is not recognised is blamed on the device. *)
ExitCodesBlamed(kind) == CASE kind \in {"timeout", "write"} -> {"connection"}
                           [] OTHER -> {"protocol"}

(* classifyErr.  An error that knows Timeout() is one of the net package;  *)
(* a read that ends early is a plain io error when the peer closed in      *)
(* order, and one of the net package when the connection was reset.        *)
ExitCodes(kind) == CASE kind = "exception" -> {"protocol"}
                     [] kind \in {"timeout", "write"} -> {"connection"}
                     [] kind = "eof" -> {"connection", "io"}
                     [] OTHER -> {"io"}

(***************************************************************************)
(* cliapp.Run.                                                             *)
(***************************************************************************)
Return(code) == /\ stage' = "returned"
                /\ exit' = code
                /\ IF conn # 0 THEN Close ELSE UNCHANGED vars
                /\ UNCHANGED <<flags, cmd, said, planned, hadErr, sent, applied>>

NoFlags == CHOOSE f \in CommandLines : f.actions = {}

ParseFails == /\ stage = "argv"
              /\ \/ "usage" \in ParseArgs(flags) /\ Return("usage")
                 \/ "ok" \in ParseArgs(flags) /\ Return("ok")
                 \/ /\ "go on" \in ParseArgs(flags)
                    /\ ~(Validate(flags) /\ BuildDriver(flags))
                    /\ Return("usage")
              /\ UNCHANGED <<next, acked>>

Parse == /\ stage = "argv"
         /\ "go on" \in ParseArgs(flags)
         /\ Validate(flags) /\ BuildDriver(flags)
         /\ cmd' \in Commanded(flags)
         /\ flags' = NoFlags
         /\ stage' = "start"
         /\ UNCHANGED <<vars, next, said, planned, hadErr, acked, exit, sent, applied>>

DryRun == cmd.action = "write" /\ cmd.dryRun

StartDryRun == /\ stage = "start"
               /\ DryRun
               /\ ~cmd.stub
               /\ stage' = "explain"
               /\ UNCHANGED <<vars, flags, cmd, next, said, planned, hadErr, acked, exit,
                              sent, applied>>

(* No stub is a DryRunner, and none connects.                              *)
StubFails == /\ stage = "start"
             /\ cmd.stub
             /\ Return("usage")
             /\ UNCHANGED <<next, acked>>

Dial == /\ stage = "start"
        /\ ~DryRun
        /\ ~cmd.stub
        /\ Connect
        /\ stage' = CASE cmd.action = "read" -> "line"
                      [] cmd.action = "watch" -> "watching"
                      [] OTHER -> "gate"
        /\ UNCHANGED <<flags, cmd, next, said, planned, hadErr, acked, exit, sent, applied>>

DialFails == /\ stage = "start"
             /\ ~DryRun
             /\ ~cmd.stub
             /\ Return("connection")
             /\ UNCHANGED <<next, acked>>

(***************************************************************************)
(* gateWrite.                                                              *)
(***************************************************************************)
Pass == /\ stage' = "line"
        /\ UNCHANGED <<vars, flags, cmd, next, planned, hadErr, acked, exit, sent, applied>>

Confirmed == stage = "gate" /\ cmd.confirm /\ Pass /\ UNCHANGED said

Refused == /\ stage = "gate"
           /\ ~cmd.confirm
           /\ cmd.fromStdin \/ ~cmd.terminal
           /\ Return("aborted")
           /\ UNCHANGED <<next, acked>>

(* Mutant: stdin being a terminal is all that is asked. *)
AskedAnyTerminal == stage = "gate" /\ ~cmd.confirm /\ cmd.terminal

Prompting == stage = "gate" /\ ~cmd.confirm /\ ~cmd.fromStdin /\ cmd.terminal

SaysYes == Prompting /\ said' = "yes" /\ Pass

(* Anything else, the end of the input included, is a no. *)
SaysNo == /\ Prompting
          /\ Return("aborted")
          /\ UNCHANGED <<next, acked>>

PromptFails == /\ Prompting
               /\ Return("io")
               /\ UNCHANGED <<next, acked>>

(***************************************************************************)
(* runRead, runWrite and runWriteStream.                                   *)
(***************************************************************************)
More    == next < Len(cmd.lines)
Current == cmd.lines[next + 1]

Skip == /\ stage \in {"line", "explain"}
        /\ More
        /\ Current = SkipLine
        /\ next' = next + 1
        /\ UNCHANGED <<vars, flags, cmd, stage, said, planned, hadErr, acked, exit, sent, applied>>

Reject == /\ stage = "line"
          /\ More
          /\ Current = BadLine
          /\ Return("usage")
          /\ next' = next + 1
          /\ UNCHANGED <<acked>>

StartCall ==
    /\ stage = "line"
    /\ More
    /\ Current.kind = "call"
    /\ LET c == Current.call
       IN  RefuseCall(c) \/ SendRequest(c) \/ SendIntoClosed(c) \/ WriteError(c)
    /\ next' = next + 1
    /\ sent' = Append(sent, next + 1)
    /\ stage' = "wait"
    /\ UNCHANGED <<flags, cmd, said, planned, hadErr, acked, exit, applied>>

CallDone == stage = "wait" /\ pc = "idle"

(* readRegisters looks at the count only when it has the registers. *)
Misfit == call.fc \in RegisterReads /\ call.qty % Width # 0

CallSucceeds ==
    /\ CallDone
    /\ last.kind = "ok"
    /\ IF Misfit
       THEN Return("usage")
       ELSE /\ stage' = "print"
            /\ UNCHANGED <<vars, flags, cmd, said, planned, hadErr, exit, sent, applied>>
    /\ UNCHANGED <<next, acked>>

(* Mutant: a stream goes on with its next line after an error. *)
CallFailsContinues ==
    /\ CallDone
    /\ last.kind # "ok"
    /\ IF More
       THEN stage' = "line" /\ UNCHANGED <<vars, flags, cmd, said, planned, hadErr, exit, sent, applied>>
       ELSE \E code \in ExitCodes(last.kind) : Return(code)
    /\ UNCHANGED <<next, acked>>

CallFails ==
    /\ CallDone
    /\ last.kind # "ok"
    /\ \E code \in ExitCodes(last.kind) : Return(code)
    /\ UNCHANGED <<next, acked>>

PrintResult ==
    /\ stage = "print"
    /\ acked' = Append(acked, next)
    /\ stage' = "line"
    /\ UNCHANGED <<vars, flags, cmd, next, said, planned, hadErr, exit, sent, applied>>

PrintFails ==
    /\ stage = "print"
    /\ Return("io")
    /\ UNCHANGED <<next, acked>>

EndOfInput ==
    /\ stage = "line"
    /\ ~More
    /\ Return("ok")
    /\ UNCHANGED <<next, acked>>

(* The scanner stops on a read error or a line too long for it. *)
InputFails ==
    /\ stage \in {"line", "explain"}
    /\ cmd.fromStdin
    /\ Return("io")
    /\ UNCHANGED <<next, acked>>

(***************************************************************************)
(* runDryRun.  A single value returns what explain returns; a stream goes  *)
(* through all its lines first.                                            *)
(***************************************************************************)
Explained(code) ==
    /\ next' = next + 1
    /\ UNCHANGED <<vars, flags, cmd, said, acked, sent, applied>>
    /\ IF cmd.fromStdin
       THEN /\ hadErr' = (hadErr \/ code # "ok")
            /\ UNCHANGED <<stage, exit>>
       ELSE /\ stage' = "returned"
            /\ exit' = code
            /\ UNCHANGED hadErr

Explain ==
    /\ stage = "explain"
    /\ More
    /\ \/ /\ Current = BadLine
          /\ Explained("usage")
          /\ UNCHANGED planned
       \/ /\ Current.kind = "call"
          /\ \/ Explained("ok") /\ planned' = Append(planned, next + 1)
             \/ Explained("io") /\ UNCHANGED planned

(* Mutant: the verdict is that of the last line. *)
EndOfDryRunForgets ==
    /\ stage = "explain"
    /\ ~More
    /\ Return("ok")
    /\ UNCHANGED <<next, acked>>

EndOfDryRun ==
    /\ stage = "explain"
    /\ ~More
    /\ Return(IF hadErr THEN "usage" ELSE "ok")
    /\ UNCHANGED <<next, acked>>

(***************************************************************************)
(* The client's call, the device and the network go on underneath.  What   *)
(* the device takes up it carries out, with or without an answer; or it is *)
(* lost before that.                                                       *)
(***************************************************************************)
Done(k) == LET r == Head(requests[k])
               d == Dispatch(mem, SubSeq(r.frame, mbapLen + 1, Len(r.frame)))
           IN  /\ requests[k] # <<>>
               /\ ~IsException(d.resp)

CarryOut(k) ==
    /\ Serve(k) \/ AnswerLost(k)
    /\ applied' = IF Done(k) THEN Append(applied, sent[Head(requests[k]).n]) ELSE applied
    /\ UNCHANGED <<flags, cmd, stage, next, said, planned, hadErr, acked, exit, sent>>

Late     == Timeout /\ UNCHANGED cmdVars
Progress == (ReadHeader \/ ReadPDU \/ ReadEOF) /\ UNCHANGED cmdVars
Lost(k)  == (RequestLost(k) \/ Drop(k)) /\ UNCHANGED cmdVars

Step == \/ ParseFails
        \/ Parse
        \/ StartDryRun
        \/ StubFails
        \/ Dial
        \/ DialFails
        \/ Confirmed
        \/ Refused
        \/ SaysYes
        \/ SaysNo
        \/ PromptFails
        \/ Skip
        \/ Reject
        \/ StartCall
        \/ CallSucceeds
        \/ CallFails
        \/ PrintResult
        \/ PrintFails
        \/ EndOfInput
        \/ InputFails
        \/ Explain
        \/ EndOfDryRun

CommandNext == \/ Step
               \/ Late
               \/ Progress
               \/ \E k \in Conns : CarryOut(k) \/ Lost(k)

CommandSpec == CommandInit /\ [][CommandNext]_allVars

(* The process runs, whoever is asked answers, whoever reads the output    *)
(* reads it and whoever writes the input goes on; deadlines pass.          *)
FairCommandSpec == CommandSpec /\ WF_allVars(Step) /\ WF_allVars(Late)

-----------------------------------------------------------------------------
(***************************************************************************)
(* Properties.                                                             *)
(***************************************************************************)
CallLines == {i \in 1..Len(cmd.lines) : cmd.lines[i].kind = "call"}

(* s goes through the call lines from the first, each in its turn. *)
InOrder(s) ==
    \A j \in 1..Len(s) :
       /\ s[j] \in CallLines
       /\ \A i \in CallLines : i < s[j] <=> \E l \in 1..(j - 1) : s[l] = i
AllOf(s) == InOrder(s) /\ \A i \in CallLines : \E j \in 1..Len(s) : s[j] = i

(* Every cell holds what the last line of s that covers it wrote there, or *)
(* what it held at the start.                                              *)
Covers(i, t, a) == LET c == cmd.lines[i].call
                   IN  c.fc \in Writes /\ TableOf(c.fc) = t /\ a \in c.addr..(c.addr + c.qty - 1)
Holds(s) ==
    \A t \in DOMAIN mem : \A a \in Addresses :
       \/ mem[t][a] = InitMem[t][a] /\ \A j \in 1..Len(s) : ~Covers(s[j], t, a)
       \/ \E j \in 1..Len(s) :
             /\ Covers(s[j], t, a) /\ \A l \in (j + 1)..Len(s) : ~Covers(s[l], t, a)
             /\ mem[t][a] = LET c == cmd.lines[s[j]].call IN c.vals[a - c.addr + 1]

Underway == \E k \in Conns : requests[k] # <<>>

(* "a write is never sent unless it was explicitly confirmed"              *)
(* (actions.go:122): nothing reaches the device unless --confirm was given *)
(* or someone at a terminal that does not carry the values said yes.       *)
Consented == cmd.confirm \/ (cmd.terminal /\ ~cmd.fromStdin /\ said = "yes")

NothingWithoutConsent ==
    cmd.action = "write" /\ ~Consented => ~Underway /\ applied = <<>> /\ mem = InitMem

(* "--dry-run never opens a socket, by construction" (cliapp.go:80),       *)
(* whatever it is combined with: no command that has it gets to the dial,  *)
(* because validate lets it pass with --write only; nor does a stub.       *)
DryRunNeverDials == cmd.dryRun \/ cmd.stub => dials = 0

(* The device carries out the lines of the input in their order, none      *)
(* skipped and none twice, and every acknowledgement printed is for a line *)
(* it has carried out.  At any time, and after the process is gone, at     *)
(* most one line was carried out and not acknowledged (runWriteStream over *)
(* client.go, do).                                                         *)
InOrderOnce == /\ InOrder(applied)
               /\ Begins(acked, applied)
               /\ Len(applied) <= Len(acked) + 1

(* Exit codes that say what happened on the device are to be trusted:      *)
(* after usage, protocol or aborted no write of the line that failed was   *)
(* carried out, or is still on its way to be (cliapp.go, classifyErr).     *)
RefusedMeansUndone ==
    cmd.action = "write" /\ exit \in {"usage", "protocol", "aborted"} =>
        applied = acked /\ ~Underway

(* Success means all of it: every line was good, was carried out and was   *)
(* acknowledged, and the device holds what the lines wrote; a dry run that *)
(* succeeds has printed the plan of every line.                            *)
OkMeansDone ==
    exit = "ok" =>
        /\ \A i \in 1..Len(cmd.lines) : cmd.lines[i] # BadLine
        /\ IF cmd.dryRun THEN AllOf(planned)
           ELSE AllOf(acked) /\ applied = acked /\ Holds(acked)

(* A command comes to its end, whatever the device does: every call has    *)
(* its deadline, and no call is made twice.  (A watch goes its own way.)   *)
CommandReturns == <>(stage \in {"returned", "watching"})

(* To whoever started it the program is an OtcatProcess.                   *)
NoJob == [writes |-> FALSE, calls |-> 0, consent |-> "refused", dry |-> TRUE]

JobOf == IF cmd.action \in {"none", "watch"} THEN NoJob
         ELSE [writes |-> cmd.action = "write", calls |-> Cardinality(CallLines),
               consent |-> CASE cmd.action = "read" \/ cmd.confirm -> "given"
                             [] cmd.action = "write" /\ ~cmd.confirm
                                  /\ (cmd.fromStdin \/ ~cmd.terminal) -> "refused"
                             [] OTHER -> "ask",
               dry |-> cmd.dryRun]

PhaseOf == CASE stage = "returned" -> "exited"
             [] stage # "returned" /\ JobOf = NoJob -> "argv"
             [] OTHER -> CASE stage \in {"start", "explain"} -> "started"
                           [] stage = "gate" -> IF Prompting THEN "asking" ELSE "started"
                           [] stage = "line" -> "ready"
                           [] OTHER -> "waiting"

Process == INSTANCE OtcatProcess WITH
               Jobs <- [writes : BOOLEAN, calls : 0..MaxLines,
                        consent : {"given", "ask", "refused"}, dry : BOOLEAN],
               job <- JobOf, phase <- PhaseOf, done <- Len(applied), acked <- Len(acked),
               inflight <- Underway

IsOtcatProcess == Process!Spec
=============================================================================
