---------------------------- MODULE PyAudit_proofs ----------------------------
(***************************************************************************)
(* Proofs about PyCall and PyAudit: every call, sweep and fingerprint of   *)
(* the Python client, for every timeout, range and number of samples.      *)
(***************************************************************************)
EXTENDS PyAudit, FiniteSetTheorems, SequenceTheorems, TLAPS

(***************************************************************************)
(* The invariant of a call and its process.                                *)
(***************************************************************************)
OpType == [kind : {"read", "write", "dry_run"}, confirm : BOOLEAN, addr : Nat]

CallTypeOK == /\ api \in {"sync", "async"}
              /\ op \in OpType
              /\ py \in {"idle", "waiting", "done"}
              /\ phase \in {"argv", "started", "asking", "ready", "waiting", "exited"}
              /\ done \in {0, 1} /\ acked \in {0, 1} /\ acked <= done
              /\ inflight \in BOOLEAN /\ asked \in BOOLEAN
              /\ clock \in Nat /\ left \in Nat /\ slack \in Nat

(* The job is the one of the operation, once the command line is read. *)
HasJob == /\ phase = "argv" => job = NoJob
          /\ phase \in {"started", "asking", "ready", "waiting"} => job = JobFor(op)
          /\ phase = "exited" => job \in {NoJob, JobFor(op)}

(* The single call of the job is made once, and only when it may be. *)
OneCall == /\ inflight => done = 0
           /\ phase \in {"argv", "started", "asking"} => done = 0 /\ ~inflight
           /\ phase = "ready" => done = acked /\ ~inflight
           /\ phase = "waiting" => acked = 0

Permitted == /\ phase = "asking" => asked /\ op.kind # "dry_run"
             /\ phase \in {"ready", "waiting"} \/ done = 1 \/ inflight =>
                   /\ op.kind # "dry_run"
                   /\ Writes => op.confirm \/ asked

(* What an exit code says of the device, and what the outcome makes of it. *)
Coded == /\ exit = "none" <=> phase # "exited"
         /\ exit = "ok" => op.kind = "dry_run" \/ done = 1
         /\ exit \in {"protocol", "aborted"} => done = 0 /\ ~inflight
         /\ exit = "usage" /\ Writes => done = 0 /\ ~inflight

Concluded ==
    py = "done" =>
        \/ outcome = "thrown" /\ (api = "sync" => phase = "exited")
        \/ outcome = "Timeout" /\ phase = "exited"
        \/ phase = "exited" /\ outcome = IF exit = "ok" THEN "ok" ELSE ErrorFor(exit)

(* Time spent and time that may still be spent before the next deadline is *)
(* set, as long as nobody was asked: the slack once, the dial once, the    *)
(* request once.                                                           *)
Spent == CASE phase = "argv" -> Slack
           [] phase = "started" \/ (phase = "ready" /\ acked = 0) -> Slack + DialTimeout
           [] OTHER -> Slack + DialTimeout + Timeout

InTime == /\ ~asked => clock + left + slack <= Spent
          /\ outcome = "Timeout" /\ Slack <= 1 => asked

CallIInv == /\ CallTypeOK /\ HasJob /\ OneCall /\ Permitted /\ Coded /\ Concluded
            /\ InTime

LEMMA JobFields ==
    ASSUME NEW o \in OpType
    PROVE  /\ JobFor(o).writes = (o.kind # "read")
           /\ JobFor(o).calls = 1
           /\ JobFor(o).dry = (o.kind = "dry_run")
           /\ o.kind = "write" => (JobFor(o).consent = "given" <=> o.confirm)
           /\ ~NoJob.writes /\ NoJob.dry /\ NoJob.calls = 0
  BY DEF JobFor, Job, NoJob, OpType

LEMMA CallInitIInv == CallInit => CallIInv
  <1> SUFFICES ASSUME CallInit PROVE CallIInv
    OBVIOUS
  <1>1. op \in OpType
    BY DEF CallInit, ReadOf, Call1, OpType
  <1>2. inflight \in BOOLEAN /\ asked \in BOOLEAN
    BY DEF CallInit, Init
  <1>3. CallTypeOK
    BY <1>1, <1>2 DEF CallInit, Init, CallTypeOK
  <1>4. HasJob /\ OneCall /\ Permitted /\ Coded /\ Concluded
    BY DEF CallInit, Init, HasJob, OneCall, Permitted, Coded, Concluded
  <1>5. InTime
    BY TimeAssumption DEF CallInit, Init, InTime, Spent
  <1> QED BY <1>3, <1>4, <1>5 DEF CallIInv

LEMMA BeginKeeps ==
    ASSUME CallIInv, NEW o \in OpType, Begin(o)
    PROVE  CallIInv'
  <1>0. inflight' \in BOOLEAN /\ asked' \in BOOLEAN
    BY DEF Begin
  <1>1. CallTypeOK'
    BY <1>0, TimeAssumption DEF Begin, CallIInv, CallTypeOK
  <1>2. HasJob' /\ OneCall' /\ Permitted' /\ Coded' /\ Concluded'
    BY DEF Begin, HasJob, OneCall, Permitted, Coded, Concluded
  <1>3. InTime'
    BY TimeAssumption DEF Begin, InTime, Spent
  <1> QED BY <1>1, <1>2, <1>3 DEF CallIInv

(* The process's own steps: the call is waiting, or was abandoned. *)
LEMMA RunsKeeps == CallIInv /\ Runs => CallIInv'
  <1> SUFFICES ASSUME CallIInv, Runs PROVE CallIInv'
    OBVIOUS
  <1> USE DEF CallIInv
  <1>1. UNCHANGED <<api, stdin, op, py, outcome, clock, slack>>
    BY DEF Runs, Deadline
  <1>2. op \in OpType
    BY DEF CallTypeOK
  <1> DEFINE j == JobFor(op)
  <1>3. /\ j.writes = (op.kind # "read")
        /\ j.calls = 1
        /\ j.dry = (op.kind = "dry_run")
        /\ op.kind = "write" => (j.consent = "given" <=> op.confirm)
        /\ ~NoJob.writes /\ NoJob.dry /\ NoJob.calls = 0
    BY <1>2, JobFields
  <1>4. JobFor(op)' = j
    BY <1>1 DEF JobFor
  <1> HIDE DEF j
  <1>5. CASE Accept /\ job' = JobFor(op) /\ Deadline(DialTimeout) /\ UNCHANGED asked
    BY <1>1, <1>2, <1>4, <1>5, TimeAssumption
       DEF Accept, Deadline, DialTimeout, CallTypeOK, HasJob, OneCall, Permitted, Coded,
           Concluded, InTime, Spent, Writes, j
  <1>6. CASE Ask /\ Deadline(0) /\ asked' = TRUE
    BY <1>1, <1>2, <1>3, <1>4, <1>6, TimeAssumption
       DEF Ask, Goes, Deadline, DialTimeout, CallTypeOK, HasJob, OneCall, Permitted, Coded,
           Concluded, InTime, Spent, Writes, j
  <1>7. CASE Proceed /\ Deadline(0) /\ UNCHANGED asked
    <2>1. Permitted'
      BY <1>1, <1>2, <1>3, <1>4, <1>7
         DEF Proceed, Goes, CallTypeOK, HasJob, OneCall, Permitted, Writes, OpType, j
    <2>2. /\ phase' = "ready" /\ phase \in {"started", "asking"} /\ left' = 0
          /\ UNCHANGED <<job, done, acked, inflight, exit, asked>>
      BY <1>7 DEF Proceed, Goes, Deadline
    <2>3. CallTypeOK' /\ HasJob' /\ OneCall' /\ Coded' /\ Concluded'
      BY <1>1, <1>4, <2>2 DEF CallTypeOK, HasJob, OneCall, Coded, Concluded, Writes, j
    <2>4. InTime'
      BY <1>1, <2>2, TimeAssumption
         DEF DialTimeout, CallTypeOK, OneCall, Permitted, InTime, Spent
    <2> QED BY <2>1, <2>3, <2>4
  <1>8. CASE Call /\ Deadline(Timeout) /\ UNCHANGED asked
    <2>1. acked = 0
      BY <1>3, <1>8 DEF Call, HasJob, CallTypeOK, j
    <2> QED BY <1>1, <1>2, <1>4, <1>8, <2>1, TimeAssumption
       DEF Call, Deadline, DialTimeout, CallTypeOK, HasJob, OneCall, Permitted, Coded,
           Concluded, InTime, Spent, Writes, j
  <1>9. CASE Acknowledge /\ Deadline(0) /\ UNCHANGED asked
    BY <1>1, <1>2, <1>4, <1>9, TimeAssumption
       DEF Acknowledge, Goes, Deadline, DialTimeout, CallTypeOK, HasJob, OneCall, Permitted,
           Coded, Concluded, InTime, Spent, Writes, j
  <1>10. ASSUME NEW code \in Codes, Exit(code), code = "ok" => phase # "argv",
                code = "usage" => acked = 0, Deadline(0), UNCHANGED asked
         PROVE  CallIInv'
    <2>1. /\ phase # "exited" /\ phase' = "exited" /\ exit' = code /\ left' = 0
          /\ UNCHANGED <<job, done, acked, inflight, asked>>
      BY <1>10 DEF Exit, Deadline
    <2>2. MayExit(code)
      BY <1>10 DEF Exit
    <2>3. job \in {NoJob, JobFor(op)}
      BY <2>1 DEF HasJob, CallTypeOK
    <2>4. CASE code = "ok"
      <3>1. op.kind = "dry_run" \/ done = 1
        BY <1>3, <1>10, <2>2, <2>4 DEF MayExit, HasJob, OneCall, CallTypeOK, j
      <3> QED BY <1>1, <1>2, <1>4, <2>1, <2>3, <2>4, <3>1, TimeAssumption
         DEF DialTimeout, CallTypeOK, HasJob, OneCall, Permitted, Coded, Concluded, InTime,
             Spent, Writes, j
    <2>5. CASE code = "usage"
      <3>1. Writes => done = 0 /\ ~inflight
        BY <1>3, <1>10, <2>1, <2>2, <2>5 DEF MayExit, HasJob, OneCall, CallTypeOK, Writes, j
      <3> QED BY <1>1, <1>2, <1>4, <2>1, <2>3, <2>5, <3>1, TimeAssumption
         DEF DialTimeout, CallTypeOK, HasJob, OneCall, Permitted, Coded, Concluded, InTime,
             Spent, Writes, j
    <2>6. CASE code \in {"protocol", "aborted"}
      <3>1. done = 0 /\ ~inflight
        BY <2>2, <2>6 DEF MayExit, OneCall, CallTypeOK
      <3> QED BY <1>1, <1>2, <1>4, <2>1, <2>3, <2>6, <3>1, TimeAssumption
         DEF DialTimeout, CallTypeOK, HasJob, OneCall, Permitted, Coded, Concluded, InTime,
             Spent, Writes, j
    <2>7. CASE code \in {"connection", "io"}
      BY <1>1, <1>2, <1>4, <2>1, <2>3, <2>7, TimeAssumption
         DEF DialTimeout, CallTypeOK, HasJob, OneCall, Permitted, Coded, Concluded, InTime,
             Spent, Writes, j
    <2> QED BY <2>4, <2>5, <2>6, <2>7 DEF Codes
  <1> QED BY <1>5, <1>6, <1>7, <1>8, <1>9, <1>10 DEF Runs

LEMMA DeviceKeeps == CallIInv /\ Device => CallIInv'
  <1> SUFFICES ASSUME CallIInv, Device PROVE CallIInv'
    OBVIOUS
  <1>1. /\ inflight /\ inflight' = FALSE /\ done' \in {done, done + 1}
        /\ UNCHANGED <<job, phase, acked, exit, api, stdin, op, py, outcome, clock, left,
                       slack, asked>>
    BY DEF Device, TakeEffect, Lose, Deadline
  <1>2. done = 0
    BY <1>1 DEF CallIInv, OneCall
  <1>3. inflight' \in BOOLEAN /\ JobFor(op)' = JobFor(op)
    BY <1>1 DEF JobFor
  <1>4. CallTypeOK' /\ OneCall'
    BY <1>1, <1>2, <1>3 DEF CallIInv, CallTypeOK, OneCall
  <1>6. HasJob' /\ Permitted' /\ Coded' /\ Concluded'
    BY <1>1, <1>2, <1>3 DEF CallIInv, HasJob, Permitted, Coded, Concluded, Writes
  <1>5. InTime'
    BY <1>1 DEF CallIInv, InTime, Spent
  <1> QED BY <1>4, <1>5, <1>6 DEF CallIInv

(* A process that is killed leaves what it did to the device, and its exit *)
(* code says nothing of it.                                                *)
LEMMA EndsKeeps ==
    ASSUME CallIInv, Ends("killed"), left' \in {0, left},
           UNCHANGED <<api, stdin, op, clock, slack, asked>>,
           py' \in {"waiting", "done"},
           \/ py' = "waiting" /\ outcome' = outcome
           \/ py' = "done" /\ outcome' = "thrown"
           \/ py' = "done" /\ outcome' = "Timeout" /\ (Slack <= 1 => asked)
    PROVE  CallIInv'
  BY TimeAssumption
     DEF Ends, JobFor, DialTimeout, CallIInv, CallTypeOK, HasJob, OneCall, Permitted, Coded,
         Concluded, InTime, Spent, Writes

(* The watchdog of a call that nobody was asked about never bites. *)
LEMMA WatchdogIsLate ==
    ASSUME CallIInv, clock = Watchdog, Slack <= 1
    PROVE  asked
  <1> SUFFICES ASSUME ~asked PROVE FALSE
    BY DEF CallIInv, CallTypeOK
  <1>1. clock <= Slack + DialTimeout + Timeout
    BY TimeAssumption DEF CallIInv, CallTypeOK, InTime, Spent, DialTimeout
  <1> QED BY <1>1, TimeAssumption DEF Watchdog, DialTimeout

LEMMA CallNextKeeps == CallIInv /\ CallNext => CallIInv'
  <1> SUFFICES ASSUME CallIInv, CallNext PROVE CallIInv'
    OBVIOUS
  <1>1. CASE Runs \/ Device
    BY <1>1, RunsKeeps, DeviceKeeps
  <1>2. CASE Dies
    BY <1>2, EndsKeeps DEF Dies, Deadline
  <1>3. CASE Tick
    BY <1>3, TimeAssumption
       DEF Tick, jobVars, JobFor, DialTimeout, CallIInv, CallTypeOK, HasJob, OneCall,
           Permitted, Coded, Concluded, InTime, Spent, Writes
  <1>4. CASE Collect
    <2>1. ErrorFor(exit) # "Timeout"
      BY DEF ErrorFor
    <2> QED BY <1>4, <2>1
       DEF Collect, ReturnWith, jobVars, JobFor, CallIInv, CallTypeOK, HasJob, OneCall,
           Permitted, Coded, Concluded, InTime, Spent, Writes
  <1>5. CASE WatchdogBites
    <2>1. Slack <= 1 => asked
      BY <1>5, WatchdogIsLate DEF WatchdogBites
    <2>2. CASE phase = "exited"
      BY <1>5, <2>1, <2>2
         DEF WatchdogBites, Kill, ReturnWith, jobVars, JobFor, CallIInv, CallTypeOK, HasJob,
             OneCall, Permitted, Coded, Concluded, InTime, Spent, Writes
    <2>3. CASE phase # "exited"
      BY <1>5, <2>1, <2>3, EndsKeeps DEF WatchdogBites, Kill, ReturnWith
    <2> QED BY <2>2, <2>3
  <1>6. CASE Thrown
    <2>1. CASE api = "sync" /\ phase # "exited"
      BY <1>6, <2>1, EndsKeeps DEF Thrown, Kill, ReturnWith
    <2>2. CASE ~(api = "sync" /\ phase # "exited")
      BY <1>6, <2>2
         DEF Thrown, Kill, ReturnWith, jobVars, JobFor, CallIInv, CallTypeOK, HasJob,
             OneCall, Permitted, Coded, Concluded, InTime, Spent, Writes
    <2> QED BY <2>1, <2>2
  <1>7. CASE Dropped
    BY <1>7, EndsKeeps DEF Dropped
  <1> QED BY <1>1, <1>2, <1>3, <1>4, <1>5, <1>6, <1>7 DEF CallNext, Waits

-----------------------------------------------------------------------------
(***************************************************************************)
(* The invariant of the caller: what it was asked to do, how far it is,    *)
(* and what it has recorded of the reads so far.                           *)
(***************************************************************************)
Answers == {"refused", "carried out", "nothing"}
Entries == [address : Nat, responsive : BOOLEAN, exception : BOOLEAN]
Fingerprints == [reachable : BOOLEAN, tables_responsive : Seq(BOOLEAN)]

AuditTypeOK == /\ task \in Tasks
               /\ auditor \in {"working", "returned", "raised"}
               /\ steps \in Nat /\ samples \in Nat
               /\ heard \in Seq(Answers) /\ Len(heard) = steps
               /\ report \in Seq(Entries)
               /\ fp \in Fingerprints

(* A sweep and a fingerprint only read, and a read is made only if it is   *)
(* one of theirs; they return when none is left.                           *)
OwnReads == task.kind # "call" =>
               /\ op.kind = "read" /\ api = "sync"
               /\ py # "idle" => ReadsLeft
               /\ auditor = "returned" => ~ReadsLeft /\ py = "idle"

Sweeping == IF task.kind = "scan"
            THEN /\ Len(report) = steps /\ steps <= task.count
                 /\ py # "idle" => op.addr = Start + steps
                 /\ \A i \in 1..Len(report) :
                       /\ report[i].address = Start + i - 1
                       /\ report[i].responsive => heard[i] = "carried out"
                       /\ report[i].exception <=> heard[i] = "refused"
            ELSE report = <<>>

CarriedOut(h) == {i \in 5..Len(h) : h[i] = "carried out"}

Probing ==
    task.kind = "fingerprint" =>
        /\ Len(fp.tables_responsive) = IF steps < 4 THEN steps ELSE 4
        /\ steps <= 4 \/ (fp.reachable /\ steps <= 4 + task.samples)
        /\ \A i \in 1..Len(fp.tables_responsive) :
              /\ fp.tables_responsive[i] => heard[i] = "carried out"
              /\ heard[i] = "refused" \/ fp.tables_responsive[i] => fp.reachable
        /\ fp.reachable => \E i \in 1..Len(heard) : heard[i] # "nothing"
        /\ samples <= Cardinality(CarriedOut(heard))

AuditIInv == CallIInv /\ AuditTypeOK /\ OwnReads /\ Sweeping /\ Probing

LEMMA TaskFacts ==
    ASSUME task \in Tasks
    PROVE  /\ task.kind \in {"call", "scan", "fingerprint"}
           /\ task.kind = "call" => task.op \in OpType
           /\ task.kind = "scan" => task.count \in Nat
           /\ task.kind = "fingerprint" => task.samples \in Nat
  <1>1. CASE task \in {[kind |-> "call", op |-> o] : o \in Operations}
    BY <1>1, OperationsAssumption DEF OpType
  <1>2. CASE task \in {[kind |-> "scan", count |-> c] : c \in 0..MaxCount}
    BY <1>2
  <1>3. CASE task \in {[kind |-> "fingerprint", samples |-> s] : s \in 0..MaxSamples}
    BY <1>3
  <1> QED BY <1>1, <1>2, <1>3 DEF Tasks

LEMMA StartIsNat == Start \in Nat
  BY AuditAssumption

(* Appending an answer: the earlier ones stay where they are. *)
LEMMA Appended ==
    ASSUME NEW S, NEW q \in Seq(S), NEW x \in S
    PROVE  /\ Append(q, x) \in Seq(S) /\ Len(Append(q, x)) = Len(q) + 1
           /\ \A i \in 1..Len(q) : Append(q, x)[i] = q[i]
           /\ Append(q, x)[Len(q) + 1] = x
           /\ Len(q) \in Nat
           /\ \A i \in 1..(Len(q) + 1) : i \in 1..Len(q) \/ i = Len(q) + 1
           /\ Len(q) + 1 \in 1..(Len(q) + 1)
           /\ \A i \in 1..Len(q) : i \in 1..(Len(q) + 1)
  <1>1. Len(q) \in Nat
    BY LenProperties
  <1>2. \A n \in Nat : /\ \A i \in 1..(n + 1) : i \in 1..n \/ i = n + 1
                       /\ n + 1 \in 1..(n + 1)
                       /\ \A i \in 1..n : i \in 1..(n + 1)
    OBVIOUS
  <1> QED BY <1>1, <1>2, AppendProperties

LEMMA CarriedOutGrows ==
    ASSUME NEW h \in Seq(Answers), NEW w \in Answers
    PROVE  /\ Cardinality(CarriedOut(h)) \in Nat
           /\ Cardinality(CarriedOut(Append(h, w))) \in Nat
           /\ Cardinality(CarriedOut(h)) <= Cardinality(CarriedOut(Append(h, w)))
           /\ w = "carried out" /\ Len(h) >= 4 =>
                 Cardinality(CarriedOut(Append(h, w))) = Cardinality(CarriedOut(h)) + 1
  <1> DEFINE C == CarriedOut(h)
             g == Append(h, w)
             D == CarriedOut(g)
             n == Len(h) + 1
  <1>1. Len(h) \in Nat
    BY LenProperties
  <1>2. /\ Len(g) = n
        /\ \A i \in 1..Len(h) : g[i] = h[i]
        /\ g[n] = w
    BY Appended
  <1> HIDE DEF g
  <1>3. /\ \A i : i \in C <=> i \in 5..Len(h) /\ h[i] = "carried out"
        /\ \A i : i \in D <=> i \in 5..n /\ g[i] = "carried out"
    BY <1>2 DEF CarriedOut
  <1> HIDE DEF C, D
  <1>4. IsFiniteSet(C) /\ IsFiniteSet(D)
    <2>1. IsFiniteSet(5..Len(h)) /\ IsFiniteSet(5..n)
      BY <1>1, FS_Interval
    <2>2. C \in SUBSET (5..Len(h)) /\ D \in SUBSET (5..n)
      BY <1>3
    <2> QED BY <2>1, <2>2, FS_Subset
  <1>5. C \in SUBSET D
    <2>1. \A i \in 5..Len(h) : i \in 1..Len(h) /\ i \in 5..n
      BY <1>1
    <2> QED BY <1>2, <1>3, <2>1
  <1>6. Cardinality(C) \in Nat /\ Cardinality(D) \in Nat
    BY <1>4, FS_CardinalityType
  <1>7. Cardinality(C) <= Cardinality(D)
    BY <1>4, <1>5, FS_Subset
  <1>8. ASSUME w = "carried out", Len(h) >= 4
        PROVE  Cardinality(D) = Cardinality(C) + 1
    <2>0. n \notin 5..Len(h) /\ n \in 5..n
      <3>1. \A m \in Nat : m >= 4 => m + 1 \notin 5..m /\ m + 1 \in 5..(m + 1)
        OBVIOUS
      <3> QED BY <1>1, <1>8, <3>1
    <2> HIDE DEF n
    <2>1. n \notin C
      BY <1>3, <2>0
    <2>2. n \in D
      BY <1>2, <1>3, <1>8, <2>0
    <2>3. \A i \in D : i \in C \/ i = n
      <3>1. \A i \in 5..n : i = n \/ (i \in 5..Len(h) /\ i \in 1..Len(h))
        BY <1>1 DEF n
      <3> QED BY <1>2, <1>3, <3>1
    <2>4. D = C \cup {n}
      BY <1>5, <2>2, <2>3
    <2> QED BY <1>4, <2>1, <2>4, FS_AddElement
  <1> QED BY <1>6, <1>7, <1>8 DEF C, D, g

LEMMA AuditInitIInv == AuditInit => AuditIInv
  <1> SUFFICES ASSUME AuditInit PROVE AuditIInv
    OBVIOUS
  <1>1. CallIInv
    BY CallInitIInv DEF AuditInit
  <1>2. AuditTypeOK
    BY DEF AuditInit, AuditTypeOK, Fingerprints
  <1>3. OwnReads
    BY DEF AuditInit, CallInit, ReadOf, Call1, OwnReads
  <1>4. Sweeping
    BY <1>2, TaskFacts DEF AuditInit, CallInit, AuditTypeOK, Sweeping
  <1>5. Probing
    <2>1. CarriedOut(<<>>) = {}
      BY DEF CarriedOut
    <2>2. Cardinality({}) = 0
      BY FS_EmptySet
    <2>3. /\ heard = <<>> /\ fp.tables_responsive = <<>> /\ ~fp.reachable
          /\ steps = 0 /\ samples = 0
      BY DEF AuditInit
    <2>4. samples <= Cardinality(CarriedOut(heard))
      <3>1. Cardinality(CarriedOut(heard)) = 0
        BY <2>1, <2>2, <2>3
      <3> QED BY <2>3, <3>1
    <2>5. Len(fp.tables_responsive) = 0
      BY <2>3
    <2> QED BY <2>3, <2>4, <2>5 DEF Probing
  <1> QED BY <1>1, <1>2, <1>3, <1>4, <1>5 DEF AuditIInv

LEMMA BeginNextKeeps == AuditIInv /\ BeginNext => AuditIInv'
  <1> SUFFICES ASSUME AuditIInv, BeginNext PROVE AuditIInv'
    OBVIOUS
  <1>1. /\ auditor = "working" /\ ReadsLeft /\ Begin(NextCall) /\ UNCHANGED auditVars
        /\ op' = NextCall /\ api' = api
    BY DEF BeginNext, Begin
  <1>2. /\ task.kind \in {"call", "scan", "fingerprint"}
        /\ task.kind = "call" => task.op \in OpType
        /\ steps \in Nat
    BY TaskFacts DEF AuditIInv, AuditTypeOK
  <1>3. NextCall \in OpType
    BY <1>2, StartIsNat DEF NextCall, ReadOf, Call1, OpType
  <1>4. CallIInv'
    BY <1>1, <1>3, BeginKeeps DEF AuditIInv
  <1>5. AuditTypeOK' /\ Probing'
    BY <1>1 DEF AuditIInv, AuditTypeOK, Probing, auditVars
  <1>6. task.kind # "call" => NextCall.kind = "read"
    BY <1>2 DEF NextCall, ReadOf, Call1
  <1>7. ReadsLeft' = ReadsLeft
    BY <1>1 DEF ReadsLeft, ProbesLeft, SamplesLeft, auditVars
  <1>8. OwnReads'
    BY <1>1, <1>6, <1>7 DEF AuditIInv, OwnReads, auditVars
  <1>9. task.kind = "scan" => NextCall.addr = Start + steps
    BY DEF NextCall, ReadOf, Call1
  <1>10. Sweeping'
    BY <1>1, <1>9 DEF AuditIInv, Sweeping, auditVars
  <1> QED BY <1>4, <1>5, <1>8, <1>10 DEF AuditIInv

(***************************************************************************)
(* What a read that is recorded says of the device.                        *)
(***************************************************************************)
Heard == CASE exit = "protocol" -> "refused"
           [] done = 1 -> "carried out"
           [] OTHER -> "nothing"

LEMMA HeardRight ==
    ASSUME CallIInv, py = "done", Recorded, op.kind = "read"
    PROVE  /\ Heard \in Answers
           /\ outcome = "ok" => Heard = "carried out"
           /\ outcome = "ProtocolError" <=> Heard = "refused"
           /\ outcome # "ConnectionError" => Heard # "nothing"
  <1>1. /\ outcome = IF exit = "ok" THEN "ok" ELSE ErrorFor(exit)
        /\ exit = "ok" => done = 1
        /\ exit = "protocol" => done = 0
    BY DEF CallIInv, Concluded, Coded, Recorded
  <1>2. /\ ErrorFor(exit) # "ok"
        /\ ErrorFor(exit) = "ProtocolError" <=> exit = "protocol"
    BY DEF ErrorFor
  <1>3. CASE exit = "ok"
    <2>1. outcome = "ok" /\ done = 1
      BY <1>1, <1>3
    <2>2. Heard = "carried out"
      BY <1>3, <2>1 DEF Heard
    <2> QED BY <2>1, <2>2 DEF Answers
  <1>4. CASE exit = "protocol"
    <2>1. outcome = "ProtocolError"
      BY <1>1, <1>2, <1>4
    <2>2. Heard = "refused"
      BY <1>1, <1>4 DEF Heard
    <2> QED BY <2>1, <2>2 DEF Answers
  <1>5. CASE exit \notin {"ok", "protocol"}
    <2>1. outcome = "ConnectionError"
      BY <1>1, <1>2, <1>5 DEF Recorded
    <2>2. Heard \in {"carried out", "nothing"}
      BY <1>5 DEF Heard
    <2> QED BY <2>1, <2>2 DEF Answers
  <1> QED BY <1>3, <1>4, <1>5

(* A call that is over stays as it is while it is recorded. *)
LEMMA RecordedCall ==
    ASSUME CallIInv, UNCHANGED <<jobVars, api, stdin, op, outcome, clock, left, slack, asked>>,
           py' = "idle"
    PROVE  CallIInv'
  <1>1. JobFor(op)' = JobFor(op) /\ Spent' = Spent
    BY DEF JobFor, Spent, jobVars
  <1>2. CallTypeOK' /\ HasJob' /\ OneCall'
    BY <1>1 DEF jobVars, CallIInv, CallTypeOK, HasJob, OneCall
  <1>3. Permitted' /\ Coded' /\ Concluded'
    BY DEF jobVars, CallIInv, Permitted, Coded, Concluded, Writes
  <1>4. InTime'
    BY <1>1 DEF jobVars, CallIInv, InTime
  <1> QED BY <1>2, <1>3, <1>4 DEF CallIInv

LEMMA SameCall == CallIInv /\ UNCHANGED callVars => CallIInv'
  <1> SUFFICES ASSUME CallIInv, UNCHANGED callVars PROVE CallIInv'
    OBVIOUS
  <1>1. /\ UNCHANGED <<job, phase, done, acked, inflight, exit>>
        /\ UNCHANGED <<api, stdin, op, py, outcome, clock, left, slack, asked>>
    BY DEF callVars, jobVars
  <1>2. JobFor(op)' = JobFor(op) /\ Spent' = Spent
    BY <1>1 DEF JobFor, Spent
  <1>3. CallTypeOK' /\ HasJob' /\ OneCall'
    BY <1>1, <1>2 DEF CallIInv, CallTypeOK, HasJob, OneCall
  <1>4. Permitted' /\ Coded' /\ Concluded'
    BY <1>1 DEF CallIInv, Permitted, Coded, Concluded, Writes
  <1>5. InTime'
    BY <1>1, <1>2 DEF CallIInv, InTime
  <1> QED BY <1>3, <1>4, <1>5 DEF CallIInv

LEMMA Transitive ==
    \A x, y, z \in Nat : x <= y /\ y <= z =>
        x <= z /\ (z = y + 1 => x + 1 \in Nat /\ x + 1 <= z)
  OBVIOUS

LEMMA RecordKeeps == AuditIInv /\ Record => AuditIInv'
  <1> SUFFICES ASSUME AuditIInv, Record PROVE AuditIInv'
    OBVIOUS
  <1>1. /\ auditor = "working" /\ py = "done" /\ task.kind # "call" /\ Recorded
        /\ steps' = steps + 1 /\ heard' = Append(heard, Heard) /\ py' = "idle"
        /\ UNCHANGED <<jobVars, api, stdin, op, outcome, clock, left, slack, asked, task,
                       auditor>>
    BY DEF Record, Heard
  <1>2. /\ op.kind = "read" /\ api = "sync" /\ ReadsLeft
    BY <1>1 DEF AuditIInv, OwnReads
  <1>3. /\ Heard \in Answers
        /\ outcome = "ok" => Heard = "carried out"
        /\ outcome = "ProtocolError" <=> Heard = "refused"
        /\ outcome # "ConnectionError" => Heard # "nothing"
    BY <1>1, <1>2, HeardRight DEF AuditIInv
  <1>4. CallIInv'
    BY <1>1, RecordedCall DEF AuditIInv
  <1>5. /\ task \in Tasks
        /\ task.kind \in {"scan", "fingerprint"}
        /\ task.kind = "scan" => task.count \in Nat
        /\ task.kind = "fingerprint" => task.samples \in Nat
    BY <1>1, TaskFacts DEF AuditIInv, AuditTypeOK
  <1>6. /\ steps \in Nat /\ samples \in Nat
        /\ heard \in Seq(Answers) /\ Len(heard) = steps
        /\ report \in Seq(Entries) /\ fp \in Fingerprints
    BY DEF AuditIInv, AuditTypeOK
  <1>12. steps \in Nat /\ samples \in Nat
    BY <1>6
  <1>7. /\ heard' \in Seq(Answers) /\ Len(heard') = steps'
        /\ \A i \in 1..steps : heard'[i] = heard[i]
        /\ heard'[steps + 1] = Heard
        /\ task' \in Tasks /\ auditor' = "working" /\ steps' \in Nat
        /\ \A i \in 1..(steps + 1) : i \in 1..steps \/ i = steps + 1
        /\ steps + 1 \in 1..(steps + 1)
        /\ \A i \in 1..steps : i \in 1..(steps + 1)
    <2> DEFINE x == Heard
    <2> HIDE DEF x
    <2>1. x \in Answers /\ heard' = Append(heard, x)
      BY <1>1, <1>3 DEF x
    <2>2. /\ Append(heard, x) \in Seq(Answers) /\ Len(Append(heard, x)) = Len(heard) + 1
          /\ \A i \in 1..Len(heard) : Append(heard, x)[i] = heard[i]
          /\ Append(heard, x)[Len(heard) + 1] = x
          /\ \A i \in 1..(Len(heard) + 1) : i \in 1..Len(heard) \/ i = Len(heard) + 1
          /\ Len(heard) + 1 \in 1..(Len(heard) + 1)
          /\ \A i \in 1..Len(heard) : i \in 1..(Len(heard) + 1)
      BY <1>6, <2>1, Appended
    <2> QED BY <1>1, <1>5, <1>6, <2>1, <2>2 DEF x
  <1>8. OwnReads'
    BY <1>1, <1>2, <1>7 DEF OwnReads
  <1>9. ASSUME Scanned PROVE AuditTypeOK' /\ Sweeping' /\ Probing'
    <2> DEFINE e == [address |-> op.addr, responsive |-> outcome = "ok",
                     exception |-> outcome = "ProtocolError"]
    <2>1. task.kind = "scan" /\ report' = Append(report, e) /\ UNCHANGED <<fp, samples>>
      BY <1>9 DEF Scanned
    <2>2. /\ Len(report) = steps /\ steps < task.count /\ op.addr = Start + steps
          /\ \A i \in 1..Len(report) :
                /\ report[i].address = Start + i - 1
                /\ report[i].responsive => heard[i] = "carried out"
                /\ report[i].exception <=> heard[i] = "refused"
      BY <1>1, <1>2, <2>1 DEF AuditIInv, Sweeping, ReadsLeft
    <2>3. e \in Entries
      <3>1. op.addr \in Nat
        <4>1. Start + steps \in Nat
          BY <1>12, StartIsNat
        <4> QED BY <2>2, <4>1
      <3> QED BY <3>1 DEF Entries
    <2>4. /\ e.address = Start + steps
          /\ e.responsive => Heard = "carried out"
          /\ e.exception <=> Heard = "refused"
      BY <1>3, <2>2
    <2> HIDE DEF e
    <2>5. /\ report' \in Seq(Entries) /\ Len(report') = steps + 1
          /\ \A i \in 1..steps : report'[i] = report[i]
          /\ report'[steps + 1] = e
      <3>1. report \in Seq(Entries) /\ Len(report) = steps
        BY <1>6, <2>2
      <3>2. /\ Append(report, e) \in Seq(Entries) /\ Len(Append(report, e)) = Len(report) + 1
            /\ \A i \in 1..Len(report) : Append(report, e)[i] = report[i]
            /\ Append(report, e)[Len(report) + 1] = e
        BY <2>3, <3>1, Appended
      <3> QED BY <2>1, <3>1, <3>2
    <2>6. ASSUME NEW i \in 1..Len(report')
          PROVE  /\ report'[i].address = Start + i - 1
                 /\ report'[i].responsive => heard'[i] = "carried out"
                 /\ report'[i].exception <=> heard'[i] = "refused"
      <3>1. CASE i \in 1..steps
        BY <1>7, <2>2, <2>5, <3>1
      <3>2. CASE i = steps + 1
        <4>1. Start + i - 1 = Start + steps
          BY <1>6, <3>2, StartIsNat
        <4>2. report'[i] = e /\ heard'[i] = Heard
          BY <1>7, <2>5, <3>2
        <4> QED BY <2>4, <4>1, <4>2
      <3> QED BY <1>7, <2>5, <3>1, <3>2
    <2>7. Sweeping'
      <3>0. task.count \in Nat /\ steps < task.count
        BY <1>5, <2>1, <2>2
      <3>1. steps + 1 <= task.count
        BY <1>12, <3>0
      <3>2. Len(report') = steps' /\ steps' <= task'.count /\ task'.kind = "scan"
        BY <1>1, <2>1, <2>5, <3>1
      <3> QED BY <1>1, <2>6, <3>2 DEF Sweeping
    <2>8. AuditTypeOK'
      BY <1>6, <1>7, <2>1, <2>5 DEF AuditTypeOK
    <2> QED BY <1>1, <2>1, <2>7, <2>8 DEF Probing
  <1> DEFINE Ok == outcome = "ok"
  <1>10. ASSUME Probed PROVE AuditTypeOK' /\ Sweeping' /\ Probing'
    <2> DEFINE t == fp.tables_responsive
    <2>1. /\ task.kind = "fingerprint" /\ steps < 4
          /\ fp' = [reachable |-> fp.reachable \/ outcome # "ConnectionError",
                    tables_responsive |-> Append(t, Ok)]
          /\ UNCHANGED <<report, samples>>
      BY <1>10 DEF Probed, ProbesLeft, tables
    <2>2. t \in Seq(BOOLEAN) /\ Ok \in BOOLEAN /\ fp.reachable \in BOOLEAN
      BY <1>6 DEF Fingerprints
    <2>3. /\ Len(t) = steps /\ samples <= Cardinality(CarriedOut(heard))
          /\ \A i \in 1..Len(t) : /\ t[i] => heard[i] = "carried out"
                                  /\ heard[i] = "refused" \/ t[i] => fp.reachable
          /\ fp.reachable => \E i \in 1..Len(heard) : heard[i] # "nothing"
      BY <2>1 DEF AuditIInv, Probing
    <2>4. Ok => Heard = "carried out"
      BY <1>3
    <2>5. /\ fp'.reachable = (fp.reachable \/ outcome # "ConnectionError")
          /\ fp'.tables_responsive = Append(t, Ok)
          /\ Ok => outcome # "ConnectionError"
          /\ outcome = "ProtocolError" => outcome # "ConnectionError"
      BY <2>1
    <2> HIDE DEF t, Ok
    <2>6. /\ Append(t, Ok) \in Seq(BOOLEAN) /\ Len(Append(t, Ok)) = steps + 1
          /\ \A i \in 1..steps : Append(t, Ok)[i] = t[i]
          /\ Append(t, Ok)[steps + 1] = Ok
      <3>1. t \in Seq(BOOLEAN) /\ Ok \in BOOLEAN
        BY <2>2
      <3>2. /\ Append(t, Ok) \in Seq(BOOLEAN) /\ Len(Append(t, Ok)) = Len(t) + 1
            /\ \A i \in 1..Len(t) : Append(t, Ok)[i] = t[i]
            /\ Append(t, Ok)[Len(t) + 1] = Ok
        BY <3>1, Appended
      <3> QED BY <2>3, <3>2
    <2> DEFINE u == Append(t, Ok)
    <2> HIDE DEF u
    <2>7. ASSUME NEW i \in 1..Len(u)
          PROVE  /\ u[i] => heard'[i] = "carried out"
                 /\ heard'[i] = "refused" \/ u[i] => fp'.reachable
      <3>1. CASE i \in 1..steps
        BY <1>7, <2>3, <2>5, <2>6, <3>1 DEF u
      <3>2. CASE i = steps + 1
        BY <1>3, <1>7, <2>4, <2>5, <2>6, <3>2 DEF u
      <3> QED BY <1>7, <2>6, <3>1, <3>2 DEF u
    <2>8. ASSUME fp'.reachable
          PROVE  \E i \in 1..Len(heard') : heard'[i] # "nothing"
      <3>1. CASE fp.reachable
        <4>1. PICK i \in 1..Len(heard) : heard[i] # "nothing"
          BY <2>3, <3>1
        <4> QED BY <1>1, <1>6, <1>7, <4>1
      <3>2. CASE outcome # "ConnectionError"
        <4>1. steps + 1 \in 1..Len(heard')
          BY <1>1, <1>6, <1>7
        <4> QED BY <1>3, <1>7, <3>2, <4>1
      <3> QED BY <2>5, <2>8, <3>1, <3>2
    <2>9. samples' <= Cardinality(CarriedOut(heard'))
      <3>1. /\ Cardinality(CarriedOut(heard)) \in Nat
            /\ Cardinality(CarriedOut(Append(heard, Heard))) \in Nat
            /\ Cardinality(CarriedOut(heard)) <= Cardinality(CarriedOut(Append(heard, Heard)))
        BY <1>3, <1>6, CarriedOutGrows
      <3>2. samples <= Cardinality(CarriedOut(heard)) /\ samples' = samples
        BY <2>1, <2>3
      <3> DEFINE a == Cardinality(CarriedOut(heard))
                 b == Cardinality(CarriedOut(Append(heard, Heard)))
      <3>3. a \in Nat /\ b \in Nat /\ a <= b /\ samples <= a
        BY <3>1, <3>2
      <3> HIDE DEF a, b
      <3>4. samples <= b
        BY <1>12, <3>3
      <3> QED BY <1>1, <3>2, <3>4 DEF b
    <2>10. Probing'
      <3>1. /\ fp'.tables_responsive = u
            /\ Len(u) = IF steps' < 4 THEN steps' ELSE 4
            /\ steps' <= 4
        BY <1>1, <1>6, <2>1, <2>5, <2>6 DEF u
      <3> QED BY <2>7, <2>8, <2>9, <3>1 DEF Probing
    <2>11. AuditTypeOK'
      <3>1. fp' \in Fingerprints
        BY <2>1, <2>2, <2>6 DEF Fingerprints
      <3> QED BY <1>6, <1>7, <2>1, <3>1 DEF AuditTypeOK
    <2> QED BY <1>1, <2>1, <2>10, <2>11 DEF AuditIInv, Sweeping
  <1>11. ASSUME Sampled PROVE AuditTypeOK' /\ Sweeping' /\ Probing'
    <2>1. /\ task.kind = "fingerprint" /\ steps >= 4 /\ fp.reachable
          /\ steps < 4 + task.samples
          /\ samples' = samples + (IF Ok THEN 1 ELSE 0)
          /\ UNCHANGED <<report, fp>>
      BY <1>6, <1>11 DEF Sampled, SamplesLeft, ProbesLeft, tables
    <2>0. IF steps < 4 THEN FALSE ELSE TRUE
      BY <1>6, <2>1
    <2>2. /\ Len(fp.tables_responsive) = 4 /\ samples <= Cardinality(CarriedOut(heard))
          /\ \A i \in 1..4 :
                /\ fp.tables_responsive[i] => heard[i] = "carried out"
                /\ heard[i] = "refused" \/ fp.tables_responsive[i] => fp.reachable
          /\ \E i \in 1..Len(heard) : heard[i] # "nothing"
      <3>1. Len(fp.tables_responsive) = 4
        BY <2>0, <2>1 DEF AuditIInv, Probing
      <3> QED BY <2>1, <3>1 DEF AuditIInv, Probing
    <2>3. samples' \in Nat /\ samples' <= Cardinality(CarriedOut(heard'))
      <3>1. /\ Cardinality(CarriedOut(heard)) \in Nat
            /\ Cardinality(CarriedOut(heard')) \in Nat
            /\ Cardinality(CarriedOut(heard)) <= Cardinality(CarriedOut(heard'))
            /\ Heard = "carried out" =>
                 Cardinality(CarriedOut(heard')) = Cardinality(CarriedOut(heard)) + 1
        BY <1>1, <1>3, <1>6, <2>1, CarriedOutGrows
      <3>2. Ok => Heard = "carried out"
        BY <1>3
      <3>3. samples \in Nat /\ samples <= Cardinality(CarriedOut(heard))
        BY <1>12, <2>2
      <3>4. CASE outcome = "ok"
        <4>1. samples' = samples + 1
          BY <2>1, <3>4
        <4> QED BY <3>1, <3>2, <3>3, <3>4, <4>1, Transitive
      <3>5. CASE outcome # "ok"
        <4>1. samples' = samples
          BY <1>12, <2>1, <3>5
        <4> QED BY <3>1, <3>3, <4>1, Transitive
      <3> QED BY <3>4, <3>5
    <2>4. \A i \in 1..4 : heard'[i] = heard[i]
      BY <1>6, <1>7, <2>1
    <2>5. \E i \in 1..Len(heard') : heard'[i] # "nothing"
      <3>1. PICK i \in 1..Len(heard) : heard[i] # "nothing"
        BY <2>2
      <3> QED BY <1>1, <1>6, <1>7, <3>1
    <2>6. Probing'
      <3>1. /\ Len(fp'.tables_responsive) = IF steps' < 4 THEN steps' ELSE 4
            /\ fp'.reachable /\ steps' <= 4 + task'.samples
        <4>1. task'.samples \in Nat /\ steps < 4 + task'.samples /\ steps' = steps + 1
          BY <1>1, <1>5, <2>1
        <4>2. Len(fp'.tables_responsive) = 4 /\ fp'.reachable /\ steps >= 4
          BY <2>1, <2>2
        <4>3. ~(steps' < 4) /\ steps' <= 4 + task'.samples
          BY <1>12, <4>1, <4>2
        <4> QED BY <4>2, <4>3
      <3>2. Len(fp'.tables_responsive) = 4 /\ fp' = fp
        BY <2>1, <2>2
      <3> QED BY <2>2, <2>3, <2>4, <2>5, <3>1, <3>2 DEF Probing
    <2>7. AuditTypeOK'
      BY <1>6, <1>7, <2>1, <2>3 DEF AuditTypeOK
    <2> QED BY <1>1, <2>1, <2>6, <2>7 DEF AuditIInv, Sweeping
  <1> QED BY <1>4, <1>8, <1>9, <1>10, <1>11 DEF AuditIInv, Record

(***************************************************************************)
(* The steps of the call, and the end of the task.                         *)
(***************************************************************************)
LEMMA CallFrame == CallNext => /\ UNCHANGED <<op, api>>
                               /\ py' = "idle" <=> py = "idle"
  BY DEF CallNext, Runs, Device, Dies, Tick, Waits, Collect, WatchdogBites, Thrown, Dropped,
         ReturnWith, Deadline

LEMMA CallStepKeeps == AuditIInv /\ CallNext /\ UNCHANGED auditVars => AuditIInv'
  <1> SUFFICES ASSUME AuditIInv, CallNext, UNCHANGED auditVars PROVE AuditIInv'
    OBVIOUS
  <1>1. CallIInv'
    BY CallNextKeeps DEF AuditIInv
  <1>2. AuditTypeOK' /\ Probing'
    BY DEF AuditIInv, AuditTypeOK, Probing, auditVars
  <1>3. OwnReads'
    BY CallFrame DEF AuditIInv, OwnReads, ReadsLeft, ProbesLeft, SamplesLeft, auditVars
  <1>4. Sweeping'
    BY CallFrame DEF AuditIInv, Sweeping, auditVars
  <1> QED BY <1>1, <1>2, <1>3, <1>4 DEF AuditIInv

LEMMA TaskOverKeeps == AuditIInv /\ (Raise \/ Return \/ CallOver) => AuditIInv'
  <1> SUFFICES ASSUME AuditIInv, Raise \/ Return \/ CallOver PROVE AuditIInv'
    OBVIOUS
  <1>1. /\ UNCHANGED <<callVars, task, steps, report, fp, samples, heard>>
        /\ auditor' \in {"returned", "raised"}
        /\ task.kind # "call" /\ auditor' = "returned" => ~ReadsLeft /\ py = "idle"
    BY DEF Raise, Return, CallOver
  <1>2. CallIInv'
    BY <1>1, SameCall DEF AuditIInv
  <1>3. AuditTypeOK' /\ Probing'
    BY <1>1 DEF AuditIInv, AuditTypeOK, Probing
  <1>4. OwnReads'
    BY <1>1 DEF AuditIInv, OwnReads, ReadsLeft, ProbesLeft, SamplesLeft, callVars
  <1>5. Sweeping'
    BY <1>1 DEF AuditIInv, Sweeping, callVars
  <1> QED BY <1>2, <1>3, <1>4, <1>5 DEF AuditIInv

LEMMA AuditInvariance == AuditSpec => []AuditIInv
  <1>1. AuditIInv /\ [AuditNext]_pyAuditVars => AuditIInv'
    <2> SUFFICES ASSUME AuditIInv, [AuditNext]_pyAuditVars PROVE AuditIInv'
      OBVIOUS
    <2>1. CASE UNCHANGED pyAuditVars
      <3>1. CallIInv'
        BY <2>1, SameCall DEF AuditIInv, pyAuditVars
      <3>2. AuditTypeOK' /\ Probing'
        BY <2>1 DEF AuditIInv, AuditTypeOK, Probing, auditVars, pyAuditVars
      <3>3. OwnReads' /\ Sweeping'
        BY <2>1 DEF AuditIInv, OwnReads, ReadsLeft, ProbesLeft, SamplesLeft, Sweeping,
                    auditVars, callVars, pyAuditVars
      <3> QED BY <3>1, <3>2, <3>3 DEF AuditIInv
    <2> QED BY <2>1, BeginNextKeeps, RecordKeeps, TaskOverKeeps, CallStepKeeps
            DEF AuditNext, Audits
  <1> QED BY <1>1, AuditInitIInv, PTL DEF AuditSpec

-----------------------------------------------------------------------------
(***************************************************************************)
(* Theorems.                                                               *)
(***************************************************************************)
(* "catching a specific class tells you exactly what class of failure      *)
(* happened" (exceptions.py:3): what a call returns or raises is true of   *)
(* the device, whatever becomes of the process and however long the        *)
(* timeout is.                                                             *)
THEOREM CallTellsTheTruth == AuditSpec => []OutcomeIsTrue
  <1>1. CallIInv => OutcomeIsTrue
    <2> SUFFICES ASSUME CallIInv, py = "done" PROVE OutcomeIsTrue
      BY DEF OutcomeIsTrue
    <2>1. /\ ErrorFor(exit) # "ok"
          /\ ErrorFor(exit) = "ProtocolError" <=> exit = "protocol"
          /\ ErrorFor(exit) = "UsageError" <=> exit = "usage"
          /\ ErrorFor(exit) = "WriteAbortedError" <=> exit = "aborted"
      BY DEF ErrorFor
    <2>2. /\ outcome = "ok" => exit = "ok"
          /\ outcome = "ProtocolError" => exit = "protocol"
          /\ outcome = "UsageError" => exit = "usage"
          /\ outcome = "WriteAbortedError" => exit = "aborted"
      BY <2>1 DEF CallIInv, Concluded
    <2>3. op.kind = "dry_run" => done = 0 /\ ~inflight
      BY DEF CallIInv, CallTypeOK, Permitted
    <2>4. Writes /\ (done = 1 \/ inflight) => op.confirm \/ asked
      BY DEF CallIInv, Permitted
    <2> QED BY <2>2, <2>3, <2>4 DEF CallIInv, Coded, OutcomeIsTrue
  <1> QED BY <1>1, AuditInvariance, PTL DEF AuditIInv

(* A call that is over leaves no process behind, but for a cancelled call  *)
(* of the asynchronous client (aio._run has a handler for its own timeout  *)
(* only).                                                                  *)
THEOREM ProcessesEndWithCall == AuditSpec => []NoProcessLeftOver
  <1>1. CallIInv => NoProcessLeftOver
    BY DEF CallIInv, CallTypeOK, Concluded, NoProcessLeftOver
  <1> QED BY <1>1, AuditInvariance, PTL DEF AuditIInv

(* "generous margin over otcat's own --timeout" (client.py:90): five       *)
(* seconds cover the dial, the request and a second of everything else,    *)
(* for every timeout; so the watchdog bites only where somebody was asked. *)
THEOREM MarginSuffices == Slack <= 1 => (AuditSpec => []TimeoutMeansAsked)
  <1> SUFFICES ASSUME Slack <= 1 PROVE AuditSpec => []TimeoutMeansAsked
    OBVIOUS
  <1>1. CallIInv => TimeoutMeansAsked
    BY DEF CallIInv, InTime, TimeoutMeansAsked
  <1> QED BY <1>1, AuditInvariance, PTL DEF AuditIInv

(* "Sweep [start, start+count) with individual single-value reads,         *)
(* recording which addresses respond, which raise a protocol exception"    *)
(* (audit.py:73): for every range.                                         *)
THEOREM SweepIsTrue == AuditSpec => []ReportIsTrue
  <1>1. AuditIInv => ReportIsTrue
    <2> SUFFICES ASSUME AuditIInv PROVE ReportIsTrue
      OBVIOUS
    <2>1. CASE task.kind = "scan"
      <3>1. task.count \in Nat /\ steps \in Nat
        BY <2>1, TaskFacts DEF AuditIInv, AuditTypeOK
      <3>2. /\ Len(report) = steps /\ steps <= task.count
            /\ auditor = "returned" => ~(steps < task.count)
        BY <2>1 DEF AuditIInv, Sweeping, OwnReads, ReadsLeft
      <3>3. auditor = "returned" => Len(report) = task.count
        BY <3>1, <3>2
      <3> QED BY <2>1, <3>3 DEF AuditIInv, Sweeping, ReportIsTrue
    <2>2. CASE task.kind # "scan"
      <3>1. report = <<>>
        BY <2>2 DEF AuditIInv, Sweeping
      <3>2. Len(report) = 0
        BY <3>1
      <3> QED BY <2>2, <3>2 DEF ReportIsTrue
    <2> QED BY <2>1, <2>2
  <1> QED BY <1>1, AuditInvariance, PTL

(* What a fingerprint says of a device (audit.py:126-154): for every       *)
(* number of samples, and of latencies the percentiles are taken of.       *)
THEOREM FingerprintTrue == AuditSpec => []FingerprintIsTrue
  <1>1. PercentilesFit
    <2>1. MaxTaken \in Nat
      BY AuditAssumption
    <2> SUFFICES ASSUME NEW k \in 1..MaxTaken PROVE P50(k) <= P99(k) /\ P99(k) < k
      BY DEF PercentilesFit
    <2>2. k \in Nat /\ k >= 1
      BY <2>1
    <2> QED BY <2>2 DEF P50, P99
  <1>2. AuditIInv => FingerprintIsTrue
    <2> SUFFICES ASSUME AuditIInv, task.kind = "fingerprint" PROVE FingerprintIsTrue
      BY DEF FingerprintIsTrue
    <2>1. /\ steps \in Nat /\ task.samples \in Nat /\ heard \in Seq(Answers)
      BY TaskFacts DEF AuditIInv, AuditTypeOK
    <2>2. DOMAIN heard = 1..Len(heard)
      BY <2>1, LenProperties
    <2>3. auditor = "returned" => ~(steps < 4) /\ ~(fp.reachable /\ steps < 4 + task.samples)
      BY DEF AuditIInv, OwnReads, ReadsLeft, ProbesLeft, SamplesLeft, tables
    <2>4. auditor = "returned" /\ fp.reachable => steps = 4 + task.samples
      <3>1. steps <= 4 \/ steps <= 4 + task.samples
        BY DEF AuditIInv, Probing
      <3> QED BY <2>1, <2>3, <3>1
    <2>5. auditor = "returned" => Len(fp.tables_responsive) = 4
      BY <2>3 DEF AuditIInv, Probing
    <2>6. Len(tables) = 4
      BY DEF tables
    <2> QED BY <1>1, <2>2, <2>4, <2>5, <2>6
            DEF AuditIInv, Probing, CarriedOut, FingerprintIsTrue
  <1> QED BY <1>2, AuditInvariance, PTL
=============================================================================
