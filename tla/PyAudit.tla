------------------------------- MODULE PyAudit -------------------------------
(***************************************************************************)
(* python/otcat/audit.py over the synchronous client: scan_range and       *)
(* fingerprint make one read after the other, each a PyCall with a process *)
(* of its own, and report what became of them.  A call by itself is here   *)
(* as the third task.  Latencies are left out but for how many there are.  *)
(***************************************************************************)
EXTENDS PyCall, Sequences

CONSTANTS Operations,   \* the calls made by themselves
          Start,        \* scan_range: the first address, and
          MaxCount,     \* the longest range (bound)
          MaxSamples,   \* fingerprint: the most samples (bound)
          MaxTaken      \* the most the percentiles are computed of (bound)

ASSUME AuditAssumption == {Start, MaxCount, MaxSamples, MaxTaken} \subseteq Nat
ASSUME OperationsAssumption ==
    Operations \subseteq [kind : {"read", "write", "dry_run"}, confirm : BOOLEAN, addr : Nat]

VARIABLES task,     \* what was called
          auditor,  \* working, returned or raised
          steps,    \* reads made
          report,   \* scan_range: report.results
          fp,       \* fingerprint: reachable, tables_responsive
          samples,  \* fingerprint: len(latencies)
          heard     \* ghost: what the device did with each read

auditVars == <<task, auditor, steps, report, fp, samples, heard>>
pyAuditVars == <<callVars, auditVars>>

tables == <<"holding", "input", "coil", "discrete">>

Tasks == {[kind |-> "call", op |-> o] : o \in Operations}
         \union {[kind |-> "scan", count |-> c] : c \in 0..MaxCount}
         \union {[kind |-> "fingerprint", samples |-> s] : s \in 0..MaxSamples}

AuditInit == /\ CallInit
             /\ task \in Tasks
             /\ task.kind # "call" => api = "sync" /\ stdin = "other"    \* no read looks at it
             /\ auditor = "working"
             /\ steps = 0
             /\ report = <<>>
             /\ fp = [reachable |-> FALSE, tables_responsive |-> <<>>]
             /\ samples = 0
             /\ heard = <<>>

ProbesLeft == task.kind = "fingerprint" /\ steps < Len(tables)

SamplesLeft == /\ task.kind = "fingerprint" /\ ~ProbesLeft
               /\ fp.reachable
               /\ steps < Len(tables) + task.samples

ReadsLeft == CASE task.kind = "scan" -> steps < task.count
               [] task.kind = "fingerprint" -> ProbesLeft \/ SamplesLeft
               [] OTHER -> steps < 1

NextCall == CASE task.kind = "scan" -> ReadOf(Start + steps)
              [] task.kind = "fingerprint" -> ReadOf(0)
              [] OTHER -> task.op

BeginNext == /\ auditor = "working" /\ ReadsLeft
             /\ Begin(NextCall)
             /\ UNCHANGED auditVars

(* The other branch of each try: everything else goes up to the caller,    *)
(* and what was recorded so far is lost.                                   *)
Recorded == outcome \in {"ok", "ProtocolError", "ConnectionError"}

(* Mutant: an address that does not answer in time is left out.            *)
ScannedAnswers ==
    /\ task.kind = "scan"
    /\ report' = IF outcome = "ConnectionError" THEN report
                 ELSE Append(report, [address |-> op.addr, responsive |-> outcome = "ok",
                                      exception |-> outcome = "ProtocolError"])
    /\ UNCHANGED <<fp, samples>>

Scanned ==
    /\ task.kind = "scan"
    /\ report' = Append(report, [address |-> op.addr, responsive |-> outcome = "ok",
                                 exception |-> outcome = "ProtocolError"])
    /\ UNCHANGED <<fp, samples>>

(* Mutant: only a table that can be read shows that the device is there.   *)
ProbedLax ==
    /\ ProbesLeft
    /\ fp' = [reachable |-> fp.reachable \/ outcome = "ok",
              tables_responsive |-> Append(fp.tables_responsive, outcome = "ok")]
    /\ UNCHANGED <<report, samples>>

Probed ==
    /\ ProbesLeft
    /\ fp' = [reachable |-> fp.reachable \/ outcome # "ConnectionError",
              tables_responsive |-> Append(fp.tables_responsive, outcome = "ok")]
    /\ UNCHANGED <<report, samples>>

Sampled == /\ SamplesLeft
           /\ samples' = samples + (IF outcome = "ok" THEN 1 ELSE 0)
           /\ UNCHANGED <<report, fp>>

Record == /\ auditor = "working" /\ py = "done" /\ task.kind # "call"
          /\ Recorded
          /\ Scanned \/ Probed \/ Sampled
          /\ steps' = steps + 1
          /\ heard' = Append(heard, CASE exit = "protocol" -> "refused"
                                      [] done = 1 -> "carried out"
                                      [] OTHER -> "nothing")
          /\ py' = "idle"
          /\ UNCHANGED <<jobVars, api, stdin, op, outcome, clock, left, slack, asked,
                         task, auditor>>

Raise == /\ auditor = "working" /\ py = "done" /\ task.kind # "call"
         /\ ~Recorded
         /\ auditor' = "raised"
         /\ UNCHANGED <<callVars, task, steps, report, fp, samples, heard>>

Return == /\ auditor = "working" /\ py = "idle" /\ ~ReadsLeft
          /\ auditor' = "returned"
          /\ UNCHANGED <<callVars, task, steps, report, fp, samples, heard>>

CallOver == /\ auditor = "working" /\ py = "done" /\ task.kind = "call"
            /\ auditor' = IF outcome = "ok" THEN "returned" ELSE "raised"
            /\ UNCHANGED <<callVars, task, steps, report, fp, samples, heard>>

Audits == BeginNext \/ Record \/ Raise \/ Return \/ CallOver

AuditNext == Audits \/ (CallNext /\ UNCHANGED auditVars)

AuditSpec == AuditInit /\ [][AuditNext]_pyAuditVars

FairAuditSpec == /\ AuditSpec
                 /\ WF_pyAuditVars(Audits)
                 /\ WF_pyAuditVars(Unasked /\ UNCHANGED auditVars)
                 /\ WF_pyAuditVars(Tick /\ UNCHANGED auditVars)
                 /\ WF_pyAuditVars(Waits /\ UNCHANGED auditVars)

-----------------------------------------------------------------------------
(***************************************************************************)
(* Properties.                                                             *)
(***************************************************************************)
(* "Sweep [start, start+count) with individual single-value reads,         *)
(* recording which addresses respond, which raise a protocol exception"    *)
(* (audit.py:73): a report that is returned has every address of the range *)
(* once and in order; one that is said to respond was read, and one with   *)
(* an exception is one the device refused.                                 *)
ReportIsTrue ==
    /\ auditor = "returned" /\ task.kind = "scan" => Len(report) = task.count
    /\ \A i \in 1..Len(report) :
          /\ report[i].address = Start + i - 1
          /\ report[i].responsive => heard[i] = "carried out"
          /\ report[i].exception <=> heard[i] = "refused"

(* The device is reachable exactly if it answered for one of the tables,   *)
(* if only to refuse; a table is said to respond only if it was read; only *)
(* reads that succeeded are samples; and the two percentiles are among     *)
(* them and in order (audit.py:126-154).                                   *)
P50(k) == k \div 2
P99(k) == LET q == (k * 99) \div 100 IN IF q < k - 1 THEN q ELSE k - 1

PercentilesFit == \A k \in 1..MaxTaken : P50(k) <= P99(k) /\ P99(k) < k

FingerprintIsTrue ==
    task.kind = "fingerprint" =>
        /\ \A i \in 1..Len(fp.tables_responsive) :
              /\ fp.tables_responsive[i] => heard[i] = "carried out"
              /\ heard[i] = "refused" \/ fp.tables_responsive[i] => fp.reachable
        /\ fp.reachable => \E i \in DOMAIN heard : heard[i] # "nothing"
        /\ auditor = "returned" /\ fp.reachable =>
              /\ Len(fp.tables_responsive) = Len(tables)
              /\ steps = Len(tables) + task.samples
        /\ samples <= Cardinality({i \in 5..Len(heard) : heard[i] = "carried out"})
        /\ PercentilesFit

(* Whatever the device and the process do, a call, a sweep and a           *)
(* fingerprint come to an end: the watchdog sees to it.                    *)
AuditEnds == <>(auditor # "working")
=============================================================================
