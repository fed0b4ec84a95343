-------------------------------- MODULE PyCall --------------------------------
(***************************************************************************)
(* A call of the Python clients that is over when its process is: read,    *)
(* write and dry_run of client.py and aio.py, over _run.  The call starts  *)
(* an otcat (OtcatProcess), waits for it under a watchdog, and makes its   *)
(* outcome of the exit code.                                               *)
(*                                                                         *)
(* Time is whole seconds, and passes only where something waits: for the   *)
(* dial, for the device, for whoever is asked.  Everything else a process  *)
(* does, its start included, takes Slack at most.                          *)
(***************************************************************************)
EXTENDS OtcatProcess, FiniteSets

CONSTANTS Timeout,   \* the client's timeout
          Slack      \* what else an otcat may take

ASSUME TimeAssumption == Timeout \in Nat \ {0} /\ Slack \in Nat

DialTimeout == 3

(* Mutant: a margin that leaves no room for the dial. *)
WatchdogTight == Timeout + 3
Watchdog == Timeout + 5

VARIABLES api,      \* which of the two clients: sync or async
          stdin,    \* what the process inherits: a terminal or something else
          op,       \* the operation called
          py,       \* idle, waiting for the process, or done
          outcome,  \* ok, or the exception raised
          clock,    \* time since the process was started
          left,     \* time until the deadline the process waits under
          slack,    \* time left to spend elsewhere
          asked     \* ghost: the process has put its question

callVars == <<jobVars, api, stdin, op, py, outcome, clock, left, slack, asked>>

(* What is called, and the address it is called for.                       *)
Call1(kind, confirm, addr) == [kind |-> kind, confirm |-> confirm, addr |-> addr]
ReadOf(addr) == Call1("read", FALSE, addr)

(* A character device passes for a terminal: /dev/null says no at once.    *)
JobFor(o) ==
    Job(o.kind # "read", 1,
        CASE o.kind # "write" \/ o.confirm -> "given"
          [] o.kind = "write" /\ ~o.confirm /\ stdin = "terminal" -> "ask"
          [] OTHER -> "refused",
        o.kind = "dry_run")

CallInit == /\ Init
            /\ api \in {"sync", "async"}
            /\ stdin \in {"terminal", "other"}
            /\ op = ReadOf(0)
            /\ py = "idle"
            /\ outcome = "none"
            /\ clock = 0 /\ left = 0 /\ slack = 0
            /\ asked = FALSE

(* A new process.  What a read of the one before still does to the device  *)
(* is nothing.                                                             *)
Begin(o) == /\ py = "idle"
            /\ phase' = "argv" /\ job' = NoJob
            /\ done' = 0 /\ acked' = 0 /\ inflight' = FALSE
            /\ exit' = "none"
            /\ op' = o
            /\ py' = "waiting"
            /\ outcome' = "none"
            /\ clock' = 0 /\ left' = 0 /\ slack' = Slack
            /\ asked' = FALSE
            /\ UNCHANGED <<api, stdin>>

(***************************************************************************)
(* The process: its deadlines are those of cliapp.Run and of the client.   *)
(* The command lines _run makes are never asking for help, and have one    *)
(* value: after its acknowledgement there is nothing left to find fault    *)
(* with.                                                                   *)
(***************************************************************************)
Deadline(d) == left' = d /\ UNCHANGED <<api, stdin, op, py, outcome, clock, slack>>

Runs == /\ py # "idle"
        /\ \/ Accept /\ job' = JobFor(op) /\ Deadline(DialTimeout) /\ UNCHANGED asked
           \/ Ask /\ Deadline(0) /\ asked' = TRUE
           \/ Proceed /\ Deadline(0) /\ UNCHANGED asked
           \/ Call /\ Deadline(Timeout) /\ UNCHANGED asked
           \/ Acknowledge /\ Deadline(0) /\ UNCHANGED asked
           \/ \E code \in Codes : /\ Exit(code)
                                  /\ code = "ok" => phase # "argv"
                                  /\ code = "usage" => acked = 0
                                  /\ Deadline(0) /\ UNCHANGED asked

Device == (TakeEffect \/ Lose) /\ Deadline(left) /\ UNCHANGED asked

Ends(code) == /\ phase # "exited" /\ phase' = "exited"
              /\ exit' = code
              /\ UNCHANGED <<job, done, acked, inflight>>

(* Something else ends it, by a signal.                                    *)
Dies == py = "waiting" /\ Ends("killed") /\ Deadline(0) /\ UNCHANGED asked

(* Nobody waits longer than until the watchdog.                            *)
Tick == /\ py = "waiting"
        /\ clock < Watchdog
        /\ clock' = clock + 1
        /\ \/ left > 0 /\ left' = left - 1 /\ UNCHANGED slack
           \/ left = 0 /\ phase = "asking" /\ UNCHANGED <<left, slack>>
           \/ left = 0 /\ slack > 0 /\ slack' = slack - 1 /\ UNCHANGED left
        /\ UNCHANGED <<jobVars, api, stdin, op, py, outcome, asked>>

(***************************************************************************)
(* _run, and what read, write and dry_run make of its result.              *)
(***************************************************************************)
(* Mutant: the map starts one code too early. *)
ErrorShifted(code) == CASE code = "usage" -> "OtcatError"
                        [] code = "connection" -> "UsageError"
                        [] code = "protocol" -> "ConnectionError"
                        [] code = "aborted" -> "ProtocolError"
                        [] code = "io" -> "WriteAbortedError"
                        [] OTHER -> "IOFailureError"

ErrorFor(code) == CASE code = "usage" -> "UsageError"
                    [] code = "connection" -> "ConnectionError"
                    [] code = "protocol" -> "ProtocolError"
                    [] code = "aborted" -> "WriteAbortedError"
                    [] code = "io" -> "IOFailureError"
                    [] OTHER -> "OtcatError"

ReturnWith(what) == /\ py = "waiting" /\ py' = "done"
                    /\ outcome' = what
                    /\ UNCHANGED <<api, stdin, op, clock, left, slack, asked>>

Collect == /\ phase = "exited"
           /\ ReturnWith(IF exit = "ok" THEN "ok" ELSE ErrorFor(exit))
           /\ UNCHANGED jobVars

Kill == IF phase = "exited" THEN UNCHANGED jobVars ELSE Ends("killed")

(* Mutant: subprocess.run without a timeout. *)
WatchdogNone == clock > Watchdog /\ ReturnWith("Timeout") /\ Kill

(* Mutant: the exception is raised and the process left to itself. *)
WatchdogLeaves == clock = Watchdog /\ ReturnWith("Timeout") /\ UNCHANGED jobVars

(* The process may have come to its end just now, with any code.           *)
WatchdogBites == clock = Watchdog /\ ReturnWith("Timeout") /\ Kill

(* An exception thrown into the call: subprocess.run kills the process on  *)
(* any; aio._run has a handler for its own timeout only.                   *)
Thrown == /\ ReturnWith("thrown")
          /\ IF api = "sync" THEN Kill ELSE UNCHANGED jobVars

(* The process of a cancelled call is killed when asyncio drops its        *)
(* transport, if it ever does.                                             *)
Dropped == /\ py = "done" /\ outcome = "thrown" /\ api = "async"
           /\ Ends("killed")
           /\ UNCHANGED <<api, stdin, op, py, outcome, clock, left, slack, asked>>

Waits == Collect \/ WatchdogBites

CallNext == Runs \/ Device \/ Dies \/ Tick \/ Waits \/ Thrown \/ Dropped

(* The process runs and time passes; whoever is asked need not answer, but *)
(* without the question the process goes on.                               *)
Unasked == phase # "asking" /\ Runs

-----------------------------------------------------------------------------
(***************************************************************************)
(* Properties.                                                             *)
(***************************************************************************)
Writes == op.kind = "write"

(* "catching a specific class tells you exactly what class of failure      *)
(* happened" (exceptions.py:3): a value or an acknowledgement is of        *)
(* something the device has done; a UsageError, ProtocolError or           *)
(* WriteAbortedError of a write means that it was not done and will not    *)
(* be; and a plan is made without any of this.                             *)
OutcomeIsTrue ==
    py = "done" =>
        /\ outcome = "ok" /\ op.kind # "dry_run" => done = 1
        /\ outcome = "ProtocolError" => done = 0
        /\ Writes /\ outcome \in {"UsageError", "ProtocolError", "WriteAbortedError"} =>
             done = 0 /\ ~inflight
        /\ op.kind = "dry_run" => done = 0 /\ ~inflight
        /\ Writes /\ (done = 1 \/ inflight) => op.confirm \/ asked

(* "generous margin over otcat's own --timeout" (client.py:90): the        *)
(* watchdog never cuts off a process that is about to answer.  It takes a  *)
(* question nobody sees, for the prompt goes to a pipe.                    *)
TimeoutMeansAsked == outcome = "Timeout" => asked

(* When a call has returned or raised its process is gone, but for a       *)
(* cancelled call of the asynchronous client.                              *)
NoProcessLeftOver ==
    py = "done" => phase = "exited" \/ (api = "async" /\ outcome = "thrown")
=============================================================================
