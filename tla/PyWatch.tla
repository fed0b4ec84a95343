------------------------------- MODULE PyWatch -------------------------------
(***************************************************************************)
(* Client.watch of python/otcat/client.py, and its twin of aio.py: a       *)
(* generator that owns a watching otcat (WatchProcess) and two pipes.  It  *)
(* reads the one the values come through while it is asked for the next    *)
(* value, never the one for the errors, and when it is closed it tells the *)
(* process to stop, waits, and kills it.                                   *)
(*                                                                         *)
(* The generator is followed from the first value asked for: before, there *)
(* is no process.  A value is its number.  The pipe's own room and what    *)
(* Python buffers of it are one.                                           *)
(***************************************************************************)
EXTENDS WatchProcess, Sequences

CONSTANTS OutRoom,     \* values the pipe of standard output holds
          ErrRoom,     \* lines the pipe of standard error holds
          MaxValues    \* values a watch without a count makes (bound)

ASSUME RoomAssumption == /\ OutRoom \in Nat \ {0} /\ ErrRoom \in Nat \ {0}
                         /\ MaxValues \in Nat

VARIABLES gen,        \* where the generator is
          why,        \* what made it leave its loop: end, closed or thrown
          out,        \* values in the pipe
          errs,       \* lines in the other pipe
          delivered,  \* values the consumer was given
          hurried     \* an exception cut the wait for the process short

pyVars == <<gen, why, out, errs, delivered, hurried>>
watchVars == <<processVars, pyVars>>

WatchInit == /\ Init
             /\ gen = "reading"
             /\ why = "none"
             /\ out = <<>>
             /\ errs = 0
             /\ delivered = <<>>
             /\ hurried = FALSE

(***************************************************************************)
(* The process, and its ends of the pipes.  A write to a full pipe waits,  *)
(* and a write to a pipe whose reader is gone ends the process (SIGPIPE).  *)
(***************************************************************************)
Readers == gen # "gone"

Killed == /\ phase' = "exited"
          /\ exit' = "killed"
          /\ UNCHANGED <<limit, emitted, told>>

Silently == /\ \/ Connected \/ NotConnected
               \/ BeginReading
               \/ HasValue /\ (limit = 0 => emitted < MaxValues)
               \/ HasError
               \/ CannotWrite
               \/ Finish
               \/ Stop
            /\ UNCHANGED pyVars

PutValue == /\ Readers /\ Len(out) < OutRoom
            /\ WriteValue
            /\ out' = Append(out, emitted')
            /\ UNCHANGED <<gen, why, errs, delivered, hurried>>

(* The process never crashes here: Client.watch leaves --max-backoff at its *)
(* default, and WatchProcess's Crash takes the longest one there is.       *)
PutError == /\ Readers /\ errs < ErrRoom
            /\ WriteError \/ LastWord
            /\ errs' = errs + 1
            /\ UNCHANGED <<gen, why, out, delivered, hurried>>

(* Mutant: a process that lost its reader shrugs at errors it cannot tell. *)
BrokenPipeIgnored == /\ ~Readers
                     /\ \/ phase = "value" /\ Killed
                        \/ WriteError
                        \/ LastWord
                     /\ UNCHANGED pyVars

BrokenPipe == /\ ~Readers
              /\ phase \in {"value", "error", "lastword"}
              /\ Killed
              /\ UNCHANGED pyVars

(* A signal is caught once the process has got that far (NotifyContext). *)
Signalled == \/ Tell
             \/ phase = "connecting" /\ Killed

(* Control-C at a terminal is for everybody there. *)
FromTerminal == Signalled /\ UNCHANGED pyVars

(***************************************************************************)
(* The generator.                                                          *)
(***************************************************************************)
Yield == /\ gen = "reading"
         /\ out # <<>>
         /\ delivered' = Append(delivered, Head(out))
         /\ out' = Tail(out)
         /\ gen' = "suspended"
         /\ UNCHANGED <<processVars, why, errs, hurried>>

Leave(reason) == /\ gen' = "closing"
                 /\ why' = reason
                 /\ UNCHANGED <<processVars, out, errs, delivered, hurried>>

(* Mutant: the loop is over when the process is, whatever it left unread. *)
SeesExit == /\ gen = "reading"
            /\ phase = "exited"
            /\ Leave("end")

SeesEnd == /\ gen = "reading"
           /\ out = <<>>
           /\ phase = "exited"
           /\ Leave("end")

(* KeyboardInterrupt or CancelledError, while it waits for a value. *)
Throw == gen = "reading" /\ Leave("thrown")

(* poll() and terminate(). *)
Terminate == /\ gen = "closing"
             /\ IF phase = "exited" THEN gen' = "closed" /\ UNCHANGED processVars
                                    ELSE gen' = "waiting" /\ Signalled
             /\ UNCHANGED <<why, out, errs, delivered, hurried>>

Gone(to) == gen' = to /\ UNCHANGED <<processVars, why, out, errs, delivered>>

Waited == /\ gen = "waiting"
          /\ phase = "exited"
          /\ Gone("closed") /\ UNCHANGED hurried

(* Mutant: three seconds are enough for everybody. *)
GiveUp == gen = "waiting" /\ Gone("closed") /\ UNCHANGED hurried

(* Mutant: the wait has no end but the process's. *)
WaitOn == gen = "waiting" /\ phase = "exited" /\ Gone("killing") /\ UNCHANGED hurried

WaitTimesOut == gen = "waiting" /\ Gone("killing") /\ UNCHANGED hurried

(* kill() and wait(). *)
Kill == /\ gen = "killing"
        /\ gen' = "closed"
        /\ IF phase = "exited" THEN UNCHANGED processVars ELSE Killed
        /\ UNCHANGED <<why, out, errs, delivered, hurried>>

(* Another exception, while it waits for the process to end. *)
ThrowAgain == gen = "waiting" /\ Gone("closed") /\ hurried' = TRUE

(* The pipes are closed with the generator's last reference. *)
Collect == gen = "closed" /\ Gone("gone") /\ UNCHANGED hurried

(***************************************************************************)
(* The consumer.                                                           *)
(***************************************************************************)
AskNext == /\ gen = "suspended"
           /\ gen' = "reading"
           /\ UNCHANGED <<processVars, why, out, errs, delivered, hurried>>

Close == gen = "suspended" /\ Leave("closed")

(* The consumer's own process may end at any time without any of this. *)
Vanish == gen # "gone" /\ Gone("gone") /\ UNCHANGED hurried

Otcat     == Silently \/ PutValue \/ PutError \/ BrokenPipe
Generator == Yield \/ SeesEnd \/ Terminate \/ Waited \/ WaitTimesOut \/ Kill \/ Collect

WatchNext == \/ Otcat
             \/ Generator
             \/ FromTerminal
             \/ Throw \/ ThrowAgain
             \/ AskNext \/ Close
             \/ Vanish

PyWatchSpec == WatchInit /\ [][WatchNext]_watchVars

(* The program and the interpreter run, time passes.  The consumer need    *)
(* not come back.                                                          *)
FairPyWatchSpec == PyWatchSpec /\ WF_watchVars(Otcat) /\ WF_watchVars(Generator)

-----------------------------------------------------------------------------
(***************************************************************************)
(* Properties.                                                             *)
(***************************************************************************)

(* A generator that is exhausted has given the consumer every value the    *)
(* process emitted, in order: the process may be gone while values are     *)
(* still in the pipe.  One with a count that went well has given as many   *)
(* (client.py:173-177).                                                    *)
ExhaustedIsComplete ==
    why = "end" => /\ delivered = [i \in 1..emitted |-> i]
                   /\ exit = "ok" => Len(delivered) = limit

(* No process survives its generator: whatever it was doing, blocked on a  *)
(* full pipe, dialling or deaf, once the generator is closed it is gone,   *)
(* unless an exception ended the wait for it (client.py:178-185).          *)
NoProcessLeft == gen = "closed" /\ ~hurried => phase = "exited"

(* Closing never hangs, whatever the process does (client.py:178-185).     *)
ClosingEnds == gen \in {"closing", "waiting", "killing"} ~> gen \in {"closed", "gone"}

(* Nor does a process live on for ever after its consumer, if that crashed *)
(* or was in a hurry: it writes, sooner or later, and nobody reads.        *)
ProcessEnds == gen = "gone" ~> phase = "exited"

(* exceptions.py:59-61, Timeout: "Raised by watch()/read() when a          *)
(* client-side Python timeout (...) elapses -- e.g. a watch generator that *)
(* produced no value for longer than expected".                            *)
NextReturns == gen = "reading" ~> gen # "reading"
=============================================================================
