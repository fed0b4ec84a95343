---------------------------- MODULE WatchProcess ----------------------------
(***************************************************************************)
(* What a watching otcat is to whoever started it: it makes readings, one  *)
(* after the other, each a value for its standard output or an error for   *)
(* its standard error, until it has emitted as many values as it was asked *)
(* for, cannot go on, or is told to stop.  Told to stop it begins no more  *)
(* readings.  WatchLoop shows that the program is such a process; PyWatch  *)
(* puts it to use.                                                         *)
(***************************************************************************)
EXTENDS Naturals

CONSTANT Limits     \* the values --count may have; 0 is no limit

ASSUME LimitsAssumption == Limits \subseteq Nat

VARIABLES limit,    \* --count
          phase,    \* what the process is doing
          emitted,  \* values written
          told,     \* a SIGINT or SIGTERM was caught
          exit      \* the exit code, by name, once it is decided

processVars == <<limit, phase, emitted, told, exit>>

Phases == {"connecting", "deciding", "reading", "value", "error", "finished",
           "lastword", "exited"}

Init == /\ limit \in Limits
        /\ phase = "connecting"
        /\ emitted = 0
        /\ told = FALSE
        /\ exit = "none"

Goes(from, to) == /\ phase = from /\ phase' = to
                  /\ UNCHANGED <<limit, emitted, told>>

Connected == Goes("connecting", "deciding") /\ UNCHANGED exit

(* A failure that ends the process is written to standard error first. *)
NotConnected == Goes("connecting", "lastword") /\ exit' = "connection"

BeginReading == ~told /\ Goes("deciding", "reading") /\ UNCHANGED exit

HasValue == Goes("reading", "value") /\ UNCHANGED exit
HasError == Goes("reading", "error") /\ UNCHANGED exit

WriteValue == /\ phase = "value"
              /\ emitted' = emitted + 1
              /\ phase' = IF emitted' = limit THEN "finished" ELSE "deciding"
              /\ UNCHANGED <<limit, told, exit>>

CannotWrite == Goes("value", "lastword") /\ exit' = "io"

WriteError == Goes("error", "deciding") /\ UNCHANGED exit

(* A panic: after the error, a trace.  (Only with the longest --max-backoff*)
(* there is; poller.go:112.)                                               *)
Crash == Goes("error", "lastword") /\ exit' = "panic"

Finish   == Goes("finished", "exited") /\ exit' = "ok"
LastWord == Goes("lastword", "exited") /\ UNCHANGED exit
Stop     == told /\ Goes("deciding", "exited") /\ exit' = "interrupted"

Tell == /\ phase # "exited"
        /\ told' = TRUE
        /\ UNCHANGED <<limit, phase, emitted, exit>>

Next == \/ Connected \/ NotConnected
        \/ BeginReading \/ HasValue \/ HasError
        \/ WriteValue \/ CannotWrite \/ WriteError \/ Crash
        \/ Finish \/ LastWord \/ Stop
        \/ Tell

Spec == Init /\ [][Next]_processVars
=============================================================================
