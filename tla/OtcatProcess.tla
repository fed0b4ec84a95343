---------------------------- MODULE OtcatProcess ----------------------------
(***************************************************************************)
(* What an otcat that ends by itself is to whoever started it: it takes up *)
(* a job of so many calls, asks or refuses when it must have consent,      *)
(* makes one call after the other and acknowledges each, and exits with a  *)
(* code.  A call may take effect as long as it is under way, even after    *)
(* the exit.  Commands shows that the program is such a process; PyCall    *)
(* puts it to use.                                                         *)
(***************************************************************************)
EXTENDS Naturals

CONSTANT Jobs    \* the jobs it may be given

VARIABLES job,       \* what it was given
          phase,     \* what the process is doing
          done,      \* calls that have taken effect
          acked,     \* calls whose value or acknowledgement was printed
          inflight,  \* a call is under way and may take effect
          exit       \* the exit code, by name

jobVars == <<job, phase, done, acked, inflight, exit>>

(* consent: given, to be asked for, or refused; dry: nothing is to be sent. *)
Job(writes, calls, consent, dry) ==
    [writes |-> writes, calls |-> calls, consent |-> consent, dry |-> dry]

NoJob == Job(FALSE, 0, "refused", TRUE)

Init == /\ job = NoJob
        /\ phase = "argv"
        /\ done = 0
        /\ acked = 0
        /\ inflight = FALSE
        /\ exit = "none"

Accept == /\ phase = "argv"
          /\ phase' = "started"
          /\ job' \in Jobs
          /\ UNCHANGED <<done, acked, inflight, exit>>

Goes(from, to) == /\ phase = from /\ phase' = to
                  /\ UNCHANGED <<job, done, inflight, exit>>

Ask == ~job.dry /\ job.consent = "ask" /\ Goes("started", "asking") /\ UNCHANGED acked

(* It has connected, and consent was given on the command line or just now. *)
Proceed == /\ ~job.dry
           /\ \/ job.consent = "given" /\ Goes("started", "ready")
              \/ Goes("asking", "ready")
           /\ UNCHANGED acked

Call == /\ phase = "ready" /\ phase' = "waiting"
        /\ acked < job.calls
        /\ inflight' \in BOOLEAN
        /\ UNCHANGED <<job, done, acked, exit>>

TakeEffect == /\ inflight
              /\ inflight' = FALSE
              /\ done' = done + 1
              /\ UNCHANGED <<job, phase, acked, exit>>

(* The device refuses the call, or it is lost. *)
Lose == /\ inflight
        /\ inflight' = FALSE
        /\ UNCHANGED <<job, phase, done, acked, exit>>

Acknowledge == /\ done = acked + 1
               /\ Goes("waiting", "ready")
               /\ acked' = done

(* Success is all of it; a refusal is nothing of the call that was refused,*)
(* now or later, except that a value read may turn out not to be usable;   *)
(* any other failure says nothing of that call.                            *)
MayExit(code) ==
    CASE code = "ok" -> \/ phase = "argv"
                        \/ phase = "started" /\ job.dry
                        \/ phase = "ready" /\ acked = job.calls
      [] code = "protocol" -> phase = "waiting" /\ done = acked /\ ~inflight
      [] code = "aborted" -> job.writes /\ phase \in {"started", "asking"}
      [] code = "usage" -> job.writes => done = acked /\ ~inflight
      [] OTHER -> code \in {"connection", "io"}

Exit(code) == /\ phase # "exited" /\ phase' = "exited"
              /\ MayExit(code)
              /\ exit' = code
              /\ UNCHANGED <<job, done, acked, inflight>>

Codes == {"ok", "usage", "connection", "protocol", "aborted", "io"}

Next == \/ Accept
        \/ Ask \/ Proceed
        \/ Call \/ TakeEffect \/ Lose \/ Acknowledge
        \/ \E code \in Codes : Exit(code)

Spec == Init /\ [][Next]_jobVars
=============================================================================
