------------------------------ MODULE MockServer ------------------------------
(***************************************************************************)
(* The life of the mock device, internal/mock/server.go, in goroutines:    *)
(* one that accepts connections, a handler per connection, and the main    *)
(* goroutine of the program that owns the server: otcat-mockplc, which     *)
(* seeds registers while it already serves and stops on a signal; a test,  *)
(* which does the same with drops injected and stops when it likes; or     *)
(* otcat-latencyprobe, which is its server's only client.                  *)
(*                                                                         *)
(* Dispatch is not one step here: the mutex is taken, the registers are    *)
(* touched one by one, and it is released.  A request is a read or a write *)
(* of one block of registers, or one that handle does not accept (bad).    *)
(***************************************************************************)
EXTENDS Naturals, Sequences, FiniteSets, Functions

CONSTANTS MaxConns,     \* connections that may be dialled (bound)
          Size,         \* registers in the block
          Blocks,       \* what clients may write to it
          InitBlock,    \* the block of a new server
          Seed,         \* what otcat-mockplc sets it to
          MaxRequests   \* requests sent over all connections (bound)

ASSUME ConnsAssumption == MaxConns \in Nat \ {0}
ASSUME BlockAssumption == /\ Size \in Nat \ {0}
                          /\ \A b \in Blocks \union {InitBlock, Seed} :
                                b \in Seq(Nat) /\ Len(b) = Size
ASSUME RequestsAssumption == MaxRequests \in Nat

VARIABLES program,    \* which program owns the server: plc, test or probe
          main,       \* where its main goroutine is
          listening,  \* the listener is open
          backlog,    \* connections dialled and not accepted yet, in order
          acceptor,   \* serve: 0 in Accept, k when it has accepted k, or gone
          wg,         \* the wait group's counter
          mu,         \* who holds the mutex: nobody, or one worker
          regs,       \* the block's registers
          task,       \* per worker, where it is and what it works on
          client,     \* per connection, its client: none, open or closed
          sent,       \* per connection, requests sent
          inbox,      \* per connection, requests the handler has not read
          replied     \* per connection, the last reply the handler sent

listenVars == <<listening, backlog, acceptor>>
clientVars == <<client, sent, inbox>>
serverVars == <<program, main, listenVars, wg, mu, regs, task, clientVars, replied>>

Conns   == 1..MaxConns
Main    == 0
Workers == Conns \union {Main}
gone    == MaxConns + 1

NoReply  == [kind |-> "none"]
ReadOp   == [kind |-> "read"]
WriteOp(b) == [kind |-> "write", vals |-> b]
BadOp    == [kind |-> "bad"]

Task(stage, op, got) == [stage |-> stage, op |-> op, got |-> got]

(* A process that was killed takes no further step. *)
Alive == main # "killed"

(* What clients do when the server is no more is not followed. *)
Up == main \notin {"killed", "returned"}

(* NewAt.  Serving has begun when main goes on to seed the registers.  The *)
(* goroutine of serve is counted before it is started.                     *)
Init == /\ program \in {"plc", "test", "probe"}
        /\ main = IF program = "probe" THEN "serving" ELSE "seeding"
        /\ listening = TRUE
        /\ backlog = <<>>
        /\ acceptor = 0
        /\ wg = 1
        /\ mu = {}
        /\ regs = InitBlock
        /\ task = [w \in Workers |->
                     IF w = Main /\ program # "probe" THEN Task("taken", WriteOp(Seed), <<>>)
                     ELSE Task("none", ReadOp, <<>>)]
        /\ client = [k \in Conns |-> "none"]
        /\ sent = [k \in Conns |-> 0]
        /\ inbox = [k \in Conns |-> <<>>]
        /\ replied = [k \in Conns |-> NoReply]

(***************************************************************************)
(* serve.                                                                  *)
(***************************************************************************)
Accept ==
    /\ Alive /\ acceptor = 0 /\ listening
    /\ backlog # <<>>
    /\ acceptor' = Head(backlog)
    /\ backlog' = Tail(backlog)
    /\ UNCHANGED <<program, main, listening, wg, mu, regs, task, clientVars, replied>>

(* Mutant: the handler counts itself, when it gets to run. *)
StartHandlerUncounted ==
    /\ Alive /\ acceptor \in Conns
    /\ task' = [task EXCEPT ![acceptor] = Task("read", ReadOp, <<>>)]
    /\ acceptor' = 0
    /\ UNCHANGED <<program, main, listening, backlog, wg, mu, regs, clientVars, replied>>

StartHandler ==
    /\ Alive /\ acceptor \in Conns
    /\ wg' = wg + 1
    /\ task' = [task EXCEPT ![acceptor] = Task("read", ReadOp, <<>>)]
    /\ acceptor' = 0
    /\ UNCHANGED <<program, main, listening, backlog, mu, regs, clientVars, replied>>

(* Accept fails once the listener is closed: serve returns. *)
AcceptFails ==
    /\ Alive /\ acceptor = 0 /\ ~listening
    /\ acceptor' = gone
    /\ wg' = wg - 1
    /\ UNCHANGED <<program, main, listening, backlog, mu, regs, task, clientVars, replied>>

(***************************************************************************)
(* handle.                                                                 *)
(***************************************************************************)
Forget(k) == /\ task' = [task EXCEPT ![k] = Task("done", ReadOp, <<>>)]
             /\ inbox' = [inbox EXCEPT ![k] = <<>>]
             /\ UNCHANGED <<program, main, listenVars, mu, regs, client, sent, replied>>

Leave(k) == Forget(k) /\ wg' = wg - 1

ReadRequest(k) ==
    /\ Alive /\ task[k].stage = "read"
    /\ inbox[k] # <<>>
    /\ Head(inbox[k]) # BadOp
    /\ task' = [task EXCEPT ![k] = Task("taken", Head(inbox[k]), <<>>)]
    /\ inbox' = [inbox EXCEPT ![k] = Tail(@)]
    /\ UNCHANGED <<program, main, listenVars, wg, mu, regs, client, sent, replied>>

(* Something that is no request, or the end of the connection.  A client   *)
(* that closes with replies unread also takes back what it had sent.       *)
EndOfRequests(k) ==
    /\ Alive /\ task[k].stage = "read"
    /\ \/ client[k] = "closed"
       \/ inbox[k] # <<>> /\ Head(inbox[k]) = BadOp
    /\ Leave(k)

(* Mutant: a drop leaves without telling the wait group. *)
DropUncounted(k) ==
    /\ Alive /\ program = "test" /\ task[k].stage = "taken"
    /\ Forget(k)
    /\ UNCHANGED wg

(* shouldDrop: with WithDropRate, which only tests use. *)
Drop(k) == /\ Alive /\ program = "test" /\ task[k].stage = "taken"
           /\ Leave(k)

ReplyOf(t) == IF t.op = ReadOp THEN [kind |-> "values", vals |-> t.got] ELSE [kind |-> "ack"]

Respond(k) ==
    /\ Alive /\ task[k].stage = "respond"
    /\ replied' = [replied EXCEPT ![k] = ReplyOf(task[k])]
    /\ task' = [task EXCEPT ![k] = Task("read", ReadOp, <<>>)]
    /\ UNCHANGED <<program, main, listenVars, wg, mu, regs, clientVars>>

RespondFails(k) ==
    /\ Alive /\ task[k].stage = "respond"
    /\ client[k] = "closed"
    /\ Leave(k)

(***************************************************************************)
(* dispatch, and SetHoldingRange, which main calls: the block is read or   *)
(* written register by register under the mutex.                           *)
(***************************************************************************)
Progress(w, t) == /\ task' = [task EXCEPT ![w] = t]
                  /\ UNCHANGED <<program, listenVars, wg, clientVars, replied>>

(* Mutant: a read does without the mutex. *)
LockToWrite(w) ==
    /\ Alive /\ task[w].stage = "taken"
    /\ IF task[w].op = ReadOp THEN UNCHANGED mu ELSE mu = {} /\ mu' = {w}
    /\ Progress(w, [task[w] EXCEPT !.stage = "locked"])
    /\ UNCHANGED <<main, regs>>

Lock(w) ==
    /\ Alive /\ task[w].stage = "taken"
    /\ mu = {}
    /\ mu' = {w}
    /\ Progress(w, [task[w] EXCEPT !.stage = "locked"])
    /\ UNCHANGED <<main, regs>>

(* got is what a read has copied, and what a write has stored. *)
Touch(w) ==
    /\ Alive /\ task[w].stage = "locked"
    /\ Len(task[w].got) < Size
    /\ LET i == Len(task[w].got) + 1
       IN  /\ regs' = IF task[w].op = ReadOp THEN regs
                      ELSE [regs EXCEPT ![i] = task[w].op.vals[i]]
           /\ Progress(w, [task[w] EXCEPT !.got = Append(@, regs'[i])])
    /\ UNCHANGED <<main, mu>>

Unlock(w) ==
    /\ Alive /\ task[w].stage = "locked"
    /\ Len(task[w].got) = Size
    /\ mu' = mu \ {w}
    /\ IF w = Main
       THEN Progress(w, Task("none", ReadOp, <<>>)) /\ main' = "serving"
       ELSE Progress(w, [task[w] EXCEPT !.stage = "respond"]) /\ UNCHANGED main
    /\ UNCHANGED regs

(***************************************************************************)
(* main, and Close.                                                        *)
(***************************************************************************)
(* Mutant: the probe closes its server first. *)
StoppingServerFirst == main = "serving" /\ (program = "probe" => sent[1] = MaxRequests)

(* Signals are caught from the end of the seeding on; close(stop) is for   *)
(* the goroutine of the tank and waits for nothing.  The deferred Closes   *)
(* of the probe run last in, first out: its client's, then the server's.   *)
Stopping == main = "serving" /\ (program = "probe" => client[1] = "closed")

(* ln.Close: connections nobody accepted are reset. *)
CloseListener ==
    /\ Stopping
    /\ main' = "closing"
    /\ listening' = FALSE
    /\ backlog' = <<>>
    /\ client' = [k \in Conns |-> IF \E i \in 1..Len(backlog) : backlog[i] = k
                                  THEN "closed" ELSE client[k]]
    /\ UNCHANGED <<program, acceptor, wg, mu, regs, task, sent, inbox, replied>>

WaitDone ==
    /\ main = "closing"
    /\ wg = 0
    /\ main' = "returned"
    /\ UNCHANGED <<program, listenVars, wg, mu, regs, task, clientVars, replied>>

(* A signal before NotifyContext, or after the deferred stopSig, kills.    *)
Kill == /\ program = "plc" /\ main \in {"seeding", "closing"}
        /\ main' = "killed"
        /\ UNCHANGED <<program, listenVars, wg, mu, regs, task, clientVars, replied>>

(***************************************************************************)
(* The clients: anybody's, or the probe's own.                             *)
(***************************************************************************)
Others == program # "probe"
Asked  == {ReadOp, BadOp} \union {WriteOp(b) : b \in Blocks}

Dial(k) == /\ Others \/ (k = 1 /\ main = "serving")
           /\ listening /\ Alive
           /\ client[k] = "none"
           /\ client' = [client EXCEPT ![k] = "open"]
           /\ backlog' = Append(backlog, k)
           /\ UNCHANGED <<program, main, listening, acceptor, wg, mu, regs, task, sent,
                          inbox, replied>>

SendsLeft == FoldFunction(+, 0, sent) < MaxRequests

Send(k, op) == /\ Up /\ client[k] = "open"
               /\ SendsLeft
               /\ sent' = [sent EXCEPT ![k] = @ + 1]
               /\ inbox' = [inbox EXCEPT ![k] = IF task[k].stage = "done" THEN @
                                                 ELSE Append(@, op)]
               /\ UNCHANGED <<program, main, listenVars, wg, mu, regs, task, client, replied>>

(* The probe is the main goroutine: one call after the other, and its      *)
(* connection is idle when none of its requests is unanswered.             *)
Idle == /\ program = "probe" /\ main = "serving"
        /\ inbox[1] = <<>> /\ task[1].stage \in {"none", "read"}

ProbeRead == Idle /\ Send(1, ReadOp)

Hang(k) == /\ Up /\ client[k] = "open"
           /\ client' = [client EXCEPT ![k] = "closed"]
           /\ UNCHANGED <<program, main, listenVars, wg, mu, regs, task, sent, inbox, replied>>

ProbeDone == Idle /\ sent[1] = MaxRequests /\ Hang(1)

(* A read of the probe that times out ends it by os.Exit. *)
ProbeFails == /\ program = "probe" /\ main = "serving"
              /\ ~Idle
              /\ main' = "killed"
              /\ UNCHANGED <<program, listenVars, wg, mu, regs, task, clientVars, replied>>

Serving == Accept \/ StartHandler \/ AcceptFails
Handling(k) == \/ ReadRequest(k)
               \/ EndOfRequests(k)
               \/ Drop(k)
               \/ Respond(k)
               \/ RespondFails(k)
Working(w) == Lock(w) \/ Touch(w) \/ Unlock(w)
Probing == Dial(1) \/ ProbeRead \/ ProbeDone

Next == \/ Serving
        \/ \E k \in Conns : Handling(k)
        \/ \E w \in Workers : Working(w)
        \/ CloseListener
        \/ WaitDone
        \/ Kill
        \/ \E k \in Conns : \/ Dial(k)
                            \/ Others /\ \E op \in Asked : Send(k, op)
                            \/ Others /\ Hang(k)
        \/ ProbeRead
        \/ ProbeDone
        \/ ProbeFails

ServerSpec == Init /\ [][Next]_serverVars

(* Goroutines that can run do, the mutex is handed on in turn; the probe   *)
(* goes on with its reads.  The clients of others do as they like.         *)
FairServerSpec ==
    /\ ServerSpec
    /\ WF_serverVars(Serving) /\ WF_serverVars(WaitDone)
    /\ \A k \in Conns : WF_serverVars(Handling(k))
    /\ \A w \in Workers : WF_serverVars(Working(w))
    /\ WF_serverVars(program = "probe" /\ (Probing \/ CloseListener))

-----------------------------------------------------------------------------
(***************************************************************************)
(* Properties.                                                             *)
(***************************************************************************)
(* When Close has returned nothing of the server is left: no goroutine     *)
(* accepts, none handles, none holds the mutex, and no connection that was *)
(* dialled in time waits for a server that is gone (server.go, Close: the  *)
(* goroutine between Accept and wg.Add is covered by serve's own count).   *)
NothingAfterClose ==
    main = "returned" =>
        /\ acceptor = gone /\ backlog = <<>>
        /\ \A k \in Conns : task[k].stage \in {"none", "done"}
        /\ mu = {}

(* Whatever the goroutines do, clients see one block that changes at one   *)
(* instant per request: no torn read, no lost or doubled write, no reply   *)
(* from before a write that was acknowledged earlier (server.go, dispatch  *)
(* and SetHoldingRange under one mutex).                                   *)
Rest(t) == [i \in 1..Size |-> IF t.op # ReadOp THEN t.op.vals[i]
                              ELSE IF i <= Len(t.got) THEN t.got[i] ELSE regs[i]]

BlockNow == IF \E w \in mu : task[w].op # ReadOp THEN Rest(task[CHOOSE w \in mu : TRUE])
            ELSE regs

AskedNow(k) == IF task[k].stage = "taken" THEN <<task[k].op>> \o inbox[k] ELSE inbox[k]

EffectNow(k) == IF task[k].stage \notin {"locked", "respond"} THEN NoReply
                ELSE IF task[k].op = ReadOp THEN [kind |-> "values", vals |-> Rest(task[k])]
                ELSE [kind |-> "ack"]

Device == INSTANCE AtomicDevice WITH
            Blocks <- Blocks \union {Seed},
            block  <- BlockNow,
            asked  <- [k \in Conns |-> AskedNow(k)],
            effect <- [k \in Conns |-> EffectNow(k)]

ServesAtomically == Device!Spec

(* Close waits for the clients and for nothing else: once none of them has *)
(* its connection open, it returns (server.go:93-97; nothing closes the    *)
(* connections of the clients that stay, main.go:29).                      *)
CloseReturns == (main = "closing" /\ \A k \in Conns : client[k] # "open")
                    ~> (main \in {"returned", "killed"})

(* While Close waits, and no client has its connection open, it is never   *)
(* left waiting for a goroutine that waits itself: either the wait group   *)
(* is at zero, or serve is still to see that the listener is closed, or a  *)
(* handler has its connection to look at or a reply to send, or a worker   *)
(* has the mutex or can take it (server.go:93-97, over handle, dispatch    *)
(* and serve).                                                             *)
Ready(k) == \/ task[k].stage = "read" /\ (client[k] = "closed" \/ inbox[k] # <<>>)
            \/ task[k].stage = "respond"
Unblocked(w) == \/ task[w].stage = "taken" /\ mu = {}
                \/ task[w].stage = "locked" /\ mu = {w}

CloseIsNotStuck ==
    main = "closing" /\ (\A k \in Conns : client[k] # "open") =>
        \/ wg = 0
        \/ acceptor \in Conns
        \/ acceptor = 0 /\ ~listening
        \/ \E k \in Conns : Ready(k)
        \/ \E w \in Workers : Unblocked(w)

(* The probe always ends, although it waits for its own server to close:   *)
(* its client has left before (main.go:57, 69).                            *)
ProbeEnds == program = "probe" ~> main \in {"returned", "killed"}
=============================================================================
