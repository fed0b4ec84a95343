-------------------------- MODULE MockServer_proofs --------------------------
(***************************************************************************)
(* Proofs about MockServer, for every number of connections and requests,  *)
(* every size of the block and whatever clients write to it.               *)
(***************************************************************************)
EXTENDS MockServer, FiniteSetTheorems, SequenceTheorems, TLAPS

(***************************************************************************)
(* The inductive invariant.                                                *)
(***************************************************************************)
Block  == {b \in Seq(Nat) : Len(b) = Size}
Ops    == {ReadOp, BadOp} \union {WriteOp(b) : b \in Blocks \union {Seed}}
Stages == {"none", "read", "taken", "locked", "respond", "done"}
Tasks  == [stage : Stages, op : Ops, got : Seq(Nat)]

ServerTypeOK == /\ program \in {"plc", "test", "probe"}
                /\ main \in {"seeding", "serving", "closing", "returned", "killed"}
                /\ listening \in BOOLEAN
                /\ backlog \in Seq(Conns)
                /\ acceptor \in 0..gone
                /\ wg \in Nat
                /\ regs \in Block
                /\ task \in [Workers -> Tasks]
                /\ client \in [Conns -> {"none", "open", "closed"}]
                /\ inbox \in [Conns -> Seq(Ops)]

(* How far each worker is with its request; a write that is under way has  *)
(* stored what it says it has.  The main goroutine only seeds.             *)
TaskOK(w) ==
    LET t == task[w]
    IN  /\ Len(t.got) <= Size
        /\ t.stage = "taken" => t.got = <<>>
        /\ t.stage \in {"taken", "locked", "respond"} => t.op # BadOp
        /\ t.stage = "respond" => Len(t.got) = Size
        /\ t.stage = "locked" /\ t.op # ReadOp =>
              \A i \in 1..Len(t.got) : regs[i] = t.op.vals[i]

TasksOK == /\ \A w \in Workers : TaskOK(w)
           /\ task[Main].stage \in {"none", "taken", "locked"}
           /\ task[Main].stage # "none" => main \in {"seeding", "killed"}

(* One worker holds the mutex, and it is the one that touches registers. *)
Mutex == /\ mu = {} \/ \E w \in Workers : mu = {w}
         /\ \A w \in Workers : task[w].stage = "locked" <=> mu = {w}

(* A connection has a handler only after it was accepted, once. *)
Admitted ==
    /\ \A k \in Conns : client[k] = "none" =>
          /\ task[k].stage = "none" /\ acceptor # k
          /\ \A i \in 1..Len(backlog) : backlog[i] # k
    /\ \A i \in 1..Len(backlog) :
          /\ task[backlog[i]].stage = "none" /\ acceptor # backlog[i]
          /\ \A j \in 1..Len(backlog) : i # j => backlog[i] # backlog[j]
    /\ acceptor \in Conns => task[acceptor].stage = "none"

(* The wait group counts serve and every handler that has been started. *)
Handled == {k \in Conns : task[k].stage \in {"read", "taken", "locked", "respond"}}
Counted == wg = (IF acceptor = gone THEN 0 ELSE 1) + Cardinality(Handled)

Closing == /\ acceptor = gone => ~listening
           /\ ~listening => backlog = <<>>
           /\ main \in {"closing", "returned"} => ~listening
           /\ main = "returned" => wg = 0

ServerIInv == ServerTypeOK /\ TasksOK /\ Mutex /\ Admitted /\ Counted /\ Closing

(***************************************************************************)
(* Lemmas about the parts.                                                 *)
(***************************************************************************)
LEMMA Numbers == /\ MaxConns \in Nat \ {0} /\ Size \in Nat \ {0} /\ MaxRequests \in Nat
                 /\ gone \in Nat /\ gone \notin Conns /\ 0 \notin Conns /\ gone # 0
                 /\ \A k \in Conns : k \in Nat /\ k # Main /\ k # gone /\ k \in 0..gone
                 /\ Conns \subseteq Workers /\ Main \in Workers
                 /\ gone \in 0..gone /\ 0 \in 0..gone
  BY ConnsAssumption, BlockAssumption, RequestsAssumption DEF gone, Conns, Workers, Main

LEMMA OpFacts ==
    /\ ReadOp \in Ops /\ BadOp \in Ops /\ ReadOp # BadOp
    /\ \A b \in Blocks \union {Seed} : WriteOp(b) \in Ops /\ WriteOp(b) # ReadOp /\ WriteOp(b) # BadOp
    /\ \A op \in Ops : op # ReadOp /\ op # BadOp =>
          op.vals \in Blocks \union {Seed} /\ op = WriteOp(op.vals)
    /\ \A b \in Blocks \union {InitBlock, Seed} : b \in Block
  <1>1. ReadOp.kind = "read" /\ BadOp.kind = "bad"
    BY DEF ReadOp, BadOp
  <1>2. \A b \in Blocks \union {Seed} : WriteOp(b).kind = "write" /\ WriteOp(b).vals = b
    BY DEF WriteOp
  <1>3. ReadOp \in Ops /\ BadOp \in Ops
    BY DEF Ops
  <1>4. \A b \in Blocks \union {Seed} : WriteOp(b) \in Ops
    BY DEF Ops
  <1>5. ReadOp # BadOp
    BY <1>1
  <1>6. \A b \in Blocks \union {Seed} : WriteOp(b) # ReadOp /\ WriteOp(b) # BadOp
    BY <1>1, <1>2
  <1>7. ASSUME NEW op \in Ops, op # ReadOp, op # BadOp
        PROVE  op.vals \in Blocks \union {Seed} /\ op = WriteOp(op.vals)
    <2>1. PICK b \in Blocks \union {Seed} : op = WriteOp(b)
      BY <1>7 DEF Ops
    <2> QED BY <2>1, <1>2
  <1>8. \A b \in Blocks \union {InitBlock, Seed} : b \in Block
    BY BlockAssumption DEF Block
  <1> QED BY <1>3, <1>4, <1>5, <1>6, <1>7, <1>8

LEMMA FewHandled == IsFiniteSet(Handled) /\ Cardinality(Handled) \in Nat
                    /\ (Cardinality(Handled) = 0 => Handled = {})
  <1>1. IsFiniteSet(Conns)
    BY FS_Interval, Numbers DEF Conns
  <1>2. Handled \in SUBSET Conns
    BY DEF Handled
  <1>3. IsFiniteSet(Handled)
    BY <1>1, <1>2, FS_Subset
  <1> QED BY <1>3, FS_CardinalityType, FS_EmptySet

(* Only one task changes at a time. *)
LEMMA OneTask ==
    ASSUME task \in [Workers -> Tasks], NEW w \in Workers, NEW t \in Tasks,
           task' = [task EXCEPT ![w] = t]
    PROVE  /\ task' \in [Workers -> Tasks]
           /\ task'[w] = t
           /\ \A v \in Workers : v # w => task'[v] = task[v]
  OBVIOUS

LEMMA TaskFields ==
    ASSUME NEW stage \in Stages, NEW op \in Ops, NEW got \in Seq(Nat)
    PROVE  /\ Task(stage, op, got) \in Tasks
           /\ Task(stage, op, got).stage = stage
           /\ Task(stage, op, got).op = op
           /\ Task(stage, op, got).got = got
  BY DEF Task, Tasks

LEMMA ServerInit == Init => ServerIInv
  <1> SUFFICES ASSUME Init PROVE ServerIInv
    OBVIOUS
  <1>1. <<>> \in Seq(Nat) /\ <<>> \in Seq(Conns) /\ <<>> \in Seq(Ops) /\ Len(<<>>) = 0
    OBVIOUS
  <1>2. /\ Task("none", ReadOp, <<>>) \in Tasks
        /\ Task("taken", WriteOp(Seed), <<>>) \in Tasks
    BY <1>1, OpFacts, TaskFields DEF Stages
  <1>3. task \in [Workers -> Tasks]
    BY <1>2 DEF Init
  <1>4. /\ \A k \in Conns : task[k] = Task("none", ReadOp, <<>>)
        /\ task[Main] = IF program = "probe" THEN Task("none", ReadOp, <<>>)
                        ELSE Task("taken", WriteOp(Seed), <<>>)
    BY Numbers DEF Init
  <1>5. /\ Task("none", ReadOp, <<>>).stage = "none" /\ Task("none", ReadOp, <<>>).got = <<>>
        /\ Task("taken", WriteOp(Seed), <<>>).stage = "taken"
        /\ Task("taken", WriteOp(Seed), <<>>).got = <<>>
        /\ Task("taken", WriteOp(Seed), <<>>).op = WriteOp(Seed)
    BY DEF Task
  <1>6. ServerTypeOK
    BY <1>1, <1>3, Numbers, OpFacts DEF Init, ServerTypeOK
  <1>7. TasksOK
    <2>1. \A w \in Workers : w \in Conns \/ w = Main
      BY DEF Workers
    <2>2. Size \in Nat
      BY Numbers
    <2>3. \A w \in Workers : TaskOK(w)
      BY <1>1, <1>4, <1>5, <2>1, <2>2, OpFacts DEF TaskOK
    <2> QED BY <1>4, <1>5, <2>3 DEF TasksOK, Init
  <1>8. Mutex
    <2>1. \A w \in Workers : w \in Conns \/ w = Main
      BY DEF Workers
    <2> QED BY <1>4, <1>5, <2>1 DEF Mutex, Init
  <1>9. Admitted
    BY <1>1, <1>4, <1>5, Numbers DEF Admitted, Init
  <1>10. Handled = {}
    BY <1>4, <1>5 DEF Handled
  <1>11. Counted /\ Closing
    BY <1>10, FS_EmptySet, Numbers DEF Counted, Closing, Init
  <1> QED BY <1>6, <1>7, <1>8, <1>9, <1>11 DEF ServerIInv

(***************************************************************************)
(* How the parts follow when one task moves on.                            *)
(***************************************************************************)
LEMMA TasksMove ==
    ASSUME ServerTypeOK, TasksOK, NEW w \in Workers, NEW t \in Tasks,
           task' = [task EXCEPT ![w] = t],
           \/ regs' = regs
           \/ \A v \in Workers : v # w => task[v].stage # "locked",
           TaskOK(w)',
           w = Main => t.stage = "none" \/ (t.stage = "locked" /\ task[w].stage # "none"),
           w = Main /\ t.stage # "none" => main' = main,
           w # Main => main' = main
    PROVE  TasksOK'
  <1>1. /\ task'[w] = t
        /\ \A v \in Workers : v # w => task'[v] = task[v]
    BY OneTask DEF ServerTypeOK
  <1>2. ASSUME NEW v \in Workers, v # w PROVE TaskOK(v)'
    <2>1. TaskOK(v)
      BY DEF TasksOK
    <2>2. task'[v] = task[v]
      BY <1>1, <1>2
    <2>3. CASE regs' = regs
      BY <2>1, <2>2, <2>3 DEF TaskOK
    <2>4. CASE task[v].stage # "locked"
      BY <2>1, <2>2, <2>4 DEF TaskOK
    <2> QED BY <2>3, <2>4, <1>2
  <1>3. \A v \in Workers : TaskOK(v)'
    BY <1>2
  <1>4. /\ task'[Main].stage \in {"none", "taken", "locked"}
        /\ task'[Main].stage # "none" => main' \in {"seeding", "killed"}
    BY <1>1, Numbers DEF TasksOK
  <1> QED BY <1>3, <1>4 DEF TasksOK

LEMMA MutexMove ==
    ASSUME ServerTypeOK, Mutex, NEW w \in Workers, NEW t \in Tasks,
           task' = [task EXCEPT ![w] = t],
           task[w].stage = "locked" <=> t.stage = "locked",
           mu' = mu
    PROVE  Mutex'
  BY OneTask DEF ServerTypeOK, Mutex

LEMMA AdmittedMove ==
    ASSUME ServerTypeOK, Admitted, NEW w \in Workers, NEW t \in Tasks,
           task' = [task EXCEPT ![w] = t],
           w \in Conns => task[w].stage # "none",
           client' = client, backlog' = backlog, acceptor' = acceptor
    PROVE  Admitted'
  <1>1. \A v \in Workers : v # w => task'[v] = task[v]
    BY OneTask DEF ServerTypeOK
  <1>2. \A v \in Conns : task[v].stage = "none" => task'[v] = task[v]
    BY <1>1, Numbers
  <1>3. \A i \in 1..Len(backlog) : backlog[i] \in Conns
    BY DEF ServerTypeOK
  <1>4. \A k \in Conns : client[k] = "none" =>
          /\ task'[k].stage = "none" /\ acceptor # k
          /\ \A i \in 1..Len(backlog) : backlog[i] # k
    BY <1>2 DEF Admitted
  <1>5. \A i \in 1..Len(backlog) :
          /\ task'[backlog[i]].stage = "none" /\ acceptor # backlog[i]
          /\ \A j \in 1..Len(backlog) : i # j => backlog[i] # backlog[j]
    BY <1>2, <1>3 DEF Admitted
  <1>6. acceptor \in Conns => task'[acceptor].stage = "none"
    BY <1>2 DEF Admitted
  <1> QED BY <1>4, <1>5, <1>6 DEF Admitted

Live == {"read", "taken", "locked", "respond"}

LEMMA HandledSame ==
    ASSUME ServerTypeOK, NEW w \in Workers, NEW t \in Tasks,
           task' = [task EXCEPT ![w] = t],
           w \in Conns => (task[w].stage \in Live <=> t.stage \in Live)
    PROVE  Handled' = Handled
  <1>1. \A k \in Conns : task'[k].stage \in Live <=> task[k].stage \in Live
    BY OneTask, Numbers DEF ServerTypeOK
  <1> QED BY <1>1 DEF Handled, Live

LEMMA HandledMore ==
    ASSUME ServerTypeOK, NEW k \in Conns, NEW t \in Tasks,
           task' = [task EXCEPT ![k] = t],
           task[k].stage \notin Live, t.stage \in Live
    PROVE  Cardinality(Handled') = Cardinality(Handled) + 1
  <1>1. k \in Workers
    BY Numbers
  <1>2. task'[k] = t /\ \A v \in Workers : v # k => task'[v] = task[v]
    BY OneTask, <1>1 DEF ServerTypeOK
  <1>3. \A v \in Conns : task'[v].stage \in Live <=> v = k \/ task[v].stage \in Live
    BY <1>2, Numbers
  <1>4. Handled' = Handled \union {k} /\ k \notin Handled
    BY <1>3 DEF Handled, Live
  <1> QED BY <1>4, FewHandled, FS_AddElement

LEMMA HandledLess ==
    ASSUME ServerTypeOK, NEW k \in Conns, NEW t \in Tasks,
           task' = [task EXCEPT ![k] = t],
           task[k].stage \in Live, t.stage \notin Live
    PROVE  Cardinality(Handled') = Cardinality(Handled) - 1
  <1>1. k \in Workers
    BY Numbers
  <1>2. task'[k] = t /\ \A v \in Workers : v # k => task'[v] = task[v]
    BY OneTask, <1>1 DEF ServerTypeOK
  <1>3. \A v \in Conns : task'[v].stage \in Live <=> v # k /\ task[v].stage \in Live
    BY <1>2, Numbers
  <1>4. Handled' = Handled \ {k} /\ k \in Handled
    BY <1>3 DEF Handled, Live
  <1> QED BY <1>4, FewHandled, FS_RemoveElement

(***************************************************************************)
(* The invariant, action by action.                                        *)
(***************************************************************************)
LEMMA SameTasks ==
    ASSUME ServerIInv, task' = task, mu' = mu, regs' = regs,
           main' = main \/ task[Main].stage = "none" \/ main' = "killed"
    PROVE  TasksOK' /\ Mutex' /\ Handled' = Handled
  <1>1. \A w \in Workers : TaskOK(w)'
    BY DEF ServerIInv, TasksOK, TaskOK
  <1>2. TasksOK'
    BY <1>1 DEF ServerIInv, TasksOK
  <1>3. Mutex'
    BY DEF ServerIInv, Mutex
  <1>4. Handled' = Handled
    BY DEF Handled
  <1> QED BY <1>2, <1>3, <1>4

LEMMA AcceptKeeps == ServerIInv /\ Accept => ServerIInv'
  <1> SUFFICES ASSUME ServerIInv, Accept PROVE ServerIInv'
    OBVIOUS
  <1>1. backlog \in Seq(Conns) /\ backlog # <<>> /\ Len(backlog) \in Nat
    BY DEF ServerIInv, ServerTypeOK, Accept
  <1>2. /\ acceptor' = backlog[1] /\ acceptor' \in Conns /\ acceptor' # gone
        /\ backlog' \in Seq(Conns) /\ Len(backlog') = Len(backlog) - 1
        /\ \A i \in 1..Len(backlog') : backlog'[i] = backlog[i + 1] /\ i + 1 \in 1..Len(backlog)
    BY <1>1, Numbers DEF Accept
  <1>3. ServerTypeOK'
    BY <1>2, Numbers DEF ServerIInv, ServerTypeOK, Accept, clientVars
  <1>4. TasksOK' /\ Mutex' /\ Handled' = Handled
    BY SameTasks DEF Accept
  <1>5. Admitted'
    <2>1. 1 \in 1..Len(backlog)
      BY <1>1
    <2>2. task' = task /\ client' = client
      BY DEF Accept, clientVars
    <2>3. ASSUME NEW k \in Conns, client[k] = "none"
          PROVE  task'[k].stage = "none" /\ acceptor' # k
                 /\ \A i \in 1..Len(backlog') : backlog'[i] # k
      BY <1>2, <2>1, <2>2, <2>3 DEF ServerIInv, Admitted
    <2>4. ASSUME NEW i \in 1..Len(backlog')
          PROVE  /\ task'[backlog'[i]].stage = "none" /\ acceptor' # backlog'[i]
                 /\ \A j \in 1..Len(backlog') : i # j => backlog'[i] # backlog'[j]
      <3>1. i + 1 \in 1..Len(backlog) /\ i + 1 # 1 /\ backlog'[i] = backlog[i + 1]
        BY <1>2
      <3>2. /\ task[backlog[i + 1]].stage = "none"
            /\ \A j \in 1..Len(backlog) : i + 1 # j => backlog[i + 1] # backlog[j]
        BY <3>1 DEF ServerIInv, Admitted
      <3>3. \A j \in 1..Len(backlog') : i # j => i + 1 # j + 1
        BY <1>1, <1>2
      <3> QED BY <1>2, <2>1, <2>2, <3>1, <3>2, <3>3
    <2>5. task'[acceptor'].stage = "none"
      BY <1>2, <2>1, <2>2 DEF ServerIInv, Admitted
    <2> QED BY <2>2, <2>3, <2>4, <2>5 DEF Admitted
  <1>6. Counted'
    BY <1>2, <1>4, Numbers DEF ServerIInv, Counted, Accept
  <1>7. Closing'
    BY <1>2 DEF ServerIInv, Closing, Accept
  <1> QED BY <1>3, <1>4, <1>5, <1>6, <1>7 DEF ServerIInv

(* The tasks that a worker is given, or left with. *)
LEMMA FreshTasks ==
    ASSUME NEW stage \in {"none", "read", "done"}
    PROVE  /\ Task(stage, ReadOp, <<>>) \in Tasks
           /\ Task(stage, ReadOp, <<>>).stage = stage
           /\ Task(stage, ReadOp, <<>>).op = ReadOp
           /\ Task(stage, ReadOp, <<>>).got = <<>>
           /\ Len(<<>>) = 0
  <1>1. <<>> \in Seq(Nat) /\ Len(<<>>) = 0 /\ stage \in Stages /\ ReadOp \in Ops
    BY OpFacts DEF Stages
  <1> QED BY <1>1 DEF Task, Tasks

LEMMA StartHandlerKeeps == ServerIInv /\ StartHandler => ServerIInv'
  <1> SUFFICES ASSUME ServerIInv, StartHandler PROVE ServerIInv'
    OBVIOUS
  <1> DEFINE t == Task("read", ReadOp, <<>>)
  <1>2. t \in Tasks /\ t.stage = "read" /\ t.op = ReadOp /\ t.got = <<>>
    BY FreshTasks
  <1>3. PICK k \in Conns : /\ k = acceptor /\ k \in Workers /\ k # Main
                           /\ task' = [task EXCEPT ![k] = t]
    BY Numbers DEF StartHandler
  <1> HIDE DEF t
  <1>4. task'[k] = t /\ task' \in [Workers -> Tasks]
        /\ \A v \in Workers : v # k => task'[v] = task[v]
    BY <1>2, <1>3, OneTask DEF ServerIInv, ServerTypeOK
  <1>5. task[k].stage = "none"
    BY <1>3 DEF ServerIInv, Admitted
  <1>6. ServerTypeOK'
    BY <1>4, Numbers DEF ServerIInv, ServerTypeOK, StartHandler, clientVars
  <1>7. TaskOK(k)'
    BY <1>2, <1>4, Numbers DEF TaskOK
  <1>7a. TasksOK'
    BY <1>2, <1>3, <1>7, TasksMove DEF ServerIInv, StartHandler
  <1>8. Mutex'
    BY <1>2, <1>3, <1>5, MutexMove DEF ServerIInv, StartHandler
  <1>9. Admitted'
    <2>1. client' = client /\ backlog' = backlog /\ acceptor' = 0
      BY DEF StartHandler, clientVars
    <2>2. \A i \in 1..Len(backlog) : backlog[i] \in Conns /\ backlog[i] # k
      BY <1>3 DEF ServerIInv, ServerTypeOK, Admitted
    <2>3. \A c \in Conns : c # k => task'[c] = task[c]
      BY <1>4, Numbers
    <2>4. \A c \in Conns : client[c] = "none" => c # k
      BY <1>3 DEF ServerIInv, Admitted
    <2>5. \A c \in Conns : client[c] = "none" =>
             /\ task'[c].stage = "none" /\ acceptor' # c
             /\ \A i \in 1..Len(backlog) : backlog[i] # c
      BY <2>1, <2>3, <2>4, Numbers DEF ServerIInv, Admitted
    <2>6. \A i \in 1..Len(backlog) :
             /\ task'[backlog[i]].stage = "none" /\ acceptor' # backlog[i]
             /\ \A j \in 1..Len(backlog) : i # j => backlog[i] # backlog[j]
      BY <2>1, <2>2, <2>3, Numbers DEF ServerIInv, Admitted
    <2> QED BY <2>1, <2>5, <2>6, Numbers DEF Admitted
  <1>10. Counted'
    <2>1. Cardinality(Handled') = Cardinality(Handled) + 1
      BY <1>2, <1>3, <1>5, HandledMore DEF ServerIInv, Live
    <2>2. Cardinality(Handled) \in Nat
      BY FewHandled
    <2> QED BY <1>3, <2>1, <2>2, Numbers DEF ServerIInv, Counted, StartHandler
  <1>11. Closing'
    <2>1. main # "returned"
      <3>1. Cardinality(Handled) \in Nat
        BY FewHandled
      <3> QED BY <1>3, <3>1, Numbers DEF ServerIInv, Counted, Closing
    <2> QED BY <2>1, Numbers DEF ServerIInv, Closing, StartHandler
  <1> QED BY <1>6, <1>7a, <1>8, <1>9, <1>10, <1>11 DEF ServerIInv

LEMMA AcceptFailsKeeps == ServerIInv /\ AcceptFails => ServerIInv'
  <1> SUFFICES ASSUME ServerIInv, AcceptFails PROVE ServerIInv'
    OBVIOUS
  <1>1. Cardinality(Handled) \in Nat
    BY FewHandled
  <1>2. wg = 1 + Cardinality(Handled) /\ wg' = Cardinality(Handled)
    BY <1>1, Numbers DEF ServerIInv, Counted, AcceptFails
  <1>3. ServerTypeOK'
    BY <1>1, <1>2, Numbers DEF ServerIInv, ServerTypeOK, AcceptFails, clientVars
  <1>4. TasksOK' /\ Mutex' /\ Handled' = Handled
    BY SameTasks DEF AcceptFails
  <1>5. Admitted'
    <2>1. \A i \in 1..Len(backlog) : backlog[i] \in Conns
      BY DEF ServerIInv, ServerTypeOK
    <2> QED BY <2>1, Numbers DEF ServerIInv, Admitted, AcceptFails, clientVars
  <1>6. Counted'
    BY <1>1, <1>2, <1>4 DEF Counted, AcceptFails
  <1>7. Closing'
    BY <1>1, <1>2 DEF ServerIInv, Closing, AcceptFails
  <1> QED BY <1>3, <1>4, <1>5, <1>6, <1>7 DEF ServerIInv

LEMMA LeaveKeeps ==
    ASSUME ServerIInv, NEW k \in Conns, task[k].stage \in {"read", "taken", "respond"}, Leave(k)
    PROVE  ServerIInv'
  <1> DEFINE t == Task("done", ReadOp, <<>>)
  <1>1. t \in Tasks /\ t.stage = "done" /\ t.op = ReadOp /\ t.got = <<>> /\ Len(<<>>) = 0
    BY FreshTasks
  <1>2. k \in Workers /\ k # Main
    BY Numbers
  <1>3. task' = [task EXCEPT ![k] = t]
    BY DEF Leave, Forget
  <1> HIDE DEF t
  <1>4. task'[k] = t /\ task' \in [Workers -> Tasks]
    BY <1>1, <1>2, <1>3, OneTask DEF ServerIInv, ServerTypeOK
  <1>5. Cardinality(Handled) \in Nat /\ Cardinality(Handled') = Cardinality(Handled) - 1
    BY <1>1, <1>3, FewHandled, HandledLess DEF ServerIInv, Live
  <1>6. Cardinality(Handled') \in Nat
    <2>1. k \in Handled
      BY DEF Handled
    <2>2. Cardinality(Handled) # 0
      BY <2>1, FewHandled
    <2> QED BY <1>5, <2>2
  <1>7. ServerTypeOK'
    <2>1. inbox' \in [Conns -> Seq(Ops)]
      BY DEF ServerIInv, ServerTypeOK, Leave, Forget
    <2>2. wg' \in Nat
      BY <1>5, <1>6 DEF ServerIInv, Counted, Leave
    <2> QED BY <1>4, <2>1, <2>2 DEF ServerIInv, ServerTypeOK, Leave, Forget, listenVars
  <1>8. TaskOK(k)'
    BY <1>1, <1>4, Numbers DEF TaskOK
  <1>9. TasksOK'
    BY <1>1, <1>2, <1>3, <1>8, TasksMove DEF ServerIInv, Leave, Forget
  <1>10. Mutex'
    BY <1>1, <1>2, <1>3, MutexMove DEF ServerIInv, Leave, Forget
  <1>11. Admitted'
    BY <1>1, <1>2, <1>3, AdmittedMove DEF ServerIInv, Leave, Forget, listenVars
  <1>12. Counted'
    BY <1>5, <1>6 DEF ServerIInv, Counted, Leave, Forget, listenVars
  <1>13. Closing'
    <2>1. wg' = wg - 1 /\ wg # 0 /\ wg \in Nat
      BY <1>5, <1>6 DEF ServerIInv, ServerTypeOK, Counted, Leave
    <2> QED BY <2>1 DEF ServerIInv, Closing, Leave, Forget, listenVars
  <1> QED BY <1>7, <1>9, <1>10, <1>11, <1>12, <1>13 DEF ServerIInv

(* A worker that goes on with its request, or with the next one, and takes *)
(* and releases nothing.                                                   *)
LEMMA GoesOn ==
    ASSUME ServerIInv, NEW k \in Conns, NEW t \in Tasks,
           task' = [task EXCEPT ![k] = t],
           task[k].stage \in {"read", "taken", "respond"}, t.stage \in {"read", "taken", "respond"},
           TaskOK(k)', inbox' \in [Conns -> Seq(Ops)],
           UNCHANGED <<program, main, listenVars, wg, mu, regs, client>>
    PROVE  ServerIInv'
  <1>1. k \in Workers /\ k # Main
    BY Numbers
  <1>2. task' \in [Workers -> Tasks]
    BY <1>1, OneTask DEF ServerIInv, ServerTypeOK
  <1>3. ServerTypeOK'
    BY <1>2 DEF ServerIInv, ServerTypeOK, listenVars
  <1>4. TasksOK'
    BY <1>1, TasksMove DEF ServerIInv
  <1>5. Mutex'
    BY <1>1, MutexMove DEF ServerIInv
  <1>6. Admitted'
    BY <1>1, AdmittedMove DEF ServerIInv, listenVars
  <1>7. Handled' = Handled
    BY <1>1, HandledSame DEF ServerIInv, Live
  <1>8. Counted' /\ Closing'
    BY <1>7 DEF ServerIInv, Counted, Closing, listenVars
  <1> QED BY <1>3, <1>4, <1>5, <1>6, <1>8 DEF ServerIInv

LEMMA HandlingKeeps == ASSUME ServerIInv, NEW k \in Conns, Handling(k) PROVE ServerIInv'
  <1>1. k \in Workers /\ k # Main
    BY Numbers
  <1>2. CASE ReadRequest(k)
    <2> DEFINE op == Head(inbox[k])
               t  == Task("taken", op, <<>>)
    <2>1. inbox[k] \in Seq(Ops) /\ inbox[k] # <<>>
      BY <1>2 DEF ServerIInv, ServerTypeOK, ReadRequest
    <2>2. op \in Ops /\ op # BadOp /\ Tail(inbox[k]) \in Seq(Ops)
      BY <1>2, <2>1 DEF ReadRequest
    <2>3. <<>> \in Seq(Nat) /\ "taken" \in Stages
      BY DEF Stages
    <2>4. task' = [task EXCEPT ![k] = t]
      BY <1>2 DEF ReadRequest
    <2> HIDE DEF op
    <2>5. t \in Tasks /\ t.stage = "taken" /\ t.op = op /\ t.got = <<>>
      BY <2>2, <2>3 DEF Task, Tasks
    <2> HIDE DEF t
    <2>6. task'[k] = t
      BY <1>1, <2>4, <2>5, OneTask DEF ServerIInv, ServerTypeOK
    <2>7. TaskOK(k)'
      BY <2>2, <2>5, <2>6, Numbers DEF TaskOK
    <2>8. inbox' \in [Conns -> Seq(Ops)]
      BY <1>2, <2>2 DEF ServerIInv, ServerTypeOK, ReadRequest
    <2>9. task[k].stage = "read" /\ UNCHANGED <<program, main, listenVars, wg, mu, regs, client>>
      BY <1>2 DEF ReadRequest
    <2> QED BY <2>4, <2>5, <2>7, <2>8, <2>9, GoesOn
  <1>3. CASE Respond(k)
    <2> DEFINE t == Task("read", ReadOp, <<>>)
    <2>1. t \in Tasks /\ t.stage = "read" /\ t.op = ReadOp /\ t.got = <<>> /\ Len(<<>>) = 0
      BY FreshTasks
    <2>2. task' = [task EXCEPT ![k] = t]
      BY <1>3 DEF Respond
    <2> HIDE DEF t
    <2>3. task'[k] = t
      BY <1>1, <2>1, <2>2, OneTask DEF ServerIInv, ServerTypeOK
    <2>4. TaskOK(k)'
      BY <2>1, <2>3, Numbers DEF TaskOK
    <2>5. inbox' \in [Conns -> Seq(Ops)]
      BY <1>3 DEF ServerIInv, ServerTypeOK, Respond, clientVars
    <2>6. task[k].stage = "respond" /\ UNCHANGED <<program, main, listenVars, wg, mu, regs, client>>
      BY <1>3 DEF Respond, clientVars
    <2> QED BY <2>1, <2>2, <2>4, <2>5, <2>6, GoesOn
  <1>4. CASE EndOfRequests(k)
    BY <1>4, LeaveKeeps DEF EndOfRequests
  <1>5. CASE Drop(k)
    BY <1>5, LeaveKeeps DEF Drop
  <1>6. CASE RespondFails(k)
    BY <1>6, LeaveKeeps DEF RespondFails
  <1> QED BY <1>2, <1>3, <1>4, <1>5, <1>6 DEF Handling

LEMMA LockKeeps == ASSUME ServerIInv, NEW w \in Workers, Lock(w) PROVE ServerIInv'
  <1> DEFINE t == [task[w] EXCEPT !.stage = "locked"]
  <1>1. task[w] \in Tasks /\ task[w].stage = "taken" /\ TaskOK(w)
    BY DEF ServerIInv, ServerTypeOK, TasksOK, Lock
  <1>2. t \in Tasks /\ t.stage = "locked" /\ t.op = task[w].op /\ t.got = task[w].got
    BY <1>1 DEF Tasks, Stages
  <1>3. task' = [task EXCEPT ![w] = t]
    BY DEF Lock, Progress
  <1>4. /\ mu = {} /\ mu' = {w}
        /\ UNCHANGED <<program, main, listening, backlog, acceptor, wg, regs, client, inbox>>
    BY DEF Lock, Progress, listenVars, clientVars
  <1> HIDE DEF t
  <1>5. task'[w] = t /\ task' \in [Workers -> Tasks]
        /\ \A v \in Workers : v # w => task'[v] = task[v]
    BY <1>2, <1>3, OneTask DEF ServerIInv, ServerTypeOK
  <1>6. ServerTypeOK'
    BY <1>4, <1>5 DEF ServerIInv, ServerTypeOK
  <1>7. TaskOK(w)'
    <2>1. task[w].got = <<>> /\ task[w].op # BadOp /\ Len(<<>>) = 0
      BY <1>1 DEF TaskOK
    <2> QED BY <1>2, <1>5, <2>1, Numbers DEF TaskOK
  <1>8. TasksOK'
    BY <1>1, <1>2, <1>3, <1>4, <1>7, TasksMove DEF ServerIInv
  <1>9. Mutex'
    <2>1. \A v \in Workers : task[v].stage # "locked"
      BY <1>4 DEF ServerIInv, Mutex
    <2>2. \A v \in Workers : task'[v].stage = "locked" <=> v = w
      BY <1>2, <1>5, <2>1
    <2> QED BY <1>4, <2>2 DEF Mutex
  <1>10. Admitted'
    BY <1>1, <1>2, <1>3, <1>4, AdmittedMove DEF ServerIInv
  <1>11. Handled' = Handled
    BY <1>1, <1>2, <1>3, HandledSame DEF ServerIInv, Live
  <1>12. Counted' /\ Closing'
    BY <1>4, <1>11 DEF ServerIInv, Counted, Closing
  <1> QED BY <1>6, <1>8, <1>9, <1>10, <1>12 DEF ServerIInv

(* What a touch does to the registers, and to the worker's own record. *)
LEMMA TouchFacts ==
    ASSUME ServerIInv, NEW w \in Workers, Touch(w)
    PROVE  LET i == Len(task[w].got) + 1
           IN  /\ i \in 1..Size /\ i \in Nat
               /\ regs' \in Block
               /\ \A j \in 1..Size : j # i => regs'[j] = regs[j]
               /\ regs'[i] = IF task[w].op = ReadOp THEN regs[i] ELSE task[w].op.vals[i]
               /\ regs'[i] \in Nat
               /\ task[w].op = ReadOp => regs' = regs
  <1> DEFINE i == Len(task[w].got) + 1
  <1>1. task[w] \in Tasks /\ TaskOK(w) /\ task[w].stage = "locked" /\ Len(task[w].got) < Size
    BY DEF ServerIInv, ServerTypeOK, TasksOK, Touch
  <1>2. i \in 1..Size /\ i \in Nat
    <2>1. Len(task[w].got) \in Nat
      BY <1>1 DEF Tasks
    <2> QED BY <1>1, <2>1, Numbers
  <1>3. regs' = IF task[w].op = ReadOp THEN regs ELSE [regs EXCEPT ![i] = task[w].op.vals[i]]
    BY DEF Touch
  <1> HIDE DEF i
  <1>4. regs \in Seq(Nat) /\ Len(regs) = Size
    BY DEF ServerIInv, ServerTypeOK, Block
  <1>5. CASE task[w].op = ReadOp
    BY <1>2, <1>3, <1>4, <1>5 DEF Block, i
  <1>6. CASE task[w].op # ReadOp
    <2>1. task[w].op \in Ops /\ task[w].op # BadOp
      BY <1>1 DEF Tasks, TaskOK
    <2>2. task[w].op.vals \in Blocks \union {Seed}
      BY <1>6, <2>1, OpFacts
    <2>3. task[w].op.vals \in Block
      BY <2>2, OpFacts
    <2> DEFINE x == task[w].op.vals[i]
    <2>4. x \in Nat
      <3>1. task[w].op.vals \in Seq(Nat) /\ Len(task[w].op.vals) = Size
        BY <2>3, Zenon DEF Block
      <3> QED BY <1>2, <3>1, ElementOfSeq, Zenon
    <2>5. regs' = [regs EXCEPT ![i] = x]
      BY <1>3, <1>6
    <2> HIDE DEF x
    <2>6. /\ regs' \in Seq(Nat) /\ Len(regs') = Size
          /\ \A j \in 1..Size : regs'[j] = IF j = i THEN x ELSE regs[j]
      BY <1>2, <1>4, <2>4, <2>5
    <2>7. regs' \in Block /\ regs'[i] = x /\ \A j \in 1..Size : j # i => regs'[j] = regs[j]
      BY <1>2, <2>6 DEF Block
    <2> QED BY <1>2, <1>6, <2>4, <2>7 DEF x, i
  <1> QED BY <1>5, <1>6

LEMMA TouchKeeps == ASSUME ServerIInv, NEW w \in Workers, Touch(w) PROVE ServerIInv'
  <1> DEFINE i == Len(task[w].got) + 1
             x == regs'[i]
             t == [task[w] EXCEPT !.got = Append(@, x)]
  <1>1. task[w] \in Tasks /\ task[w].stage = "locked" /\ TaskOK(w) /\ Len(task[w].got) < Size
    BY DEF ServerIInv, ServerTypeOK, TasksOK, Touch
  <1>2. /\ i \in 1..Size /\ i \in Nat
        /\ regs' \in Block
        /\ \A j \in 1..Size : j # i => regs'[j] = regs[j]
        /\ x = IF task[w].op = ReadOp THEN regs[i] ELSE task[w].op.vals[i]
        /\ x \in Nat
    BY TouchFacts
  <1>3. task' = [task EXCEPT ![w] = t]
    BY DEF Touch, Progress
  <1>4. UNCHANGED <<program, main, listening, backlog, acceptor, wg, mu, client, inbox>>
    BY DEF Touch, Progress, listenVars, clientVars
  <1>5. task[w].got \in Seq(Nat) /\ Len(task[w].got) \in Nat
    BY <1>1 DEF Tasks
  <1> HIDE DEF x
  <1>6. t \in Tasks /\ t.stage = "locked" /\ t.op = task[w].op /\ t.got = Append(task[w].got, x)
    <2>1. Append(task[w].got, x) \in Seq(Nat)
      BY <1>2, <1>5, AppendProperties
    <2> QED BY <1>1, <2>1 DEF Tasks
  <1>7. /\ Len(t.got) = i
        /\ \A j \in 1..i : t.got[j] = IF j = i THEN x ELSE task[w].got[j]
    BY <1>2, <1>5, <1>6
  <1> HIDE DEF t
  <1>8. task'[w] = t /\ task' \in [Workers -> Tasks]
    BY <1>3, <1>6, OneTask DEF ServerIInv, ServerTypeOK
  <1>9. ServerTypeOK'
    BY <1>2, <1>4, <1>8 DEF ServerIInv, ServerTypeOK
  <1>10. TaskOK(w)'
    <2>1. Len(t.got) <= Size
      BY <1>2, <1>7
    <2>2. ASSUME t.op # ReadOp, NEW j \in 1..i PROVE regs'[j] = t.op.vals[j]
      <3>1. CASE j = i
        BY <1>2, <1>6, <2>2, <3>1 DEF x
      <3>2. CASE j # i
        <4>1. j \in 1..Len(task[w].got) /\ j \in 1..Size
          <5>1. j \in 1..i /\ j # i
            BY <2>2, <3>2
          <5>2. j \in 1..Len(task[w].got)
            BY <1>5, <5>1
          <5>3. Size \in Nat
            BY Numbers
          <5> QED BY <1>1, <1>5, <5>2, <5>3
        <4>2. regs[j] = task[w].op.vals[j]
          BY <1>1, <1>6, <2>2, <4>1 DEF TaskOK
        <4> QED BY <1>2, <1>6, <3>2, <4>1, <4>2
      <3> QED BY <3>1, <3>2
    <2>3. t.op # BadOp
      BY <1>1, <1>6 DEF TaskOK
    <2> QED BY <1>6, <1>7, <1>8, <2>1, <2>2, <2>3 DEF TaskOK
  <1>11. TasksOK'
    <2>1. \A v \in Workers : v # w => task[v].stage # "locked"
      BY <1>1 DEF ServerIInv, Mutex
    <2> QED BY <1>1, <1>3, <1>4, <1>6, <1>10, <2>1, TasksMove DEF ServerIInv
  <1>12. Mutex'
    BY <1>1, <1>3, <1>4, <1>6, MutexMove DEF ServerIInv
  <1>13. Admitted'
    BY <1>1, <1>3, <1>4, <1>6, AdmittedMove DEF ServerIInv
  <1>14. Handled' = Handled
    BY <1>1, <1>3, <1>6, HandledSame DEF ServerIInv
  <1>15. Counted' /\ Closing'
    BY <1>4, <1>14 DEF ServerIInv, Counted, Closing
  <1> QED BY <1>9, <1>11, <1>12, <1>13, <1>15 DEF ServerIInv

LEMMA UnlockKeeps == ASSUME ServerIInv, NEW w \in Workers, Unlock(w) PROVE ServerIInv'
  <1> DEFINE t == IF w = Main THEN Task("none", ReadOp, <<>>)
                  ELSE [task[w] EXCEPT !.stage = "respond"]
  <1>1. /\ task[w] \in Tasks /\ TaskOK(w)
        /\ task[w].stage = "locked" /\ Len(task[w].got) = Size
    BY DEF ServerIInv, ServerTypeOK, TasksOK, Unlock
  <1>2. /\ t \in Tasks /\ t.stage = IF w = Main THEN "none" ELSE "respond"
        /\ t.op = IF w = Main THEN ReadOp ELSE task[w].op
        /\ t.got = IF w = Main THEN <<>> ELSE task[w].got
    <2>1. CASE w = Main
      BY <2>1, FreshTasks
    <2>2. CASE w # Main
      BY <1>1, <2>2 DEF Tasks, Stages
    <2> QED BY <2>1, <2>2
  <1>3. task' = [task EXCEPT ![w] = t]
    BY DEF Unlock, Progress
  <1>4. /\ mu = {w} /\ mu' = {}
        /\ UNCHANGED <<program, listening, backlog, acceptor, wg, regs, client, inbox>>
        /\ main' = IF w = Main THEN "serving" ELSE main
    BY <1>1 DEF ServerIInv, Mutex, Unlock, Progress, listenVars, clientVars
  <1>5. w = Main => main \in {"seeding", "killed"} /\ main # "killed"
    BY <1>1 DEF ServerIInv, TasksOK, Unlock, Alive
  <1> HIDE DEF t
  <1>6. task'[w] = t /\ task' \in [Workers -> Tasks]
        /\ \A v \in Workers : v # w => task'[v] = task[v]
    BY <1>2, <1>3, OneTask DEF ServerIInv, ServerTypeOK
  <1>7. ServerTypeOK'
    BY <1>4, <1>6 DEF ServerIInv, ServerTypeOK
  <1>8. TaskOK(w)'
    <2>1. Len(<<>>) = 0
      OBVIOUS
    <2> QED BY <1>1, <1>2, <1>6, <2>1, Numbers DEF TaskOK
  <1>9. TasksOK'
    BY <1>1, <1>2, <1>3, <1>4, <1>8, TasksMove DEF ServerIInv
  <1>10. Mutex'
    <2>1. \A v \in Workers : v # w => task[v].stage # "locked"
      BY <1>1 DEF ServerIInv, Mutex
    <2>2. \A v \in Workers : task'[v].stage # "locked"
      BY <1>2, <1>6, <2>1
    <2> QED BY <1>4, <2>2 DEF Mutex
  <1>11. Admitted'
    BY <1>1, <1>2, <1>3, <1>4, AdmittedMove DEF ServerIInv
  <1>12. Handled' = Handled
    BY <1>1, <1>2, <1>3, HandledSame, Numbers DEF ServerIInv, Live
  <1>13. Counted'
    BY <1>4, <1>12 DEF ServerIInv, Counted
  <1>14. Closing'
    BY <1>4, <1>5 DEF ServerIInv, Closing
  <1> QED BY <1>7, <1>9, <1>10, <1>11, <1>13, <1>14 DEF ServerIInv

LEMMA MainKeeps == ServerIInv /\ (CloseListener \/ WaitDone \/ Kill \/ ProbeFails) => ServerIInv'
  <1> SUFFICES ASSUME ServerIInv, CloseListener \/ WaitDone \/ Kill \/ ProbeFails
               PROVE  ServerIInv'
    OBVIOUS
  <1>1. CASE CloseListener
    <2>1. /\ main = "serving" /\ main' = "closing" /\ listening' = FALSE /\ backlog' = <<>>
          /\ UNCHANGED <<program, acceptor, wg, mu, regs, task, inbox>>
          /\ \A k \in Conns : client'[k] = client[k] \/ client'[k] = "closed"
          /\ client' \in [Conns -> {"none", "open", "closed"}]
      BY <1>1 DEF ServerIInv, ServerTypeOK, CloseListener, Stopping
    <2>2. TasksOK' /\ Mutex' /\ Handled' = Handled
      BY <2>1, SameTasks DEF ServerIInv, TasksOK
    <2>3. Len(<<>>) = 0 /\ <<>> \in Seq(Conns)
      OBVIOUS
    <2>4. ServerTypeOK'
      BY <2>1, <2>3 DEF ServerIInv, ServerTypeOK
    <2>5. Closing'
      BY <2>1 DEF ServerIInv, Closing
    <2>6. Counted'
      BY <2>1, <2>2 DEF ServerIInv, Counted
    <2>7. Admitted'
      BY <2>1, <2>3 DEF ServerIInv, Admitted
    <2> QED BY <2>2, <2>4, <2>5, <2>6, <2>7 DEF ServerIInv
  <1>2. CASE WaitDone \/ Kill \/ ProbeFails
    <2>1. /\ UNCHANGED <<program, listening, backlog, acceptor, wg, mu, regs, task, client, inbox>>
          /\ \/ main = "closing" /\ main' = "returned" /\ wg = 0
             \/ main' = "killed"
      BY <1>2 DEF WaitDone, Kill, ProbeFails, listenVars, clientVars
    <2>2. TasksOK' /\ Mutex' /\ Handled' = Handled
      BY <2>1, SameTasks DEF ServerIInv, TasksOK
    <2>3. ServerTypeOK' /\ Closing' /\ Counted' /\ Admitted'
      BY <2>1, <2>2 DEF ServerIInv, ServerTypeOK, Closing, Counted, Admitted
    <2> QED BY <2>2, <2>3 DEF ServerIInv
  <1> QED BY <1>1, <1>2

LEMMA DialKeeps == ASSUME ServerIInv, NEW k \in Conns, Dial(k) PROVE ServerIInv'
  <1>1. /\ UNCHANGED <<program, main, listening, acceptor, wg, mu, regs, task, inbox>>
        /\ listening /\ client[k] = "none" /\ client' = [client EXCEPT ![k] = "open"]
        /\ backlog' = Append(backlog, k) /\ backlog \in Seq(Conns)
    BY DEF Dial, ServerIInv, ServerTypeOK
  <1>2. /\ backlog' \in Seq(Conns) /\ Len(backlog') = Len(backlog) + 1 /\ Len(backlog) \in Nat
        /\ \A i \in 1..Len(backlog) : backlog'[i] = backlog[i]
        /\ backlog'[Len(backlog) + 1] = k
        /\ \A i \in 1..Len(backlog') : i \in 1..Len(backlog) \/ i = Len(backlog) + 1
    BY <1>1, AppendProperties
  <1>3. /\ client' \in [Conns -> {"none", "open", "closed"}] /\ client'[k] = "open"
        /\ \A c \in Conns : c # k => client'[c] = client[c]
    BY <1>1 DEF ServerIInv, ServerTypeOK
  <1>4. TasksOK' /\ Mutex' /\ Handled' = Handled
    BY <1>1, SameTasks
  <1>5. ServerTypeOK' /\ Counted' /\ Closing'
    BY <1>1, <1>2, <1>3, <1>4 DEF ServerIInv, ServerTypeOK, Counted, Closing
  <1>6. task[k].stage = "none" /\ acceptor # k /\ \A i \in 1..Len(backlog) : backlog[i] # k
    BY <1>1 DEF ServerIInv, Admitted
  <1>7. ASSUME NEW c \in Conns, client'[c] = "none"
        PROVE  task'[c].stage = "none" /\ acceptor' # c
               /\ \A i \in 1..Len(backlog') : backlog'[i] # c
    <2>1. c # k /\ client[c] = "none"
      BY <1>3, <1>7
    <2>2. task[c].stage = "none" /\ acceptor # c /\ \A i \in 1..Len(backlog) : backlog[i] # c
      BY <2>1 DEF ServerIInv, Admitted
    <2> QED BY <1>1, <1>2, <2>1, <2>2
  <1>8. ASSUME NEW i \in 1..Len(backlog')
        PROVE  /\ task'[backlog'[i]].stage = "none" /\ acceptor' # backlog'[i]
               /\ \A j \in 1..Len(backlog') : i # j => backlog'[i] # backlog'[j]
    <2>1. CASE i \in 1..Len(backlog)
      <3>1. /\ task[backlog[i]].stage = "none" /\ acceptor # backlog[i]
            /\ \A j \in 1..Len(backlog) : i # j => backlog[i] # backlog[j]
        BY <2>1 DEF ServerIInv, Admitted
      <3>2. backlog'[i] = backlog[i] /\ backlog[i] # k
        BY <1>2, <1>6, <2>1
      <3>3. ASSUME NEW j \in 1..Len(backlog'), i # j PROVE backlog'[i] # backlog'[j]
        <4>1. CASE j \in 1..Len(backlog)
          BY <1>2, <3>1, <3>2, <3>3, <4>1
        <4>2. CASE j = Len(backlog) + 1
          BY <1>2, <3>2, <4>2
        <4> QED BY <1>2, <4>1, <4>2
      <3> QED BY <1>1, <3>1, <3>2, <3>3
    <2>2. CASE i = Len(backlog) + 1
      <3>1. backlog'[i] = k
        BY <1>2, <2>2
      <3>2. ASSUME NEW j \in 1..Len(backlog'), i # j PROVE backlog'[i] # backlog'[j]
        <4>1. j \in 1..Len(backlog)
          BY <1>2, <2>2, <3>2
        <4> QED BY <1>2, <1>6, <3>1, <4>1
      <3> QED BY <1>1, <1>6, <3>1, <3>2
    <2> QED BY <1>2, <2>1, <2>2
  <1>9. acceptor' \in Conns => task'[acceptor'].stage = "none"
    BY <1>1 DEF ServerIInv, Admitted
  <1>10. Admitted'
    BY <1>7, <1>8, <1>9 DEF Admitted
  <1> QED BY <1>4, <1>5, <1>10 DEF ServerIInv

LEMMA ClientKeeps ==
    ASSUME ServerIInv, NEW k \in Conns, Hang(k) \/ \E op \in Asked : Send(k, op)
    PROVE  ServerIInv'
  <1>1. UNCHANGED <<program, main, listening, backlog, acceptor, wg, mu, regs, task>>
    BY DEF Hang, Send, listenVars
  <1>2. /\ client' \in [Conns -> {"none", "open", "closed"}]
        /\ \A c \in Conns : client'[c] = "none" => client[c] = "none"
    BY DEF ServerIInv, ServerTypeOK, Hang, Send
  <1>3. inbox' \in [Conns -> Seq(Ops)]
    <2>1. CASE Hang(k)
      BY <2>1 DEF ServerIInv, ServerTypeOK, Hang
    <2>2. ASSUME NEW op \in Asked, Send(k, op) PROVE inbox' \in [Conns -> Seq(Ops)]
      <3>1. op \in Ops
        BY DEF Asked, Ops
      <3>2. inbox[k] \in Seq(Ops) /\ Append(inbox[k], op) \in Seq(Ops)
        BY <3>1, AppendProperties DEF ServerIInv, ServerTypeOK
      <3> QED BY <2>2, <3>2 DEF ServerIInv, ServerTypeOK, Send
    <2> QED BY <2>1, <2>2
  <1>4. TasksOK' /\ Mutex' /\ Handled' = Handled
    BY <1>1, SameTasks
  <1>5. ServerTypeOK' /\ Counted' /\ Closing' /\ Admitted'
    BY <1>1, <1>2, <1>3, <1>4 DEF ServerIInv, ServerTypeOK, Counted, Closing, Admitted
  <1> QED BY <1>4, <1>5 DEF ServerIInv

LEMMA ServerStep == ServerIInv /\ [Next]_serverVars => ServerIInv'
  <1> SUFFICES ASSUME ServerIInv, [Next]_serverVars PROVE ServerIInv'
    OBVIOUS
  <1>1. CASE Serving
    BY <1>1, AcceptKeeps, StartHandlerKeeps, AcceptFailsKeeps DEF Serving
  <1>2. CASE \E k \in Conns : Handling(k)
    BY <1>2, HandlingKeeps
  <1>3. CASE \E w \in Workers : Working(w)
    BY <1>3, LockKeeps, TouchKeeps, UnlockKeeps DEF Working
  <1>4. CASE CloseListener \/ WaitDone \/ Kill \/ ProbeFails
    BY <1>4, MainKeeps
  <1>5. CASE \E k \in Conns : \/ Dial(k)
                              \/ Others /\ \E op \in Asked : Send(k, op)
                              \/ Others /\ Hang(k)
    BY <1>5, DialKeeps, ClientKeeps
  <1>6. CASE ProbeRead \/ ProbeDone
    <2>1. 1 \in Conns /\ ReadOp \in Asked
      BY ConnsAssumption DEF Conns, Asked
    <2> QED BY <1>6, <2>1, ClientKeeps DEF ProbeRead, ProbeDone
  <1>7. CASE UNCHANGED serverVars
    <2>1. /\ TasksOK' /\ Mutex' /\ Handled' = Handled
      BY <1>7, SameTasks DEF serverVars
    <2> QED BY <1>7, <2>1 DEF ServerIInv, ServerTypeOK, Counted, Closing, Admitted, serverVars,
                              listenVars, clientVars
  <1> QED BY <1>1, <1>2, <1>3, <1>4, <1>5, <1>6, <1>7 DEF Next

(* The invariant holds in every state of every behaviour of the server. *)
THEOREM ServerInvariance == ServerSpec => []ServerIInv
  BY ServerInit, ServerStep, PTL DEF ServerSpec

(* When Close has returned the wait group is at zero, and it counts serve  *)
(* and every handler that was started: so nothing of the server is left,   *)
(* whatever the clients, drops and signals did (server.go, Close).         *)
THEOREM CloseLeavesNothing == ServerSpec => []NothingAfterClose
  <1>1. ServerIInv => NothingAfterClose
    <2> SUFFICES ASSUME ServerIInv, main = "returned" PROVE NothingAfterClose
      BY DEF NothingAfterClose
    <2>1. Cardinality(Handled) \in Nat /\ wg = 0 /\ backlog = <<>>
      BY FewHandled DEF ServerIInv, Closing
    <2>2. acceptor = gone /\ Cardinality(Handled) = 0
      BY <2>1 DEF ServerIInv, Counted
    <2>3. Handled = {}
      BY <2>2, FewHandled
    <2>4. \A k \in Conns : task[k].stage \in {"none", "done"}
      <3>1. \A k \in Conns : task[k].stage \in Stages
        BY Numbers DEF ServerIInv, ServerTypeOK, Tasks
      <3> QED BY <2>3, <3>1 DEF Handled, Stages
    <2>5. mu = {}
      <3>1. task[Main].stage = "none"
        BY DEF ServerIInv, TasksOK
      <3>2. \A w \in Workers : w \in Conns \/ w = Main
        BY DEF Workers
      <3>3. \A w \in Workers : task[w].stage # "locked"
        BY <2>4, <3>1, <3>2
      <3> QED BY <3>3 DEF ServerIInv, Mutex
    <2> QED BY <2>1, <2>2, <2>4, <2>5 DEF NothingAfterClose
  <1> QED BY <1>1, ServerInvariance, PTL

(* Close never waits for goroutines that wait for each other, for any      *)
(* number of connections: what the wait group still counts is serve, which *)
(* has a closed listener, or a handler; a handler has its connection or a  *)
(* reply to go on with, or wants the mutex, and that is free or with a     *)
(* worker that needs nothing else (server.go, Close over handle, dispatch  *)
(* and serve).                                                             *)
THEOREM CloseGoesOn == ServerSpec => []CloseIsNotStuck
  <1>1. ServerIInv => CloseIsNotStuck
    <2> DEFINE Somebody == \/ acceptor \in Conns
                           \/ acceptor = 0 /\ ~listening
                           \/ \E k \in Conns : Ready(k)
                           \/ \E w \in Workers : Unblocked(w)
    <2> SUFFICES ASSUME ServerIInv, main = "closing", \A k \in Conns : client[k] # "open", wg # 0
                 PROVE  Somebody
      BY DEF CloseIsNotStuck
    <2>1. CASE acceptor # gone
      <3>1. acceptor \in 0..gone /\ ~listening
        BY <2>1 DEF ServerIInv, ServerTypeOK, Closing
      <3>2. acceptor = 0 \/ acceptor \in Conns
        BY <2>1, <3>1, ConnsAssumption DEF gone, Conns
      <3> QED BY <3>1, <3>2
    <2>2. CASE acceptor = gone
      <3>1. Cardinality(Handled) # 0
        BY <2>2, FewHandled DEF ServerIInv, Counted
      <3>2. PICK k \in Conns : task[k].stage \in {"read", "taken", "locked", "respond"}
        <4>1. Handled # {}
          BY <3>1, FS_EmptySet
        <4> QED BY <4>1 DEF Handled
      <3>3. k \in Workers
        BY Numbers
      <3>4. CASE task[k].stage = "read"
        <4>1. client[k] \in {"none", "open", "closed"}
          BY DEF ServerIInv, ServerTypeOK
        <4>2. client[k] # "none"
          BY <3>4 DEF ServerIInv, Admitted
        <4> QED BY <3>4, <4>1, <4>2 DEF Ready
      <3>5. CASE task[k].stage = "respond"
        BY <3>5 DEF Ready
      <3>6. CASE task[k].stage = "locked"
        BY <3>3, <3>6 DEF Unblocked, ServerIInv, Mutex
      <3>7. CASE task[k].stage = "taken"
        <4>1. CASE mu = {}
          BY <3>3, <3>7, <4>1 DEF Unblocked
        <4>2. CASE mu # {}
          <5>1. PICK w \in Workers : mu = {w}
            BY <4>2 DEF ServerIInv, Mutex
          <5>2. task[w].stage = "locked"
            BY <5>1 DEF ServerIInv, Mutex
          <5> QED BY <5>1, <5>2 DEF Unblocked
        <4> QED BY <4>1, <4>2
      <3> QED BY <3>2, <3>4, <3>5, <3>6, <3>7
    <2> QED BY <2>1, <2>2
  <1> QED BY <1>1, ServerInvariance, PTL

(***************************************************************************)
(* The server as one atomic device.                                        *)
(***************************************************************************)
(* A block is the function of its registers. *)
LEMMA BlockIsFunction ==
    ASSUME NEW b \in Block, NEW f, f = [i \in 1..Size |-> f[i]],
           \A i \in 1..Size : f[i] = b[i]
    PROVE  f = b
  <1>1. b \in [1..Size -> Nat]
    BY DEF Block
  <1> QED BY <1>1

(* What is left of a read is what it has copied and the registers it has   *)
(* not reached; what is left of a write is all of what it writes.          *)
LEMMA RestFacts ==
    ASSUME NEW t, ServerIInv
    PROVE  /\ t.op = ReadOp /\ t.got = <<>> => Rest(t) = regs
           /\ t.op = ReadOp /\ t.got \in Block => Rest(t) = t.got
           /\ t.op # ReadOp /\ t.op.vals \in Block => Rest(t) = t.op.vals
  <1>1. Rest(t) = [i \in 1..Size |-> Rest(t)[i]]
    BY DEF Rest
  <1>2. \A i \in 1..Size : Rest(t)[i] = IF t.op # ReadOp THEN t.op.vals[i]
                                        ELSE IF i <= Len(t.got) THEN t.got[i] ELSE regs[i]
    BY DEF Rest
  <1>3. ASSUME t.op = ReadOp, t.got = <<>> PROVE Rest(t) = regs
    <2>1. \A i \in 1..Size : ~(i <= Len(<<>>))
      OBVIOUS
    <2>2. regs \in Block
      BY DEF ServerIInv, ServerTypeOK
    <2>3. \A i \in 1..Size : Rest(t)[i] = regs[i]
      BY <1>2, <1>3, <2>1
    <2> QED BY <1>1, <2>2, <2>3, BlockIsFunction
  <1>4. ASSUME t.op = ReadOp, t.got \in Block PROVE Rest(t) = t.got
    <2>1. Len(t.got) = Size
      BY <1>4 DEF Block
    <2>2. \A i \in 1..Size : Rest(t)[i] = t.got[i]
      BY <1>2, <1>4, <2>1, Numbers
    <2> QED BY <1>1, <1>4, <2>2, BlockIsFunction
  <1>5. ASSUME t.op # ReadOp, t.op.vals \in Block PROVE Rest(t) = t.op.vals
    <2>1. \A i \in 1..Size : Rest(t)[i] = t.op.vals[i]
      BY <1>2, <1>5
    <2> QED BY <1>1, <1>5, <2>1, BlockIsFunction
  <1> QED BY <1>3, <1>4, <1>5

(* A write names a block that clients or the owner may write. *)
LEMMA WriteFacts ==
    ASSUME NEW t \in Tasks, t.op # ReadOp, t.op # BadOp
    PROVE  /\ t.op.vals \in Blocks \union {Seed} /\ t.op.vals \in Block
           /\ t.op = WriteOp(t.op.vals)
  BY OpFacts DEF Tasks

(* The block that clients see. *)
LEMMA BlockFacts ==
    ASSUME ServerIInv
    PROVE  /\ mu = {} => BlockNow = regs
           /\ \A w \in Workers : mu = {w} =>
                 BlockNow = IF task[w].op = ReadOp THEN regs ELSE task[w].op.vals
  <1>1. ASSUME mu = {} PROVE BlockNow = regs
    BY <1>1 DEF BlockNow
  <1>2. ASSUME NEW w \in Workers, mu = {w}
        PROVE  BlockNow = IF task[w].op = ReadOp THEN regs ELSE task[w].op.vals
    <2>1. CASE task[w].op = ReadOp
      BY <1>2, <2>1 DEF BlockNow
    <2>2. CASE task[w].op # ReadOp
      <3>1. (CHOOSE v \in mu : TRUE) = w
        BY <1>2
      <3>2. BlockNow = Rest(task[w])
        BY <1>2, <2>2, <3>1 DEF BlockNow
      <3>3. task[w] \in Tasks /\ task[w].op # BadOp
        <4>1. task[w].stage = "locked" /\ TaskOK(w)
          BY <1>2 DEF ServerIInv, Mutex, TasksOK
        <4> QED BY <4>1 DEF TaskOK, ServerIInv, ServerTypeOK
      <3> QED BY <2>2, <3>2, <3>3, WriteFacts, RestFacts
    <2> QED BY <2>1, <2>2
  <1> QED BY <1>1, <1>2

(* What goes on where no task, register or request is touched shows nothing. *)
LEMMA NothingSeen ==
    ASSUME UNCHANGED <<mu, regs, task, inbox, replied>>
    PROVE  UNCHANGED Device!deviceVars
  <1>1. BlockNow' = BlockNow
    BY DEF BlockNow, Rest
  <1>2. \A k \in Conns : AskedNow(k)' = AskedNow(k) /\ EffectNow(k)' = EffectNow(k)
    BY DEF AskedNow, EffectNow, Rest
  <1> QED BY <1>1, <1>2 DEF Device!deviceVars

(* What a connection has asked for and is owed changes with its own task. *)
LEMMA OthersSeeNothing ==
    ASSUME ServerIInv, NEW w \in Workers, NEW t \in Tasks,
           task' = [task EXCEPT ![w] = t],
           \/ regs' = regs
           \/ \A v \in Workers : v # w => task[v].stage # "locked",
           \A c \in Conns : c # w => inbox'[c] = inbox[c],
           NEW c \in Conns, c # w
    PROVE  AskedNow(c)' = AskedNow(c) /\ EffectNow(c)' = EffectNow(c)
  <1>1. c \in Workers /\ task'[c] = task[c] /\ inbox'[c] = inbox[c]
    BY Numbers, OneTask DEF ServerIInv, ServerTypeOK
  <1>2. AskedNow(c)' = AskedNow(c)
    BY <1>1 DEF AskedNow
  <1>3. CASE regs' = regs
    BY <1>1, <1>2, <1>3 DEF EffectNow, Rest
  <1>4. CASE task[c].stage # "locked"
    <2>1. CASE task[c].stage = "respond"
      <3>1. \A i \in 1..Size : i <= Len(task[c].got)
        BY <1>1, <2>1, Numbers DEF ServerIInv, TasksOK, TaskOK
      <3>2. Rest(task[c])' = Rest(task[c])
        BY <1>1, <3>1 DEF Rest
      <3> QED BY <1>1, <1>2, <3>2 DEF EffectNow
    <2>2. CASE task[c].stage # "respond"
      BY <1>1, <1>2, <1>4, <2>2 DEF EffectNow
    <2> QED BY <2>1, <2>2
  <1> QED BY <1>1, <1>3, <1>4

(* The block is the affair of the worker that holds the mutex. *)
LEMMA BlockUnseen ==
    ASSUME ServerIInv, NEW w \in Workers, NEW t \in Tasks,
           task' = [task EXCEPT ![w] = t], task[w].stage # "locked",
           mu' = mu, regs' = regs
    PROVE  BlockNow' = BlockNow
  <1>1. \A v \in mu : v \in Workers /\ v # w
    BY DEF ServerIInv, Mutex
  <1>2. \A v \in mu : task'[v] = task[v]
    BY <1>1, OneTask DEF ServerIInv, ServerTypeOK
  <1>3. CASE mu = {}
    BY <1>3 DEF BlockNow
  <1>4. CASE mu # {}
    <2>1. PICK c \in mu : c = CHOOSE v \in mu : TRUE
      BY <1>4
    <2>2. c = (CHOOSE v \in mu : TRUE)'
      BY <2>1
    <2>3. task'[c] = task[c]
      BY <1>2
    <2>4. Rest(task[c])' = Rest(task[c])
      BY <2>3 DEF Rest
    <2> QED BY <1>2, <2>1, <2>2, <2>4 DEF BlockNow
  <1> QED BY <1>3, <1>4

LEMMA LeaveSeen ==
    ASSUME ServerIInv, NEW k \in Conns, task[k].stage \in {"read", "taken", "respond"}, Leave(k)
    PROVE  Device!Lose(k)
  <1> DEFINE t == Task("done", ReadOp, <<>>)
  <1>1. t \in Tasks /\ t.stage = "done"
    BY FreshTasks
  <1>2. k \in Workers /\ task' = [task EXCEPT ![k] = t]
    BY Numbers DEF Leave, Forget
  <1> HIDE DEF t
  <1>3. task'[k] = t /\ inbox'[k] = <<>> /\ replied' = replied
        /\ \A c \in Conns : c # k => inbox'[c] = inbox[c]
    BY <1>1, <1>2, OneTask DEF Leave, Forget, ServerIInv, ServerTypeOK
  <1>4. AskedNow(k)' = <<>> /\ EffectNow(k)' = NoReply
    BY <1>1, <1>3 DEF AskedNow, EffectNow
  <1>5. \A c \in Conns : c # k => AskedNow(c)' = AskedNow(c) /\ EffectNow(c)' = EffectNow(c)
    BY <1>1, <1>2, <1>3, OthersSeeNothing DEF Leave, Forget
  <1>6. BlockNow' = BlockNow
    BY <1>1, <1>2, BlockUnseen DEF Leave, Forget
  <1> QED BY <1>3, <1>4, <1>5, <1>6 DEF Device!Lose, Device!NoReply, NoReply

LEMMA HandlingSeen ==
    ASSUME ServerIInv, NEW k \in Conns, Handling(k)
    PROVE  Device!Lose(k) \/ Device!Reply(k) \/ UNCHANGED Device!deviceVars
  <1>1. k \in Workers
    BY Numbers
  <1>2. CASE EndOfRequests(k) \/ Drop(k) \/ RespondFails(k)
    BY <1>2, LeaveSeen DEF EndOfRequests, Drop, RespondFails
  <1>3. CASE ReadRequest(k)
    <2> DEFINE t == Task("taken", Head(inbox[k]), <<>>)
    <2>1. inbox[k] \in Seq(Ops) /\ inbox[k] # <<>> /\ Head(inbox[k]) \in Ops
      BY <1>3 DEF ServerIInv, ServerTypeOK, ReadRequest
    <2>2. t \in Tasks /\ t.stage = "taken" /\ t.op = Head(inbox[k])
      <3>1. <<>> \in Seq(Nat) /\ "taken" \in Stages
        BY DEF Stages
      <3> QED BY <2>1, <3>1 DEF Task, Tasks
    <2>3. task' = [task EXCEPT ![k] = t]
      BY <1>3 DEF ReadRequest
    <2> HIDE DEF t
    <2>4. /\ task'[k] = t /\ inbox'[k] = Tail(inbox[k]) /\ task[k].stage = "read"
          /\ \A c \in Conns : c # k => inbox'[c] = inbox[c]
          /\ UNCHANGED <<mu, regs, replied>>
      BY <1>1, <1>3, <2>2, <2>3, OneTask DEF ReadRequest, ServerIInv, ServerTypeOK
    <2>5. AskedNow(k)' = AskedNow(k)
      <3>1. <<Head(inbox[k])>> \o Tail(inbox[k]) = inbox[k]
        BY <2>1
      <3> QED BY <2>2, <2>4, <3>1 DEF AskedNow
    <2>6. EffectNow(k)' = EffectNow(k)
      BY <2>2, <2>4 DEF EffectNow
    <2>7. \A c \in Conns : c # k => AskedNow(c)' = AskedNow(c) /\ EffectNow(c)' = EffectNow(c)
      BY <1>1, <2>2, <2>3, <2>4, OthersSeeNothing
    <2>8. BlockNow' = BlockNow
      BY <1>1, <2>2, <2>3, <2>4, BlockUnseen
    <2> QED BY <2>4, <2>5, <2>6, <2>7, <2>8 DEF Device!deviceVars
  <1>4. CASE Respond(k)
    <2> DEFINE t == Task("read", ReadOp, <<>>)
    <2>1. t \in Tasks /\ t.stage = "read"
      BY FreshTasks
    <2>2. task' = [task EXCEPT ![k] = t]
      BY <1>4 DEF Respond
    <2> HIDE DEF t
    <2>3. /\ task'[k] = t /\ task[k].stage = "respond" /\ UNCHANGED <<mu, regs, inbox>>
          /\ replied' = [replied EXCEPT ![k] = ReplyOf(task[k])]
      BY <1>1, <1>4, <2>1, <2>2, OneTask DEF Respond, clientVars, ServerIInv, ServerTypeOK
    <2>4. task[k] \in Tasks /\ task[k].got \in Block
      BY <1>1, <2>3 DEF ServerIInv, ServerTypeOK, TasksOK, TaskOK, Tasks, Block
    <2>5. ReplyOf(task[k]) = EffectNow(k) /\ EffectNow(k) # NoReply
      <3>1. CASE task[k].op = ReadOp
        <4>1. Rest(task[k]) = task[k].got
          BY <2>4, <3>1, RestFacts
        <4>2. EffectNow(k) = [kind |-> "values", vals |-> task[k].got]
          BY <2>3, <3>1, <4>1 DEF EffectNow
        <4>3. EffectNow(k).kind = "values" /\ NoReply.kind = "none"
          BY <4>2 DEF NoReply
        <4> QED BY <3>1, <4>2, <4>3 DEF ReplyOf
      <3>2. CASE task[k].op # ReadOp
        BY <2>3, <3>2 DEF EffectNow, ReplyOf, NoReply
      <3> QED BY <3>1, <3>2
    <2>6. AskedNow(k)' = AskedNow(k) /\ EffectNow(k)' = NoReply
      BY <2>1, <2>3 DEF AskedNow, EffectNow
    <2>7. \A c \in Conns : c # k => AskedNow(c)' = AskedNow(c) /\ EffectNow(c)' = EffectNow(c)
      BY <1>1, <2>1, <2>2, <2>3, OthersSeeNothing
    <2>8. BlockNow' = BlockNow
      BY <1>1, <2>1, <2>2, <2>3, BlockUnseen
    <2> QED BY <2>3, <2>5, <2>6, <2>7, <2>8 DEF Device!Reply, Device!NoReply, NoReply
  <1> QED BY <1>2, <1>3, <1>4 DEF Handling

(* A request takes effect when the mutex is taken for it. *)
LEMMA LockSeen ==
    ASSUME ServerIInv, ServerIInv', NEW w \in Workers, Lock(w)
    PROVE  \/ w \in Conns /\ Device!TakeEffect(w)
           \/ \E b \in Blocks \union {Seed} : Device!Set(b)
           \/ UNCHANGED Device!deviceVars
  <1>0. PICK t : t = [task[w] EXCEPT !.stage = "locked"]
    OBVIOUS
  <1>1. /\ task[w] \in Tasks /\ task[w].stage = "taken"
        /\ task[w].op # BadOp /\ task[w].got = <<>>
    BY DEF ServerIInv, ServerTypeOK, TasksOK, TaskOK, Lock
  <1>2. t \in Tasks /\ t.stage = "locked" /\ t.op = task[w].op /\ t.got = <<>>
    BY <1>0, <1>1 DEF Tasks, Stages
  <1>3. task' = [task EXCEPT ![w] = t] /\ mu = {} /\ mu' = {w} /\ UNCHANGED <<regs, inbox, replied>>
    BY <1>0 DEF Lock, Progress, clientVars
  <1>4. task'[w] = t
    BY <1>2, <1>3, OneTask DEF ServerIInv, ServerTypeOK
  <1>5. \A c \in Conns : c # w => AskedNow(c)' = AskedNow(c) /\ EffectNow(c)' = EffectNow(c)
    BY <1>2, <1>3, OthersSeeNothing
  <1>6. BlockNow = regs /\ regs' = regs
    BY <1>3, BlockFacts
  <1>7. CASE task[w].op = ReadOp
    <2>1. BlockNow' = BlockNow
      BY <1>2, <1>3, <1>4, <1>6, <1>7 DEF BlockNow
    <2>2. CASE w \in Conns
      <3>1. inbox[w] \in Seq(Ops) /\ task[w].op \in Ops
        BY <1>1, <2>2 DEF ServerIInv, ServerTypeOK, Tasks
      <3>2. AskedNow(w) = <<task[w].op>> \o inbox[w] /\ AskedNow(w)' = inbox[w]
        BY <1>1, <1>2, <1>3, <1>4 DEF AskedNow
      <3>3. AskedNow(w) # <<>> /\ Head(AskedNow(w)) = task[w].op /\ Tail(AskedNow(w)) = inbox[w]
        BY <3>1, <3>2
      <3>4. Rest(t)' = regs
        <4>1. t.op = ReadOp /\ t.got = <<>>
          BY <1>2, <1>7
        <4>2. Rest(t)' = Rest(t)
          BY <1>3 DEF Rest
        <4> QED BY <4>1, <4>2, RestFacts
      <3>5. EffectNow(w)' = [kind |-> "values", vals |-> BlockNow] /\ EffectNow(w) = NoReply
        <4>1. Rest(task[w])' = regs
          BY <1>4, <3>4 DEF Rest
        <4> QED BY <1>1, <1>2, <1>4, <1>6, <1>7, <4>1 DEF EffectNow
      <3> QED BY <1>3, <1>5, <1>7, <2>1, <2>2, <3>2, <3>3, <3>5
              DEF Device!TakeEffect, Device!NoReply, NoReply, Device!ReadRequest, ReadOp,
                  Device!Values
    <2>3. CASE w \notin Conns
      BY <1>3, <1>5, <2>1, <2>3 DEF Device!deviceVars
    <2> QED BY <2>2, <2>3
  <1>8. CASE task[w].op # ReadOp
    <2> DEFINE b == task[w].op.vals
    <2>1. b \in Blocks \union {Seed} /\ b \in Block /\ task[w].op = WriteOp(b)
      BY <1>1, <1>8, WriteFacts
    <2> HIDE DEF b
    <2>2. BlockNow' = b
      <3>1. (CHOOSE v \in mu : TRUE)' = w
        BY <1>3
      <3>2. BlockNow' = Rest(t)'
        <4>1. (\E v \in mu : task[v].op # ReadOp)'
          BY <1>2, <1>3, <1>4, <1>8
        <4>2. BlockNow' = Rest(task[CHOOSE v \in mu : TRUE])'
          BY <4>1 DEF BlockNow
        <4>3. task'[(CHOOSE v \in mu : TRUE)'] = t
          BY <1>4, <3>1
        <4>4. Rest(task[CHOOSE v \in mu : TRUE])' = Rest(t)'
          BY <4>3 DEF Rest
        <4> QED BY <4>2, <4>4
      <3>3. Rest(t)' = Rest(t)
        BY <1>3 DEF Rest
      <3>4. Rest(t) = t.op.vals
        BY <1>2, <1>8, <2>1, RestFacts DEF b
      <3> QED BY <1>2, <3>2, <3>3, <3>4 DEF b
    <2>3. CASE w \in Conns
      <3>1. inbox[w] \in Seq(Ops) /\ task[w].op \in Ops
        BY <1>1, <2>3 DEF ServerIInv, ServerTypeOK, Tasks
      <3>2. AskedNow(w) = <<task[w].op>> \o inbox[w] /\ AskedNow(w)' = inbox[w]
        BY <1>1, <1>2, <1>3, <1>4 DEF AskedNow
      <3>3. AskedNow(w) # <<>> /\ Head(AskedNow(w)) = task[w].op /\ Tail(AskedNow(w)) = inbox[w]
        BY <3>1, <3>2
      <3>4. EffectNow(w)' = [kind |-> "ack"] /\ EffectNow(w) = NoReply
        BY <1>1, <1>2, <1>4, <1>8 DEF EffectNow
      <3> QED BY <1>3, <1>5, <2>1, <2>2, <2>3, <3>2, <3>3, <3>4
              DEF Device!TakeEffect, Device!NoReply, NoReply, Device!WriteRequest, WriteOp,
                  Device!Ack
    <2>4. CASE w \notin Conns
      BY <1>3, <1>5, <2>1, <2>2, <2>4 DEF Device!Set
    <2> QED BY <2>3, <2>4
  <1> QED BY <1>7, <1>8

LEMMA TouchSeen ==
    ASSUME ServerIInv, NEW w \in Workers, Touch(w)
    PROVE  UNCHANGED Device!deviceVars
  <1>0. PICK i, x, t : /\ i = Len(task[w].got) + 1
                       /\ x = regs'[i]
                       /\ t = [task[w] EXCEPT !.got = Append(@, x)]
    OBVIOUS
  <1>1. task[w] \in Tasks /\ task[w].stage = "locked" /\ TaskOK(w)
    BY DEF ServerIInv, ServerTypeOK, TasksOK, Touch
  <1>2. /\ i \in 1..Size /\ i \in Nat
        /\ x \in Nat /\ regs' \in Block
        /\ task[w].op = ReadOp => regs' = regs /\ x = regs[i]
    BY <1>0, TouchFacts
  <1>3. /\ mu = {w} /\ mu' = mu /\ UNCHANGED <<inbox, replied>>
        /\ task' = [task EXCEPT ![w] = t]
    BY <1>0, <1>1 DEF Touch, Progress, clientVars, ServerIInv, Mutex
  <1>4. task[w].got \in Seq(Nat) /\ Len(task[w].got) \in Nat /\ Append(task[w].got, x) \in Seq(Nat)
    BY <1>1, <1>2, AppendProperties DEF Tasks
  <1>5. t \in Tasks /\ t.stage = "locked" /\ t.op = task[w].op /\ t.got = Append(task[w].got, x)
    BY <1>0, <1>1, <1>4 DEF Tasks
  <1>6. task'[w] = t
    BY <1>3, <1>5, OneTask DEF ServerIInv, ServerTypeOK
  <1>7. \A v \in Workers : v # w => task[v].stage # "locked"
    BY <1>1 DEF ServerIInv, Mutex
  <1>8. \A c \in Conns : c # w => AskedNow(c)' = AskedNow(c) /\ EffectNow(c)' = EffectNow(c)
    BY <1>3, <1>5, <1>7, OthersSeeNothing
  <1>9. Rest(t)' = Rest(task[w])
    <2>1. CASE task[w].op = ReadOp
      <3>1. regs' = regs /\ x = regs[i]
        BY <1>2, <2>1
      <3>2. Len(t.got) = i /\ \A j \in 1..i : t.got[j] = IF j = i THEN x ELSE task[w].got[j]
        BY <1>0, <1>4, <1>5
      <3>3. \A j \in 1..Size : (IF j <= Len(t.got) THEN t.got[j] ELSE regs'[j])
                             = (IF j <= Len(task[w].got) THEN task[w].got[j] ELSE regs[j])
        <4> SUFFICES ASSUME NEW j \in 1..Size
                     PROVE  (IF j <= Len(t.got) THEN t.got[j] ELSE regs'[j])
                             = (IF j <= Len(task[w].got) THEN task[w].got[j] ELSE regs[j])
          OBVIOUS
        <4>0. j \in Nat /\ j >= 1
          BY Numbers
        <4>1. CASE j < i
          <5>1. j <= Len(task[w].got) /\ j \in 1..i /\ j # i /\ j <= i
            BY <1>0, <1>2, <1>4, <4>0, <4>1
          <5> QED BY <3>2, <5>1
        <4>2. CASE j = i
          <5>1. ~(j <= Len(task[w].got)) /\ j \in 1..i /\ j <= i
            BY <1>0, <1>2, <1>4, <4>0, <4>2
          <5> QED BY <3>1, <3>2, <4>2, <5>1
        <4>3. CASE i < j
          <5>1. ~(j <= Len(task[w].got)) /\ ~(j <= i)
            BY <1>0, <1>2, <1>4, <4>0, <4>3
          <5> QED BY <3>1, <3>2, <5>1
        <4> QED BY <1>2, <4>0, <4>1, <4>2, <4>3
      <3> QED BY <1>5, <2>1, <3>3 DEF Rest
    <2>2. CASE task[w].op # ReadOp
      BY <1>5, <2>2 DEF Rest
    <2> QED BY <2>1, <2>2
  <1>10. Rest(task[w])' = Rest(task[w])
    <2>1. Rest(task[w])' = Rest(t)'
      BY <1>6 DEF Rest
    <2> QED BY <1>9, <2>1
  <1>11. w \in Conns => AskedNow(w)' = AskedNow(w) /\ EffectNow(w)' = EffectNow(w)
    BY <1>1, <1>3, <1>5, <1>6, <1>10 DEF AskedNow, EffectNow
  <1>12. BlockNow' = BlockNow
    <2>1. CASE task[w].op = ReadOp
      BY <1>2, <1>3, <1>5, <1>6, <2>1 DEF BlockNow
    <2>2. CASE task[w].op # ReadOp
      <3>1. (CHOOSE v \in mu : TRUE) = w /\ (CHOOSE v \in mu : TRUE)' = w
        BY <1>3
      <3>2. (\E v \in mu : task[v].op # ReadOp) /\ (\E v \in mu : task[v].op # ReadOp)'
        BY <1>3, <1>5, <1>6, <2>2
      <3>3. BlockNow = Rest(task[w])
        BY <3>1, <3>2 DEF BlockNow
      <3>4. BlockNow' = Rest(task[CHOOSE v \in mu : TRUE])'
        BY <3>2 DEF BlockNow
      <3>5. Rest(task[CHOOSE v \in mu : TRUE])' = Rest(task[w])'
        <4>1. task'[(CHOOSE v \in mu : TRUE)'] = task'[w]
          BY <3>1
        <4> QED BY <4>1 DEF Rest
      <3> QED BY <1>10, <3>3, <3>4, <3>5
    <2> QED BY <2>1, <2>2
  <1> QED BY <1>3, <1>8, <1>11, <1>12 DEF Device!deviceVars

LEMMA UnlockSeen ==
    ASSUME ServerIInv, NEW w \in Workers, Unlock(w)
    PROVE  UNCHANGED Device!deviceVars
  <1>1. /\ task[w] \in Tasks /\ TaskOK(w) /\ task[w].stage = "locked" /\ Len(task[w].got) = Size
    BY DEF ServerIInv, ServerTypeOK, TasksOK, Unlock
  <1>2. mu = {w} /\ mu' = {} /\ UNCHANGED <<regs, inbox, replied>>
    BY <1>1 DEF ServerIInv, Mutex, Unlock, Progress, clientVars
  <1>3. BlockNow' = regs
    BY <1>2 DEF BlockNow
  <1>4. BlockNow = regs
    <2>1. CASE task[w].op = ReadOp
      BY <1>2, <2>1, BlockFacts
    <2>2. CASE task[w].op # ReadOp
      <3>1. BlockNow = task[w].op.vals
        BY <1>2, <2>2, BlockFacts
      <3>2. task[w].op # BadOp /\ \A i \in 1..Size : regs[i] = task[w].op.vals[i]
        BY <1>1, <2>2 DEF TaskOK
      <3>3. task[w].op.vals \in Block /\ regs \in Block
        BY <1>1, <2>2, <3>2, WriteFacts DEF ServerIInv, ServerTypeOK
      <3>4. regs = [i \in 1..Size |-> regs[i]]
        BY <3>3 DEF Block
      <3>5. regs = task[w].op.vals
        BY <3>2, <3>3, <3>4, BlockIsFunction
      <3> QED BY <3>1, <3>5
    <2> QED BY <2>1, <2>2
  <1>5. PICK t : t = IF w = Main THEN Task("none", ReadOp, <<>>)
                     ELSE [task[w] EXCEPT !.stage = "respond"]
    OBVIOUS
  <1>6. /\ t \in Tasks /\ t.stage = IF w = Main THEN "none" ELSE "respond"
        /\ w # Main => t.op = task[w].op /\ t.got = task[w].got
    <2>1. CASE w = Main
      BY <1>5, <2>1, FreshTasks
    <2>2. CASE w # Main
      BY <1>1, <1>5, <2>2 DEF Tasks, Stages
    <2> QED BY <2>1, <2>2
  <1>7. task' = [task EXCEPT ![w] = t]
    BY <1>5 DEF Unlock, Progress
  <1>8. task'[w] = t
    BY <1>6, <1>7, OneTask DEF ServerIInv, ServerTypeOK
  <1>9. \A c \in Conns : c # w => AskedNow(c)' = AskedNow(c) /\ EffectNow(c)' = EffectNow(c)
    BY <1>2, <1>6, <1>7, OthersSeeNothing
  <1>10. ASSUME w \in Conns PROVE AskedNow(w)' = AskedNow(w) /\ EffectNow(w)' = EffectNow(w)
    <2>1. w # Main
      BY <1>10, Numbers
    <2>2. Rest(task[w])' = Rest(task[w])
      BY <1>2, <1>6, <1>8, <2>1 DEF Rest
    <2> QED BY <1>1, <1>2, <1>6, <1>8, <2>1, <2>2 DEF AskedNow, EffectNow
  <1> QED BY <1>2, <1>3, <1>4, <1>9, <1>10 DEF Device!deviceVars

LEMMA StartSeen ==
    ASSUME ServerIInv, StartHandler
    PROVE  UNCHANGED Device!deviceVars
  <1>1. PICK k \in Conns : k = acceptor
    BY DEF StartHandler
  <1>2. PICK t : t = Task("read", ReadOp, <<>>)
    OBVIOUS
  <1>3. k \in Workers /\ t \in Tasks /\ t.stage = "read" /\ task[k].stage = "none"
    BY <1>1, <1>2, FreshTasks, Numbers DEF ServerIInv, Admitted
  <1>4. task' = [task EXCEPT ![k] = t] /\ UNCHANGED <<mu, regs, inbox, replied>>
    BY <1>1, <1>2 DEF StartHandler, clientVars
  <1>5. task'[k] = t
    BY <1>3, <1>4, OneTask DEF ServerIInv, ServerTypeOK
  <1>6. AskedNow(k)' = AskedNow(k) /\ EffectNow(k)' = EffectNow(k)
    BY <1>3, <1>4, <1>5 DEF AskedNow, EffectNow
  <1>7. \A c \in Conns : c # k => AskedNow(c)' = AskedNow(c) /\ EffectNow(c)' = EffectNow(c)
    BY <1>3, <1>4, OthersSeeNothing
  <1>8. BlockNow' = BlockNow
    BY <1>3, <1>4, BlockUnseen
  <1> QED BY <1>4, <1>6, <1>7, <1>8 DEF Device!deviceVars

LEMMA SendSeen ==
    ASSUME ServerIInv, NEW k \in Conns, NEW op \in Asked, Send(k, op)
    PROVE  Device!Ask(k, op) \/ UNCHANGED Device!deviceVars
  <1>1. UNCHANGED <<mu, regs, task, replied>>
    BY DEF Send
  <1>2. inbox[k] \in Seq(Ops) /\ op \in Ops /\ task[k] \in Tasks
    BY Numbers DEF ServerIInv, ServerTypeOK, Asked, Ops
  <1>3. BlockNow' = BlockNow /\ \A c \in Conns : EffectNow(c)' = EffectNow(c)
    BY <1>1 DEF BlockNow, EffectNow, Rest
  <1>4. \A c \in Conns : c # k => AskedNow(c)' = AskedNow(c)
    BY <1>1 DEF AskedNow, Send, ServerIInv, ServerTypeOK
  <1>5. CASE task[k].stage = "done"
    <2>1. inbox' = inbox
      BY <1>5 DEF Send, ServerIInv, ServerTypeOK
    <2> QED BY <1>1, <2>1, NothingSeen
  <1>6. CASE task[k].stage # "done"
    <2>1. inbox'[k] = Append(inbox[k], op)
      BY <1>6 DEF Send, ServerIInv, ServerTypeOK
    <2>2. AskedNow(k)' = Append(AskedNow(k), op)
      <3>1. CASE task[k].stage = "taken"
        <4>1. task[k].op \in Ops
          BY <1>2 DEF Tasks
        <4>2. <<task[k].op>> \o Append(inbox[k], op) = Append(<<task[k].op>> \o inbox[k], op)
          BY <1>2, <4>1
        <4> QED BY <1>1, <2>1, <3>1, <4>2 DEF AskedNow
      <3>2. CASE task[k].stage # "taken"
        BY <1>1, <2>1, <3>2 DEF AskedNow
      <3> QED BY <3>1, <3>2
    <2> QED BY <1>1, <1>3, <1>4, <2>2 DEF Device!Ask
  <1> QED BY <1>5, <1>6

LEMMA DeviceStep == ServerIInv /\ ServerIInv' /\ [Next]_serverVars => [Device!Next]_(Device!deviceVars)
  <1> SUFFICES ASSUME ServerIInv, ServerIInv', [Next]_serverVars
               PROVE  Device!Next \/ UNCHANGED Device!deviceVars
    OBVIOUS
  <1>1. CASE Serving
    <2>1. CASE Accept \/ AcceptFails
      BY <2>1, NothingSeen DEF Accept, AcceptFails, clientVars
    <2> QED BY <1>1, <2>1, StartSeen DEF Serving
  <1>2. CASE \E k \in Conns : Handling(k)
    BY <1>2, HandlingSeen DEF Device!Next
  <1>3. CASE \E w \in Workers : Working(w)
    BY <1>3, LockSeen, TouchSeen, UnlockSeen DEF Working, Device!Next
  <1>4. CASE CloseListener \/ WaitDone \/ Kill \/ ProbeFails
    BY <1>4, NothingSeen DEF CloseListener, WaitDone, Kill, ProbeFails, clientVars
  <1>5. ASSUME NEW k \in Conns, Dial(k) \/ Hang(k) PROVE UNCHANGED Device!deviceVars
    BY <1>5, NothingSeen DEF Dial, Hang
  <1>6. ASSUME NEW k \in Conns, NEW op \in Asked, Send(k, op)
        PROVE  Device!Next \/ UNCHANGED Device!deviceVars
    <2>1. Device!Ask(k, op) \/ UNCHANGED Device!deviceVars
      BY <1>6, SendSeen
    <2>2. \/ op = Device!ReadRequest
          \/ op = Device!NoRequest
          \/ \E b \in Blocks \union {Seed} : op = Device!WriteRequest(b)
      BY DEF Asked, ReadOp, BadOp, WriteOp, Device!ReadRequest, Device!NoRequest,
             Device!WriteRequest
    <2> QED BY <2>1, <2>2 DEF Device!Next
  <1>7. CASE \E k \in Conns : \/ Dial(k)
                              \/ Others /\ \E op \in Asked : Send(k, op)
                              \/ Others /\ Hang(k)
    BY <1>5, <1>6, <1>7
  <1>8. CASE ProbeRead \/ ProbeDone
    <2>1. 1 \in Conns /\ ReadOp \in Asked
      BY ConnsAssumption DEF Conns, Asked
    <2> QED BY <1>5, <1>6, <1>8, <2>1 DEF ProbeRead, ProbeDone
  <1>9. CASE UNCHANGED serverVars
    BY <1>9, NothingSeen DEF serverVars, clientVars
  <1> QED BY <1>1, <1>2, <1>3, <1>4, <1>7, <1>8, <1>9 DEF Next

LEMMA DeviceInit == Init => Device!Init
  <1> SUFFICES ASSUME Init PROVE Device!Init
    OBVIOUS
  <1>1. BlockNow = InitBlock
    BY DEF Init, BlockNow
  <1>2. \A k \in Conns : task[k] = Task("none", ReadOp, <<>>) /\ task[k].stage = "none"
    BY Numbers DEF Init, Task
  <1>3. \A k \in Conns : AskedNow(k) = <<>> /\ EffectNow(k) = NoReply
    BY <1>2 DEF AskedNow, EffectNow, Init
  <1> QED BY <1>1, <1>3 DEF Device!Init, Device!NoReply, NoReply, Init

(* Clients see one block that changes at one instant per request, for any  *)
(* number of connections, any size and any interleaving of the goroutines: *)
(* the device that MockServer's handlers share is the atomic one           *)
(* (server.go, dispatch and SetHoldingRange under one mutex).  A request   *)
(* takes effect when the mutex is taken for it.                            *)
THEOREM ServerIsAtomic == ServerSpec => ServesAtomically
  <1>1. ServerIInv /\ [Next]_serverVars => ServerIInv /\ ServerIInv' /\ [Next]_serverVars
    BY ServerStep
  <1> QED BY <1>1, DeviceInit, DeviceStep, ServerInvariance, PTL
          DEF ServesAtomically, ServerSpec, Device!Spec
=============================================================================
