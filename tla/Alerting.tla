------------------------------- MODULE Alerting -------------------------------
(***************************************************************************)
(* The alerting engine of the Python bindings, python/otcat/alerting.py:   *)
(* poll_once reads the address of every rule in turn, each with an otcat   *)
(* process of its own (client.py, read), and evaluates the rule's          *)
(* predicate on the value; on_trigger and on_clear are called on the       *)
(* changes of the rule's state.  run calls poll_once again and again, or   *)
(* a scheduler of the caller's does; a callback that raises ends the round *)
(* and, under run, the loop.                                               *)
(***************************************************************************)
EXTENDS Naturals, Sequences

CONSTANTS Rules,       \* the number of rules added
          Values,      \* what a read may return
          Breaching,   \* Breaching[r]: the values that meet the predicate of r
          Unfit,       \* Unfit[r]: the values the predicate of r fails on
          Debounce,    \* Debounce[r]
          HasClear,    \* HasClear[r]: was on_clear given?
          MaxRounds    \* rounds polled (bound)

Rule == 1..Rules

ASSUME RulesAssumption ==
    /\ Rules \in Nat /\ MaxRounds \in Nat
    /\ Breaching \in [Rule -> SUBSET Values]
    /\ Unfit \in [Rule -> SUBSET Values]
    /\ Debounce \in [Rule -> Nat]
    /\ HasClear \in [Rule -> BOOLEAN]

VARIABLES round,        \* rounds begun
          turn,         \* the rule whose turn it is; 0 between rounds
          consecutive,  \* rule._consecutive
          active,       \* rule._active
          history,      \* ghost: per rule, whether each evaluated sample breached
          called        \* ghost: per rule, the callbacks made, each with the
                     \* number of samples evaluated by then

alertVars == <<round, turn, consecutive, active, history, called>>

AlertInit == /\ round = 0
             /\ turn = 0
             /\ consecutive = [r \in Rule |-> 0]
             /\ active = [r \in Rule |-> FALSE]
             /\ history = [r \in Rule |-> <<>>]
             /\ called = [r \in Rule |-> <<>>]

StartRound == /\ turn = 0
              /\ round < MaxRounds
              /\ round' = round + 1
              /\ turn' = IF Rules = 0 THEN 0 ELSE 1
              /\ UNCHANGED <<consecutive, active, history, called>>

Turn == turn # 0

Pass == turn' = (IF turn = Rules THEN 0 ELSE turn + 1) /\ UNCHANGED round

(* Any failure of the read is logged, and the rule keeps its state. *)
ReadFails == /\ Turn
             /\ Pass
             /\ UNCHANGED <<consecutive, active, history, called>>

PredicateFails(v) == /\ Turn
                     /\ v \in Unfit[turn]
                     /\ Pass
                     /\ UNCHANGED <<consecutive, active, history, called>>

(* A callback is made after the state has changed, and may raise. *)
Notify(what) == /\ called' = [called EXCEPT ![turn] = Append(@, <<what, Len(history'[turn])>>)]
                /\ Pass \/ (turn' = 0 /\ UNCHANGED round)

(* Mutants: the counter is compared before it is incremented; the state is *)
(* not looked at.                                                          *)
DueLate  == ~active[turn] /\ consecutive[turn] >= Debounce[turn]
DueAgain == consecutive[turn] + 1 >= Debounce[turn]

(* The counter counts the sample at hand. *)
Due == ~active[turn] /\ consecutive[turn] + 1 >= Debounce[turn]

Breached(v) ==
    /\ Turn
    /\ v \in Breaching[turn] \ Unfit[turn]
    /\ history' = [history EXCEPT ![turn] = Append(@, TRUE)]
    /\ consecutive' = [consecutive EXCEPT ![turn] = @ + 1]
    /\ IF Due
       THEN active' = [active EXCEPT ![turn] = TRUE] /\ Notify("trigger")
       ELSE UNCHANGED <<active, called>> /\ Pass

Normal(v) ==
    /\ Turn
    /\ v \notin Breaching[turn] \union Unfit[turn]
    /\ history' = [history EXCEPT ![turn] = Append(@, FALSE)]
    /\ consecutive' = [consecutive EXCEPT ![turn] = 0]
    /\ active' = [active EXCEPT ![turn] = FALSE]
    /\ IF active[turn] /\ HasClear[turn] THEN Notify("clear") ELSE UNCHANGED called /\ Pass

AlertNext == \/ StartRound
        \/ ReadFails
        \/ \E v \in Values : PredicateFails(v) \/ Breached(v) \/ Normal(v)

AlertSpec == AlertInit /\ [][AlertNext]_alertVars

-----------------------------------------------------------------------------
(***************************************************************************)
(* Properties.                                                             *)
(***************************************************************************)

(* The engine's state stays in its range, and a count is never more than   *)
(* the samples there were.                                                 *)
AlertTypeOK == /\ round \in 0..MaxRounds
               /\ turn \in 0..Rules
               /\ consecutive \in [Rule -> 0..MaxRounds]
               /\ active \in [Rule -> BOOLEAN]
               /\ history \in [Rule -> Seq(BOOLEAN)]
               /\ called \in [Rule -> Seq({"trigger", "clear"} \X Nat)]
               /\ \A r \in Rule : consecutive[r] <= Len(history[r])

Needed(r) == IF Debounce[r] = 0 THEN 1 ELSE Debounce[r]

(* The samples of rule r number i - count + 1 to i all breached. *)
AllBreached(r, i, count) ==
    i >= count /\ \A j \in (i - count + 1)..i : history[r][j]

(* The samples of rule r number i - count + 1 to i were all normal. *)
AllNormal(r, i, count) ==
    i >= count /\ \A j \in (i - count + 1)..i : ~history[r][j]

(* A rule is active once its last `debounce` evaluated samples all         *)
(* breached, and no longer once the last `debounce` were all normal,       *)
(* whatever reads, predicates and callbacks failed in between              *)
(* (alerting.py, _evaluate).                                               *)
AlarmFollowsSignal ==
    \A r \in Rule :
       /\ AllBreached(r, Len(history[r]), Needed(r)) => active[r]
       /\ AllNormal(r, Len(history[r]), Needed(r)) => ~active[r]

(* Why: the counter is the number of breaching samples at the end of the   *)
(* history, and decides whether the rule is active.  With the pace of the  *)
(* rounds, one sample of a rule in each, this is inductive.                *)
Counted ==
    \A r \in Rule :
       /\ AllBreached(r, Len(history[r]), consecutive[r])
       /\ consecutive[r] < Len(history[r]) => ~history[r][Len(history[r]) - consecutive[r]]
       /\ active[r] <=> consecutive[r] >= Needed(r)

Paced == \A r \in Rule : IF turn # 0 /\ turn <= r THEN consecutive[r] < round
                         ELSE consecutive[r] <= round

AlertIInv == AlertTypeOK /\ Counted /\ Paced

(* The samples at which a rule may be said to be met, and to be over. *)
Onsets(r)  == {i \in 1..Len(history[r]) :
                  /\ AllBreached(r, i, Needed(r))
                  /\ ~AllBreached(r, i, Needed(r) + 1)}
Normals(r) == {i \in 1..Len(history[r]) : ~history[r][i]}

(* on_trigger is called at the sample that completes `debounce` breaching  *)
(* ones, never twice for one run of them, on_clear at a normal sample, the *)
(* two in turn; a rule that is active has been announced, and one with an  *)
(* on_clear that is not has been called off (alerting.py:28-31), also when *)
(* a callback of this rule or another raises.                              *)
CallbacksInTurn ==
    \A r \in Rule :
       LET said == called[r]
           last == said[Len(said)]
       IN  /\ \A i \in 1..Len(said) :
                 /\ said[i][1] = IF HasClear[r] /\ i % 2 = 0 THEN "clear" ELSE "trigger"
                 /\ said[i][2] \in IF said[i][1] = "trigger" THEN Onsets(r) ELSE Normals(r)
                 /\ i > 1 => said[i - 1][2] < said[i][2]
           /\ active[r] =>
                 /\ said # <<>>
                 /\ last[1] = "trigger"
                 /\ \A j \in last[2]..Len(history[r]) : ~AllNormal(r, j, Needed(r))
           /\ HasClear[r] /\ ~active[r] => said = <<>> \/ last[1] = "clear"

(* The AlertEngine docstring (alerting.py:94-97): "`debounce=N` requires N *)
(* consecutive breaching samples before on_trigger fires, and (by the same *)
(* logic, for the same reason) N consecutive non-breaching samples before  *)
(* on_clear fires."                                                        *)
ClearDebounced ==
    \A r \in Rule : \A i \in 1..Len(called[r]) :
       called[r][i][1] = "clear" => AllNormal(r, called[r][i][2], Needed(r))
=============================================================================
