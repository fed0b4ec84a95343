---------------------------- MODULE RegisterBank ----------------------------
(***************************************************************************)
(* What a caller may rely on when it works through one Modbus client,      *)
(* with no bytes, connections or transaction numbers in sight: a call that *)
(* returns a result took effect exactly once, between its invocation and   *)
(* its return, and the result is what the register bank answered to that   *)
(* very call.  A call that failed may have taken effect, may still take    *)
(* effect later, or never, but not twice.                                  *)
(***************************************************************************)
EXTENDS MockDevice, FiniteSets

CONSTANTS Calls,      \* the calls a caller may make
          MaxCalls,   \* how many calls are made (bound)
          InitMem     \* the contents of the bank at the start

VARIABLES bank,       \* the four tables
          issued,     \* the number of calls made
          current,    \* the call in progress, or NoCall
          pending,    \* the calls whose effect may still happen
          reply,      \* what the bank answered to the call in progress
          last        \* the result of the last call that returned

bankVars == <<bank, issued, current, pending, reply, last>>

NoCall   == [n |-> 0]
NoReply  == Outcome("none", <<>>)
Failure  == Outcome("failed", <<>>)

Fits(c) == c.addr + c.qty <= TableSize

ReplyTo(b, c) == IF ~Fits(c) THEN Outcome("exception", <<exIllegalAddress>>)
                 ELSE IF c.fc \in Writes THEN Outcome("ok", <<>>)
                 ELSE Outcome("ok", Slice(b[TableOf(c.fc)], c.addr, c.qty))

After(b, c) == IF c.fc \in Writes /\ Fits(c)
               THEN Overwrite(b, TableOf(c.fc), c.addr, c.vals)
               ELSE b

Init == /\ bank = InitMem
        /\ issued = 0
        /\ current = NoCall
        /\ pending = {}
        /\ reply = NoReply
        /\ last = NoReply

(* A call starts; its request may or may not get under way. *)
Invoke(c) ==
    /\ current = NoCall
    /\ issued < MaxCalls
    /\ issued' = issued + 1
    /\ current' = [n |-> issued + 1, call |-> c]
    /\ reply' = NoReply
    /\ pending' \in {pending, pending \union {current'}}
    /\ UNCHANGED <<bank, last>>

(* A call that is turned down on the spot has no effect at all. *)
Reject ==
    /\ current = NoCall
    /\ issued < MaxCalls
    /\ issued' = issued + 1
    /\ reply' = NoReply
    /\ last' = Failure
    /\ UNCHANGED <<bank, current, pending>>

(* A call takes effect.  Its reply may be lost, and it will fail then. *)
Apply ==
    \E p \in pending :
       /\ bank' = After(bank, p.call)
       /\ pending' = pending \ {p}
       /\ \/ p = current /\ reply' = ReplyTo(bank, p.call)
          \/ UNCHANGED reply
       /\ UNCHANGED <<issued, current, last>>

Return ==
    /\ current # NoCall
    /\ reply # NoReply
    /\ last' = reply
    /\ current' = NoCall
    /\ UNCHANGED <<bank, issued, pending, reply>>

Fail ==
    /\ current # NoCall
    /\ last' = Failure
    /\ current' = NoCall
    /\ UNCHANGED <<bank, issued, pending, reply>>

Lose == \E S \in SUBSET pending :
           /\ pending' = pending \ S
           /\ UNCHANGED <<bank, issued, current, reply, last>>

Next == \/ \E c \in Calls : Invoke(c)
        \/ Reject
        \/ Apply
        \/ Return
        \/ Fail
        \/ Lose

Spec == Init /\ [][Next]_bankVars
=============================================================================
