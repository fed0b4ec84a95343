----------------------------- MODULE AtomicDevice -----------------------------
(***************************************************************************)
(* What clients may rely on when they talk to the mock device over several *)
(* connections: the block of registers they read and write behaves as one  *)
(* value.  A request takes effect whole, at one instant after it was sent  *)
(* and before it is answered, in the order of its connection; a request on *)
(* a connection that ends may never take effect, and what is no request    *)
(* never does.                                                             *)
(***************************************************************************)
EXTENDS Naturals, Sequences

CONSTANTS Conns,      \* connections
          Blocks,     \* the values the block can have
          InitBlock   \* the value it starts with

VARIABLES block,      \* the value of the block
          asked,      \* per connection, the requests that have not taken effect
          effect,     \* per connection, the reply of one that has, not yet sent
          replied     \* per connection, the last reply sent

deviceVars == <<block, asked, effect, replied>>

NoReply  == [kind |-> "none"]
Ack      == [kind |-> "ack"]
Values(b) == [kind |-> "values", vals |-> b]

ReadRequest     == [kind |-> "read"]
WriteRequest(b) == [kind |-> "write", vals |-> b]
NoRequest       == [kind |-> "bad"]

Init == /\ block = InitBlock
        /\ asked = [k \in Conns |-> <<>>]
        /\ effect = [k \in Conns |-> NoReply]
        /\ replied = [k \in Conns |-> NoReply]

Ask(k, r) == /\ asked' = [asked EXCEPT ![k] = Append(@, r)]
             /\ UNCHANGED <<block, effect, replied>>

TakeEffect(k) ==
    /\ asked[k] # <<>>
    /\ effect[k] = NoReply
    /\ asked' = [asked EXCEPT ![k] = Tail(@)]
    /\ \/ /\ Head(asked[k]) = ReadRequest
          /\ effect' = [effect EXCEPT ![k] = Values(block)]
          /\ UNCHANGED block
       \/ \E b \in Blocks :
             /\ Head(asked[k]) = WriteRequest(b)
             /\ block' = b
             /\ effect' = [effect EXCEPT ![k] = Ack]
    /\ UNCHANGED replied

Reply(k) == /\ effect[k] # NoReply
            /\ replied' = [replied EXCEPT ![k] = effect[k]]
            /\ effect' = [effect EXCEPT ![k] = NoReply]
            /\ UNCHANGED <<block, asked>>

(* The connection ends, and the replies it still owed with it. *)
Lose(k) == /\ asked' = [asked EXCEPT ![k] = <<>>]
           /\ effect' = [effect EXCEPT ![k] = NoReply]
           /\ UNCHANGED <<block, replied>>

(* The owner of the device sets the block. *)
Set(b) == block' = b /\ UNCHANGED <<asked, effect, replied>>

Next == \/ \E k \in Conns : \/ \E b \in Blocks : Ask(k, WriteRequest(b))
                            \/ Ask(k, ReadRequest)
                            \/ Ask(k, NoRequest)
                            \/ TakeEffect(k)
                            \/ Reply(k)
                            \/ Lose(k)
        \/ \E b \in Blocks : Set(b)

Spec == Init /\ [][Next]_deviceVars
=============================================================================
