------------------------------ MODULE EventLog ------------------------------
(***************************************************************************)
(* What attach-v1 promises of either of its two streams, without sockets,  *)
(* acks, cursors or retries: a numbered log that only grows, a receiver    *)
(* that takes it in order, and a sender that forgets only what was taken.  *)
(***************************************************************************)
EXTENDS Naturals, Sequences

\* Stands for the event id behind a number the sender has lost.
Missing == 0
Ids == Nat \ {Missing}

VARIABLES
    numbered,   \* the event id behind each number issued so far, or Missing
    received,   \* the ids the receiver holds, in order
    settled     \* the numbers the sender may forget

vars == <<numbered, received, settled>>

Init ==
    /\ numbered \in Seq(Nat)
    /\ received \in Seq(Ids) /\ Len(received) <= Len(numbered)
    /\ settled \subseteq 1..Len(received)

\* The sender numbers one more event.
Issue ==
    /\ Len(numbered') = Len(numbered) + 1
    /\ SubSeq(numbered', 1, Len(numbered)) = numbered
    /\ numbered'[Len(numbered) + 1] \in Ids
    /\ UNCHANGED <<received, settled>>

\* The sender fills numbers it has lost, but only beyond what was received.
Fill ==
    /\ numbered' \in [DOMAIN numbered -> Nat]
    /\ \A n \in DOMAIN numbered :
         numbered'[n] # numbered[n] => numbered[n] = Missing /\ n > Len(received)
    /\ UNCHANGED <<received, settled>>

\* The receiver takes the event behind the next number.
Receive ==
    /\ Len(received) < Len(numbered)
    /\ numbered[Len(received) + 1] # Missing
    /\ received' = Append(received, numbered[Len(received) + 1])
    /\ UNCHANGED <<numbered, settled>>

\* The sender forgets what was received.
Settle ==
    /\ settled' \subseteq 1..Len(received)
    /\ settled \subseteq settled'
    /\ UNCHANGED <<numbered, received>>

Next == Issue \/ Fill \/ Receive \/ Settle
Spec == Init /\ [][Next]_vars
=============================================================================
