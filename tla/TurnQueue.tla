----------------------------- MODULE TurnQueue -----------------------------
(* What a thread of the gateway promises about the messages a person sends:   *)
(* each one either starts a turn of its own or is handed to the turn that is   *)
(* running; turns run one at a time, in the order their messages were sent;    *)
(* a turn ends once and is never run again.  A gateway restart may lose what   *)
(* was still in memory, and only that.                                         *)
EXTENDS Naturals, FiniteSets

CONSTANT MaxMessages   \* how many messages the person sends

VARIABLES
  asked,     \* the number of messages sent so far: they are 1..asked
  waiting,   \* messages whose turn has not started
  running,   \* the message whose turn is running: no element or one
  over,      \* messages whose turn has ended
  steered,   \* messages handed to the turn that was running
  lost       \* messages a restart of the gateway dropped

vars == <<asked, waiting, running, over, steered, lost>>

Messages == 1..MaxMessages

TypeOK == /\ asked \in 0..MaxMessages
          /\ {waiting, running, over, steered, lost} \subseteq SUBSET (1..asked)

Init == /\ asked = 0
        /\ waiting = {} /\ running = {} /\ over = {} /\ steered = {} /\ lost = {}

First(m) == m \in waiting /\ \A n \in waiting : m <= n

\* A message that waits for a turn of its own.
Ask == /\ asked < MaxMessages
       /\ asked' = asked + 1
       /\ waiting' = waiting \cup {asked + 1}
       /\ UNCHANGED <<running, over, steered, lost>>

\* A message the running turn takes.
Steer == /\ asked < MaxMessages
         /\ running # {}
         /\ asked' = asked + 1
         /\ steered' = steered \cup {asked + 1}
         /\ UNCHANGED <<waiting, running, over, lost>>

Start(m) == /\ running = {}
            /\ First(m)
            /\ running' = {m}
            /\ waiting' = waiting \ {m}
            /\ UNCHANGED <<asked, over, steered, lost>>

\* A turn no backend would take is over without running.
Refuse(m) == /\ running = {}
             /\ First(m)
             /\ waiting' = waiting \ {m}
             /\ over' = over \cup {m}
             /\ UNCHANGED <<asked, running, steered, lost>>

End == /\ running # {}
       /\ over' = over \cup running
       /\ running' = {}
       /\ UNCHANGED <<asked, waiting, steered, lost>>

\* "stop": ends the running turn and waits for a turn of its own.
EndAndAsk == /\ asked < MaxMessages
             /\ running # {}
             /\ asked' = asked + 1
             /\ waiting' = waiting \cup {asked + 1}
             /\ over' = over \cup running
             /\ running' = {}
             /\ UNCHANGED <<steered, lost>>

Restart == /\ lost' = lost \cup waiting \cup running
           /\ waiting' = {}
           /\ running' = {}
           /\ UNCHANGED <<asked, over, steered>>

Next == \/ Ask
        \/ Steer
        \/ \E m \in Messages : Start(m) \/ Refuse(m)
        \/ End
        \/ EndAndAsk
        \/ Restart

Spec == Init /\ [][Next]_vars
=============================================================================
