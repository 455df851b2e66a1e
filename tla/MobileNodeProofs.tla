-------------------------- MODULE MobileNodeProofs --------------------------
(* Proofs about MobileNode for every set of requests, every limit of the      *)
(* table and every bound.                                                     *)
(*                                                                            *)
(* What the agent is told and what a person reads are written by many         *)
(* handlers, and each of them relies on where the request is: still in the    *)
(* agent's frames, in the table, in the hands of an upload, or settled.  The  *)
(* invariant says what the records of a request look like at each of these    *)
(* places, and that a request is asked for once.                              *)
EXTENDS MobileNode, TLAPS, FiniteSetTheorems, SequenceTheorems

AllKinds == {"status", "location", "media"}
States == Open \cup Terminal \cup {"none"}
Frames == [cancel : BOOLEAN, req : Requests, kind : AllKinds]

Shape ==
  /\ req \in [Requests -> [at : {"none", "pending", "claimed"}, stage : 0..1, kind : AllKinds]]
  /\ record \in [Requests -> States] /\ lost \in [Requests -> Nat]
  /\ told \in [Requests -> Seq(Statuses)]
  /\ calls \in [Requests -> {"new", "open", "over"}]
  /\ shown \in [Requests -> Nat]
  /\ asks \in Seq(Frames)
  /\ held \subseteq Requests /\ receipts \subseteq Requests /\ due \subseteq Requests
  /\ orphans \subseteq Requests
  /\ selected \in Socket \cup {0} /\ link \in {"up", "broken", "down"}
  /\ turn \in {"active", "over"} /\ others \in Nat

\* The table is finite and within its limit, whatever the agents ask for.
TableOK ==
  /\ IsFiniteSet(Pending) /\ IsFiniteSet(held)
  /\ Cardinality(Pending) + Cardinality(held) + others <= Limit

\* Nothing is known of a request the gateway has not read.
Untouched(r) ==
  /\ req[r].at = "none" /\ r \notin held /\ record[r] = "none"
  /\ told[r] = <<>> /\ r \notin receipts /\ shown[r] = 0

\* An agent asks for a request once, while its link is up, and it is untouched until the
\* gateway reads the frame.
AsksOK ==
  /\ link = "down" => asks = <<>>
  /\ \A r \in Requests : calls[r] = "open" => link = "up"
  /\ \A r \in Requests : calls[r] = "new" => Untouched(r)
  /\ \A i \in 1..Len(asks) : calls[asks[i].req] # "new"
  /\ \A i \in 1..Len(asks) : ~asks[i].cancel => Untouched(asks[i].req)
  /\ \A i, j \in 1..Len(asks) :
       ~asks[i].cancel /\ ~asks[j].cancel /\ asks[i].req = asks[j].req => i = j

\* The record of a request that waits is open, or was never written.
Waiting(r) == record[r] \in Open \/ (record[r] = "none" /\ lost[r] > 0)

\* OutcomeIsAgreed of one request; and while it is in the table, or in an upload, its record waits
\* and nobody has been told.
Agreed(r) ==
  /\ Len(told[r]) <= 1
  /\ record[r] \in Terminal =>
       /\ told[r] # <<>>
       /\ record[r] = SettledState(told[r][1])
            \/ (record[r] = "policy_blocked" /\ told[r][1] = "policy_blocked" /\ shown[r] = 0)
  /\ told[r] # <<>> /\ record[r] # "none" => record[r] \in Terminal \/ lost[r] > 0
  /\ r \in receipts <=> told[r] = <<"ok">>
  /\ req[r].at # "none" => Waiting(r) /\ told[r] = <<>>

IInv == Shape /\ TableOK /\ AsksOK /\ AskedOfTheLiving /\ \A r \in Requests : Agreed(r)
----------------------------------------------------------------------------
LEMMA OpenStates == Open = {"requested", "routed", "received", "executing"}
  <1>1. DOMAIN Progress = {1, 2, 3, 4}
    BY DEF Progress
  <1> QED
    BY <1>1 DEF Open, Progress

\* How far a record has come.
LEMMA RankValues ==
  /\ Rank("none") = 0
  /\ \A t \in Terminal : Rank(t) = 5
  /\ Rank("requested") = 1 /\ Rank("routed") = 2
  /\ Rank("received") = 3 /\ Rank("executing") = 4
  <1>1. DOMAIN Progress = {1, 2, 3, 4} /\ Len(Progress) = 4
    BY DEF Progress
  <1>2. /\ Progress[1] = "requested" /\ Progress[2] = "routed"
        /\ Progress[3] = "received" /\ Progress[4] = "executing"
    BY DEF Progress
  <1>3. ASSUME NEW i \in {1, 2, 3, 4} PROVE Rank(Progress[i]) = i
    <2>1. \A j \in DOMAIN Progress : Progress[j] = Progress[i] <=> j = i
      BY <1>1, <1>2
    <2>2. Progress[i] \in Open
      BY <1>1 DEF Open
    <2> QED
      BY <1>1, <2>1, <2>2 DEF Rank
  <1>4. \A t \in Terminal : t \notin Open
    BY OpenStates DEF Terminal
  <1>5. "none" \notin Open /\ "none" \notin Terminal
    BY OpenStates DEF Terminal
  <1> QED
    BY <1>1, <1>2, <1>3, <1>4, <1>5 DEF Rank

\* A record goes on until it is terminal, and then it is sealed.
LEMMA MovedStates ==
  /\ \A old \in Open \cup {"none"}, t \in Terminal : Moved(old, t) = t
  /\ \A old \in Open \cup {"none"}, new \in Open : Moved(old, new) \in Open
  /\ \A old \in Terminal, new \in Open \cup Terminal : Moved(old, new) = old
  /\ \A old : Moved(old, "none") = old \/ Moved(old, "none") = "none"
  /\ \A t \in States : Moved("none", t) = t
  BY RankValues, OpenStates DEF Moved, States

\* What a request ends as.
LEMMA SettledStates ==
  /\ \A status \in Statuses : SettledState(status) \in Terminal
  /\ SettledState("ok") = "completed"
  BY DEF SettledState, Statuses, Terminal

LEMMA InitOK == Init => IInv
  <1> SUFFICES ASSUME Init PROVE IInv
    OBVIOUS
  <1>1. Shape
    BY OpenStates DEF Init, Shape, States, Absent, AllKinds, Statuses, Frames, Socket
  <1>2. TableOK
    <2>1. Pending = {} /\ held = {} /\ others = 0
      BY DEF Init, Pending, Absent
    <2>2. IsFiniteSet({}) /\ Cardinality({}) = 0
      BY FS_EmptySet
    <2> QED
      BY <2>1, <2>2, MobileAssumption DEF TableOK
  <1>3. AsksOK /\ AskedOfTheLiving
    BY DEF Init, AsksOK, Untouched, AskedOfTheLiving, Pending, Absent
  <1>4. \A r \in Requests : Agreed(r)
    BY OpenStates DEF Init, Agreed, Waiting, Absent, Terminal
  <1> QED
    BY <1>1, <1>2, <1>3, <1>4 DEF IInv
----------------------------------------------------------------------------
(* One request, and the frames of the agent.                                  *)

\* A step leaves the request where it is; it may be shown again while it is pending.
Left(r) ==
  /\ record'[r] = record[r] /\ told'[r] = told[r] /\ req'[r].at = req[r].at
  /\ lost[r] > 0 => lost'[r] > 0
  /\ r \in receipts' <=> r \in receipts
  /\ shown[r] = 0 /\ req[r].at = "none" => shown'[r] = 0

LEMMA LeftAgreed ==
  ASSUME NEW r, Agreed(r), Left(r), Open \cap Terminal = {} PROVE Agreed(r)'
  BY DEF Agreed, Waiting, Left

LEMMA AsksTyped ==
  ASSUME Shape
  PROVE  \A i \in 1..Len(asks) :
           asks[i] \in Frames /\ asks[i].req \in Requests /\ asks[i].kind \in AllKinds
  <1>1. \A i \in 1..Len(asks) : asks[i] \in Frames
    BY DEF Shape
  <1> QED
    BY <1>1 DEF Frames

\* The frames of the agent are read in order, thrown away or left; no untouched request but
\* the one just read is touched.
LEMMA AsksStay ==
  ASSUME Shape, AsksOK,
         asks' = asks \/ asks' = <<>> \/ (asks # <<>> /\ asks' = Tail(asks)),
         link' = "down" => asks' = <<>>,
         \A r \in Requests : calls'[r] = calls[r] \/ (calls[r] # "new" /\ calls'[r] = "over"),
         \A r \in Requests : calls'[r] = "open" => link' = "up",
         \A r \in Requests : Untouched(r) =>
           \/ Untouched(r)'
           \/ asks # <<>> /\ asks' = Tail(asks) /\ Head(asks) = asks[1]
              /\ ~asks[1].cancel /\ asks[1].req = r /\ calls[r] # "new"
  PROVE  AsksOK'
  <1> DEFINE Read(r) == asks # <<>> /\ asks' = Tail(asks) /\ ~asks[1].cancel /\ asks[1].req = r
  <1>1. \A r \in Requests : calls'[r] = "new" => Untouched(r)'
    BY DEF AsksOK, Shape
  <1>2. CASE asks' = <<>>
    BY <1>1, <1>2 DEF AsksOK
  <1>3. CASE asks' = asks
    <2>1. \A i \in 1..Len(asks) : asks[i].req \in Requests
      BY AsksTyped
    <2>2. asks # <<>> => asks # Tail(asks)
      BY DEF Shape
    <2> QED
      BY <1>1, <1>3, <2>1, <2>2 DEF AsksOK, Untouched
  <1>4. CASE asks # <<>> /\ asks' = Tail(asks)
    <2>1. /\ Len(asks') = Len(asks) - 1
          /\ \A i \in 1..Len(asks') : i + 1 \in 1..Len(asks) /\ asks'[i] = asks[i + 1]
      BY <1>4 DEF Shape
    <2>2. \A i \in 1..Len(asks) : asks[i].req \in Requests
      BY AsksTyped
    <2>3. 1 \in 1..Len(asks)
      BY <1>4 DEF Shape
    <2>4. \A i \in 1..Len(asks') : calls'[asks'[i].req] # "new"
      BY <2>1, <2>2 DEF AsksOK
    <2>5. ASSUME NEW i \in 1..Len(asks'), ~asks'[i].cancel
          PROVE  Untouched(asks[i].req)'
      <3>1. Untouched(asks[i + 1].req) /\ asks[i + 1].req \in Requests
        BY <2>1, <2>2, <2>5 DEF AsksOK
      <3>2. ~(~asks[1].cancel /\ asks[1].req = asks[i + 1].req)
        <4>1. i + 1 # 1 /\ i + 1 \in 1..Len(asks) /\ ~asks[i + 1].cancel
          BY <2>1, <2>5
        <4> QED
          BY <2>3, <4>1 DEF AsksOK
      <3> QED
        BY <2>1, <3>1, <3>2 DEF Untouched
    <2>6. ASSUME NEW i \in 1..Len(asks'), NEW j \in 1..Len(asks'),
                 ~asks'[i].cancel, ~asks'[j].cancel, asks'[i].req = asks'[j].req
          PROVE  i = j
      <3>1. i + 1 = j + 1
        BY <2>1, <2>6, SMTT(30) DEF AsksOK
      <3> QED
        BY <3>1
    <2> QED
      BY <1>1, <1>4, <2>4, <2>5, <2>6 DEF AsksOK, Untouched
  <1> QED
    BY <1>2, <1>3, <1>4
----------------------------------------------------------------------------
(* What the handlers are made of.                                             *)

LEMMA StatesApart == Open \cap Terminal = {} /\ "none" \notin Open \cup Terminal
  BY OpenStates DEF Terminal

\* A settled id is remembered where a pending one was held.
LEMMA TableMoves ==
  ASSUME Shape, TableOK, NEW S \in SUBSET Pending, S \cap held = {},
         Pending' = Pending \ S, held' = held \cup S, others' = others
  PROVE  TableOK'
  <1>1. IsFiniteSet(S)
    BY FS_Subset DEF TableOK
  <1>2. /\ IsFiniteSet(Pending \ S)
        /\ Cardinality(Pending \ S) = Cardinality(Pending) - Cardinality(Pending \cap S)
    BY FS_Difference DEF TableOK
  <1>3. Pending \cap S = S
    OBVIOUS
  <1>4. /\ IsFiniteSet(held \cup S)
        /\ Cardinality(held \cup S) = Cardinality(held) + Cardinality(S) - Cardinality(held \cap S)
    BY <1>1, FS_Union DEF TableOK
  <1>5. Cardinality(held \cap S) = 0
    BY FS_EmptySet
  <1>6. /\ Cardinality(Pending) \in Nat /\ Cardinality(held) \in Nat /\ Cardinality(S) \in Nat
    BY <1>1, FS_CardinalityType DEF TableOK
  <1>7. /\ IsFiniteSet(Pending') /\ IsFiniteSet(held')
        /\ Cardinality(Pending') = Cardinality(Pending) - Cardinality(S)
        /\ Cardinality(held') = Cardinality(held) + Cardinality(S)
    <2>1. Cardinality(Pending \ S) = Cardinality(Pending) - Cardinality(S)
      BY <1>2, <1>3
    <2>2. Cardinality(held \cup S) = Cardinality(held) + Cardinality(S)
      BY <1>4, <1>5, <1>6
    <2>3. IsFiniteSet(Pending') /\ Cardinality(Pending') = Cardinality(Pending \ S)
      BY <1>2
    <2>4. IsFiniteSet(held') /\ Cardinality(held') = Cardinality(held \cup S)
      BY <1>4
    <2> QED
      BY <2>1, <2>2, <2>3, <2>4
  <1>8. Cardinality(Pending') + Cardinality(held') + others' <= Limit
    BY <1>6, <1>7, MobileAssumption DEF TableOK, Shape
  <1> QED
    BY <1>7, <1>8 DEF TableOK

\* #life: a record is written, or stays as the handler had left it and counts as lost.
LEMMA WriteOK ==
  ASSUME Shape, NEW next \in [Requests -> States], NEW begun \in [Requests -> States],
         Write(next, begun)
  PROVE  /\ record' \in [Requests -> States] /\ lost' \in [Requests -> Nat]
         /\ \A r \in Requests : lost[r] > 0 => lost'[r] > 0
         /\ \A r \in Requests :
              record'[r] = next[r] \/ (record'[r] = begun[r] /\ lost'[r] > 0)
  <1>1. PICK fails \in SUBSET Requests :
          record' = [r \in Requests |-> IF r \in fails THEN begun[r] ELSE next[r]]
    BY DEF Write
  <1>2. lost' = [r \in Requests |-> IF record'[r] = next[r] THEN lost[r] ELSE lost[r] + 1]
    BY DEF Write
  <1>3. \A r \in Requests : lost[r] \in Nat
    BY DEF Shape
  <1>4. \A r \in Requests :
          lost'[r] \in Nat /\ (lost[r] > 0 => lost'[r] > 0)
          /\ (record'[r] # next[r] => lost'[r] > 0)
    BY <1>2, <1>3
  <1>5. lost' \in [Requests -> Nat]
    BY <1>2, <1>4
  <1> QED
    BY <1>1, <1>4, <1>5

\* The first record of a request is what it was opened as, or is behind it and counts as lost.
LEMMA OpenedOK ==
  ASSUME Shape, NEW r \in Requests, record[r] = "none", NEW state \in States, OpenAs(r, state)
  PROVE  /\ record' \in [Requests -> States] /\ lost' \in [Requests -> Nat]
         /\ \A q \in Requests : lost[q] > 0 => lost'[q] > 0
         /\ \A q \in Requests \ {r} : record'[q] = record[q]
         /\ record'[r] = state \/ (record'[r] \in {"none", "requested"} /\ lost'[r] > 0)
  <1>1. PICK first \in {"none", "requested"} :
          Write([record EXCEPT ![r] = Moved(@, state)], [record EXCEPT ![r] = Moved(@, first)])
    BY DEF OpenAs
  <1>2. Moved("none", state) = state /\ Moved("none", first) = first /\ first \in States
    BY MovedStates, OpenStates DEF States
  <1>3. PICK next, begun : next = [record EXCEPT ![r] = state] /\ begun = [record EXCEPT ![r] = first]
    OBVIOUS
  <1>4. Write(next, begun)
    BY <1>1, <1>2, <1>3
  <1>5. next \in [Requests -> States] /\ begun \in [Requests -> States]
        /\ next[r] = state /\ begun[r] = first
        /\ \A q \in Requests \ {r} : next[q] = record[q] /\ begun[q] = record[q]
    BY <1>2, <1>3 DEF Shape
  <1> QED
    BY <1>4, <1>5, WriteOK

\* #finish: what it settles, what it marks as routed and what it leaves.
LEMMA FinishOK ==
  ASSUME IInv, NEW S \in SUBSET Pending, NEW status \in Statuses \ {"ok"},
         NEW sent \in SUBSET (Pending \ S), Finish(S, status, sent), others' = others,
         shown' \in [Requests -> Nat],
         \A r \in Requests : shown[r] = 0 /\ req[r].at = "none" => shown'[r] = 0
  PROVE  /\ req' \in [Requests -> [at : {"none", "pending", "claimed"}, stage : 0..1, kind : AllKinds]]
         /\ record' \in [Requests -> States] /\ lost' \in [Requests -> Nat]
         /\ told' \in [Requests -> Seq(Statuses)]
         /\ calls' \in [Requests -> {"new", "open", "over"}]
         /\ held' \subseteq Requests /\ receipts' = receipts
         /\ TableOK' /\ Pending' = Pending \ S /\ held' = held \cup S
         /\ \A r \in Requests : Agreed(r)'
         /\ \A r \in Requests : calls'[r] = calls[r] \/ (calls[r] # "new" /\ calls'[r] = "over")
         /\ \A r \in Requests : Untouched(r) => Untouched(r)'
  <1> USE DEF IInv
  <1>1. S \subseteq Requests /\ S \cap held = {} /\ sent \subseteq Requests
    BY DEF Pending, AskedOfTheLiving
  <1>2. /\ \A r \in Requests : r \in S => req'[r].at = "none"
        /\ \A r \in Requests : r \notin S => req'[r] = req[r]
        /\ req' \in [Requests -> [at : {"none", "pending", "claimed"}, stage : 0..1, kind : AllKinds]]
    <2>1. [at |-> "none", stage |-> 0, kind |-> "status"]
            \in [at : {"none", "pending", "claimed"}, stage : 0..1, kind : AllKinds]
      BY DEF AllKinds
    <2> QED
      BY <2>1, ZenonT(60) DEF Finish, Consume, Absent, Shape
  <1>3. Pending' = Pending \ S
    BY <1>2 DEF Pending
  <1>4. held' = held \cup S /\ receipts' = receipts
    BY DEF Finish, Consume
  <1>5. TableOK'
    BY <1>1, <1>3, <1>4, TableMoves
  <1>6. /\ \A r \in Requests : told'[r] = IF r \in S THEN Append(told[r], status) ELSE told[r]
        /\ told' \in [Requests -> Seq(Statuses)]
    BY DEF Finish, Tell, Shape
  <1>7. /\ \A r \in Requests : calls'[r] = calls[r] \/ (calls[r] # "new" /\ calls'[r] = "over")
        /\ calls' \in [Requests -> {"new", "open", "over"}]
    BY DEF Finish, Tell, Shape
  <1>7a. PICK next : next = [r \in Requests |->
             CASE r \in S -> Moved(record[r], SettledState(status))
               [] r \in sent -> Moved(record[r], "routed")
               [] OTHER -> record[r]]
    OBVIOUS
  <1>7b. Write(next, record)
    BY <1>7a DEF Finish
  <1>7c. \A r \in S \cup sent : told[r] = <<>> /\ r \notin receipts /\ record[r] \in Open \cup {"none"}
                                /\ Waiting(r)
    <2> SUFFICES ASSUME NEW r \in S \cup sent
                 PROVE  told[r] = <<>> /\ r \notin receipts /\ record[r] \in Open \cup {"none"}
                        /\ Waiting(r)
      OBVIOUS
    <2>1. req[r].at # "none" /\ Agreed(r) /\ <<>> # <<"ok">>
      BY <1>1 DEF Pending
    <2> QED
      BY <2>1 DEF Agreed, Waiting
  <1>7d. /\ \A r \in S : next[r] = SettledState(status) /\ next[r] \in Terminal
         /\ \A r \in sent : next[r] \in Open
         /\ \A r \in Requests \ (S \cup sent) : next[r] = record[r]
    <2>1. \A r \in S : next[r] = SettledState(status) /\ next[r] \in Terminal
      BY <1>1, <1>7a, <1>7c, MovedStates, SettledStates
    <2>2. \A r \in sent : next[r] \in Open
      BY <1>1, <1>7a, <1>7c, MovedStates, OpenStates
    <2>3. \A r \in Requests \ (S \cup sent) : next[r] = record[r]
      BY <1>7a
    <2> QED
      BY <2>1, <2>2, <2>3
  <1>8. next \in [Requests -> States]
    <2>1. \A r \in Requests : next[r] \in States
      BY <1>7d DEF States, Shape
    <2> QED
      BY <1>7a, <2>1
  <1>9a. /\ \A r \in Requests : lost[r] > 0 => lost'[r] > 0
         /\ \A r \in Requests :
              record'[r] = next[r] \/ (record'[r] = record[r] /\ lost'[r] > 0)
    BY <1>7b, <1>8, WriteOK DEF Shape
  <1>9. ASSUME NEW r \in Requests PROVE Agreed(r)'
    <2>1. Agreed(r)
      OBVIOUS
    <2>2. CASE r \in S
      <3>1. told'[r] = <<status>> /\ r \notin receipts' /\ req'[r].at = "none"
        BY <1>2, <1>4, <1>6, <1>7c, <2>2
      <3>2. Len(told'[r]) = 1 /\ told'[r] # <<>> /\ told'[r] # <<"ok">> /\ told'[r][1] = status
        BY <3>1
      <3>3. \/ record'[r] = SettledState(status) /\ record'[r] \in Terminal
            \/ record'[r] \notin Terminal /\ lost'[r] > 0
        BY <1>7c, <1>7d, <1>9a, <2>2, StatesApart
      <3> QED
        BY <3>1, <3>2, <3>3 DEF Agreed
    <2>3. CASE r \in sent
      <3>1. req[r].at # "none" /\ req'[r] = req[r] /\ told'[r] = told[r]
        BY <1>2, <1>6, <2>3 DEF Pending
      <3>2. told[r] = <<>> /\ r \notin receipts
        BY <1>7c, <2>3
      <3>3. Waiting(r)' /\ record'[r] \notin Terminal
        BY <1>7c, <1>7d, <1>9a, <2>3, StatesApart DEF Waiting
      <3> QED
        BY <1>4, <3>1, <3>2, <3>3 DEF Agreed
    <2>4. CASE r \notin S \cup sent
      <3>1. Left(r)
        BY <1>2, <1>4, <1>6, <1>7d, <1>9a, <2>4 DEF Left
      <3> QED
        BY <2>1, <3>1, LeftAgreed, StatesApart
    <2> QED
      BY <2>2, <2>3, <2>4
  <1>10. record' \in [Requests -> States] /\ lost' \in [Requests -> Nat]
    BY <1>7b, <1>8, WriteOK DEF Shape
  <1>11. ASSUME NEW r \in Requests, Untouched(r) PROVE Untouched(r)'
    <2>1. r \notin Pending
      BY <1>11 DEF Untouched, Pending
    <2> QED
      BY <1>2, <1>4, <1>6, <1>7d, <1>9a, <1>11, <2>1 DEF Untouched
  <1> QED
    BY <1>1, <1>2, <1>3, <1>4, <1>5, <1>6, <1>7, <1>9, <1>10, <1>11 DEF Shape

\* #settle: one request that waited is told, recorded and, if something was shared, receipted.
LEMMA SettleOK ==
  ASSUME IInv, NEW r \in Requests, req[r].at # "none", NEW status \in Statuses,
         NEW stored \in BOOLEAN, Settle(r, status, stored), req'[r].at = "none"
  PROVE  /\ record' \in [Requests -> States] /\ lost' \in [Requests -> Nat]
         /\ \A q \in Requests : lost[q] > 0 => lost'[q] > 0
         /\ told' \in [Requests -> Seq(Statuses)]
         /\ calls' \in [Requests -> {"new", "open", "over"}]
         /\ receipts' \subseteq Requests
         /\ Agreed(r)'
         /\ \A q \in Requests \ {r} : /\ record'[q] = record[q] /\ told'[q] = told[q]
                                      /\ q \in receipts' <=> q \in receipts
         /\ \A q \in Requests : calls'[q] = calls[q] \/ (calls[q] # "new" /\ calls'[q] = "over")
  <1> DEFINE final == IF status = "ok" /\ (~stored \/ r \in receipts)
                      THEN "device_unavailable" ELSE status
  <1>1. /\ receipts' = IF final = "ok" THEN receipts \cup {r} ELSE receipts
        /\ Write([record EXCEPT ![r] = Moved(@, SettledState(final))], record)
        /\ Tell({r}, final)
    BY DEF Settle
  <1>2. final \in Statuses
    BY DEF Statuses
  <1>3. told[r] = <<>> /\ r \notin receipts /\ record[r] \in Open \cup {"none"}
    <2>1. Agreed(r) /\ <<>> # <<"ok">>
      BY DEF IInv
    <2> QED
      BY <2>1 DEF Agreed, Waiting
  <1>4. /\ told' \in [Requests -> Seq(Statuses)]
        /\ told'[r] = <<final>>
        /\ \A q \in Requests \ {r} : told'[q] = told[q]
    BY <1>1, <1>2, <1>3 DEF Tell, IInv, Shape
  <1>5. /\ calls' \in [Requests -> {"new", "open", "over"}]
        /\ \A q \in Requests : calls'[q] = calls[q] \/ (calls[q] # "new" /\ calls'[q] = "over")
    BY <1>1 DEF Tell, IInv, Shape
  <1>6. Moved(record[r], SettledState(final)) = SettledState(final) /\ SettledState(final) \in Terminal
    BY <1>2, <1>3, MovedStates, SettledStates
  <1>7. /\ record' \in [Requests -> States] /\ lost' \in [Requests -> Nat]
        /\ \A q \in Requests : lost[q] > 0 => lost'[q] > 0
        /\ \/ record'[r] = SettledState(final) /\ record'[r] \in Terminal
           \/ record'[r] \notin Terminal /\ lost'[r] > 0
        /\ \A q \in Requests \ {r} : record'[q] = record[q]
    <2>1. PICK next : next = [record EXCEPT ![r] = SettledState(final)]
      OBVIOUS
    <2>2. Write(next, record)
      BY <1>1, <1>6, <2>1
    <2>3. /\ next \in [Requests -> States] /\ next[r] = SettledState(final)
          /\ \A q \in Requests \ {r} : next[q] = record[q]
      BY <1>6, <2>1 DEF IInv, Shape, States
    <2>4. /\ record' \in [Requests -> States] /\ lost' \in [Requests -> Nat]
          /\ \A q \in Requests : lost[q] > 0 => lost'[q] > 0
          /\ \A q \in Requests :
               record'[q] = next[q] \/ (record'[q] = record[q] /\ lost'[q] > 0)
      BY <2>2, <2>3, WriteOK DEF IInv, Shape
    <2> QED
      BY <1>3, <1>6, <2>3, <2>4, StatesApart
  <1>8. receipts' \subseteq Requests /\ (r \in receipts' <=> final = "ok")
        /\ \A q \in Requests \ {r} : q \in receipts' <=> q \in receipts
    BY <1>1, <1>3 DEF IInv, Shape
  <1>9. Agreed(r)'
    <2>1. Len(<<final>>) = 1 /\ <<final>>[1] = final /\ <<final>> # <<>>
          /\ (<<final>> = <<"ok">> <=> final = "ok")
      OBVIOUS
    <2> HIDE DEF final
    <2> QED
      BY <1>4, <1>7, <1>8, <2>1 DEF Agreed
  <1> QED
    BY <1>4, <1>5, <1>7, <1>8, <1>9
----------------------------------------------------------------------------
(* The steps of the agent.                                                    *)


\* One more frame on the agent's stream.
LEMMA AgentSends ==
  ASSUME IInv, NEW r \in Requests, NEW cancel \in BOOLEAN, NEW kind \in AllKinds,
         asks' = Append(asks, [cancel |-> cancel, req |-> r, kind |-> kind]),
         calls' = [calls EXCEPT ![r] = IF cancel THEN "over" ELSE "open"],
         cancel => calls[r] = "open", ~cancel => calls[r] = "new" /\ link = "up",
         UNCHANGED <<brokerVars, due, turnVars, link, phoneVars, shown, orphans, others>>
  PROVE  IInv'
  <1> DEFINE f == [cancel |-> cancel, req |-> r, kind |-> kind]
  <1> USE DEF IInv
  <1>1. Len(asks') = Len(asks) + 1 /\ asks' \in Seq(Frames)
        /\ \A i \in 1..Len(asks') : asks'[i] = IF i = Len(asks) + 1 THEN f ELSE asks[i]
    BY DEF Shape, Frames
  <1>2. Shape'
    BY <1>1 DEF Shape, brokerVars, turnVars, phoneVars
  <1>3. TableOK'
    BY DEF TableOK, Pending, brokerVars
  <1>4. (\A q \in Requests : Agreed(q)') /\ AskedOfTheLiving'
    BY DEF Agreed, Waiting, AskedOfTheLiving, Pending, brokerVars, turnVars
  <1>5. \A q \in Requests : Untouched(q) => Untouched(q)'
    BY DEF Untouched, brokerVars
  <1>6. link' = "up" /\ link = "up"
    BY DEF AsksOK
  <1>7. \A q \in Requests : q # r => calls'[q] = calls[q]
    BY DEF Shape
  <1>8. calls'[r] = IF cancel THEN "over" ELSE "open"
    BY DEF Shape
  <1>9. ASSUME NEW i \in 1..Len(asks) PROVE asks[i].req \in Requests /\ calls'[asks[i].req] # "new"
    BY <1>7, <1>8, AsksTyped DEF AsksOK
  <1>10. ASSUME NEW i \in 1..Len(asks), ~asks[i].cancel, asks[i].req = r PROVE cancel
    BY <1>10 DEF AsksOK
  <1>11. AsksOK'
    <2>1. \A q \in Requests : calls'[q] = "new" => Untouched(q)'
      BY <1>5, <1>7, <1>8 DEF AsksOK
    <2>2. \A i \in 1..Len(asks') : calls'[asks'[i].req] # "new"
      BY <1>1, <1>8, <1>9
    <2>3. \A i \in 1..Len(asks') : ~asks'[i].cancel => asks'[i].req \in Requests /\ Untouched(asks'[i].req)
      BY <1>1, <1>9 DEF AsksOK
    <2>4. ASSUME NEW i \in 1..Len(asks'), NEW j \in 1..Len(asks'),
                 ~asks'[i].cancel, ~asks'[j].cancel, asks'[i].req = asks'[j].req
          PROVE  i = j
      BY <1>1, <1>10, <2>4 DEF AsksOK
    <2> QED
      BY <1>5, <1>6, <2>1, <2>2, <2>3, <2>4 DEF AsksOK, Untouched
  <1> QED
    BY <1>2, <1>3, <1>4, <1>11

LEMMA AgentAsksOK == ASSUME IInv, NEW r \in Requests, NEW kind \in Kinds, AgentAsks(r, kind) PROVE IInv'
  <1>1. kind \in AllKinds /\ calls[r] = "new" /\ link = "up"
    BY MobileAssumption DEF AllKinds, AgentAsks
  <1> QED
    BY <1>1, AgentSends DEF AgentAsks

LEMMA AgentGivesUpOK == ASSUME IInv, NEW r \in Requests, AgentGivesUp(r) PROVE IInv'
  <1>1. "status" \in AllKinds /\ calls[r] = "open"
    BY DEF AllKinds, AgentGivesUp
  <1> QED
    BY <1>1, AgentSends DEF AgentGivesUp

\* A step that leaves the broker and what it was asked alone, but for the end of calls.
LEMMA BrokerLeft ==
  ASSUME IInv, Shape', UNCHANGED <<brokerVars, turn, asks, others>>,
         \A r \in Requests : shown'[r] = shown[r] \/ shown'[r] < shown[r],
         link' = link \/ (link = "up" /\ link' = "broken"),
         \A r \in Requests : calls'[r] = calls[r] \/ (calls[r] # "new" /\ calls'[r] = "over"),
         \A r \in Requests : calls'[r] = "open" => link' = "up"
  PROVE  IInv'
  <1> USE DEF IInv
  <1>1. TableOK'
    BY DEF TableOK, Pending, brokerVars
  <1>2. \A r \in Requests : shown[r] = 0 => shown'[r] = 0
    BY DEF Shape
  <1>3. \A r \in Requests : Agreed(r)'
    BY <1>2 DEF Agreed, Waiting, brokerVars
  <1>4. AskedOfTheLiving'
    BY DEF AskedOfTheLiving, Pending, brokerVars
  <1>5. \A r \in Requests : Untouched(r) => Untouched(r)'
    BY <1>2 DEF Untouched, brokerVars
  <1>6. link' = "down" => asks' = <<>>
    BY DEF AsksOK
  <1>7. AsksOK'
    BY <1>5, <1>6, AsksStay
  <1> QED
    BY <1>1, <1>3, <1>4, <1>7

LEMMA LinkBreaksOK == ASSUME IInv, LinkBreaks PROVE IInv'
  <1>1. /\ calls' \in [Requests -> {"new", "open", "over"}]
        /\ \A r \in Requests : calls'[r] = calls[r] \/ (calls[r] # "new" /\ calls'[r] = "over")
        /\ \A r \in Requests : calls'[r] # "open"
    BY DEF LinkBreaks, AfterBreak, IInv, Shape
  <1>2. Shape'
    BY <1>1 DEF LinkBreaks, IInv, Shape, brokerVars, turnVars, phoneVars
  <1> QED
    BY <1>1, <1>2, BrokerLeft DEF LinkBreaks, turnVars

\* Whatever ends a set of pending requests: the turn, the loss of the agent, a cancel, the
\* deadline, an advertisement.
LEMMA FinishStep ==
  ASSUME IInv, NEW S \in SUBSET Pending, NEW status \in Statuses \ {"ok"},
         NEW sent \in SUBSET (Pending \ S), Finish(S, status, sent),
         asks' = asks \/ asks' = <<>> \/ (asks # <<>> /\ asks' = Tail(asks)),
         link' = link \/ asks' = <<>>, link' \in {"up", "broken", "down"},
         \A r \in Requests : calls'[r] = "open" => link' = "up",
         link' # link \/ turn' # turn => S = Pending,
         turn' \in {turn, "over"}, UNCHANGED <<due, orphans, others>>,
         selected' \in Socket \cup {0}, shown' \in [Requests -> Nat],
         \A r \in Requests : shown[r] = 0 /\ req[r].at = "none" => shown'[r] = 0
  PROVE  IInv'
  <1>1. /\ req' \in [Requests -> [at : {"none", "pending", "claimed"}, stage : 0..1, kind : AllKinds]]
        /\ record' \in [Requests -> States] /\ lost' \in [Requests -> Nat]
        /\ told' \in [Requests -> Seq(Statuses)]
        /\ calls' \in [Requests -> {"new", "open", "over"}]
        /\ held' \subseteq Requests /\ receipts' = receipts
        /\ TableOK' /\ Pending' = Pending \ S /\ held' = held \cup S
        /\ \A r \in Requests : Agreed(r)'
        /\ \A r \in Requests : calls'[r] = calls[r] \/ (calls[r] # "new" /\ calls'[r] = "over")
        /\ \A r \in Requests : Untouched(r) => Untouched(r)'
    BY FinishOK
  <1> USE DEF IInv
  <1>2. asks' \in Seq(Frames)
    <2>1. asks \in Seq(Frames) /\ <<>> \in Seq(Frames)
      BY DEF Shape
    <2>2. asks # <<>> => Tail(asks) \in Seq(Frames)
      BY <2>1
    <2> QED
      BY <2>1, <2>2
  <1>3. Shape'
    BY <1>1, <1>2 DEF Shape
  <1>4. link' = "down" => asks' = <<>>
    BY DEF AsksOK, Shape
  <1>5. AsksOK'
    BY <1>1, <1>4, AsksStay
  <1>6. AskedOfTheLiving'
    BY <1>1 DEF AskedOfTheLiving, Shape
  <1> QED
    BY <1>1, <1>3, <1>5, <1>6

LEMMA NoCallsWithoutLink ==
  ASSUME IInv, NEW S, NEW status, NEW sent, Finish(S, status, sent)
  PROVE  \A r \in Requests : calls'[r] = "open" => link = "up"
  BY DEF IInv, AsksOK, Finish, Tell

LEMMA GatewayNoticesOK == ASSUME IInv, GatewayNotices PROVE IInv'
  <1>1. "cancelled" \in Statuses \ {"ok"} /\ Pending \in SUBSET Pending /\ {} \in SUBSET (Pending \ Pending)
    BY DEF Statuses
  <1>2. Finish(Pending, "cancelled", {}) /\ link = "broken" /\ link' = "down" /\ asks' = <<>>
    BY DEF GatewayNotices, DisconnectAgent
  <1>3. \A r \in Requests : calls'[r] = "open" => link = "up"
    BY <1>2, NoCallsWithoutLink
  <1> QED
    BY <1>1, <1>2, <1>3, FinishStep DEF GatewayNotices, DisconnectAgent, turnVars, phoneVars, IInv, Shape

LEMMA AgentConnectsOK == ASSUME IInv, AgentConnects PROVE IInv'
  <1>1. "cancelled" \in Statuses \ {"ok"} /\ Pending \in SUBSET Pending /\ {} \in SUBSET (Pending \ Pending)
    BY DEF Statuses
  <1>2. Finish(Pending, "cancelled", {}) /\ link' = "up" /\ asks' = <<>>
    BY DEF AgentConnects, DisconnectAgent
  <1> QED
    BY <1>1, <1>2, FinishStep DEF AgentConnects, DisconnectAgent, turnVars, phoneVars, IInv, Shape
----------------------------------------------------------------------------
(* The steps of the gateway.                                                  *)

LEMMA CancelRequestOK == ASSUME IInv, CancelRequest PROVE IInv'
  <1> DEFINE S == {Head(asks).req} \cap Pending
  <1>1. "cancelled" \in Statuses \ {"ok"} /\ S \in SUBSET Pending /\ {} \in SUBSET (Pending \ S)
    BY DEF Statuses
  <1>2. Finish(S, "cancelled", {}) /\ asks # <<>> /\ asks' = Tail(asks) /\ link' = link
    BY DEF CancelRequest
  <1>3. \A r \in Requests : calls'[r] = "open" => link' = "up"
    BY <1>2, NoCallsWithoutLink
  <1> HIDE DEF S
  <1> QED
    BY <1>1, <1>2, <1>3, FinishStep DEF CancelRequest, turnVars, phoneVars, IInv, Shape

LEMMA CancelTurnOK ==
  ASSUME IInv, CancelTurn, turn' \in {turn, "over"} PROVE IInv'
  <1>1. "cancelled" \in Statuses \ {"ok"} /\ Pending \in SUBSET Pending /\ {} \in SUBSET (Pending \ Pending)
    BY DEF Statuses
  <1>2. Finish(Pending, "cancelled", {}) /\ asks' = asks /\ link' = link
    BY DEF CancelTurn
  <1>3. \A r \in Requests : calls'[r] = "open" => link' = "up"
    BY <1>2, NoCallsWithoutLink
  <1> QED
    BY <1>1, <1>2, <1>3, FinishStep DEF CancelTurn, phoneVars, IInv, Shape

LEMMA ExpireOK == ASSUME IInv, NEW r \in Requests, Expire(r) PROVE IInv'
  <1>1. "expired" \in Statuses \ {"ok"} /\ {r} \in SUBSET Pending /\ {} \in SUBSET (Pending \ {r})
    BY DEF Statuses, Expire
  <1>2. Finish({r}, "expired", {}) /\ asks' = asks /\ link' = link
    BY DEF Expire
  <1>3. \A q \in Requests : calls'[q] = "open" => link' = "up"
    BY <1>2, NoCallsWithoutLink
  <1> QED
    BY <1>1, <1>2, <1>3, FinishStep DEF Expire, turnVars, phoneVars, IInv, Shape

\* Room for one more: the table takes the request as pending or as settled.
LEMMA TableTakes ==
  ASSUME Shape, TableOK, CanAdmit, NEW r \in Requests, others' = others,
         \/ Pending' = Pending \cup {r} /\ held' = held
         \/ Pending' = Pending /\ held' = held \cup {r}
  PROVE  TableOK'
  <1>1. \A T : IsFiniteSet(T) => /\ IsFiniteSet(T \cup {r})
                                 /\ Cardinality(T) \in Nat
                                 /\ Cardinality(T \cup {r}) \in {Cardinality(T), Cardinality(T) + 1}
    BY FS_AddElement, FS_CardinalityType
  <1>2. Cardinality(Pending) + Cardinality(held) + others < Limit
    BY DEF CanAdmit
  <1>3. CASE Pending' = Pending \cup {r} /\ held' = held
    <2>1. IsFiniteSet(Pending') /\ Cardinality(Pending') \in {Cardinality(Pending), Cardinality(Pending) + 1}
      BY <1>1, <1>3 DEF TableOK
    <2>2. Cardinality(Pending) \in Nat /\ Cardinality(held) \in Nat /\ Cardinality(held') = Cardinality(held)
      BY <1>1, <1>3 DEF TableOK
    <2>3. Cardinality(Pending') + Cardinality(held') + others' <= Limit
      BY <1>2, <2>1, <2>2, MobileAssumption DEF Shape
    <2> QED
      BY <1>3, <2>1, <2>3 DEF TableOK
  <1>4. CASE Pending' = Pending /\ held' = held \cup {r}
    <2>1. IsFiniteSet(held') /\ Cardinality(held') \in {Cardinality(held), Cardinality(held) + 1}
      BY <1>1, <1>4 DEF TableOK
    <2>2. /\ Cardinality(Pending) \in Nat /\ Cardinality(held) \in Nat
          /\ Cardinality(Pending') = Cardinality(Pending) /\ IsFiniteSet(Pending')
      BY <1>1, <1>4 DEF TableOK
    <2>3. Cardinality(Pending') + Cardinality(held') + others' <= Limit
      BY <1>2, <2>1, <2>2, MobileAssumption DEF Shape
    <2> QED
      BY <2>1, <2>2, <2>3 DEF TableOK
  <1> QED
    BY <1>3, <1>4

\* The frame the gateway reads names a request nothing is known of yet.
LEMMA ReadAsk ==
  ASSUME IInv, asks # <<>>, ~Head(asks).cancel
  PROVE  /\ Head(asks) = asks[1] /\ asks[1].req \in Requests /\ asks[1].kind \in AllKinds
         /\ ~asks[1].cancel /\ Untouched(asks[1].req) /\ calls[asks[1].req] # "new"
         /\ link # "down" /\ asks \in Seq(Frames) /\ Tail(asks) \in Seq(Frames)
  <1>1. asks \in Seq(Frames)
    BY DEF IInv, Shape
  <1>2. 1 \in 1..Len(asks) /\ Head(asks) = asks[1] /\ Tail(asks) \in Seq(Frames)
    BY <1>1
  <1> QED
    BY <1>1, <1>2, AsksTyped DEF IInv, AsksOK

\* A request is told, or taken into the table, as the first thing that happens to it.
LEMMA FirstWord ==
  ASSUME IInv, asks # <<>>, ~Head(asks).cancel, asks' = Tail(asks),
         NEW r \in Requests, r = Head(asks).req,
         req' \in [Requests -> [at : {"none", "pending", "claimed"}, stage : 0..1, kind : AllKinds]],
         record' \in [Requests -> States], lost' \in [Requests -> Nat],
         told' \in [Requests -> Seq(Statuses)],
         calls' \in [Requests -> {"new", "open", "over"}],
         shown' \in [Requests -> Nat], held' \subseteq Requests, TableOK',
         UNCHANGED <<receipts, due, turnVars, link, phoneVars, orphans, others>>,
         \A q \in Requests \ {r} : /\ Left(q) /\ shown'[q] = shown[q]
                                   /\ q \in held' <=> q \in held,
         \A q \in Requests : calls'[q] = calls[q] \/ (calls[q] # "new" /\ calls'[q] = "over"),
         Agreed(r)', req'[r].at # "none" => turn = "active" /\ r \notin held'
  PROVE  IInv'
  <1> USE DEF IInv
  <1>1. /\ Head(asks) = asks[1] /\ r = asks[1].req /\ ~asks[1].cancel
        /\ calls[r] # "new" /\ link # "down" /\ Tail(asks) \in Seq(Frames)
    BY ReadAsk
  <1>2. Shape'
    BY <1>1 DEF Shape, turnVars, phoneVars
  <1>3. \A q \in Requests : Agreed(q)'
    BY LeftAgreed, StatesApart
  <1>4. AskedOfTheLiving'
    <2>1. \A q \in Requests : q \in Pending' => req'[q].at = "pending"
      BY DEF Pending
    <2>2. \A q \in Requests \ {r} : q \in Pending' => q \in Pending
      BY DEF Pending, Left
    <2>3. Pending' \subseteq Requests
      BY DEF Pending
    <2> QED
      BY <1>1, <2>1, <2>2, <2>3, ZenonT(60) DEF AskedOfTheLiving, turnVars
  <1>5. \A q \in Requests \ {r} : Untouched(q) => Untouched(q)'
    BY DEF Untouched, Left
  <1>6. AsksOK'
    <2>1. \A q \in Requests : calls'[q] = "open" => link' = "up"
      BY DEF AsksOK
    <2>2. link' = "down" => asks' = <<>>
      BY <1>1
    <2> QED
      BY <1>1, <1>5, <2>1, <2>2, AsksStay
  <1> QED
    BY <1>2, <1>3, <1>4, <1>6

LEMMA TellOK ==
  ASSUME Shape, NEW r \in Requests, NEW status \in Statuses, Tell({r}, status)
  PROVE  /\ told' \in [Requests -> Seq(Statuses)] /\ told'[r] = Append(told[r], status)
         /\ \A q \in Requests \ {r} : told'[q] = told[q]
         /\ calls' \in [Requests -> {"new", "open", "over"}]
         /\ \A q \in Requests : calls'[q] = calls[q] \/ (calls[q] # "new" /\ calls'[q] = "over")
  BY DEF Tell, Shape

LEMMA RouteAdmitted ==
  ASSUME NEW r, NEW kind
  PROVE  /\ Verdict(r, kind) \in {"send", "wake"} => CanAdmit /\ turn # "over"
         /\ Verdict(r, kind) \in {"rejected", "no device", "blocked", "send", "full", "wake", "no route"}
  BY DEF Verdict

\* A request that is sent, or woken for, and one for which that failed.
LEMMA DispatchOK ==
  ASSUME IInv, asks # <<>>, ~Head(asks).cancel, asks' = Tail(asks), NEW works \in BOOLEAN,
         NEW r \in Requests, r = Head(asks).req, NEW kind \in AllKinds, NEW verdict \in {"send", "wake"},
         CanAdmit, turn # "over", Dispatch(r, kind, verdict, works),
         UNCHANGED <<receipts, due, turnVars, link, phoneVars, orphans, others>>
  PROVE  IInv'
  <1> USE DEF IInv
  <1>1. /\ told[r] = <<>> /\ record[r] = "none" /\ req[r].at = "none"
        /\ r \notin held /\ r \notin receipts /\ shown[r] = 0
    BY ReadAsk DEF Untouched
  <1>2. /\ req' \in [Requests -> [at : {"none", "pending", "claimed"}, stage : 0..1, kind : AllKinds]]
        /\ \A q \in Requests \ {r} : req'[q] = req[q]
        /\ req'[r].at = IF works THEN "pending" ELSE "none"
    <2>1. [at |-> "pending", stage |-> 0, kind |-> kind]
            \in [at : {"none", "pending", "claimed"}, stage : 0..1, kind : AllKinds]
      OBVIOUS
    <2> QED
      BY <1>1, <2>1 DEF Dispatch, Shape
  <1>3. /\ shown' \in [Requests -> Nat]
        /\ \A q \in Requests \ {r} : shown'[q] = shown[q]
        /\ ~works => shown' = shown
    BY DEF Dispatch, ShowTo, Shape
  <1>4. /\ record' \in [Requests -> States] /\ lost' \in [Requests -> Nat]
        /\ \A q \in Requests : lost[q] > 0 => lost'[q] > 0
        /\ \A q \in Requests \ {r} : record'[q] = record[q]
        /\ works => Waiting(r)' /\ record'[r] \notin Terminal
        /\ ~works =>
             \/ record'[r] = IF verdict = "wake" THEN "foreground_required" ELSE "failed"
             \/ record'[r] \notin Terminal /\ lost'[r] > 0
    <2>1. PICK state :
            /\ OpenAs(r, state)
            /\ works => state \in {"requested", "routed"}
            /\ ~works => state = IF verdict = "wake" THEN "foreground_required" ELSE "failed"
      BY DEF Dispatch
    <2>2. state \in States
      BY <2>1, OpenStates DEF States, Terminal
    <2>3. /\ record' \in [Requests -> States] /\ lost' \in [Requests -> Nat]
          /\ \A q \in Requests : lost[q] > 0 => lost'[q] > 0
          /\ \A q \in Requests \ {r} : record'[q] = record[q]
          /\ record'[r] = state \/ (record'[r] \in {"none", "requested"} /\ lost'[r] > 0)
      BY <1>1, <2>1, <2>2, OpenedOK
    <2>4. works => Waiting(r)' /\ record'[r] \notin Terminal
      BY <2>1, <2>3, OpenStates, StatesApart DEF Waiting
    <2> QED
      BY <2>1, <2>3, <2>4, OpenStates, StatesApart
  <1>5. CASE works
    <2>1. told' = told /\ calls' = calls /\ held' = held
      BY <1>5 DEF Dispatch
    <2>2. Pending' = Pending \cup {r}
      BY <1>2, <1>5 DEF Pending
    <2>3. TableOK'
      BY <2>1, <2>2, TableTakes
    <2>4. Agreed(r)'
      BY <1>1, <1>4, <1>5, <2>1, StatesApart DEF Agreed
    <2>5. \A q \in Requests \ {r} : Left(q)
      BY <1>2, <1>3, <1>4, <2>1 DEF Left
    <2>6. turn = "active"
      BY DEF Shape
    <2> QED
      BY <1>1, <1>2, <1>3, <1>4, <2>1, <2>3, <2>4, <2>5, <2>6, FirstWord DEF Shape
  <1>6. CASE ~works
    <2> DEFINE status == IF verdict = "wake" THEN "foreground_required" ELSE "device_unavailable"
    <2>1. Tell({r}, status) /\ status \in Statuses /\ held' = held \cup {r}
      BY <1>6 DEF Dispatch, Statuses
    <2>8. status # "ok" /\ status = IF verdict = "wake" THEN "foreground_required" ELSE "device_unavailable"
      OBVIOUS
    <2> HIDE DEF status
    <2>2. /\ told' \in [Requests -> Seq(Statuses)] /\ told'[r] = <<status>>
          /\ \A q \in Requests \ {r} : told'[q] = told[q]
          /\ calls' \in [Requests -> {"new", "open", "over"}]
          /\ \A q \in Requests : calls'[q] = calls[q] \/ (calls[q] # "new" /\ calls'[q] = "over")
      <3>1. told'[r] = Append(<<>>, status)
        BY <1>1, <2>1, TellOK, ZenonT(60)
      <3>2. Append(<<>>, status) = <<status>>
        OBVIOUS
      <3> QED
        BY <2>1, <3>1, <3>2, TellOK
    <2>3. Pending' = Pending
      BY <1>1, <1>2, <1>6 DEF Pending
    <2>4. TableOK'
      BY <2>1, <2>3, TableTakes
    <2>9. SettledState(status) = (IF verdict = "wake" THEN "foreground_required" ELSE "failed")
          /\ SettledState(status) \in Terminal
      BY <2>8 DEF SettledState, Terminal
    <2>5. status # "ok" /\ \/ record'[r] = SettledState(status) /\ record'[r] \in Terminal
                           \/ record'[r] \notin Terminal /\ lost'[r] > 0
      <3>1. \/ record'[r] = IF verdict = "wake" THEN "foreground_required" ELSE "failed"
            \/ record'[r] \notin Terminal /\ lost'[r] > 0
        BY <1>4, <1>6
      <3>2. status # "ok"
        BY <2>8
      <3> QED
        BY <2>9, <3>1, <3>2, Zenon
    <2>6. Agreed(r)'
      <3>1. Len(<<status>>) = 1 /\ <<status>>[1] = status /\ <<status>> # <<>> /\ <<status>> # <<"ok">>
        BY <2>5
      <3> QED
        BY <1>1, <1>2, <1>6, <2>2, <2>5, <3>1 DEF Agreed
    <2>7. \A q \in Requests \ {r} : Left(q) /\ (q \in held' <=> q \in held)
      BY <1>2, <1>3, <1>4, <2>1, <2>2 DEF Left
    <2> QED
      BY <1>2, <1>3, <1>4, <1>6, <2>1, <2>2, <2>4, <2>6, <2>7, FirstWord, ZenonT(60) DEF Shape
  <1> QED
    BY <1>5, <1>6

LEMMA OneWord ==
  ASSUME NEW word \in Statuses \ {"ok"}
  PROVE  /\ Append(<<>>, word) = <<word>> /\ Len(<<word>>) = 1 /\ <<word>>[1] = word
         /\ <<word>> # <<>> /\ <<word>> # <<"ok">>
  OBVIOUS

\* #refuse and #terminalize where the table has room: the agent is told, and the record, if one
\* is opened at all, is settled at once.
LEMMA RefusedOK ==
  ASSUME IInv, asks # <<>>, ~Head(asks).cancel, asks' = Tail(asks), CanAdmit,
         NEW r \in Requests, r = Head(asks).req,
         NEW status \in Statuses \ {"ok"}, NEW state \in Terminal \cup {"none"},
         \/ state = "none" \/ state = SettledState(status)
         \/ state = "policy_blocked" /\ status = "policy_blocked",
         held' = held \cup {r}, Tell({r}, status),
         OpenAs(r, state),
         UNCHANGED <<req, shown, receipts, due, turnVars, link, phoneVars, orphans, others>>
  PROVE  IInv'
  <1>1. /\ told[r] = <<>> /\ record[r] = "none" /\ req[r].at = "none"
        /\ r \notin held /\ r \notin receipts /\ shown[r] = 0
    BY ReadAsk DEF Untouched
  <1>2. Pending' = Pending
    BY DEF Pending
  <1>3. /\ told' \in [Requests -> Seq(Statuses)] /\ told'[r] = <<status>>
        /\ \A q \in Requests \ {r} : told'[q] = told[q]
        /\ calls' \in [Requests -> {"new", "open", "over"}]
        /\ \A q \in Requests : calls'[q] = calls[q] \/ (calls[q] # "new" /\ calls'[q] = "over")
    <2>1. status \in Statuses /\ Shape
      BY DEF IInv
    <2>2. told'[r] = Append(<<>>, status)
      BY <1>1, <2>1, TellOK, ZenonT(60)
    <2>3. told'[r] = <<status>>
      BY <2>2, OneWord
    <2> QED
      BY <2>1, <2>3, TellOK
  <1>5. /\ record' \in [Requests -> States] /\ lost' \in [Requests -> Nat]
        /\ \A q \in Requests : lost[q] > 0 => lost'[q] > 0
        /\ \A q \in Requests \ {r} : record'[q] = record[q]
        /\ record'[r] = state \/ (record'[r] \in {"none", "requested"} /\ lost'[r] > 0)
    <2>1. state \in States
      BY DEF States
    <2> QED
      BY <1>1, <2>1, OpenedOK DEF IInv
  <1>6. TableOK'
    BY <1>2, TableTakes DEF IInv
  <1>7. Agreed(r)'
    <2>1. Len(told'[r]) = 1 /\ told'[r] # <<>> /\ told'[r] # <<"ok">> /\ told'[r][1] = status
      BY <1>3, OneWord
    <2>2. req'[r].at = "none" /\ shown'[r] = 0 /\ r \notin receipts'
      BY <1>1
    <2>3. state = "none" => state \notin Terminal
      BY StatesApart
    <2>4. state # "none" => state \in Terminal
      OBVIOUS
    <2>5. CASE record'[r] = state
      BY <2>1, <2>2, <2>3, <2>4, <2>5 DEF Agreed
    <2>6. CASE record'[r] \in {"none", "requested"} /\ lost'[r] > 0
      <3>1. record'[r] \notin Terminal
        BY <2>6, OpenStates, StatesApart
      <3> QED
        BY <2>1, <2>2, <2>6, <3>1 DEF Agreed
    <2> QED
      BY <1>5, <2>5, <2>6
  <1>8. \A q \in Requests \ {r} : Left(q) /\ (q \in held' <=> q \in held)
    BY <1>3, <1>5 DEF Left
  <1>9. shown' \in [Requests -> Nat] /\ held' \subseteq Requests /\ req'[r].at = "none"
        /\ req' \in [Requests -> [at : {"none", "pending", "claimed"}, stage : 0..1, kind : AllKinds]]
        /\ \A q \in Requests \ {r} : shown'[q] = shown[q]
    BY <1>1 DEF IInv, Shape
  <1> QED
    BY <1>3, <1>5, <1>6, <1>7, <1>8, <1>9, FirstWord

\* A request that is refused; a full table swallows the refusal.
LEMMA RefuseOK ==
  ASSUME IInv, asks # <<>>, ~Head(asks).cancel, asks' = Tail(asks),
         NEW r \in Requests, r = Head(asks).req, NEW verdict \in {"rejected", "no device", "blocked", "no route"},
         Refuse(r, Refusal(verdict)[1], Refusal(verdict)[2]),
         UNCHANGED <<req, shown, receipts, due, turnVars, link, phoneVars, orphans, others>>
  PROVE  IInv'
  <1>1. CASE CanAdmit
    <2> DEFINE status == Refusal(verdict)[1]
               state == Refusal(verdict)[2]
    <2>1. /\ status \in Statuses \ {"ok"} /\ state \in Terminal \cup {"none"}
          /\ \/ state = "none" \/ state = SettledState(status)
             \/ state = "policy_blocked" /\ status = "policy_blocked"
      BY DEF Refusal, Statuses, Terminal, SettledState
    <2>2. /\ held' = held \cup {r} /\ Tell({r}, status)
          /\ OpenAs(r, state)
      BY <1>1 DEF Refuse
    <2> QED
      BY <1>1, <2>1, <2>2, RefusedOK
  <1>2. CASE ~CanAdmit
    <2>1. UNCHANGED <<held, told, calls, record, lost>>
      BY <1>2 DEF Refuse
    <2>2. TableOK' /\ req[r].at = "none"
      BY <2>1, ReadAsk DEF IInv, TableOK, Pending, Untouched
    <2>3. Agreed(r)' /\ \A q \in Requests \ {r} : Left(q)
      BY <2>1 DEF IInv, Agreed, Waiting, Left
    <2> QED
      BY <2>1, <2>2, <2>3, FirstWord DEF IInv, Shape
  <1> QED
    BY <1>1, <1>2

LEMMA InvokeOK == ASSUME IInv, NEW works \in BOOLEAN, Invoke(works) PROVE IInv'
  <1>1. asks # <<>> /\ ~Head(asks).cancel /\ asks' = Tail(asks)
        /\ UNCHANGED <<receipts, due, turnVars, link, phoneVars, orphans, others>>
    BY DEF Invoke
  <1>2. PICK r \in Requests, kind \in AllKinds : r = Head(asks).req /\ kind = Head(asks).kind
    BY <1>1, ReadAsk
  <1> DEFINE verdict == Verdict(r, kind)
  <1>3. CASE verdict \in {"send", "wake"}
    <2>1. Dispatch(r, kind, verdict, works)
      BY <1>2, <1>3 DEF Invoke
    <2> QED
      BY <1>1, <1>2, <1>3, <2>1, RouteAdmitted, DispatchOK
  <1>4. CASE verdict = "full"
    <2>1. UNCHANGED <<req, held, record, lost, told, calls, shown>>
      BY <1>2, <1>4 DEF Invoke
    <2>2. req[r].at = "none"
      BY <1>1, <1>2, ReadAsk DEF Untouched
    <2>3. TableOK'
      BY <1>1, <2>1 DEF IInv, TableOK, Pending
    <2>4. Agreed(r)' /\ \A q \in Requests \ {r} : Left(q)
      BY <1>1, <1>2, <2>1 DEF IInv, Agreed, Waiting, Left
    <2> QED
      BY <1>1, <1>2, <2>1, <2>2, <2>3, <2>4, FirstWord DEF IInv, Shape
  <1>5. CASE verdict \notin {"send", "wake", "full"}
    <2>1. Refuse(r, Refusal(verdict)[1], Refusal(verdict)[2]) /\ UNCHANGED <<req, shown>>
      BY <1>2, <1>5 DEF Invoke
    <2>2. verdict \in {"rejected", "no device", "blocked", "no route"}
      BY <1>5, RouteAdmitted
    <2> QED
      BY <1>1, <1>2, <2>1, <2>2, RefuseOK
  <1> QED
    BY <1>3, <1>4, <1>5
----------------------------------------------------------------------------
(* The answers of the phone.                                                  *)

Places == [at : {"none", "pending", "claimed"}, stage : 0..1, kind : AllKinds]

\* A request that waited leaves the table, or its upload, with an outcome.
LEMMA SettleStep ==
  ASSUME IInv, NEW r \in Requests, req[r].at # "none", NEW status \in Statuses,
         NEW stored \in BOOLEAN, Settle(r, status, stored),
         req' \in [Requests -> Places], req'[r].at = "none",
         \A q \in Requests \ {r} : req'[q] = req[q] /\ (q \in held' <=> q \in held),
         TableOK', held' \subseteq Requests, shown' \in [Requests -> Nat],
         \A q \in Requests : shown[q] = 0 => shown'[q] = 0,
         UNCHANGED <<due, turn, link, asks, selected, orphans, others>>
  PROVE  IInv'
  <1>1. /\ record' \in [Requests -> States] /\ lost' \in [Requests -> Nat]
        /\ \A q \in Requests : lost[q] > 0 => lost'[q] > 0
        /\ told' \in [Requests -> Seq(Statuses)]
        /\ calls' \in [Requests -> {"new", "open", "over"}]
        /\ receipts' \subseteq Requests
        /\ Agreed(r)'
        /\ \A q \in Requests \ {r} : /\ record'[q] = record[q] /\ told'[q] = told[q]
                                     /\ q \in receipts' <=> q \in receipts
        /\ \A q \in Requests : calls'[q] = calls[q] \/ (calls[q] # "new" /\ calls'[q] = "over")
    BY SettleOK
  <1> USE DEF IInv
  <1>2. Shape'
    BY <1>1 DEF Shape, Places
  <1>3. \A q \in Requests \ {r} : Left(q)
    BY <1>1 DEF Left
  <1>4. \A q \in Requests : Agreed(q)'
    BY <1>1, <1>3, LeftAgreed, StatesApart
  <1>5. AskedOfTheLiving'
    BY DEF AskedOfTheLiving, Pending
  <1>6. \A q \in Requests : Untouched(q) => q # r /\ Untouched(q)'
    BY <1>1 DEF Untouched
  <1>7. \A q \in Requests : calls'[q] = "open" => link' = "up"
    BY <1>1, ZenonT(60) DEF AsksOK
  <1>8. link' = "down" => asks' = <<>>
    BY DEF AsksOK
  <1>9. AsksOK'
    BY <1>1, <1>6, <1>7, <1>8, AsksStay
  <1> QED
    BY <1>2, <1>4, <1>5, <1>9

\* A request that waits goes on: the phone has received it, or uploads what was asked for.
LEMMA ProgressStep ==
  ASSUME IInv, NEW r \in Pending, NEW new \in Open,
         Write([record EXCEPT ![r] = Moved(@, new)], record),
         req' \in [Requests -> Places], req'[r].at # "none",
         \A q \in Requests \ {r} : req'[q] = req[q] /\ (q \in held' <=> q \in held),
         req'[r].at = "pending" => r \notin held',
         TableOK', held' \subseteq Requests, shown' \in [Requests -> Nat],
         \A q \in Requests : shown[q] = 0 => shown'[q] = 0,
         UNCHANGED <<receipts, told, calls, due, turn, link, asks, selected, orphans, others>>
  PROVE  IInv'
  <1> USE DEF IInv
  <1>1. r \in Requests /\ req[r].at # "none"
    BY DEF Pending
  <1>2. /\ told[r] = <<>> /\ r \notin receipts
        /\ Waiting(r) /\ record[r] \in Open \cup {"none"}
    <2>1. Agreed(r) /\ <<>> # <<"ok">>
      BY <1>1
    <2> QED
      BY <1>1, <2>1 DEF Agreed, Waiting
  <1>3. PICK state \in Open : state = Moved(record[r], new)
    BY <1>2, MovedStates
  <1>4. /\ record' \in [Requests -> States] /\ lost' \in [Requests -> Nat]
        /\ \A q \in Requests : lost[q] > 0 => lost'[q] > 0
        /\ Waiting(r)' /\ record'[r] \notin Terminal
        /\ \A q \in Requests \ {r} : record'[q] = record[q]
    <2>1. PICK next : next = [record EXCEPT ![r] = state]
      OBVIOUS
    <2>2. Write(next, record)
      BY <1>3, <2>1
    <2>3. /\ next \in [Requests -> States] /\ next[r] = state
          /\ \A q \in Requests \ {r} : next[q] = record[q]
      BY <1>1, <2>1 DEF Shape, States
    <2>4. /\ record' \in [Requests -> States] /\ lost' \in [Requests -> Nat]
          /\ \A q \in Requests : lost[q] > 0 => lost'[q] > 0
          /\ \A q \in Requests :
               record'[q] = next[q] \/ (record'[q] = record[q] /\ lost'[q] > 0)
      BY <2>2, <2>3, WriteOK DEF Shape
    <2>5. Waiting(r)' /\ record'[r] \notin Terminal
      BY <1>1, <1>2, <2>3, <2>4, StatesApart DEF Waiting
    <2> QED
      BY <2>3, <2>4, <2>5
  <1>5. Shape'
    BY <1>4 DEF Shape, Places
  <1>6. Agreed(r)'
    BY <1>1, <1>2, <1>4, StatesApart DEF Agreed
  <1>7. \A q \in Requests \ {r} : Left(q)
    BY <1>4 DEF Left
  <1>8. \A q \in Requests : Agreed(q)'
    BY <1>6, <1>7, LeftAgreed, StatesApart
  <1>9. AskedOfTheLiving'
    <2>1. ASSUME NEW q \in Pending' PROVE q \in Pending /\ q \notin held'
      <3>1. q \in Requests /\ req'[q].at = "pending"
        BY DEF Pending
      <3> QED
        BY <3>1 DEF Pending, AskedOfTheLiving
    <2> QED
      BY <2>1 DEF AskedOfTheLiving
  <1>10. \A q \in Requests : Untouched(q) => q # r /\ Untouched(q)'
    BY <1>1, <1>2, <1>4 DEF Untouched
  <1>11. AsksOK'
    <2>1. \A q \in Requests : calls'[q] = "open" => link' = "up"
      BY DEF AsksOK
    <2>2. link' = "down" => asks' = <<>>
      BY DEF AsksOK
    <2> QED
      BY <1>10, <2>1, <2>2, AsksStay
  <1> QED
    BY <1>5, <1>8, <1>9, <1>11

LEMMA ResultOK ==
  ASSUME IInv, NEW s \in Socket, NEW r \in Requests, NEW says \in {"ok", "denied"},
         NEW valid \in BOOLEAN, NEW stored \in BOOLEAN, Result(s, r, says, valid, stored)
  PROVE  IInv'
  <1> USE DEF IInv
  <1>1. /\ shown[r] > 0 /\ shown' = [shown EXCEPT ![r] = @ - 1]
        /\ UNCHANGED <<due, turnVars, link, asks, phoneVars, orphans, others>>
    BY DEF Result
  <1>2. /\ shown' \in [Requests -> Nat]
        /\ \A q \in Requests : shown'[q] = shown[q] \/ shown'[q] < shown[q]
        /\ \A q \in Requests : shown[q] = 0 => shown'[q] = 0
    BY <1>1 DEF Shape
  <1>3. CASE s # selected \/ r \notin Pending
    <2>1. UNCHANGED <<brokerVars, calls>>
      BY <1>3 DEF Result
    <2>2. Shape'
      BY <1>1, <1>2, <2>1 DEF Shape, brokerVars, turnVars, phoneVars
    <2>3. \A q \in Requests : calls'[q] = "open" => link' = "up"
      BY <1>1, <2>1 DEF AsksOK
    <2> QED
      BY <1>1, <1>2, <2>1, <2>2, <2>3, BrokerLeft DEF turnVars
  <1>4. CASE r \in Pending /\ r \in due /\ s = selected
    <2>1. "expired" \in Statuses \ {"ok"} /\ {r} \in SUBSET Pending /\ {} \in SUBSET (Pending \ {r})
      BY <1>4 DEF Statuses
    <2>2. Finish({r}, "expired", {})
      BY <1>4 DEF Result
    <2>3. \A q \in Requests : calls'[q] = "open" => link' = "up"
      BY <1>1, <2>2, NoCallsWithoutLink
    <2> QED
      BY <1>1, <1>2, <2>1, <2>2, <2>3, FinishStep DEF turnVars, phoneVars, Shape
  <1>5. CASE r \in Pending /\ r \notin due /\ s = selected
    <2>1. PICK status \in Statuses : Consume({r}, "none") /\ Settle(r, status, stored)
      BY <1>5 DEF Result, Statuses
    <2>2. /\ req' \in [Requests -> Places] /\ req'[r].at = "none"
          /\ \A q \in Requests \ {r} : req'[q] = req[q]
          /\ held' = held \cup {r}
      BY <2>1 DEF Consume, Absent, AllKinds, Places, Shape
    <2>3. Pending' = Pending \ {r}
      BY <2>2 DEF Pending
    <2>4. TableOK'
      <3>1. {r} \in SUBSET Pending /\ {r} \cap held = {}
        BY <1>5 DEF AskedOfTheLiving
      <3> QED
        BY <1>1, <2>2, <2>3, <3>1, TableMoves
    <2>5. req[r].at # "none"
      BY <1>5 DEF Pending
    <2>6. held' \subseteq Requests
      BY <2>2 DEF Shape
    <2>7. \A q \in Requests \ {r} : req'[q] = req[q] /\ (q \in held' <=> q \in held)
      BY <2>2
    <2>8. UNCHANGED <<due, turn, link, asks, selected, orphans, others>>
      BY <1>1 DEF turnVars, phoneVars
    <2> QED
      BY <1>2, <2>1, <2>2, <2>4, <2>5, <2>6, <2>7, <2>8, SettleStep
  <1> QED
    BY <1>3, <1>4, <1>5

LEMMA AdvanceOK == ASSUME IInv, NEW s \in Socket, NEW r \in Requests, Advance(s, r) PROVE IInv'
  <1> USE DEF IInv
  <1>1. /\ r \in Pending
        /\ UNCHANGED <<due, turnVars, link, asks, phoneVars, shown, orphans, others>>
    BY DEF Advance
  <1>2. CASE r \in due
    <2>1. "expired" \in Statuses \ {"ok"} /\ {r} \in SUBSET Pending /\ {} \in SUBSET (Pending \ {r})
      BY <1>1 DEF Statuses
    <2>2. Finish({r}, "expired", {})
      BY <1>2 DEF Advance
    <2>3. \A q \in Requests : calls'[q] = "open" => link' = "up"
      BY <1>1, <2>2, NoCallsWithoutLink
    <2> QED
      BY <1>1, <2>1, <2>2, <2>3, FinishStep DEF turnVars, phoneVars, Shape
  <1>3. CASE r \notin due
    <2>1. /\ req' = [req EXCEPT ![r].stage = 1]
          /\ Write([record EXCEPT ![r] = Moved(@, "received")], record)
          /\ UNCHANGED <<held, receipts, told, calls>>
      BY <1>3 DEF Advance
    <2>2. /\ req' \in [Requests -> Places] /\ req'[r].at = "pending"
          /\ \A q \in Requests \ {r} : req'[q] = req[q]
      <3>1. r \in Requests /\ req \in [Requests -> Places] /\ req[r].at = "pending"
        BY <1>1 DEF Pending, Places, Shape
      <3>2. [req[r] EXCEPT !.stage = 1] \in Places /\ [req[r] EXCEPT !.stage = 1].at = "pending"
        BY <3>1 DEF Places
      <3>3. req' = [req EXCEPT ![r] = [req[r] EXCEPT !.stage = 1]]
        BY <2>1
      <3> HIDE DEF Places
      <3> QED
        BY <3>1, <3>2, <3>3
    <2>3. Pending' = Pending
      BY <1>1, <2>2 DEF Pending
    <2>4. TableOK' /\ r \notin held'
      BY <1>1, <2>1, <2>3 DEF TableOK, AskedOfTheLiving
    <2>5. "received" \in Open
      BY OpenStates
    <2>6. held' \subseteq Requests /\ shown' \in [Requests -> Nat]
      BY <1>1, <2>1 DEF Shape
    <2> QED
      BY <1>1, <2>1, <2>2, <2>4, <2>5, <2>6, ProgressStep DEF turnVars, phoneVars
  <1> QED
    BY <1>2, <1>3

LEMMA BeginUploadOK == ASSUME IInv, NEW r \in Requests, BeginUpload(r) PROVE IInv'
  <1> USE DEF IInv
  <1>1. /\ r \in Pending /\ shown[r] > 0 /\ shown' = [shown EXCEPT ![r] = @ - 1]
        /\ UNCHANGED <<due, turnVars, link, asks, phoneVars, orphans, others>>
    BY DEF BeginUpload
  <1>2. /\ shown' \in [Requests -> Nat]
        /\ \A q \in Requests : shown[q] = 0 => shown'[q] = 0
    BY <1>1 DEF Shape
  <1>3. CASE r \in due \/ Route("media") # "available"
    <2>1. PICK status \in {"expired", "foreground_required"} : Finish({r}, status, {})
      BY <1>3 DEF BeginUpload
    <2>2. status \in Statuses \ {"ok"} /\ {r} \in SUBSET Pending /\ {} \in SUBSET (Pending \ {r})
      BY <1>1 DEF Statuses
    <2>3. \A q \in Requests : calls'[q] = "open" => link' = "up"
      BY <1>1, <2>1, NoCallsWithoutLink
    <2> QED
      BY <1>1, <1>2, <2>1, <2>2, <2>3, FinishStep DEF turnVars, phoneVars, Shape
  <1>4. CASE ~(r \in due \/ Route("media") # "available")
    <2>1. /\ Consume({r}, "claimed")
          /\ Write([record EXCEPT ![r] = Moved(@, "executing")], record)
          /\ UNCHANGED <<receipts, told, calls>>
      BY <1>4 DEF BeginUpload
    <2>2. /\ req' \in [Requests -> Places] /\ req'[r].at = "claimed"
          /\ \A q \in Requests \ {r} : req'[q] = req[q]
          /\ held' = held \cup {r}
      BY <2>1 DEF Consume, Absent, AllKinds, Places, Shape
    <2>3. Pending' = Pending \ {r}
      BY <2>2 DEF Pending
    <2>4. TableOK'
      <3>1. {r} \in SUBSET Pending /\ {r} \cap held = {}
        BY <1>1 DEF AskedOfTheLiving
      <3> QED
        BY <1>1, <2>2, <2>3, <3>1, TableMoves
    <2>5. "executing" \in Open
      BY OpenStates
    <2>6. held' \subseteq Requests
      BY <2>2 DEF Shape
    <2> QED
      BY <1>1, <1>2, <2>1, <2>2, <2>4, <2>5, <2>6, ProgressStep DEF turnVars, phoneVars
  <1> QED
    BY <1>3, <1>4

LEMMA EndUploadOK ==
  ASSUME IInv, NEW r \in Requests, NEW good \in BOOLEAN, NEW stored \in BOOLEAN,
         EndUpload(r, good, stored)
  PROVE  IInv'
  <1> USE DEF IInv
  <1>1. /\ req[r].at = "claimed" /\ req' = [req EXCEPT ![r].at = "none"]
        /\ UNCHANGED <<held, due, turnVars, link, asks, phoneVars, shown, orphans, others>>
    BY DEF EndUpload
  <1>2. PICK status \in Statuses : Settle(r, status, stored)
    BY DEF EndUpload, Statuses
  <1>3. /\ req' \in [Requests -> Places] /\ req'[r].at = "none"
        /\ \A q \in Requests \ {r} : req'[q] = req[q]
    BY <1>1 DEF Places, Shape
  <1>4. Pending' = Pending
    BY <1>1, <1>3 DEF Pending
  <1>5. TableOK' /\ held' \subseteq Requests /\ shown' \in [Requests -> Nat]
    BY <1>1, <1>4 DEF TableOK, Shape
  <1> QED
    BY <1>1, <1>2, <1>3, <1>5, SettleStep DEF turnVars, phoneVars
----------------------------------------------------------------------------
(* The sockets, the clock and the process.                                    *)

LEMMA PhoneConnectsOK == ASSUME IInv, NEW s \in Socket, PhoneConnects(s) PROVE IInv'
  <1>1. UNCHANGED <<brokerVars, due, turnVars, agentVars, selected, shown, orphans, others>>
    BY DEF PhoneConnects
  <1>2. Shape' /\ \A r \in Requests : calls'[r] = "open" => link' = "up"
    BY <1>1 DEF IInv, Shape, AsksOK, brokerVars, turnVars, agentVars
  <1> QED
    BY <1>1, <1>2, BrokerLeft DEF turnVars, agentVars

LEMMA SocketClosesOK == ASSUME IInv, NEW s \in Socket, SocketCloses(s) PROVE IInv'
  <1>1. UNCHANGED <<brokerVars, due, turnVars, agentVars, shown, orphans, others>>
        /\ selected' \in {selected, 0}
    BY DEF SocketCloses
  <1>2. Shape' /\ \A r \in Requests : calls'[r] = "open" => link' = "up"
    BY <1>1 DEF IInv, Shape, AsksOK, brokerVars, turnVars, agentVars
  <1> QED
    BY <1>1, <1>2, BrokerLeft DEF turnVars, agentVars

LEMMA DeadlinePassesOK == ASSUME IInv, NEW r \in Requests, DeadlinePasses(r) PROVE IInv'
  <1>1. UNCHANGED <<brokerVars, turnVars, agentVars, selected, shown, orphans, others>>
        /\ due' = due \cup {r}
    BY DEF DeadlinePasses, phoneVars
  <1>2. Shape' /\ \A q \in Requests : calls'[q] = "open" => link' = "up"
    BY <1>1 DEF IInv, Shape, AsksOK, brokerVars, turnVars, agentVars
  <1> QED
    BY <1>1, <1>2, BrokerLeft DEF turnVars, agentVars

LEMMA AdvertiseOK ==
  ASSUME IInv, NEW s \in Socket, NEW m \in {"fg", "bg", "none"}, Advertise(s, m) PROVE IInv'
  <1> USE DEF IInv
  <1>1. PICK late, again :
          /\ late \in SUBSET (Pending \cap due) /\ again \in SUBSET (Pending \ due)
          /\ Finish(late, "expired", again) /\ shown' = ShowTo(s, again)
    <2>1. Pending \cap due \in SUBSET (Pending \cap due) /\ {} \in SUBSET (Pending \cap due)
      OBVIOUS
    <2>2. {} \in SUBSET (Pending \ due)
          /\ \A T : (Pending \ due) \cap T \in SUBSET (Pending \ due)
      OBVIOUS
    <2> QED
      BY <2>1, <2>2 DEF Advertise
  <1>2. /\ selected' \in {s, 0, selected}
        /\ UNCHANGED <<due, turnVars, link, asks, orphans, others>>
    BY DEF Advertise
  <1>3. "expired" \in Statuses \ {"ok"} /\ late \in SUBSET Pending /\ again \in SUBSET (Pending \ late)
    BY <1>1 DEF Statuses
  <1>4. shown' \in [Requests -> Nat]
        /\ \A r \in Requests : shown[r] = 0 /\ req[r].at = "none" => shown'[r] = 0
    BY <1>1 DEF ShowTo, Shape, Pending
  <1>5. \A r \in Requests : calls'[r] = "open" => link' = "up"
    BY <1>1, <1>2, NoCallsWithoutLink
  <1> QED
    BY <1>1, <1>2, <1>3, <1>4, <1>5, FinishStep DEF turnVars, Shape

LEMMA ForgetOK == ASSUME IInv, NEW r \in Requests, Forget(r) PROVE IInv'
  <1> USE DEF IInv
  <1>1. /\ r \in held /\ held' = held \ {r}
        /\ UNCHANGED <<req, record, lost, receipts, told, due, turnVars, agentVars, phoneVars,
                       shown, orphans, others>>
    BY DEF Forget
  <1>2. Pending' = Pending
    BY <1>1 DEF Pending
  <1>3. TableOK'
    <2>1. IsFiniteSet(held') /\ Cardinality(held') = Cardinality(held) - 1
      BY <1>1, FS_RemoveElement DEF TableOK
    <2>2. Cardinality(held) \in Nat /\ Cardinality(Pending) \in Nat
      BY FS_CardinalityType DEF TableOK
    <2>3. Cardinality(Pending') + Cardinality(held') + others' <= Limit
      BY <1>1, <1>2, <2>1, <2>2, MobileAssumption DEF TableOK, Shape
    <2> QED
      BY <1>2, <2>1, <2>3 DEF TableOK
  <1>4. Shape'
    BY <1>1 DEF Shape, turnVars, agentVars, phoneVars
  <1>5. AsksOK'
    BY <1>1 DEF AsksOK, Untouched, agentVars
  <1>6. AskedOfTheLiving' /\ \A q \in Requests : Agreed(q)'
    BY <1>1, <1>2 DEF AskedOfTheLiving, Agreed, Waiting, turnVars, agentVars
  <1> QED
    BY <1>3, <1>4, <1>5, <1>6

\* A settled record goes: what was told, and the receipt, stay.
LEMMA SweepRecordOK == ASSUME IInv, NEW r \in Requests, SweepRecord(r) PROVE IInv'
  <1> USE DEF IInv
  <1>1. /\ record[r] \in Terminal /\ record' = [record EXCEPT ![r] = "none"]
        /\ UNCHANGED <<req, held, lost, receipts, told, due, turnVars, agentVars, phoneVars,
                       shown, orphans, others>>
    BY DEF SweepRecord
  <1>2. /\ record' \in [Requests -> States] /\ record'[r] = "none"
        /\ \A q \in Requests \ {r} : record'[q] = record[q]
    BY <1>1 DEF Shape, States
  <1>3. Pending' = Pending /\ TableOK' /\ Shape'
    BY <1>1, <1>2 DEF Pending, TableOK, Shape, turnVars, agentVars, phoneVars
  <1>4. AsksOK'
    BY <1>1, <1>2 DEF AsksOK, Untouched, agentVars
  <1>5. AskedOfTheLiving'
    BY <1>1, <1>3 DEF AskedOfTheLiving, turnVars, agentVars
  <1>6. Agreed(r)'
    <2>1. Agreed(r) /\ record[r] \notin Open /\ record[r] # "none"
      BY <1>1, StatesApart
    <2>2. req'[r].at = "none"
      BY <1>1, <2>1 DEF Agreed, Waiting
    <2> QED
      BY <1>1, <1>2, <2>1, <2>2, StatesApart DEF Agreed
  <1>7. \A q \in Requests \ {r} : Left(q)
    BY <1>1, <1>2 DEF Left
  <1>8. \A q \in Requests : Agreed(q)'
    BY <1>6, <1>7, LeftAgreed, StatesApart
  <1> QED
    BY <1>3, <1>4, <1>5, <1>8

LEMMA OthersHoldOK == ASSUME IInv, NEW n \in 0..Limit, OthersHold(n) PROVE IInv'
  <1> USE DEF IInv
  <1>1. /\ Cardinality(Pending) + Cardinality(held) + n <= Limit /\ others' = n
        /\ UNCHANGED <<brokerVars, due, turnVars, agentVars, phoneVars, shown, orphans>>
    BY DEF OthersHold
  <1>2. Pending' = Pending
    BY <1>1 DEF Pending, brokerVars
  <1>3. TableOK'
    BY <1>1, <1>2 DEF TableOK, brokerVars
  <1>4. Shape'
    BY <1>1 DEF Shape, brokerVars, turnVars, agentVars, phoneVars
  <1>5. AsksOK'
    BY <1>1 DEF AsksOK, Untouched, brokerVars, agentVars
  <1>6. AskedOfTheLiving' /\ \A q \in Requests : Agreed(q)'
    BY <1>1, <1>2 DEF AskedOfTheLiving, Agreed, Waiting, brokerVars, turnVars, agentVars
  <1> QED
    BY <1>3, <1>4, <1>5, <1>6

\* The table, the frames and the open calls end with the process.
LEMMA EmptyTable ==
  ASSUME IInv, ProcessEnds
  PROVE  /\ TableOK' /\ AskedOfTheLiving' /\ req' = [r \in Requests |-> Absent]
         /\ held' = {} /\ UNCHANGED <<receipts, due, turn, shown>>
         /\ req' \in [Requests -> Places] /\ calls' \in [Requests -> {"new", "open", "over"}]
         /\ asks' = <<>> /\ link' = "down" /\ selected' = 0 /\ others' = 0
         /\ \A r \in Requests : calls'[r] = calls[r] \/ (calls[r] # "new" /\ calls'[r] = "over")
         /\ \A r \in Requests : calls'[r] # "open"
  <1>1. Pending' = {} /\ held' = {} /\ others' = 0
    BY DEF ProcessEnds, Pending, Absent
  <1>2. IsFiniteSet({}) /\ Cardinality({}) = 0
    BY FS_EmptySet
  <1>3. TableOK' /\ AskedOfTheLiving'
    BY <1>1, <1>2, MobileAssumption DEF TableOK, AskedOfTheLiving
  <1>4. req' = [r \in Requests |-> Absent] /\ Absent \in Places
    BY DEF ProcessEnds, Absent, Places, AllKinds
  <1>5. /\ calls' \in [Requests -> {"new", "open", "over"}]
        /\ \A r \in Requests : calls'[r] = calls[r] \/ (calls[r] # "new" /\ calls'[r] = "over")
        /\ \A r \in Requests : calls'[r] # "open"
    BY DEF ProcessEnds, AfterBreak, IInv, Shape
  <1> QED
    BY <1>1, <1>3, <1>4, <1>5 DEF ProcessEnds

LEMMA ProcessStep ==
  ASSUME IInv, ProcessEnds, orphans' \subseteq Requests,
         record' \in [Requests -> States], lost' \in [Requests -> Nat],
         told' \in [Requests -> Seq(Statuses)], \A r \in Requests : Agreed(r)',
         \A r \in Requests : req[r].at = "none" => record'[r] = record[r] /\ told'[r] = told[r]
  PROVE  IInv'
  <1> USE DEF IInv
  <1>1. asks' \in Seq(Frames)
    <2>1. asks' = <<>> /\ <<>> \in Seq(Frames)
      BY EmptyTable
    <2> QED
      BY <2>1
  <1>2. Shape'
    <2>1. /\ req' \in [Requests -> Places] /\ calls' \in [Requests -> {"new", "open", "over"}]
          /\ held' = {} /\ UNCHANGED <<receipts, due, turn, shown>>
          /\ link' = "down" /\ selected' = 0 /\ others' = 0
      BY EmptyTable
    <2> QED
      BY <1>1, <2>1 DEF Shape, Places
  <1>3. \A r \in Requests : Untouched(r) => Untouched(r)'
    <2>1. req' = [r \in Requests |-> Absent] /\ held' = {} /\ UNCHANGED <<receipts, shown>>
      BY EmptyTable
    <2> QED
      BY <2>1 DEF Untouched, Absent
  <1>4. AsksOK'
    <2>1. /\ asks' = <<>> /\ \A r \in Requests : calls'[r] # "open"
          /\ \A r \in Requests : calls'[r] = calls[r] \/ (calls[r] # "new" /\ calls'[r] = "over")
      BY EmptyTable
    <2> QED
      BY <1>3, <2>1, AsksStay
  <1>5. TableOK' /\ AskedOfTheLiving'
    BY EmptyTable
  <1> QED
    BY <1>2, <1>4, <1>5

LEMMA CrashOK == ASSUME IInv, Crash PROVE IInv'
  <1>1. /\ ProcessEnds /\ UNCHANGED <<record, lost, told>>
        /\ orphans' = orphans \cup {r \in Requests : req[r].at # "none"}
    BY DEF Crash
  <1>2. req' = [r \in Requests |-> Absent] /\ UNCHANGED <<receipts, shown>>
    BY <1>1, EmptyTable
  <1>3. \A r \in Requests : Agreed(r)'
    BY <1>1, <1>2 DEF IInv, Agreed, Waiting, Absent
  <1>4. orphans' \subseteq Requests
    BY <1>1 DEF IInv, Shape
  <1> QED
    BY <1>1, <1>3, <1>4, ProcessStep DEF IInv, Shape

LEMMA ShutdownOK ==
  ASSUME IInv, NEW status \in {"cancelled", "device_unavailable"}, Shutdown(status) PROVE IInv'
  <1> USE DEF IInv
  <1>1. /\ ProcessEnds /\ orphans' = orphans /\ \A r \in Requests : req[r].at # "claimed"
        /\ told' = [r \in Requests |-> IF r \in Pending THEN Append(told[r], status) ELSE told[r]]
        /\ Write([r \in Requests |->
             IF r \in Pending THEN Moved(record[r], SettledState(status)) ELSE record[r]], record)
    BY DEF Shutdown
  <1>2. req' = [r \in Requests |-> Absent] /\ UNCHANGED <<receipts, shown>>
    BY <1>1, EmptyTable
  <1>3. status \in Statuses \ {"ok"} /\ SettledState(status) \in Terminal
    BY SettledStates DEF Statuses
  <1>4. ASSUME NEW r \in Pending
        PROVE  /\ told[r] = <<>> /\ r \notin receipts /\ told'[r] = <<status>>
               /\ record[r] \in Open \cup {"none"} /\ r \in Requests
    <2>1. r \in Requests /\ Agreed(r) /\ req[r].at # "none"
      BY DEF Pending
    <2>2. told[r] = <<>> /\ record[r] \in Open \cup {"none"}
      BY <2>1 DEF Agreed, Waiting
    <2>3. r \notin receipts
      <3>1. <<>> # <<"ok">>
        OBVIOUS
      <3> QED
        BY <2>1, <2>2, <3>1 DEF Agreed
    <2>4. told'[r] = <<status>>
      BY <1>1, <1>3, <2>1, <2>2, OneWord
    <2> QED
      BY <2>1, <2>2, <2>3, <2>4
  <1>6. /\ record' \in [Requests -> States] /\ lost' \in [Requests -> Nat]
        /\ \A r \in Requests : lost[r] > 0 => lost'[r] > 0
        /\ \A r \in Pending : \/ record'[r] = SettledState(status)
                              \/ record'[r] \notin Terminal /\ lost'[r] > 0
        /\ \A r \in Requests \ Pending : record'[r] = record[r]
    <2>1. PICK next : next = [r \in Requests |->
             IF r \in Pending THEN Moved(record[r], SettledState(status)) ELSE record[r]]
      OBVIOUS
    <2>2. Write(next, record)
      BY <1>1, <2>1
    <2>3. /\ \A r \in Pending : next[r] = SettledState(status)
          /\ \A r \in Requests \ Pending : next[r] = record[r]
      BY <1>3, <1>4, <2>1, MovedStates
    <2>4. next \in [Requests -> States]
      <3>1. \A r \in Requests : next[r] \in States
        BY <1>3, <2>3 DEF Shape, States
      <3> QED
        BY <2>1, <3>1
    <2>5. /\ record' \in [Requests -> States] /\ lost' \in [Requests -> Nat]
          /\ \A r \in Requests : lost[r] > 0 => lost'[r] > 0
          /\ \A r \in Requests :
               record'[r] = next[r] \/ (record'[r] = record[r] /\ lost'[r] > 0)
      BY <2>2, <2>4, WriteOK DEF Shape
    <2>6. ASSUME NEW r \in Pending
          PROVE  record'[r] = SettledState(status) \/ (record'[r] \notin Terminal /\ lost'[r] > 0)
      BY <1>4, <2>3, <2>5, StatesApart
    <2>7. \A r \in Requests \ Pending : record'[r] = record[r]
      BY <2>3, <2>5
    <2>8. \A r \in Pending : \/ record'[r] = SettledState(status)
                             \/ record'[r] \notin Terminal /\ lost'[r] > 0
      BY <2>6
    <2> QED
      BY <2>5, <2>7, <2>8, Zenon
  <1>5. ASSUME NEW r \in Requests PROVE Agreed(r)'
    <2>1. CASE r \in Pending
      <3>1. Len(told'[r]) = 1 /\ told'[r] # <<>> /\ told'[r] # <<"ok">> /\ told'[r][1] = status
        BY <1>3, <1>4, <2>1, OneWord
      <3>2. r \notin receipts' /\ req'[r].at = "none"
        BY <1>2, <1>4, <2>1 DEF Absent
      <3>3. \/ record'[r] = SettledState(status) /\ record'[r] \in Terminal
            \/ record'[r] \notin Terminal /\ lost'[r] > 0
        BY <1>3, <1>6, <2>1
      <3> QED
        BY <3>1, <3>2, <3>3 DEF Agreed
    <2>2. CASE r \notin Pending
      <3>1. record'[r] = record[r] /\ told'[r] = told[r] /\ (lost[r] > 0 => lost'[r] > 0)
        BY <1>1, <1>6, <2>2
      <3>2. req'[r].at = "none" /\ UNCHANGED <<receipts, shown>>
        BY <1>2 DEF Absent
      <3> QED
        BY <3>1, <3>2 DEF Agreed
    <2> QED
      BY <2>1, <2>2
  <1>7. told' \in [Requests -> Seq(Statuses)]
    BY <1>1, <1>3 DEF Shape
  <1>8. orphans' \subseteq Requests
    BY <1>1 DEF Shape
  <1>9. \A r \in Requests : req[r].at = "none" => record'[r] = record[r] /\ told'[r] = told[r]
    BY <1>1, <1>6 DEF Pending
  <1> QED
    BY <1>1, <1>5, <1>6, <1>7, <1>8, <1>9, ProcessStep
----------------------------------------------------------------------------
LEMMA NextOK == IInv /\ [Next]_vars => IInv'
  <1> SUFFICES ASSUME IInv, [Next]_vars PROVE IInv'
    OBVIOUS
  <1>1. CASE Agent
    BY <1>1, AgentAsksOK, AgentGivesUpOK, LinkBreaksOK, GatewayNoticesOK, AgentConnectsOK DEF Agent
  <1>2. CASE Gateway
    <2>1. StopTurn \/ TurnEnds => CancelTurn /\ turn' \in {turn, "over"}
      BY DEF StopTurn, TurnEnds
    <2> QED
      BY <1>2, <2>1, InvokeOK, CancelRequestOK, CancelTurnOK DEF Gateway
  <1>3. CASE Phone
    BY <1>3, PhoneConnectsOK, AdvertiseOK, SocketClosesOK, AdvanceOK, ResultOK, BeginUploadOK DEF Phone
  <1>4. CASE Clock
    BY <1>4, DeadlinePassesOK, ExpireOK, ForgetOK, SweepRecordOK, OthersHoldOK DEF Clock
  <1>5. CASE Uploads
    BY <1>5, EndUploadOK DEF Uploads
  <1>6. CASE Process
    BY <1>6, CrashOK, ShutdownOK DEF Process
  <1>7. CASE UNCHANGED vars
    BY <1>7 DEF vars, brokerVars, turnVars, agentVars, phoneVars, IInv, Shape, TableOK, AsksOK,
                AskedOfTheLiving, Agreed, Waiting, Untouched, Pending
  <1> QED
    BY <1>1, <1>2, <1>3, <1>4, <1>5, <1>6, <1>7 DEF Next

\* The invariant holds of every state the broker and its neighbours reach.
THEOREM InvariantHolds == Spec => []IInv
  BY InitOK, NextOK, PTL DEF Spec

\* The broker never holds more ids than its limit (TypeOK), however many requests the agents draw
\* and whatever other agents take of the table.
THEOREM TypeCorrect == Spec => []TypeOK
  <1>1. IInv => TypeOK
    <2> SUFFICES ASSUME IInv PROVE TypeOK
      OBVIOUS
    <2> USE DEF IInv
    <2>1. Pending \cap held = {}
      BY DEF AskedOfTheLiving
    <2>2. Cardinality(Pending \cup held) = Cardinality(Pending) + Cardinality(held)
      <3>1. Cardinality(Pending \cup held)
              = Cardinality(Pending) + Cardinality(held) - Cardinality(Pending \cap held)
        BY FS_Union DEF TableOK
      <3>2. Cardinality(Pending \cap held) = 0
        BY <2>1, FS_EmptySet
      <3>3. Cardinality(Pending) \in Nat /\ Cardinality(held) \in Nat
        BY FS_CardinalityType DEF TableOK
      <3> QED
        BY <3>1, <3>2, <3>3
    <2>3. Cardinality(Pending \cup held) + others <= Limit
      BY <2>2 DEF TableOK
    <2>4. \A r \in Requests :
            /\ req[r].at \in {"none", "pending", "claimed"} /\ req[r].stage \in 0..1
            /\ record[r] \in Open \cup Terminal \cup {"none"}
            /\ told[r] \in Seq(Statuses) /\ calls[r] \in {"new", "open", "over"}
            /\ shown[r] \in Nat /\ lost[r] \in Nat
      BY DEF Shape, States
    <2> QED
      BY <2>3, <2>4 DEF Shape, TypeOK
  <1> QED
    BY <1>1, InvariantHolds, PTL

\* What a person reads, what the agent was told and what left a receipt agree at every moment
\* (OutcomeIsAgreed), whichever of the answer, the deadline, the cancellation, the end of the turn, the
\* loss of the link and the end of the process comes first, and whichever writes of the record fail: such
\* a record may stay behind the outcome, and never says another.
THEOREM OutcomesAgree == Spec => []OutcomeIsAgreed
  <1>1. IInv => OutcomeIsAgreed
    BY DEF IInv, Agreed, OutcomeIsAgreed
  <1> QED
    BY <1>1, InvariantHolds, PTL

\* Nothing is asked of a phone on behalf of a turn that is over or an agent that is gone
\* (AskedOfTheLiving).
THEOREM LivingAreAsked == Spec => []AskedOfTheLiving
  <1>1. IInv => AskedOfTheLiving
    BY DEF IInv
  <1> QED
    BY <1>1, InvariantHolds, PTL
=============================================================================
