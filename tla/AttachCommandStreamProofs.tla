--------------------- MODULE AttachCommandStreamProofs ---------------------
(***************************************************************************)
(* Proofs about AttachCommandStream for every window, kind set, capability *)
(* sets and bounds.                                                        *)
(*                                                                         *)
(* The invariant says exactly what is where.  The gateway's acked rows are *)
(* a prefix of its numbering; the window of the connection that owns the   *)
(* agent is the interval from there to its send cursor; the ACKs on their  *)
(* way up and the commands on their way down are consecutive parts of that *)
(* interval, and they meet at the plugin's cursor.                         *)
(*                                                                         *)
(* Four invariants are proved on top of it, each with it as a hypothesis:  *)
(* no cursor or ACK on its way covers a deletion nobody took (DeletionOK);  *)
(* a turn that is still to be replayed has not started, and every copy of  *)
(* a resolution that was taken back is the discard (OnceOK); what is on    *)
(* its way was not retired (BehindOK); and, with both databases intact,    *)
(* neither side has a hole or speaks of what the other lacks (LogOK).      *)
(***************************************************************************)
EXTENDS AttachCommandStream, TLAPS, FiniteSetTheorems, FunctionTheorems, SequenceTheorems,
        WellFoundedInduction

Hellos == [kind : {"hello"}, commandSequence : Nat, capabilities : SUBSET AllCapabilities]
HelloAcks == [kind : {"hello_ack"}, commandSequence : Nat, capabilities : SUBSET AllCapabilities]
Acks == [kind : {"ack"}, sequence : Nat, id : Nat]
Frames == [kind : {"command"}, sequence : Nat, id : Nat, command : Kinds \cup {"discard"}]

\* An outbox: its numbers run up to the last issued one without a hole, what is
\* acknowledged is a prefix, and a row keeps the id and command it was minted with.
TableOK(table, next, minted) ==
    /\ DOMAIN table \subseteq 1..(next - 1)
    /\ table \in [DOMAIN table -> Row]
    /\ \A s \in DOMAIN table : \A r \in s..(next - 1) : r \in DOMAIN table
    /\ \A s, r \in DOMAIN table : s < r /\ table[r].acked => table[s].acked
    /\ \A s \in DOMAIN table :
         /\ table[s].id \in (PriorCommands + 1)..Len(minted)
         /\ table[s].command = minted[table[s].id]
         /\ table[s].command = "deletion" => ~table[s].cancelled
    /\ \A s, r \in DOMAIN table : table[s].id = table[r].id => s = r

RowsOK ==
    /\ TableOK(rows, nextCommandSequence, issued)
    /\ ~streamed => rows = [s \in {} |-> 0] /\ nextCommandSequence = 1 /\ current = 0

\* The spool took each of its commands from the outbox that is lost, or from this one.
InboxOK ==
    /\ ran \in Seq(Nat) /\ PriorCommands <= Len(issued)
    /\ \A s \in DOMAIN inbox :
         \/ s <= PriorCommands /\ inbox[s].id = s /\ inbox[s].command = "turn"
         \/ /\ s \in DOMAIN rows /\ rows[s].id = inbox[s].id
            /\ inbox[s].command \in {rows[s].command, "discard"}

\* An awaited resolution holds the loop: it is the head of the backlog, once.
BacklogOK ==
    /\ ~Connected => backlog = <<>>
    /\ \A e \in running : inbox[e[1]].command = "resolve" =>
         /\ backlog # <<>> /\ Head(backlog) = e[1]
         /\ \A f \in running : f[1] = e[1] => f = e

SocketsOK ==
    /\ up \in [Links -> Seq(Hellos \cup Acks)] /\ down \in [Links -> Seq(HelloAcks \cup Frames)]
    /\ \A c \in Links : (c # link \/ ~Connected) => down[c] = <<>>
    /\ \A c \in Links : server[c] = "none" <=> c > link
    /\ \A c \in Links : server[c] = "hello" <=> c = current
    /\ current # 0 => current \in Links
    /\ \A c \in Links : server[c] \in {"none", "closed", "superseded"} => up[c] = <<>>
    /\ \A c \in Links : server[c] = "open" => \E hello \in Hellos : up[c] = <<hello>>
    /\ Connected => link \in Links
    /\ Connected /\ server[link] = "open" =>
         phase = "hello" /\ down[link] = <<>> /\ up[link][1].commandSequence = commandCursor

\* A frame carries row s of a table as it is, or as the discard of it; a deletion
\* always as it is.
Carries(table, f, s) ==
    /\ s \in DOMAIN table
    /\ f = [kind |-> "command", sequence |-> s, id |-> table[s].id, command |-> f.command]
    /\ f.command \in {table[s].command, "discard"}
    /\ table[s].command = "deletion" => f.command = "deletion"

\* The sequence of the i-th frame on its way down: the hello_ack stands for the
\* cursor it carries.
Position(i) == IF phase = "hello" THEN down[link][1].commandSequence + i - 1 ELSE commandCursor + i

DownOK == Connected =>
    /\ phase = "hello" /\ down[link] # <<>> =>
         /\ down[link][1] \in HelloAcks
         /\ down[link][1].commandSequence \in commandCursor..(nextCommandSequence - 1)
    /\ \A i \in 1..Len(down[link]) : phase = "ready" \/ i > 1 => Carries(rows, down[link][i], Position(i))

\* How far the outbox is acknowledged.
Acked == AckCursor(rows, nextCommandSequence)

WindowOK == current # 0 =>
    /\ sendCursor[current] \in Acked..(nextCommandSequence - 1)
    /\ sent[current] = (Acked + 1)..sendCursor[current]
    /\ up[current] \in Seq(Acks)
    /\ Len(up[current]) <= sendCursor[current] - Acked
    /\ \A i \in 1..Len(up[current]) :
         up[current][i] = [kind |-> "ack", sequence |-> Acked + i, id |-> rows[Acked + i].id]
    /\ current = link /\ phase = "hello" =>
         /\ up[link] = <<>> /\ down[link] # <<>> /\ down[link][1].commandSequence = Acked
         /\ Len(down[link]) = 1 + sendCursor[link] - Acked
    /\ current = link /\ phase = "ready" =>
         /\ commandCursor = Acked + Len(up[link])
         /\ Len(down[link]) = sendCursor[link] - commandCursor

IInv == TypeOK /\ RowsOK /\ InboxOK /\ BacklogOK /\ SocketsOK /\ DownOK /\ WindowOK /\ NoGapLoop
----------------------------------------------------------------------------
(* Least elements, ranks and intervals                                     *)

LEMMA LeastExists ==
    ASSUME NEW S \in SUBSET Nat, S # {}
    PROVE  Min(S) \in S /\ \A n \in S : Min(S) <= n
  <1>1. \E m \in S : \A n \in S : m <= n
    <2>1. IsWellFoundedOn(OpToRel(<, Nat), Nat)
      BY NatLessThanWellFounded
    <2>2. OpToRel(<, Nat) = {ss \in Nat \X Nat : ss[1] < ss[2]}
      BY DEF OpToRel
    <2> HIDE DEF OpToRel
    <2>3. PICK m \in S : \A y \in S : <<y, m>> \notin OpToRel(<, Nat)
      BY <2>1, WFMin
    <2>4. \A y \in S : ~(y < m)
      BY <2>2, <2>3
    <2>5. \A y \in S : m <= y
      BY <2>4
    <2> QED
      BY <2>5
  <1> QED
    BY <1>1 DEF Min

\* Below the cursor everything is acknowledged, above it nothing is and no number is missing; and
\* only the cursor is like that.
LEMMA CursorSplits ==
    ASSUME NEW table, NEW next \in Nat \ {0}, NEW minted, TableOK(table, next, minted)
    PROVE  /\ AckCursor(table, next) \in 0..(next - 1)
           /\ \A s \in DOMAIN table : table[s].acked <=> s <= AckCursor(table, next)
           /\ (AckCursor(table, next) + 1)..(next - 1) \subseteq DOMAIN table
           /\ \A b \in 0..(next - 1) :
                /\ \A s \in DOMAIN table : table[s].acked <=> s <= b
                /\ (b + 1)..(next - 1) \subseteq DOMAIN table
                => b = AckCursor(table, next)
  <1> DEFINE a == AckCursor(table, next)
  <1>1. DOMAIN table \subseteq 1..(next - 1) /\ Unacked(table) \subseteq DOMAIN table /\ Unacked(table) \subseteq Nat
    BY DEF TableOK, Unacked
  <1>2. a \in 0..(next - 1) /\ (\A s \in DOMAIN table : table[s].acked <=> s <= a)
        /\ (a + 1)..(next - 1) \subseteq DOMAIN table
    <2>1. CASE Unacked(table) = {}
      <3>1. a = next - 1
        BY <2>1 DEF AckCursor
      <3>2. \A s \in DOMAIN table : table[s].acked
        BY <2>1 DEF Unacked
      <3> HIDE DEF a
      <3> QED
        BY <1>1, <3>1, <3>2
    <2>2. CASE Unacked(table) # {}
      <3>1. a = Min(Unacked(table)) - 1
        BY <2>2 DEF AckCursor
      <3>2. PICK m : m = Min(Unacked(table))
        OBVIOUS
      <3>3. m \in Unacked(table) /\ \A n \in Unacked(table) : m <= n
        BY <1>1, <2>2, <3>2, LeastExists
      <3> HIDE DEF a
      <3>4. m \in DOMAIN table /\ m \in 1..(next - 1) /\ a = m - 1 /\ ~table[m].acked
        BY <1>1, <3>1, <3>2, <3>3 DEF Unacked
      <3>5. \A s \in DOMAIN table : s < m => table[s].acked
        BY <1>1, <3>3, <3>4 DEF Unacked
      <3>6. \A s \in DOMAIN table : s > m => ~table[s].acked
        BY <1>1, <3>4 DEF TableOK
      <3>7. m..(next - 1) \subseteq DOMAIN table
        BY <3>4 DEF TableOK
      <3> QED
        BY <1>1, <3>4, <3>5, <3>6, <3>7
    <2> QED
      BY <2>1, <2>2
  <1> HIDE DEF a
  <1>3. ASSUME NEW b \in 0..(next - 1), \A s \in DOMAIN table : table[s].acked <=> s <= b,
               (b + 1)..(next - 1) \subseteq DOMAIN table
        PROVE  b = a
    <2>1. CASE b < a
      <3>1. b + 1 \in DOMAIN table /\ b + 1 <= a
        BY <1>2, <1>3, <2>1
      <3> QED
        BY <1>2, <1>3, <3>1
    <2>2. CASE a < b
      <3>1. a + 1 \in DOMAIN table /\ a + 1 <= b
        BY <1>2, <1>3, <2>2
      <3> QED
        BY <1>2, <1>3, <3>1
    <2> QED
      BY <1>2, <2>1, <2>2
  <1> QED
    BY <1>2, <1>3 DEF a

\* In an interval a number's rank is its distance from the lower end.
LEMMA IntervalRank ==
    ASSUME NEW a \in Nat, NEW b \in Nat, NEW s \in (a + 1)..b
    PROVE  Rank(s, (a + 1)..b) = s - a - 1
  <1>1. {r \in (a + 1)..b : r < s} = (a + 1)..(s - 1)
    OBVIOUS
  <1>2. Cardinality((a + 1)..(s - 1)) = s - a - 1
    <2>1. a + 1 \in Int /\ s - 1 \in Int /\ a + 1 <= s
      OBVIOUS
    <2>2. Cardinality((a + 1)..(s - 1)) = IF a + 1 > s - 1 THEN 0 ELSE (s - 1) - (a + 1) + 1
      BY <2>1, FS_Interval
    <2> QED
      BY <2>1, <2>2
  <1> QED
    BY <1>1, <1>2 DEF Rank

LEMMA AscendingInterval ==
    ASSUME NEW a \in Nat, NEW b \in Nat, a <= b
    PROVE  /\ Cardinality((a + 1)..b) = b - a
           /\ \A i \in 1..(b - a) : Ascending((a + 1)..b)[i] = a + i
  <1>1. Cardinality((a + 1)..b) = b - a
    <2>1. Cardinality((a + 1)..b) = IF a + 1 > b THEN 0 ELSE b - (a + 1) + 1
      <3>1. a + 1 \in Int /\ b \in Int
        OBVIOUS
      <3> QED
        BY <3>1, FS_Interval
    <2> QED
      BY <2>1
  <1>2. ASSUME NEW i \in 1..(b - a) PROVE Ascending((a + 1)..b)[i] = a + i
    <2>1. Ascending((a + 1)..b)[i] = CHOOSE s \in (a + 1)..b : Rank(s, (a + 1)..b) = i - 1
      BY <1>1 DEF Ascending
    <2>2. a + i \in (a + 1)..b
      OBVIOUS
    <2>3. \A s \in (a + 1)..b : Rank(s, (a + 1)..b) = i - 1 <=> s = a + i
      BY IntervalRank
    <2> QED
      BY <2>1, <2>2, <2>3
  <1> QED
    BY <1>1, <1>2

\* Ranks in a finite set are distinct and run from 0, so Ascending lists the set once.
LEMMA RankInjects ==
    ASSUME NEW S \in SUBSET Nat, IsFiniteSet(S)
    PROVE  /\ Cardinality(S) \in Nat
           /\ \A s \in S : Rank(s, S) \in 0..(Cardinality(S) - 1)
           /\ \A s, r \in S : Rank(s, S) = Rank(r, S) => s = r
  <1> DEFINE Below(s) == {r \in S : r < s}
  <1>1. Cardinality(S) \in Nat
    BY FS_CardinalityType
  <1>2. ASSUME NEW s \in S, NEW T \in SUBSET S, Below(s) \subseteq T, s \in T
        PROVE  Cardinality(Below(s)) \in Nat /\ Cardinality(Below(s)) < Cardinality(T)
    <2>1. Below(s) \in SUBSET S /\ Below(s) \in SUBSET T /\ s \notin Below(s)
      BY <1>2
    <2> HIDE DEF Below
    <2>2. IsFiniteSet(T) /\ IsFiniteSet(Below(s))
      BY <2>1, FS_Subset
    <2>3. Cardinality(Below(s)) \in Nat /\ Cardinality(T) \in Nat
      BY <2>2, FS_CardinalityType
    <2>4. Cardinality(Below(s)) <= Cardinality(T) /\ (Cardinality(Below(s)) = Cardinality(T) => Below(s) = T)
      BY <2>1, <2>2, FS_Subset
    <2> QED
      BY <1>2, <2>1, <2>3, <2>4
  <1>3. \A s \in S : Rank(s, S) \in 0..(Cardinality(S) - 1)
    BY <1>1, <1>2 DEF Rank
  <1>4. ASSUME NEW s \in S, NEW r \in S, r < s
        PROVE  Rank(r, S) < Rank(s, S)
    <2>1. r \in Below(s) /\ \A x \in S : x < r => x < s
      BY <1>4
    <2>2. Below(s) \in SUBSET S
      OBVIOUS
    <2>3. Below(r) \subseteq Below(s)
      BY <2>1
    <2>4. Cardinality(Below(r)) < Cardinality(Below(s))
      BY <1>2, <2>1, <2>2, <2>3
    <2> QED
      BY <2>4 DEF Rank
  <1>5. ASSUME NEW s \in S, NEW r \in S, Rank(s, S) = Rank(r, S)
        PROVE  s = r
    <2>1. Rank(s, S) \in Nat /\ Rank(r, S) \in Nat
      BY <1>1, <1>3
    <2>2. ~(r < s) /\ ~(s < r)
      BY <1>4, <1>5, <2>1
    <2> QED
      BY <2>2
  <1> QED
    BY <1>1, <1>3, <1>5

LEMMA AscendingLists ==
    ASSUME NEW S \in SUBSET Nat, IsFiniteSet(S)
    PROVE  /\ Ascending(S) \in Seq(S)
           /\ \A i, j \in 1..Len(Ascending(S)) : Ascending(S)[i] = Ascending(S)[j] => i = j
  <1> DEFINE n == Cardinality(S)
             rank == [s \in S |-> Rank(s, S)]
  <1>1. n \in Nat /\ (\A s \in S : Rank(s, S) \in 0..(n - 1))
        /\ \A s, r \in S : Rank(s, S) = Rank(r, S) => s = r
    BY RankInjects
  <1>2. rank \in Injection(S, 0..(n - 1))
    BY <1>1 DEF Injection, IsInjective
  <1>3. IsFiniteSet(0..(n - 1)) /\ Cardinality(0..(n - 1)) = n
    <2> HIDE DEF n
    <2>1. 0 \in Int /\ n - 1 \in Int
      BY <1>1
    <2>2. /\ IsFiniteSet(0..(n - 1))
          /\ Cardinality(0..(n - 1)) = IF 0 > n - 1 THEN 0 ELSE (n - 1) - 0 + 1
      BY <2>1, FS_Interval
    <2> QED
      BY <1>1, <2>1, <2>2
  <1>4. rank \in Surjection(S, 0..(n - 1))
    <2> HIDE DEF rank
    <2> QED
      BY <1>2, <1>3, FS_Injection
  <1>5. \A i \in 1..n : \E s \in S : Rank(s, S) = i - 1
    <2> SUFFICES ASSUME NEW i \in 1..n PROVE \E s \in S : Rank(s, S) = i - 1
      OBVIOUS
    <2>1. i - 1 \in 0..(n - 1)
      BY <1>1
    <2>2. \E s \in S : rank[s] = i - 1
      BY <1>4, <2>1 DEF Surjection
    <2> QED
      BY <2>2
  <1>6. \A i \in 1..n : Ascending(S)[i] \in S /\ Rank(Ascending(S)[i], S) = i - 1
    BY <1>5 DEF Ascending
  <1>7. Ascending(S) \in [1..n -> S]
    BY <1>6 DEF Ascending
  <1> HIDE DEF n
  <1>8. Ascending(S) \in Seq(S) /\ Len(Ascending(S)) = n
    BY <1>1, <1>7
  <1>9. ASSUME NEW i \in 1..n, NEW j \in 1..n, Ascending(S)[i] = Ascending(S)[j]
        PROVE  i = j
    <2>1. i - 1 = j - 1
      BY <1>6, <1>9
    <2> QED
      BY <1>1, <2>1
  <1> QED
    BY <1>8, <1>9
----------------------------------------------------------------------------
(* The flush                                                               *)

\* What #flush did: it sent the numbers up to last in order, and made discards
\* of the rows in D.
Flushed(c, table, next, allowed, occupied, cursor, wire, last, D) ==
    /\ last \in cursor..(next - 1)
    /\ last - cursor <= MaxInFlight - Cardinality(occupied)
    /\ D \subseteq (cursor + 1)..(next - 1)
    /\ \A s \in D : table[s].command # "deletion"
    /\ rows' = Downgrade(table, D)
    /\ reopened' = reopened \cup {table[s].id : s \in {r \in D : table[r].command = "resolve"}}
    /\ sent' = [sent EXCEPT ![c] = occupied \cup ((cursor + 1)..last)]
    /\ sendCursor' = [sendCursor EXCEPT ![c] = last]
    /\ down' = [down EXCEPT ![c] = IF c = link /\ Connected
          THEN wire \o [i \in 1..(last - cursor) |-> CommandFrame(Downgrade(table, D), cursor + i)]
          ELSE @]

\* The outcome of a flush that tried some rows and sent some of them.
Outcome(c, table, allowed, occupied, cursor, wire, tried, gone) ==
    LET lacking == {s \in tried : Lacks(table[s], allowed)}
        after == Downgrade(table, lacking)
    IN /\ rows' = after
       /\ reopened' = reopened \cup {table[s].id : s \in {r \in lacking : table[r].command = "resolve"}}
       /\ sent' = [sent EXCEPT ![c] = occupied \cup gone]
       /\ sendCursor' = [sendCursor EXCEPT ![c] = Max0(gone \cup {cursor})]
       /\ down' = [down EXCEPT ![c] = IF c = link /\ Connected
             THEN wire \o [i \in 1..Cardinality(gone) |-> CommandFrame(after, Ascending(gone)[i])]
             ELSE @]

\* The batch is the numbers right above the send cursor.
LEMMA BatchIsInterval ==
    ASSUME NEW table, NEW next \in Nat \ {0}, NEW allowed, NEW cursor \in 0..(next - 1), NEW slots \in Nat,
           DOMAIN table \subseteq 1..(next - 1), (cursor + 1)..(next - 1) \subseteq DOMAIN table,
           \A s \in (cursor + 1)..(next - 1) : ~table[s].acked
    PROVE  /\ \E last \in cursor..(next - 1) :
                Batch(table, allowed, cursor, slots) = (cursor + 1)..last /\ last - cursor <= slots
           /\ \A s \in Batch(table, allowed, cursor, slots) :
                Lacks(table[s], allowed) => table[s].command # "deletion"
  <1> DEFINE waiting == {s \in Unacked(table) : s > cursor}
             stuck == {s \in waiting : table[s].command = "deletion" /\ Lacks(table[s], allowed)}
             batch == Batch(table, allowed, cursor, slots)
  <1>1. waiting = (cursor + 1)..(next - 1)
    BY DEF Unacked
  <1>2. batch = {s \in waiting : Rank(s, waiting) < slots /\ \A r \in stuck : s < r}
    BY DEF Batch
  <1>3. \A s \in waiting : Rank(s, waiting) = s - cursor - 1
    <2>1. cursor \in Nat /\ next - 1 \in Nat
      OBVIOUS
    <2> HIDE DEF waiting
    <2> QED
      BY <1>1, <2>1, IntervalRank
  <1>4. \A s \in batch : Lacks(table[s], allowed) => table[s].command # "deletion"
    BY <1>1, <1>2
  <1> HIDE DEF batch
  <1>5. batch = {s \in (cursor + 1)..(next - 1) : s - cursor - 1 < slots /\ \A r \in stuck : s < r}
    BY <1>1, <1>2, <1>3
  <1>6. stuck \subseteq (cursor + 1)..(next - 1)
    BY <1>1
  <1> HIDE DEF waiting, stuck
  <1>7. \E last \in cursor..(next - 1) : batch = (cursor + 1)..last /\ last - cursor <= slots
    <2> DEFINE room == IF cursor + slots < next - 1 THEN cursor + slots ELSE next - 1
    <2>1. room \in cursor..(next - 1) /\ room - cursor <= slots
          /\ \A s \in (cursor + 1)..(next - 1) : s - cursor - 1 < slots <=> s <= room
      OBVIOUS
    <2> HIDE DEF room
    <2>2. CASE stuck = {}
      <3>1. batch = (cursor + 1)..room
        BY <1>5, <2>1, <2>2
      <3> QED
        BY <2>1, <3>1
    <2>3. CASE stuck # {}
      <3>1. stuck \in SUBSET Nat
        BY <1>6
      <3>2. PICK m : m = Min(stuck)
        OBVIOUS
      <3>3. m \in stuck /\ \A r \in stuck : m <= r
        BY <2>3, <3>1, <3>2, LeastExists
      <3>4. m \in (cursor + 1)..(next - 1)
        BY <1>6, <3>3
      <3>5. \A s \in (cursor + 1)..(next - 1) : (\A r \in stuck : s < r) <=> s < m
        BY <1>6, <3>3, <3>4
      <3> DEFINE last == IF m - 1 < room THEN m - 1 ELSE room
      <3>6. last \in cursor..(next - 1) /\ last - cursor <= slots
            /\ \A s \in (cursor + 1)..(next - 1) : s <= last <=> (s <= room /\ s < m)
        BY <2>1, <3>4
      <3> HIDE DEF last
      <3>7. batch = (cursor + 1)..last
        BY <1>5, <2>1, <3>5, <3>6
      <3> QED
        BY <3>6, <3>7
    <2> QED
      BY <2>2, <2>3
  <1> QED
    BY <1>4, <1>7 DEF batch

LEMMA FlushSends ==
    ASSUME NEW c, NEW table, NEW next \in Nat \ {0}, NEW allowed, NEW occupied, NEW cursor \in 0..(next - 1),
           NEW wire, Cardinality(occupied) \in 0..MaxInFlight,
           DOMAIN table \subseteq 1..(next - 1), (cursor + 1)..(next - 1) \subseteq DOMAIN table,
           \A s \in (cursor + 1)..(next - 1) : ~table[s].acked,
           Flush(c, table, allowed, occupied, cursor, wire)
    PROVE  \E last, D : Flushed(c, table, next, allowed, occupied, cursor, wire, last, D)
  <1> DEFINE slots == MaxInFlight - Cardinality(occupied)
             batch == Batch(table, allowed, cursor, slots)
  <1>1. slots \in Nat
    BY BoundsAssumption
  <1> HIDE DEF slots
  <1>2. PICK end \in cursor..(next - 1) : batch = (cursor + 1)..end /\ end - cursor <= slots
    BY <1>1, BatchIsInterval
  <1>3. \A s \in batch : Lacks(table[s], allowed) => table[s].command # "deletion"
    BY <1>1, BatchIsInterval
  <1> HIDE DEF batch
  <1>4. PICK tried, gone :
          /\ \/ tried = batch /\ gone = batch
             \/ \E refused \in batch : tried = {s \in batch : s <= refused} /\ gone = {s \in batch : s < refused}
          /\ Outcome(c, table, allowed, occupied, cursor, wire, tried, gone)
    <2>1. \/ Outcome(c, table, allowed, occupied, cursor, wire, batch, batch)
          \/ \E refused \in batch : Outcome(c, table, allowed, occupied, cursor, wire,
                                            {s \in batch : s <= refused}, {s \in batch : s < refused})
      BY DEF Flush, Outcome, batch, slots
    <2> QED
      BY <2>1
  <1>5. PICK last \in cursor..end : gone = (cursor + 1)..last /\ tried \subseteq batch
    <2>1. CASE tried = batch /\ gone = batch
      BY <1>2, <2>1
    <2>2. CASE \E refused \in batch : tried = {s \in batch : s <= refused} /\ gone = {s \in batch : s < refused}
      <3>1. PICK refused \in batch : tried = {s \in batch : s <= refused} /\ gone = {s \in batch : s < refused}
        BY <2>2
      <3>2. refused - 1 \in cursor..end /\ gone = (cursor + 1)..(refused - 1)
        BY <1>2, <3>1
      <3> QED
        BY <3>1, <3>2
    <2> QED
      BY <1>4, <2>1, <2>2
  <1> DEFINE D == {s \in tried : Lacks(table[s], allowed)}
  <1>6. D \subseteq (cursor + 1)..(next - 1) /\ \A s \in D : table[s].command # "deletion"
    <2>1. batch \subseteq (cursor + 1)..(next - 1)
      BY <1>2
    <2> QED
      BY <1>3, <1>5, <2>1
  <1>7. Max0(gone \cup {cursor}) = last
    <2>1. last \in gone \cup {cursor} /\ \A n \in gone \cup {cursor} : n <= last
      BY <1>5
    <2>2. \A m \in gone \cup {cursor} : (\A n \in gone \cup {cursor} : n <= m) => m = last
      BY <1>5, <2>1
    <2> QED
      BY <2>1, <2>2 DEF Max0
  <1>8. /\ Cardinality(gone) = last - cursor
        /\ \A i \in 1..(last - cursor) : Ascending(gone)[i] = cursor + i
    <2>1. cursor \in Nat /\ last \in Nat /\ cursor <= last
      BY <1>5
    <2> QED
      BY <1>5, <2>1, AscendingInterval
  <1>9. [i \in 1..Cardinality(gone) |-> CommandFrame(Downgrade(table, D), Ascending(gone)[i])]
        = [i \in 1..(last - cursor) |-> CommandFrame(Downgrade(table, D), cursor + i)]
    BY <1>8
  <1>10. last \in cursor..(next - 1) /\ last - cursor <= slots
    BY <1>1, <1>2, <1>5
  <1>11. /\ rows' = Downgrade(table, D)
         /\ reopened' = reopened \cup {table[s].id : s \in {r \in D : table[r].command = "resolve"}}
         /\ sent' = [sent EXCEPT ![c] = occupied \cup gone]
         /\ sendCursor' = [sendCursor EXCEPT ![c] = Max0(gone \cup {cursor})]
         /\ down' = [down EXCEPT ![c] = IF c = link /\ Connected
               THEN wire \o [i \in 1..Cardinality(gone) |-> CommandFrame(Downgrade(table, D), Ascending(gone)[i])]
               ELSE @]
    BY <1>4 DEF Outcome
  <1> HIDE DEF D
  <1>12. Flushed(c, table, next, allowed, occupied, cursor, wire, last, D)
    BY <1>5, <1>6, <1>7, <1>9, <1>10, <1>11 DEF Flushed, slots
  <1> QED
    BY <1>12

\* Making discards of rows changes neither their numbers nor what is acknowledged.
LEMMA DowngradeKeeps ==
    ASSUME NEW table, NEW next \in Nat \ {0}, NEW minted, TableOK(table, next, minted), NEW D,
           \A s \in D : s \in DOMAIN table => table[s].command # "deletion"
    PROVE  /\ TableOK(Downgrade(table, D), next, minted)
           /\ AckCursor(Downgrade(table, D), next) = AckCursor(table, next)
           /\ DOMAIN Downgrade(table, D) = DOMAIN table
           /\ \A s \in DOMAIN table :
                /\ Downgrade(table, D)[s].id = table[s].id
                /\ Downgrade(table, D)[s].command = table[s].command
                /\ Downgrade(table, D)[s].acked = table[s].acked
                /\ Downgrade(table, D)[s].cancelled = (s \in D \/ table[s].cancelled)
                /\ Downgrade(table, D)[s] \in Row
  <1> DEFINE after == Downgrade(table, D)
  <1>1. DOMAIN after = DOMAIN table /\ \A s \in DOMAIN table : table[s] \in Row
    BY DEF Downgrade, TableOK
  <1>2. \A s \in DOMAIN table :
          /\ after[s].id = table[s].id /\ after[s].command = table[s].command
          /\ after[s].acked = table[s].acked
          /\ after[s].cancelled = (s \in D \/ table[s].cancelled) /\ after[s] \in Row
    <2> SUFFICES ASSUME NEW s \in DOMAIN table
                 PROVE  /\ after[s].id = table[s].id /\ after[s].command = table[s].command
                        /\ after[s].acked = table[s].acked
                        /\ after[s].cancelled = (s \in D \/ table[s].cancelled) /\ after[s] \in Row
      OBVIOUS
    <2>1. CASE s \in D
      <3>1. after[s] = [table[s] EXCEPT !.cancelled = TRUE]
        BY <2>1 DEF Downgrade
      <3> HIDE DEF after
      <3> QED
        BY <1>1, <2>1, <3>1 DEF Row
    <2>2. CASE s \notin D
      <3>1. after[s] = table[s]
        BY <2>2 DEF Downgrade
      <3> HIDE DEF after
      <3> QED
        BY <1>1, <2>2, <3>1 DEF Row
    <2> QED
      BY <2>1, <2>2
  <1>3. Unacked(after) = Unacked(table)
    BY <1>1, <1>2 DEF Unacked
  <1>4. after \in [DOMAIN after -> Row]
    <2>1. after = [s \in DOMAIN table |-> after[s]]
      BY DEF Downgrade
    <2> HIDE DEF after
    <2> QED
      BY <1>1, <1>2, <2>1
  <1> HIDE DEF after
  <1>5. TableOK(after, next, minted)
    BY <1>1, <1>2, <1>4, ZenonT(60) DEF TableOK
  <1>6. AckCursor(after, next) = AckCursor(table, next)
    BY <1>3 DEF AckCursor
  <1> QED
    BY <1>1, <1>2, <1>5, <1>6 DEF after

\* A flush that starts from a window open at its lower end leaves a longer one, sent in order.
Refilled(c, table, next, minted, cursor, wire, last, D) ==
    /\ last \in cursor..(next - 1)
    /\ D \subseteq (cursor + 1)..(next - 1)
    /\ \A s \in D : table[s].command # "deletion"
    /\ rows' = Downgrade(table, D)
    /\ TableOK(rows', next, minted)
    /\ AckCursor(rows', next) = AckCursor(table, next)
    /\ reopened' = reopened \cup {table[s].id : s \in {r \in D : table[r].command = "resolve"}}
    /\ sent' = [sent EXCEPT ![c] = (AckCursor(table, next) + 1)..last]
    /\ Cardinality((AckCursor(table, next) + 1)..last) <= MaxInFlight
    /\ sendCursor' = [sendCursor EXCEPT ![c] = last]
    /\ down' = [down EXCEPT ![c] = IF c = link /\ Connected
          THEN wire \o [i \in 1..(last - cursor) |-> CommandFrame(rows', cursor + i)]
          ELSE @]

LEMMA FlushRefills ==
    ASSUME NEW c, NEW table, NEW next \in Nat \ {0}, NEW minted, NEW allowed, NEW wire,
           TableOK(table, next, minted),
           NEW cursor \in AckCursor(table, next)..(next - 1),
           cursor - AckCursor(table, next) <= MaxInFlight,
           Flush(c, table, allowed, (AckCursor(table, next) + 1)..cursor, cursor, wire)
    PROVE  \E last, D : Refilled(c, table, next, minted, cursor, wire, last, D)
  <1>1. PICK a : a = AckCursor(table, next)
    OBVIOUS
  <1>2. a \in 0..(next - 1) /\ (\A s \in DOMAIN table : table[s].acked <=> s <= a)
        /\ (a + 1)..(next - 1) \subseteq DOMAIN table
    BY <1>1, CursorSplits
  <1>3. DOMAIN table \subseteq 1..(next - 1)
    BY DEF TableOK
  <1>4. cursor \in 0..(next - 1) /\ a \in Nat /\ cursor \in Nat /\ a <= cursor /\ cursor - a <= MaxInFlight
    BY <1>1, <1>2
  <1>5. Cardinality((a + 1)..cursor) = cursor - a
    BY <1>4, AscendingInterval
  <1>6. (cursor + 1)..(next - 1) \subseteq DOMAIN table
    BY <1>2, <1>4
  <1>7. \A s \in (cursor + 1)..(next - 1) : ~table[s].acked
    BY <1>2, <1>4, <1>6
  <1>8. Cardinality((a + 1)..cursor) \in 0..MaxInFlight
    BY <1>4, <1>5, BoundsAssumption
  <1>9. Flush(c, table, allowed, (a + 1)..cursor, cursor, wire)
    BY <1>1
  <1>10. PICK last, D : Flushed(c, table, next, allowed, (a + 1)..cursor, cursor, wire, last, D)
    BY <1>3, <1>4, <1>6, <1>7, <1>8, <1>9, FlushSends
  <1>11. /\ last \in cursor..(next - 1) /\ D \subseteq (cursor + 1)..(next - 1)
         /\ (\A s \in D : table[s].command # "deletion") /\ rows' = Downgrade(table, D)
    BY <1>10 DEF Flushed
  <1>12. TableOK(rows', next, minted) /\ AckCursor(rows', next) = a
    <2>1. \A s \in D : s \in DOMAIN table => table[s].command # "deletion"
      BY <1>11
    <2>2. TableOK(Downgrade(table, D), next, minted) /\ AckCursor(Downgrade(table, D), next) = AckCursor(table, next)
      BY <2>1, DowngradeKeeps
    <2> QED
      BY <1>1, <1>11, <2>2
  <1>13. ((a + 1)..cursor) \cup ((cursor + 1)..last) = (a + 1)..last
    BY <1>4, <1>11
  <1>14. Cardinality((a + 1)..last) <= MaxInFlight
    <2>1. last \in Nat /\ a <= last
      BY <1>4, <1>11
    <2>2. Cardinality((a + 1)..last) = last - a
      BY <1>4, <2>1, AscendingInterval
    <2>3. last - cursor <= MaxInFlight - Cardinality((a + 1)..cursor)
      BY <1>10 DEF Flushed
    <2>4. last - cursor <= MaxInFlight - (cursor - a)
      BY <1>5, <2>3, Zenon
    <2> QED
      BY <1>4, <1>11, <2>1, <2>2, <2>4, BoundsAssumption
  <1>15. Refilled(c, table, next, minted, cursor, wire, last, D)
    BY <1>1, <1>10, <1>11, <1>12, <1>13, <1>14 DEF Flushed, Refilled
  <1> QED
    BY <1>15
----------------------------------------------------------------------------
(* What a growing outbox keeps                                             *)

\* Rows keep their id and command.
RowsGrow == \A s \in DOMAIN rows :
    s \in DOMAIN rows' /\ rows'[s].id = rows[s].id /\ rows'[s].command = rows[s].command

LEMMA CarriesGrows ==
    ASSUME RowsGrow, NEW f, NEW s, Carries(rows, f, s)
    PROVE  Carries(rows', f, s)
  BY DEF RowsGrow, Carries

LEMMA InboxKeeps ==
    ASSUME InboxOK, RowsGrow, UNCHANGED <<inbox>>, ran' \in Seq(Nat), PriorCommands <= Len(issued')
    PROVE  InboxOK'
  BY DEF InboxOK, RowsGrow

LEMMA BacklogKeeps ==
    ASSUME BacklogOK, UNCHANGED <<inbox, client>>
    PROVE  BacklogOK'
  BY DEF BacklogOK, client, Connected

\* The frames a flush appends carry the rows right above the send cursor.
LEMMA FramesCarry ==
    ASSUME NEW table, NEW next \in Nat \ {0}, NEW minted, TableOK(table, next, minted),
           AckCursor(table, next) \in 0..(next - 1),
           NEW cursor \in AckCursor(table, next)..(next - 1), NEW last \in cursor..(next - 1)
    PROVE  /\ [i \in 1..(last - cursor) |-> CommandFrame(table, cursor + i)] \in Seq(Frames)
           /\ Len([i \in 1..(last - cursor) |-> CommandFrame(table, cursor + i)]) = last - cursor
           /\ \A i \in 1..(last - cursor) : Carries(table, CommandFrame(table, cursor + i), cursor + i)
  <1>1. PICK a : a = AckCursor(table, next)
    OBVIOUS
  <1>2. a \in 0..(next - 1) /\ (a + 1)..(next - 1) \subseteq DOMAIN table
    BY <1>1, CursorSplits
  <1>3. last - cursor \in Nat /\ cursor \in Nat
    BY <1>1, <1>2
  <1>4. \A i \in 1..(last - cursor) : cursor + i \in DOMAIN table /\ cursor + i \in Nat
    BY <1>1, <1>2, <1>3
  <1>5. ASSUME NEW s \in DOMAIN table, s \in Nat
        PROVE  CommandFrame(table, s) \in Frames /\ Carries(table, CommandFrame(table, s), s)
    <2>1. table[s] \in Row /\ (table[s].command = "deletion" => ~table[s].cancelled)
      BY DEF TableOK
    <2>2. WireCommand(table[s]) \in Kinds \cup {"discard"} /\ WireCommand(table[s]) \in {table[s].command, "discard"}
          /\ (table[s].command = "deletion" => WireCommand(table[s]) = "deletion") /\ table[s].id \in Nat
      BY <2>1 DEF WireCommand, Row
    <2> QED
      BY <1>5, <2>2 DEF CommandFrame, Carries, Frames
  <1>6. \A i \in 1..(last - cursor) : CommandFrame(table, cursor + i) \in Frames
                                      /\ Carries(table, CommandFrame(table, cursor + i), cursor + i)
    BY <1>4, <1>5
  <1> QED
    BY <1>3, <1>6

----------------------------------------------------------------------------
(* The gateway fills its window                                            *)

\* What the plugin has not read of a socket runs without a gap up to the send cursor.
WireOK(table, next, wire, cursor) ==
    /\ wire \in Seq(HelloAcks \cup Frames)
    /\ phase = "hello" =>
         /\ wire # <<>> /\ wire[1] \in HelloAcks
         /\ wire[1].commandSequence \in commandCursor..(next - 1)
         /\ Len(wire) = cursor - wire[1].commandSequence + 1
    /\ phase = "ready" => Len(wire) = cursor - commandCursor
    /\ \A i \in 1..Len(wire) : phase = "ready" \/ i > 1 =>
         Carries(table, wire[i], IF phase = "hello" THEN wire[1].commandSequence + i - 1 ELSE commandCursor + i)

LEMMA WireGrows ==
    ASSUME NEW table, NEW after, NEW next \in Nat \ {0}, NEW minted,
           TableOK(after, next, minted), NEW cursor \in AckCursor(after, next)..(next - 1),
           \A s \in DOMAIN table :
             s \in DOMAIN after /\ after[s].id = table[s].id /\ after[s].command = table[s].command,
           NEW wire, WireOK(table, next, wire, cursor), NEW last \in cursor..(next - 1), Connected,
           commandCursor \in Nat
    PROVE  WireOK(after, next, wire \o [i \in 1..(last - cursor) |-> CommandFrame(after, cursor + i)], last)
  <1>1. AckCursor(after, next) \in 0..(next - 1)
    BY CursorSplits
  <1>2. cursor \in Nat /\ last \in Nat /\ last - cursor \in Nat
    BY <1>1
  <1>3. PICK frames : frames = [i \in 1..(last - cursor) |-> CommandFrame(after, cursor + i)]
    OBVIOUS
  <1>4. frames \in Seq(Frames) /\ Len(frames) = last - cursor
        /\ \A i \in 1..(last - cursor) : Carries(after, frames[i], cursor + i)
    BY <1>1, <1>3, FramesCarry
  <1>5. wire \in Seq(HelloAcks \cup Frames)
    BY DEF WireOK
  <1>6. /\ wire \o frames \in Seq(HelloAcks \cup Frames) /\ Len(wire \o frames) = Len(wire) + Len(frames)
        /\ Len(wire) \in Nat
        /\ \A i \in 1..Len(wire) : (wire \o frames)[i] = wire[i]
        /\ \A i \in (Len(wire) + 1)..(Len(wire) + Len(frames)) : (wire \o frames)[i] = frames[i - Len(wire)]
    BY <1>4, <1>5
  <1>7. phase \in {"hello", "ready"}
    BY DEF Connected
  <1>8. PICK whole : whole = wire \o frames
    OBVIOUS
  <1>9. \A f, s : Carries(table, f, s) => Carries(after, f, s)
    BY DEF Carries
  <1>10. CASE phase = "hello"
    <2>1. PICK base : base = wire[1].commandSequence
      OBVIOUS
    <2>2. /\ wire # <<>> /\ wire[1] \in HelloAcks /\ base \in commandCursor..(next - 1)
          /\ Len(wire) = cursor - base + 1
          /\ \A i \in 1..Len(wire) : i > 1 => Carries(table, wire[i], base + i - 1)
      BY <1>10, <2>1 DEF WireOK
    <2>3. base \in Nat /\ Len(wire) >= 1
      BY <1>6, <2>2
    <2>4. whole[1] = wire[1] /\ whole # <<>>
      BY <1>6, <1>8, <2>3
    <2>5. Len(whole) = last - base + 1
      BY <1>2, <1>4, <1>6, <1>8, <2>2, <2>3
    <2>6. ASSUME NEW i \in 1..Len(whole), i > 1
          PROVE  Carries(after, whole[i], base + i - 1)
      <3>1. CASE i <= Len(wire)
        <4>1. Carries(table, wire[i], base + i - 1) /\ whole[i] = wire[i]
          BY <1>6, <1>8, <2>2, <2>6, <3>1
        <4> QED
          BY <1>9, <4>1
      <3>2. CASE i > Len(wire)
        <4>1. PICK j : j = i - Len(wire)
          OBVIOUS
        <4>2. j \in 1..(last - cursor) /\ whole[i] = frames[j] /\ cursor + j = base + i - 1
          BY <1>2, <1>4, <1>6, <1>8, <2>2, <2>3, <3>2, <4>1, SMTT(30)
        <4> QED
          BY <1>4, <4>2
      <3> QED
        BY <1>6, <1>8, <3>1, <3>2
    <2>7. WireOK(after, next, whole, last)
      BY <1>6, <1>8, <1>10, <2>1, <2>2, <2>4, <2>5, <2>6 DEF WireOK
    <2> QED
      BY <1>3, <1>8, <2>7
  <1>11. CASE phase = "ready"
    <2>1. /\ Len(wire) = cursor - commandCursor
          /\ \A i \in 1..Len(wire) : Carries(table, wire[i], commandCursor + i)
      BY <1>11 DEF WireOK
    <2>0. PICK base : base = commandCursor /\ base \in Nat
      OBVIOUS
    <2>2. Len(whole) = last - commandCursor
      <3>1. Len(whole) = Len(wire) + (last - cursor) /\ Len(wire) = cursor - base
        BY <1>4, <1>6, <1>8, <2>0, <2>1
      <3> QED
        BY <1>2, <2>0, <3>1
    <2>3. ASSUME NEW i \in 1..Len(whole)
          PROVE  Carries(after, whole[i], commandCursor + i)
      <3>1. CASE i <= Len(wire)
        <4>1. Carries(table, wire[i], commandCursor + i) /\ whole[i] = wire[i]
          BY <1>6, <1>8, <2>1, <2>3, <3>1
        <4> QED
          BY <1>9, <4>1
      <3>2. CASE i > Len(wire)
        <4>1. PICK j : j = i - Len(wire)
          OBVIOUS
        <4>2. j \in 1..(last - cursor) /\ whole[i] = frames[j] /\ cursor + j = commandCursor + i
          BY <1>2, <1>4, <1>6, <1>8, <2>1, <2>0, <3>2, <4>1
        <4> QED
          BY <1>4, <4>2
      <3> QED
        BY <1>6, <1>8, <3>1, <3>2
    <2>4. WireOK(after, next, whole, last)
      BY <1>6, <1>8, <1>11, <2>2, <2>3 DEF WireOK
    <2> QED
      BY <1>3, <1>8, <2>4
  <1> QED
    BY <1>7, <1>10, <1>11

\* Of the connection that owns the agent, DownOK and WindowOK say that its wire is in order.
LEMMA OwnedWire ==
    ASSUME IInv, current = link, Connected
    PROVE  WireOK(rows, nextCommandSequence, down[link], sendCursor[link])
  <1>1. phase \in {"hello", "ready"} /\ link \in Links /\ current # 0
    BY DEF Connected, IInv, SocketsOK, Links
  <1>2. down[link] \in Seq(HelloAcks \cup Frames)
    BY <1>1 DEF IInv, SocketsOK
  <1>3. Acked \in 0..(nextCommandSequence - 1) /\ sendCursor[link] \in Nat /\ commandCursor \in Nat
    <2>1. nextCommandSequence \in Nat \ {0} /\ TableOK(rows, nextCommandSequence, issued)
      BY DEF IInv, TypeOK, RowsOK
    <2>2. Acked \in 0..(nextCommandSequence - 1)
      BY <2>1, CursorSplits DEF Acked
    <2> QED
      BY <1>1, <2>2 DEF IInv, TypeOK
  <1>4. CASE phase = "hello"
    <2>1. down[link] # <<>> /\ down[link][1].commandSequence = Acked /\ Len(down[link]) = 1 + sendCursor[link] - Acked
      BY <1>1, <1>4 DEF IInv, WindowOK
    <2>2. /\ down[link][1] \in HelloAcks /\ down[link][1].commandSequence \in commandCursor..(nextCommandSequence - 1)
          /\ \A i \in 1..Len(down[link]) : i > 1 =>
               Carries(rows, down[link][i], down[link][1].commandSequence + i - 1)
      BY <1>4, <2>1 DEF IInv, DownOK, Position
    <2>3. Len(down[link]) = sendCursor[link] - down[link][1].commandSequence + 1
      BY <1>3, <2>1
    <2> QED
      BY <1>2, <1>4, <2>1, <2>2, <2>3 DEF WireOK
  <1>5. CASE phase = "ready"
    <2>1. Len(down[link]) = sendCursor[link] - commandCursor
      BY <1>1, <1>5 DEF IInv, WindowOK
    <2>2. \A i \in 1..Len(down[link]) : Carries(rows, down[link][i], commandCursor + i)
      BY <1>5 DEF IInv, DownOK, Position
    <2> QED
      BY <1>2, <1>5, <2>1, <2>2 DEF WireOK
  <1> QED
    BY <1>1, <1>4, <1>5

\* Who owns the agent and what is on its way up, after a step in which connection c has or takes it:
\* the ACKs still to come are those right above the acknowledged rows.
HandedTo(c, table, next, cursor, wire) ==
    /\ current' = c
    /\ server' \in [Links -> {"none", "open", "hello", "closed", "superseded"}]
    /\ \A d \in Links : server'[d] = "none" <=> d > link
    /\ \A d \in Links : server'[d] = "hello" <=> d = c
    /\ \A d \in Links : server'[d] = "open" => server[d] = "open" /\ up'[d] = up[d]
    /\ up' \in [Links -> Seq(Hellos \cup Acks)]
    /\ \A d \in Links : server'[d] \in {"none", "closed", "superseded"} => up'[d] = <<>>
    /\ up'[c] \in Seq(Acks) /\ Len(up'[c]) <= cursor - AckCursor(table, next)
    /\ \A i \in 1..Len(up'[c]) :
         up'[c][i] = [kind |-> "ack", sequence |-> AckCursor(table, next) + i,
                      id |-> table[AckCursor(table, next) + i].id]
    /\ c = link /\ Connected => WireOK(table, next, wire, cursor)
    /\ c = link /\ phase = "hello" => up'[c] = <<>> /\ wire[1].commandSequence = AckCursor(table, next)
    /\ c = link /\ phase = "ready" => commandCursor = AckCursor(table, next) + Len(up'[c])

\* What else such a step may change.
Minting(next, minted) ==
    /\ UNCHANGED <<spool, client, refusal>>
    /\ streamed' = TRUE /\ nextCommandSequence' = next /\ issued' = minted
    /\ minted \in Seq(Kinds \cup {"turn"}) /\ Len(issued) <= Len(minted)
    /\ ran' \in Seq(Nat) /\ Len(ran') = Len(minted)
    /\ deletionCapability' \in BOOLEAN /\ lateHello' \in BOOLEAN
    /\ granted' \in [Links -> SUBSET AllCapabilities]

LEMMA RefillKeeps ==
    ASSUME IInv, NEW c \in Links, NEW table, NEW next \in Nat \ {0}, nextCommandSequence <= next,
           NEW minted, TableOK(table, next, minted),
           \A s \in DOMAIN rows :
             s \in DOMAIN table /\ table[s].id = rows[s].id /\ table[s].command = rows[s].command,
           NEW cursor \in AckCursor(table, next)..(next - 1), NEW wire, NEW last, NEW D,
           Refilled(c, table, next, minted, cursor, wire, last, D),
           HandedTo(c, table, next, cursor, wire), Minting(next, minted)
    PROVE  IInv'
  <1> DEFINE frames == [i \in 1..(last - cursor) |-> CommandFrame(rows', cursor + i)]
  <1>1. PICK a : a = AckCursor(table, next)
    OBVIOUS
  <1>2. /\ a \in 0..(next - 1) /\ last \in cursor..(next - 1) /\ AckCursor(rows', next) = a
        /\ TableOK(rows', next, minted) /\ rows' = Downgrade(table, D)
        /\ sent' = [sent EXCEPT ![c] = (a + 1)..last] /\ sendCursor' = [sendCursor EXCEPT ![c] = last]
        /\ Cardinality((a + 1)..last) <= MaxInFlight
        /\ D \subseteq (cursor + 1)..(next - 1) /\ (\A s \in D : table[s].command # "deletion")
        /\ reopened' = reopened \cup {table[s].id : s \in {r \in D : table[r].command = "resolve"}}
        /\ down' = [down EXCEPT ![c] = IF c = link /\ Connected THEN wire \o frames ELSE @]
    BY <1>1, CursorSplits DEF Refilled
  <1> HIDE DEF frames
  <1>3. a \in Nat /\ cursor \in Nat /\ last \in Nat /\ a <= cursor /\ cursor <= last /\ last <= next - 1
        /\ cursor \in a..(next - 1)
    BY <1>1, <1>2
  <1>4. (a + 1)..(next - 1) \subseteq DOMAIN table /\ DOMAIN table \subseteq 1..(next - 1)
    BY <1>1, CursorSplits DEF TableOK
  <1>5. DOMAIN rows' = DOMAIN table
        /\ \A s \in DOMAIN table : rows'[s].id = table[s].id /\ rows'[s].command = table[s].command
    <2>1. \A s \in D : s \in DOMAIN table => table[s].command # "deletion"
      BY <1>2
    <2>2. /\ DOMAIN Downgrade(table, D) = DOMAIN table
          /\ \A s \in DOMAIN table : Downgrade(table, D)[s].id = table[s].id
                                     /\ Downgrade(table, D)[s].command = table[s].command
      BY <2>1, DowngradeKeeps
    <2> QED
      BY <1>2, <2>2
  <1>6. RowsGrow
    BY <1>5 DEF RowsGrow
  <1>7. nextCommandSequence' = next /\ issued' = minted /\ streamed' = TRUE /\ current' = c
    BY DEF Minting, HandedTo
  <1>8. UNCHANGED <<inbox, commandCursor, link, phase, capabilities, backlog, running, refusal>>
    BY DEF Minting, spool, client
  <1>9. RowsOK'
    BY <1>2, <1>7 DEF RowsOK
  <1>10. InboxOK'
    <2>1. InboxOK /\ PriorCommands <= Len(issued) /\ issued \in Seq(Kinds \cup {"turn"})
      BY DEF IInv, InboxOK, TypeOK
    <2>2. Len(issued) <= Len(issued') /\ issued' \in Seq(Kinds \cup {"turn"}) /\ ran' \in Seq(Nat)
      BY <1>7 DEF Minting
    <2>3. PriorCommands <= Len(issued')
      BY <2>1, <2>2, BoundsAssumption
    <2> QED
      BY <1>6, <1>8, <2>1, <2>2, <2>3, InboxKeeps
  <1>11. BacklogOK'
    BY <1>8, BacklogKeeps DEF IInv, client
  <1>12. TypeOK'
    <2>1. DOMAIN rows' \subseteq 1..(next - 1) /\ rows' \in [DOMAIN rows' -> Row]
      BY <1>2 DEF TableOK
    <2>2. (a + 1)..last \subseteq DOMAIN rows'
      BY <1>3, <1>4, <1>5
    <2>3. sent' \in [Links -> SUBSET DOMAIN rows'] /\ \A d \in Links : Cardinality(sent'[d]) <= MaxInFlight
      <3>1. sent \in [Links -> SUBSET DOMAIN rows] /\ \A d \in Links : Cardinality(sent[d]) <= MaxInFlight
        BY DEF IInv, TypeOK
      <3>2. DOMAIN rows \subseteq DOMAIN rows'
        BY <1>6 DEF RowsGrow
      <3>3. sent \in [Links -> SUBSET DOMAIN rows'] /\ (a + 1)..last \in SUBSET DOMAIN rows'
        BY <2>2, <3>1, <3>2
      <3> QED
        BY <1>2, <3>1, <3>3
    <2>4. sendCursor' \in [Links -> Nat]
      BY <1>2, <1>3 DEF IInv, TypeOK
    <2>5. reopened' \subseteq 1..Len(issued')
      <3>1. reopened \subseteq 1..Len(minted)
        BY DEF IInv, TypeOK, Minting
      <3>2. D \subseteq DOMAIN table
        BY <1>2, <1>3, <1>4
      <3>3. \A s \in DOMAIN table : table[s].id \in 1..Len(minted)
        <4>1. \A s \in DOMAIN table : table[s].id \in (PriorCommands + 1)..Len(minted)
          BY DEF TableOK
        <4> QED
          BY <4>1, BoundsAssumption
      <3> QED
        BY <1>2, <1>7, <3>1, <3>2, <3>3
    <2>6. /\ server' \in [Links -> {"none", "open", "hello", "closed", "superseded"}] /\ current' \in 0..MaxLinks
          /\ deletionCapability' \in BOOLEAN /\ lateHello' \in BOOLEAN
          /\ granted' \in [Links -> SUBSET AllCapabilities]
          /\ issued' \in Seq(Kinds \cup {"turn"}) /\ Len(ran') = Len(issued')
      <3>1. current' \in 0..MaxLinks
        BY <1>7 DEF Links
      <3> QED
        BY <1>7, <3>1 DEF Minting, HandedTo
    <2>7. /\ DOMAIN inbox' \subseteq 1..commandCursor'
          /\ inbox' \in [DOMAIN inbox' -> [id : Nat, command : Kinds \cup {"discard", "turn"}, processed : BOOLEAN]]
          /\ commandCursor' \in Nat
          /\ link' \in 0..MaxLinks /\ phase' \in {"closed", "hello", "ready", "stopped"}
          /\ capabilities' \in SUBSET AllCapabilities
          /\ backlog' \in Seq(DOMAIN inbox') /\ running' \subseteq (DOMAIN inbox') \X Nat
          /\ refusal' \in {"none", "gateway_resume", "plugin_resume", "gap", "conflict"}
      BY <1>8 DEF IInv, TypeOK
    <2> QED
      BY <1>7, <2>1, <2>3, <2>4, <2>5, <2>6, <2>7 DEF TypeOK
  <1>13. down' \in [Links -> Seq(HelloAcks \cup Frames)]
         /\ (\A d \in Links : d # c => down'[d] = down[d])
         /\ (c = link /\ Connected => WireOK(rows', next, down'[c], last))
         /\ (~(c = link /\ Connected) => down' = down)
    <2>1. down \in [Links -> Seq(HelloAcks \cup Frames)]
      BY DEF IInv, SocketsOK
    <2>2. CASE c = link /\ Connected
      <3>1. WireOK(table, next, wire, cursor)
        BY <2>2 DEF HandedTo
      <3>2. commandCursor \in Nat /\ cursor \in AckCursor(rows', next)..(next - 1) /\ last \in cursor..(next - 1)
        BY <1>2, <1>3 DEF IInv, TypeOK
      <3>3. \A s \in DOMAIN table :
              s \in DOMAIN rows' /\ rows'[s].id = table[s].id /\ rows'[s].command = table[s].command
        BY <1>5
      <3>4. TableOK(rows', next, minted)
        BY <1>2
      <3>5. WireOK(rows', next, wire \o frames, last)
        BY <2>2, <3>1, <3>2, <3>3, <3>4, WireGrows DEF frames
      <3>6. wire \o frames \in Seq(HelloAcks \cup Frames)
        BY <3>5 DEF WireOK
      <3>7. down' = [down EXCEPT ![c] = wire \o frames]
        BY <1>2, <2>2
      <3> QED
        BY <2>1, <2>2, <3>5, <3>6, <3>7
    <2>3. CASE ~(c = link /\ Connected)
      BY <1>2, <2>1, <2>3
    <2> QED
      BY <2>2, <2>3
  <1>14. SocketsOK'
    <2>1. \A d \in Links : (d # link \/ ~Connected) => down'[d] = <<>>
      BY <1>13 DEF IInv, SocketsOK
    <2>2. /\ \A d \in Links : server'[d] = "none" <=> d > link
          /\ \A d \in Links : server'[d] = "hello" <=> d = c
          /\ \A d \in Links : server'[d] = "open" => server[d] = "open" /\ up'[d] = up[d]
          /\ up' \in [Links -> Seq(Hellos \cup Acks)]
          /\ \A d \in Links : server'[d] \in {"none", "closed", "superseded"} => up'[d] = <<>>
      BY DEF HandedTo
    <2>3. \A d \in Links : server'[d] = "open" => \E hello \in Hellos : up'[d] = <<hello>>
      BY <2>2 DEF IInv, SocketsOK
    <2>4. Connected => link \in Links
      BY DEF IInv, SocketsOK
    <2>5. Connected /\ server'[link] = "open" =>
            phase = "hello" /\ down'[link] = <<>> /\ up'[link][1].commandSequence = commandCursor
      BY <1>13, <2>2, <2>4 DEF IInv, SocketsOK
    <2>6. Connected' <=> Connected
      BY <1>8 DEF Connected
    <2> QED
      BY <1>7, <1>8, <1>13, <2>1, <2>2, <2>3, <2>4, <2>5, <2>6 DEF SocketsOK
  <1>15. DownOK'
    <2> SUFFICES ASSUME Connected PROVE
          /\ phase = "hello" /\ down'[link] # <<>> =>
               /\ down'[link][1] \in HelloAcks
               /\ down'[link][1].commandSequence \in commandCursor..(next - 1)
          /\ \A i \in 1..Len(down'[link]) : phase = "ready" \/ i > 1 =>
               Carries(rows', down'[link][i],
                       IF phase = "hello" THEN down'[link][1].commandSequence + i - 1 ELSE commandCursor + i)
      BY <1>7, <1>8 DEF DownOK, Connected, Position
    <2>1. CASE c = link
      <3>1. WireOK(rows', next, down'[link], last)
        BY <1>13, <2>1
      <3> QED
        BY <3>1 DEF WireOK
    <2>2. CASE c # link
      <3>1. /\ phase = "hello" /\ down[link] # <<>> =>
                 /\ down[link][1] \in HelloAcks
                 /\ down[link][1].commandSequence \in commandCursor..(nextCommandSequence - 1)
            /\ \A i \in 1..Len(down[link]) : phase = "ready" \/ i > 1 => Carries(rows, down[link][i],
                       IF phase = "hello" THEN down[link][1].commandSequence + i - 1 ELSE commandCursor + i)
        BY DEF IInv, DownOK, Position
      <3>2. commandCursor..(nextCommandSequence - 1) \subseteq commandCursor..(next - 1)
        BY DEF IInv, TypeOK
      <3>3. \A f, s : Carries(rows, f, s) => Carries(rows', f, s)
        BY <1>6, CarriesGrows
      <3>4. down'[link] = down[link]
        BY <1>13, <2>2
      <3> QED
        BY <3>1, <3>2, <3>3, <3>4
    <2> QED
      BY <2>1, <2>2
  <1>16. WindowOK'
    <2>1. Acked' = a /\ sendCursor'[c] = last /\ sent'[c] = (a + 1)..last
      BY <1>2, <1>7 DEF Acked, IInv, TypeOK
    <2>2. /\ up'[c] \in Seq(Acks) /\ Len(up'[c]) <= cursor - a
          /\ \A i \in 1..Len(up'[c]) : up'[c][i] = [kind |-> "ack", sequence |-> a + i, id |-> table[a + i].id]
      BY <1>1 DEF HandedTo
    <2>3. Len(up'[c]) \in Nat /\ Len(up'[c]) <= last - a
      BY <1>3, <2>2
    <2>4. \A i \in 1..Len(up'[c]) : a + i \in DOMAIN table
      BY <1>3, <1>4, <2>2, <2>3
    <2>5. \A i \in 1..Len(up'[c]) : up'[c][i] = [kind |-> "ack", sequence |-> a + i, id |-> rows'[a + i].id]
      BY <1>5, <2>2, <2>4
    <2>6. c = link /\ phase = "hello" => up'[link] = <<>> /\ down'[link] # <<>>
            /\ down'[link][1].commandSequence = a /\ Len(down'[link]) = 1 + last - a
      <3> SUFFICES ASSUME c = link, phase = "hello"
                   PROVE  up'[link] = <<>> /\ down'[link] # <<>>
                          /\ down'[link][1].commandSequence = a /\ Len(down'[link]) = 1 + last - a
        OBVIOUS
      <3>1. Connected
        BY DEF Connected
      <3>2. up'[link] = <<>> /\ wire[1].commandSequence = a /\ WireOK(table, next, wire, cursor)
        BY <1>1, <3>1 DEF HandedTo
      <3>3. WireOK(rows', next, down'[link], last) /\ down' = [down EXCEPT ![c] = wire \o frames]
        BY <1>2, <1>13, <3>1
      <3>4. wire # <<>> /\ wire \in Seq(HelloAcks \cup Frames) /\ down'[link] = wire \o frames
        BY <3>2, <3>3 DEF WireOK, IInv, SocketsOK
      <3>5. frames \in Seq(Frames)
        <4>1. cursor \in AckCursor(rows', next)..(next - 1) /\ last \in cursor..(next - 1)
              /\ AckCursor(rows', next) \in 0..(next - 1) /\ TableOK(rows', next, minted)
          BY <1>2, <1>3
        <4> QED
          BY <4>1, FramesCarry DEF frames
      <3>6. down'[link][1] = wire[1]
        BY <3>4, <3>5
      <3>7. down'[link] # <<>> /\ Len(down'[link]) = last - down'[link][1].commandSequence + 1
        BY <3>3 DEF WireOK
      <3> QED
        BY <1>3, <3>2, <3>6, <3>7
    <2>7. c = link /\ phase = "ready" => commandCursor = a + Len(up'[link]) /\ Len(down'[link]) = last - commandCursor
      <3> SUFFICES ASSUME c = link, phase = "ready"
                   PROVE  commandCursor = a + Len(up'[link]) /\ Len(down'[link]) = last - commandCursor
        OBVIOUS
      <3>1. WireOK(rows', next, down'[link], last)
        BY <1>13 DEF Connected
      <3>2. commandCursor = a + Len(up'[link])
        BY <1>1 DEF HandedTo
      <3> QED
        BY <3>1, <3>2 DEF WireOK
    <2>8. last \in a..(next - 1)
      BY <1>3
    <2> QED
      BY <1>7, <1>8, <2>1, <2>2, <2>3, <2>5, <2>6, <2>7, <2>8 DEF WindowOK
  <1>17. NoGapLoop'
    BY <1>8 DEF IInv, NoGapLoop
  <1> QED
    BY <1>9, <1>10, <1>11, <1>12, <1>14, <1>15, <1>16, <1>17 DEF IInv

----------------------------------------------------------------------------
(* The gateway's steps                                                     *)

LEMMA OutboxFacts ==
    ASSUME IInv
    PROVE  /\ nextCommandSequence \in Nat \ {0} /\ TableOK(rows, nextCommandSequence, issued)
           /\ Acked \in 0..(nextCommandSequence - 1)
           /\ \A s \in DOMAIN rows : rows[s].acked <=> s <= Acked
           /\ (Acked + 1)..(nextCommandSequence - 1) \subseteq DOMAIN rows
           /\ DOMAIN rows \subseteq 1..(nextCommandSequence - 1)
           /\ issued \in Seq(Kinds \cup {"turn"}) /\ PriorCommands <= Len(issued)
           /\ ran \in Seq(Nat) /\ Len(ran) = Len(issued)
           /\ commandCursor \in Nat
  <1>1. nextCommandSequence \in Nat \ {0} /\ TableOK(rows, nextCommandSequence, issued)
    BY DEF IInv, TypeOK, RowsOK
  <1>2. /\ Acked \in 0..(nextCommandSequence - 1)
        /\ \A s \in DOMAIN rows : rows[s].acked <=> s <= Acked
        /\ (Acked + 1)..(nextCommandSequence - 1) \subseteq DOMAIN rows
    BY <1>1, CursorSplits DEF Acked
  <1>3. DOMAIN rows \subseteq 1..(nextCommandSequence - 1) /\ issued \in Seq(Kinds \cup {"turn"})
        /\ PriorCommands <= Len(issued) /\ ran \in Seq(Nat) /\ Len(ran) = Len(issued) /\ commandCursor \in Nat
    BY DEF IInv, TypeOK, InboxOK
  <1> QED
    BY <1>1, <1>2, <1>3

\* A step that changes rows and nothing on the sockets.
LEMMA RowsStep ==
    ASSUME IInv, RowsGrow, UNCHANGED <<spool, client, up, down, ingress, refusal, reopened, lateHello>>,
           TableOK(rows', nextCommandSequence', issued'),
           nextCommandSequence' \in Nat \ {0}, nextCommandSequence <= nextCommandSequence',
           streamed' = TRUE \/ UNCHANGED <<rows, streamed, nextCommandSequence>>,
           current # 0 => Acked' = Acked,
           issued' \in Seq(Kinds \cup {"turn"}), Len(issued) <= Len(issued'), ran' \in Seq(Nat),
           Len(ran') = Len(issued'), deletionCapability' \in BOOLEAN, streamed' \in BOOLEAN
    PROVE  IInv'
  <1>1. UNCHANGED <<inbox, commandCursor, link, phase, capabilities, backlog, running, up, down, server, granted,
                    current, sent, sendCursor, refusal, reopened, lateHello>>
    BY DEF spool, client, ingress
  <1>2. RowsOK'
    BY <1>1 DEF RowsOK, IInv
  <1>3. InboxOK'
    <2>1. PriorCommands <= Len(issued')
      <3>1. PriorCommands <= Len(issued) /\ Len(issued) \in Nat /\ Len(issued') \in Nat /\ Len(issued) <= Len(issued')
        BY OutboxFacts
      <3> QED
        BY <3>1, BoundsAssumption
    <2> QED
      BY <1>1, <2>1, InboxKeeps DEF IInv
  <1>4. BacklogOK' /\ SocketsOK'
    BY <1>1 DEF IInv, BacklogOK, SocketsOK, Connected
  <1>5. TypeOK'
    <2>1. DOMAIN rows' \subseteq 1..(nextCommandSequence' - 1) /\ rows' \in [DOMAIN rows' -> Row]
      BY DEF TableOK
    <2>2. sent' \in [Links -> SUBSET DOMAIN rows'] /\ \A d \in Links : Cardinality(sent'[d]) <= MaxInFlight
      <3>1. sent \in [Links -> SUBSET DOMAIN rows] /\ \A d \in Links : Cardinality(sent[d]) <= MaxInFlight
        BY DEF IInv, TypeOK
      <3>2. DOMAIN rows \subseteq DOMAIN rows'
        BY DEF RowsGrow
      <3> QED
        BY <1>1, <3>1, <3>2
    <2>3. reopened' \subseteq 1..Len(issued')
      BY <1>1, OutboxFacts DEF IInv, TypeOK
    <2>4. /\ lateHello' \in BOOLEAN /\ DOMAIN inbox' \subseteq 1..commandCursor'
          /\ inbox' \in [DOMAIN inbox' -> [id : Nat, command : Kinds \cup {"discard", "turn"}, processed : BOOLEAN]]
          /\ commandCursor' \in Nat
          /\ link' \in 0..MaxLinks /\ phase' \in {"closed", "hello", "ready", "stopped"}
          /\ capabilities' \in SUBSET AllCapabilities
          /\ backlog' \in Seq(DOMAIN inbox') /\ running' \subseteq (DOMAIN inbox') \X Nat
          /\ server' \in [Links -> {"none", "open", "hello", "closed", "superseded"}]
          /\ granted' \in [Links -> SUBSET AllCapabilities] /\ current' \in 0..MaxLinks
          /\ sendCursor' \in [Links -> Nat]
          /\ refusal' \in {"none", "gateway_resume", "plugin_resume", "gap", "conflict"}
      BY <1>1 DEF IInv, TypeOK
    <2> QED
      BY <2>1, <2>2, <2>3, <2>4 DEF TypeOK
  <1>6. DownOK'
    <2>1. commandCursor..(nextCommandSequence - 1) \subseteq commandCursor..(nextCommandSequence' - 1)
      BY OutboxFacts
    <2>2. \A f, s : Carries(rows, f, s) => Carries(rows', f, s)
      BY CarriesGrows
    <2> QED
      BY <1>1, <2>1, <2>2 DEF IInv, DownOK, Connected, Position
  <1>7. WindowOK'
    <2> SUFFICES ASSUME current # 0 PROVE WindowOK'
      BY <1>1 DEF WindowOK
    <2>1. Acked' = Acked /\ current \in Links
      BY DEF IInv, SocketsOK
    <2>2. sendCursor[current] \in Acked..(nextCommandSequence - 1) /\ sent[current] = (Acked + 1)..sendCursor[current]
          /\ up[current] \in Seq(Acks) /\ Len(up[current]) <= sendCursor[current] - Acked
      BY DEF IInv, WindowOK
    <2>3. sendCursor[current] \in Acked..(nextCommandSequence' - 1)
      BY <2>2, OutboxFacts
    <2>4. \A i \in 1..Len(up[current]) : Acked + i \in DOMAIN rows
      <3>1. PICK a, b : a = Acked /\ b = sendCursor[current]
        OBVIOUS
      <3>2. a \in Nat /\ nextCommandSequence \in Nat /\ (a + 1)..(nextCommandSequence - 1) \subseteq DOMAIN rows
        BY <3>1, OutboxFacts
      <3>3. b \in a..(nextCommandSequence - 1) /\ Len(up[current]) <= b - a /\ Len(up[current]) \in Nat
        BY <2>2, <3>1
      <3>4. \A i \in 1..Len(up[current]) : a + i \in (a + 1)..(nextCommandSequence - 1)
        BY <3>2, <3>3
      <3> QED
        BY <3>1, <3>2, <3>4
    <2>5. \A i \in 1..Len(up[current]) :
            up[current][i] = [kind |-> "ack", sequence |-> Acked + i, id |-> rows'[Acked + i].id]
      BY <2>4 DEF IInv, WindowOK, RowsGrow
    <2> HIDE DEF Acked
    <2> QED
      BY <1>1, <2>1, <2>2, <2>3, <2>5 DEF IInv, WindowOK
  <1>8. NoGapLoop'
    BY <1>1 DEF IInv, NoGapLoop
  <1> QED
    BY <1>2, <1>3, <1>4, <1>5, <1>6, <1>7, <1>8 DEF IInv

\* The owner's window is open at its lower end, and the owner keeps the agent when rows are added.
LEMMA CurrentKeeps ==
    ASSUME IInv, current # 0, UNCHANGED <<up, server, current>>, NEW table, NEW next \in Nat \ {0},
           nextCommandSequence <= next, AckCursor(table, next) = Acked,
           \A s \in DOMAIN rows :
             s \in DOMAIN table /\ table[s].id = rows[s].id /\ table[s].command = rows[s].command
    PROVE  /\ HandedTo(current, table, next, sendCursor[current], down[current])
           /\ sendCursor[current] \in Acked..(next - 1)
           /\ sent[current] = (Acked + 1)..sendCursor[current]
           /\ sendCursor[current] - Acked <= MaxInFlight
  <1>1. current \in Links
    BY DEF IInv, SocketsOK
  <1>2. PICK a, b : a = Acked /\ b = sendCursor[current]
    OBVIOUS
  <1>3. /\ b \in a..(nextCommandSequence - 1) /\ sent[current] = (a + 1)..b
        /\ up[current] \in Seq(Acks) /\ Len(up[current]) <= b - a
        /\ \A i \in 1..Len(up[current]) : up[current][i] = [kind |-> "ack", sequence |-> a + i, id |-> rows[a + i].id]
    BY <1>2 DEF IInv, WindowOK
  <1>4. a \in 0..(nextCommandSequence - 1) /\ (a + 1)..(nextCommandSequence - 1) \subseteq DOMAIN rows
        /\ nextCommandSequence \in Nat \ {0}
    BY <1>2, OutboxFacts
  <1>5. a \in Nat /\ b \in Nat /\ a <= b /\ b \in a..(next - 1)
    BY <1>3, <1>4
  <1>6. b - a <= MaxInFlight
    <2>1. Cardinality((a + 1)..b) = b - a
      BY <1>5, AscendingInterval
    <2>2. Cardinality(sent[current]) <= MaxInFlight
      BY <1>1 DEF IInv, TypeOK
    <2> QED
      BY <1>3, <2>1, <2>2
  <1>7. \A i \in 1..Len(up[current]) : a + i \in DOMAIN rows
    BY <1>3, <1>4, <1>5
  <1>8. \A i \in 1..Len(up[current]) : up[current][i] = [kind |-> "ack", sequence |-> a + i, id |-> table[a + i].id]
    BY <1>3, <1>7
  <1>9. current = link /\ Connected => WireOK(table, next, down[current], b)
    <2> SUFFICES ASSUME current = link, Connected PROVE WireOK(table, next, down[current], b)
      OBVIOUS
    <2>1. WireOK(rows, nextCommandSequence, down[current], b)
      BY <1>2, OwnedWire
    <2>2. \A f, s : Carries(rows, f, s) => Carries(table, f, s)
      BY DEF Carries
    <2>3. commandCursor..(nextCommandSequence - 1) \subseteq commandCursor..(next - 1)
      BY <1>4, OutboxFacts
    <2> QED
      BY <2>1, <2>2, <2>3 DEF WireOK
  <1>10. current = link /\ phase = "hello" => up[current] = <<>> /\ down[current][1].commandSequence = a
    BY <1>1, <1>2 DEF IInv, WindowOK
  <1>11. current = link /\ phase = "ready" => commandCursor = a + Len(up[current])
    BY <1>1, <1>2 DEF IInv, WindowOK
  <1>12. /\ server \in [Links -> {"none", "open", "hello", "closed", "superseded"}]
         /\ \A d \in Links : server[d] = "none" <=> d > link
         /\ \A d \in Links : server[d] = "hello" <=> d = current
         /\ up \in [Links -> Seq(Hellos \cup Acks)]
         /\ \A d \in Links : server[d] \in {"none", "closed", "superseded"} => up[d] = <<>>
    BY DEF IInv, TypeOK, SocketsOK
  <1>13. HandedTo(current, table, next, b, down[current])
    BY <1>2, <1>3, <1>8, <1>9, <1>10, <1>11, <1>12 DEF HandedTo
  <1> QED
    BY <1>2, <1>3, <1>5, <1>6, <1>13

LEMMA QueuedKeeps ==
    ASSUME IInv, NEW command \in Kinds
    PROVE  /\ TableOK(Queued(command), nextCommandSequence + 1, Append(issued, command))
           /\ AckCursor(Queued(command), nextCommandSequence + 1) = Acked
           /\ \A s \in DOMAIN rows : /\ s \in DOMAIN Queued(command) /\ Queued(command)[s].id = rows[s].id
                                     /\ Queued(command)[s].command = rows[s].command
  <1> DEFINE grown == Queued(command)
             ids == Append(issued, command)
             tail == nextCommandSequence
             row == [id |-> Len(issued) + 1, command |-> command, acked |-> FALSE, cancelled |-> FALSE]
  <1>1. /\ tail \in Nat \ {0} /\ TableOK(rows, tail, issued) /\ DOMAIN rows \subseteq 1..(tail - 1)
        /\ Acked \in 0..(tail - 1) /\ (\A s \in DOMAIN rows : rows[s].acked <=> s <= Acked)
        /\ (Acked + 1)..(tail - 1) \subseteq DOMAIN rows
        /\ issued \in Seq(Kinds \cup {"turn"}) /\ PriorCommands <= Len(issued) /\ PriorCommands \in Nat
    BY OutboxFacts, BoundsAssumption
  <1>2. /\ ids \in Seq(Kinds \cup {"turn"}) /\ Len(ids) = Len(issued) + 1 /\ Len(issued) \in Nat
        /\ ids[Len(issued) + 1] = command /\ \A i \in 1..Len(issued) : ids[i] = issued[i]
    BY <1>1
  <1>3. DOMAIN grown = DOMAIN rows \cup {tail} /\ tail \notin DOMAIN rows
    BY <1>1 DEF Queued
  <1>4. grown[tail] = row /\ (\A s \in DOMAIN rows : grown[s] = rows[s]) /\ row \in Row
    BY <1>1, <1>2, <1>3 DEF Queued, Row
  <1>5. grown \in [DOMAIN grown -> Row]
    <2>1. \A s \in DOMAIN rows : rows[s] \in Row
      BY <1>1 DEF TableOK
    <2>2. grown = [s \in DOMAIN grown |-> grown[s]]
      BY DEF Queued
    <2> HIDE DEF grown, row
    <2>3. \A s \in DOMAIN grown : grown[s] \in Row
      BY <1>3, <1>4, <2>1
    <2> QED
      BY <2>2, <2>3
  <1> HIDE DEF grown, ids
  <1>6. row.id = Len(issued) + 1 /\ row.command = command /\ row.acked = FALSE /\ row.cancelled = FALSE
    OBVIOUS
  <1> HIDE DEF row, tail
  <1>7. DOMAIN grown \subseteq 1..tail
    BY <1>1, <1>3
  <1>8. \A s \in DOMAIN grown : \A r \in s..tail : r \in DOMAIN grown
    <2> SUFFICES ASSUME NEW s \in DOMAIN grown, NEW r \in s..tail PROVE r \in DOMAIN grown
      OBVIOUS
    <2>1. CASE r = tail
      BY <1>3, <2>1
    <2>2. CASE r # tail
      <3>1. s \in DOMAIN rows /\ r \in s..(tail - 1)
        BY <1>1, <1>3, <1>7, <2>2
      <3>2. r \in DOMAIN rows
        BY <1>1, <3>1 DEF TableOK
      <3> QED
        BY <1>3, <3>2
    <2> QED
      BY <2>1, <2>2
  <1>9. \A s, r \in DOMAIN grown : s < r /\ grown[r].acked => grown[s].acked
    <2> SUFFICES ASSUME NEW s \in DOMAIN grown, NEW r \in DOMAIN grown, s < r, grown[r].acked PROVE grown[s].acked
      OBVIOUS
    <2>1. r \in DOMAIN rows
      BY <1>3, <1>4, <1>6
    <2>2. s \in DOMAIN rows
      BY <1>1, <1>3, <2>1
    <2> QED
      BY <1>1, <1>4, <2>1, <2>2 DEF TableOK
  <1>10. ASSUME NEW s \in DOMAIN grown
         PROVE  /\ grown[s].id \in (PriorCommands + 1)..Len(ids) /\ grown[s].command = ids[grown[s].id]
                /\ grown[s].command = "deletion" => ~grown[s].cancelled
    <2>1. CASE s = tail
      BY <1>1, <1>2, <1>4, <1>6, <2>1
    <2>2. CASE s \in DOMAIN rows
      <3>1. /\ rows[s].id \in (PriorCommands + 1)..Len(issued) /\ rows[s].command = issued[rows[s].id]
            /\ rows[s].command = "deletion" => ~rows[s].cancelled
        BY <1>1, <2>2 DEF TableOK
      <3>2. rows[s].id \in 1..Len(issued)
        BY <1>1, <1>2, <3>1
      <3> QED
        BY <1>1, <1>2, <1>4, <2>2, <3>1, <3>2
    <2> QED
      BY <1>3, <2>1, <2>2
  <1>11. \A s, r \in DOMAIN grown : grown[s].id = grown[r].id => s = r
    <2>1. \A s \in DOMAIN rows : rows[s].id # Len(issued) + 1
      BY <1>1, <1>2 DEF TableOK
    <2>2. \A s, r \in DOMAIN rows : rows[s].id = rows[r].id => s = r
      BY <1>1 DEF TableOK
    <2> QED
      BY <1>3, <1>4, <1>6, <2>1, <2>2
  <1>12. TableOK(grown, tail + 1, ids)
    <2>1. \A s \in DOMAIN grown :
            /\ grown[s].id \in (PriorCommands + 1)..Len(ids) /\ grown[s].command = ids[grown[s].id]
            /\ grown[s].command = "deletion" => ~grown[s].cancelled
      BY <1>10
    <2>2. PICK n : n = tail + 1
      OBVIOUS
    <2>3. n - 1 = tail
      BY <1>1, <2>2
    <2>4. TableOK(grown, n, ids)
      BY <1>5, <1>7, <1>8, <1>9, <1>11, <2>1, <2>3 DEF TableOK
    <2> QED
      BY <2>2, <2>4
  <1>13. AckCursor(grown, tail + 1) = Acked
    <2>0. PICK n : n = tail + 1
      OBVIOUS
    <2>1. Acked \in 0..(n - 1) /\ n \in Nat \ {0}
      BY <1>1, <2>0
    <2>2. \A s \in DOMAIN grown : grown[s].acked <=> s <= Acked
      BY <1>1, <1>3, <1>4, <1>6
    <2>3. (Acked + 1)..(n - 1) \subseteq DOMAIN grown
      BY <1>1, <1>3, <2>0
    <2> HIDE DEF Acked
    <2>4. TableOK(grown, n, ids)
      BY <1>12, <2>0
    <2>5. Acked = AckCursor(grown, n)
      BY <2>1, <2>2, <2>3, <2>4, CursorSplits
    <2> QED
      BY <2>0, <2>5
  <1> QED
    BY <1>3, <1>4, <1>12, <1>13 DEF grown, ids, tail

\* What a flush leaves of each row.
LEMMA RefillEffect ==
    ASSUME NEW c, NEW table, NEW next \in Nat \ {0}, NEW minted, NEW cursor, NEW wire, NEW last, NEW D,
           TableOK(table, next, minted), Refilled(c, table, next, minted, cursor, wire, last, D)
    PROVE  /\ DOMAIN rows' = DOMAIN table /\ AckCursor(rows', next) = AckCursor(table, next)
           /\ \A s \in DOMAIN table : rows'[s].id = table[s].id /\ rows'[s].command = table[s].command
  <1>1. rows' = Downgrade(table, D) /\ \A s \in D : s \in DOMAIN table => table[s].command # "deletion"
    BY DEF Refilled
  <1> QED
    BY <1>1, DowngradeKeeps

LEMMA RefillDiscards ==
    ASSUME NEW c, NEW table, NEW next \in Nat \ {0}, NEW minted, NEW cursor, NEW wire, NEW last, NEW D,
           TableOK(table, next, minted), Refilled(c, table, next, minted, cursor, wire, last, D)
    PROVE  \A s \in DOMAIN table : /\ rows'[s].acked = table[s].acked
                                  /\ rows'[s].cancelled = (s \in D \/ table[s].cancelled)
  <1>1. rows' = Downgrade(table, D) /\ \A s \in D : s \in DOMAIN table => table[s].command # "deletion"
    BY DEF Refilled
  <1> QED
    BY <1>1, DowngradeKeeps

LEMMA EnqueueRefills ==
    ASSUME IInv, NEW command \in Kinds, Enqueue(command), current # 0
    PROVE  \E last, D : Refilled(current, Queued(command), nextCommandSequence + 1, Append(issued, command),
                                sendCursor[current], down[current], last, D)
  <1>1. PICK table, next, minted : table = Queued(command) /\ next = nextCommandSequence + 1
                                   /\ minted = Append(issued, command)
    OBVIOUS
  <1>2. /\ TableOK(table, next, minted) /\ AckCursor(table, next) = Acked
        /\ \A s \in DOMAIN rows : /\ s \in DOMAIN table /\ table[s].id = rows[s].id
                                  /\ table[s].command = rows[s].command
    BY <1>1, QueuedKeeps
  <1>3. next \in Nat \ {0} /\ nextCommandSequence <= next
    BY <1>1, OutboxFacts
  <1>4. Flush(current, table, granted[current], sent[current], sendCursor[current], down[current])
    BY <1>1 DEF Enqueue, FlushCurrent
  <1>5. /\ sendCursor[current] \in AckCursor(table, next)..(next - 1)
        /\ sent[current] = (AckCursor(table, next) + 1)..sendCursor[current]
        /\ sendCursor[current] - AckCursor(table, next) <= MaxInFlight
    <2>1. UNCHANGED <<up, server, current>>
      BY DEF Enqueue
    <2> QED
      BY <1>2, <1>3, <2>1, CurrentKeeps
  <1> QED
    BY <1>1, <1>2, <1>3, <1>4, <1>5, FlushRefills

LEMMA EnqueueKeeps ==
    ASSUME IInv, NEW command \in Kinds, Enqueue(command)
    PROVE  IInv'
  <1>1. /\ streamed' = TRUE /\ nextCommandSequence' = nextCommandSequence + 1
        /\ issued' = Append(issued, command) /\ ran' = Append(ran, 0)
        /\ UNCHANGED <<deletionCapability, spool, client, up, server, granted, current, refusal, lateHello>>
    BY DEF Enqueue
  <1>2. PICK table, next, minted : table = Queued(command) /\ next = nextCommandSequence + 1
                                   /\ minted = Append(issued, command)
    OBVIOUS
  <1>3. /\ TableOK(table, next, minted) /\ AckCursor(table, next) = Acked
        /\ \A s \in DOMAIN rows : /\ s \in DOMAIN table /\ table[s].id = rows[s].id
                                  /\ table[s].command = rows[s].command
    BY <1>2, QueuedKeeps
  <1>4. next \in Nat \ {0} /\ nextCommandSequence <= next /\ minted \in Seq(Kinds \cup {"turn"})
        /\ Len(minted) = Len(issued) + 1 /\ Len(issued) \in Nat /\ ran' \in Seq(Nat) /\ Len(ran') = Len(minted)
    BY <1>1, <1>2, OutboxFacts
  <1>5. CASE current # 0
    <2>2. /\ HandedTo(current, table, next, sendCursor[current], down[current])
          /\ sendCursor[current] \in AckCursor(table, next)..(next - 1)
      <3>1. UNCHANGED <<up, server, current>>
        BY <1>1
      <3> QED
        BY <1>3, <1>4, <1>5, <3>1, CurrentKeeps
    <2>3. PICK last, D : Refilled(current, table, next, minted, sendCursor[current], down[current], last, D)
      BY <1>2, <1>5, EnqueueRefills
    <2>4. Minting(next, minted)
      BY <1>1, <1>2, <1>4 DEF Minting, IInv, TypeOK
    <2>5. current \in Links
      BY <1>5 DEF IInv, SocketsOK
    <2> QED
      BY <1>3, <1>4, <2>2, <2>3, <2>4, <2>5, RefillKeeps
  <1>6. CASE current = 0
    <2>1. rows' = table /\ UNCHANGED <<reopened, sent, sendCursor, down>>
      BY <1>2, <1>6 DEF Enqueue, FlushCurrent
    <2>2. RowsGrow
      BY <1>3, <2>1 DEF RowsGrow
    <2>3. TableOK(rows', nextCommandSequence', issued')
      BY <1>1, <1>2, <1>3, <2>1
    <2>4. UNCHANGED ingress /\ deletionCapability' \in BOOLEAN
      BY <1>1, <2>1 DEF ingress, IInv, TypeOK
    <2> QED
      BY <1>1, <1>2, <1>4, <1>6, <2>1, <2>2, <2>3, <2>4, RowsStep
  <1> QED
    BY <1>5, <1>6

LEMMA FlushQueuedRefills ==
    ASSUME IInv, FlushQueued
    PROVE  \E last, D : Refilled(current, rows, nextCommandSequence, issued, sendCursor[current], down[current],
                                last, D)
  <1>1. current # 0 /\ UNCHANGED <<up, server, current>>
    BY DEF FlushQueued
  <1>2. Flush(current, rows, granted[current], sent[current], sendCursor[current], down[current])
    BY <1>1 DEF FlushQueued, FlushCurrent
  <1>3. PICK next : next = nextCommandSequence
    OBVIOUS
  <1>4. TableOK(rows, next, issued) /\ AckCursor(rows, next) = Acked /\ next \in Nat \ {0}
        /\ nextCommandSequence <= next
    BY <1>3, OutboxFacts DEF Acked
  <1>5. /\ sendCursor[current] \in AckCursor(rows, next)..(next - 1)
        /\ sent[current] = (AckCursor(rows, next) + 1)..sendCursor[current]
        /\ sendCursor[current] - AckCursor(rows, next) <= MaxInFlight
    BY <1>1, <1>4, CurrentKeeps
  <1> QED
    BY <1>2, <1>3, <1>4, <1>5, FlushRefills

LEMMA FlushQueuedKeeps ==
    ASSUME IInv, FlushQueued
    PROVE  IInv'
  <1>1. /\ current # 0
        /\ UNCHANGED <<streamed, nextCommandSequence, deletionCapability, spool, client, up, server, granted,
                       current, issued, ran, refusal, lateHello>>
    BY DEF FlushQueued
  <1>3. PICK next : next = nextCommandSequence
    OBVIOUS
  <1>4. TableOK(rows, next, issued) /\ AckCursor(rows, next) = Acked /\ next \in Nat \ {0}
        /\ nextCommandSequence <= next
    BY <1>3, OutboxFacts DEF Acked
  <1>5. UNCHANGED <<up, server, current>>
    BY <1>1
  <1>6. /\ HandedTo(current, rows, next, sendCursor[current], down[current])
        /\ sendCursor[current] \in AckCursor(rows, next)..(next - 1)
    BY <1>1, <1>4, <1>5, CurrentKeeps
  <1>7. PICK last, D : Refilled(current, rows, next, issued, sendCursor[current], down[current], last, D)
    BY <1>3, FlushQueuedRefills
  <1>8. current \in Links /\ streamed
    BY <1>1 DEF IInv, SocketsOK, RowsOK
  <1>9. Minting(next, issued)
    <2>1. streamed = TRUE
      BY <1>8 DEF IInv, TypeOK
    <2> QED
      BY <1>1, <1>3, <2>1, OutboxFacts DEF Minting, IInv, TypeOK
  <1> QED
    BY <1>4, <1>6, <1>7, <1>8, <1>9, RefillKeeps

LEMMA CancelKeeps ==
    ASSUME IInv, NEW s \in DOMAIN rows, Cancel(s)
    PROVE  IInv'
  <1>1. /\ rows[s].command = "turn" /\ rows' = [rows EXCEPT ![s].cancelled = TRUE]
        /\ UNCHANGED <<streamed, nextCommandSequence, deletionCapability, spool, client, up, down, ingress, issued,
                       ran, reopened, refusal, lateHello>>
    BY DEF Cancel
  <1>2. PICK D : D = {s}
    OBVIOUS
  <1>3. rows' = Downgrade(rows, D)
    BY <1>1, <1>2 DEF Downgrade
  <1>4. \A r \in D : r \in DOMAIN rows => rows[r].command # "deletion"
    BY <1>1, <1>2
  <1>5. nextCommandSequence \in Nat \ {0} /\ TableOK(rows, nextCommandSequence, issued)
    BY OutboxFacts
  <1>6. /\ TableOK(rows', nextCommandSequence, issued)
        /\ AckCursor(rows', nextCommandSequence) = AckCursor(rows, nextCommandSequence)
        /\ \A r \in DOMAIN rows : r \in DOMAIN rows' /\ rows'[r].id = rows[r].id /\ rows'[r].command = rows[r].command
    BY <1>3, <1>4, <1>5, DowngradeKeeps
  <1>7. RowsGrow /\ Acked' = Acked
    BY <1>1, <1>6 DEF RowsGrow, Acked
  <1>8. streamed = TRUE
    <2>1. rows # [r \in {} |-> 0]
      OBVIOUS
    <2> QED
      BY <2>1 DEF IInv, RowsOK, TypeOK
  <1>9. deletionCapability \in BOOLEAN
    BY DEF IInv, TypeOK
  <1> HIDE DEF Acked
  <1>10. UNCHANGED <<spool, client, up, down, ingress, refusal, reopened, lateHello>>
    BY <1>1
  <1>11. /\ TableOK(rows', nextCommandSequence', issued')
         /\ nextCommandSequence' \in Nat \ {0} /\ nextCommandSequence <= nextCommandSequence'
         /\ streamed' = TRUE /\ issued' \in Seq(Kinds \cup {"turn"}) /\ Len(issued) <= Len(issued') /\ ran' \in Seq(Nat)
         /\ Len(ran') = Len(issued') /\ deletionCapability' \in BOOLEAN
    BY <1>1, <1>5, <1>6, <1>8, <1>9, OutboxFacts
  <1> QED
    BY <1>7, <1>10, <1>11, RowsStep

\* Acknowledging rows up to b, which lets the acknowledged prefix grow to b.
LEMMA AckKeeps ==
    ASSUME NEW table, NEW after, NEW next \in Nat \ {0}, NEW minted, TableOK(table, next, minted), NEW b \in 0..(next - 1),
           DOMAIN after = DOMAIN table, after = [s \in DOMAIN after |-> after[s]],
           \A s \in DOMAIN table :
             /\ after[s] \in Row /\ after[s].id = table[s].id /\ after[s].command = table[s].command
             /\ after[s].cancelled = table[s].cancelled /\ (after[s].acked <=> (table[s].acked \/ s <= b))
    PROVE  /\ TableOK(after, next, minted)
           /\ AckCursor(table, next) <= b => AckCursor(after, next) = b
           /\ b <= AckCursor(after, next)
           /\ \A s \in DOMAIN table : after[s].id = table[s].id /\ after[s].command = table[s].command
  <1>1. DOMAIN table \subseteq 1..(next - 1)
    BY DEF TableOK
  <1>2. \A s \in DOMAIN table :
          /\ after[s].id = table[s].id /\ after[s].command = table[s].command
          /\ after[s].cancelled = table[s].cancelled
          /\ after[s].acked <=> (table[s].acked \/ s <= b)
    OBVIOUS
  <1>3. \A s \in DOMAIN table : after[s] \in Row
    OBVIOUS
  <1>4. after \in [DOMAIN after -> Row]
    BY <1>3
  <1>5. \A s, r \in DOMAIN after : s < r /\ after[r].acked => after[s].acked
    <2> SUFFICES ASSUME NEW s \in DOMAIN table, NEW r \in DOMAIN table, s < r, after[r].acked
                 PROVE  after[s].acked
      OBVIOUS
    <2>1. CASE r <= b
      <3>1. s <= b
        BY <1>1, <2>1
      <3> QED
        BY <1>2, <3>1
    <2>2. CASE ~(r <= b)
      <3>1. table[r].acked
        BY <1>2, <2>2
      <3>2. table[s].acked
        BY <3>1 DEF TableOK
      <3> QED
        BY <1>2, <3>2
    <2> QED
      BY <2>1, <2>2
  <1>6. TableOK(after, next, minted)
    BY <1>1, <1>2, <1>4, <1>5 DEF TableOK
  <1>7. PICK a, d : a = AckCursor(table, next) /\ d = AckCursor(after, next)
    OBVIOUS
  <1>8. a \in 0..(next - 1) /\ (\A s \in DOMAIN table : table[s].acked <=> s <= a)
        /\ (a + 1)..(next - 1) \subseteq DOMAIN table
    BY <1>7, CursorSplits
  <1>9. d \in 0..(next - 1) /\ (\A s \in DOMAIN after : after[s].acked <=> s <= d)
        /\ (d + 1)..(next - 1) \subseteq DOMAIN after
    BY <1>6, <1>7, CursorSplits
  <1>10. ASSUME a <= b PROVE d = b
    <2>1. \A s \in DOMAIN after : after[s].acked <=> s <= b
      BY <1>1, <1>2, <1>8, <1>10
    <2>2. (b + 1)..(next - 1) \subseteq DOMAIN after
      BY <1>8, <1>10
    <2> QED
      BY <1>6, <1>7, <2>1, <2>2, CursorSplits
  <1>11. b <= d
    <2> SUFFICES ASSUME d < b PROVE FALSE
      BY <1>9
    <2>1. b \in (d + 1)..(next - 1) /\ b <= b
      BY <1>9
    <2>2. b \in DOMAIN after
      BY <1>9, <2>1
    <2>3. after[b].acked
      BY <1>2, <2>1, <2>2
    <2> QED
      BY <1>9, <2>2, <2>3
  <1> QED
    BY <1>2, <1>6, <1>7, <1>10, <1>11

Retire(s) == [rows EXCEPT ![s].acked = TRUE]

\* The ACK read is of the row right above the acknowledged ones; the window refills from there.
LEMMA ReceiveAckRefills ==
    ASSUME IInv, NEW c \in Links, ReceiveAck(c), NEW table, table = Retire(Acked + 1)
    PROVE  /\ Acked + 1 \in DOMAIN rows /\ DOMAIN table = DOMAIN rows
           /\ TableOK(table, nextCommandSequence, issued) /\ AckCursor(table, nextCommandSequence) = Acked + 1
           /\ \A s \in DOMAIN rows :
                /\ table[s].id = rows[s].id /\ table[s].command = rows[s].command
                /\ table[s].cancelled = rows[s].cancelled
           /\ sendCursor[c] \in (Acked + 1)..(nextCommandSequence - 1)
           /\ \E last, D : Refilled(c, table, nextCommandSequence, issued, sendCursor[c], down[c], last, D)
  <1>1. /\ c = current /\ up[c] # <<>> /\ current # 0 /\ up' = [up EXCEPT ![c] = Tail(@)]
        /\ UNCHANGED <<streamed, nextCommandSequence, deletionCapability, spool, client, server, granted, current,
                       issued, ran, refusal, lateHello>>
    BY DEF ReceiveAck, Arrives, Links
  <1>2. PICK a, b, next : a = Acked /\ b = sendCursor[c] /\ next = nextCommandSequence
    OBVIOUS
  <1>3. /\ b \in a..(next - 1) /\ sent[c] = (a + 1)..b
        /\ up[c] \in Seq(Acks) /\ Len(up[c]) <= b - a
        /\ \A i \in 1..Len(up[c]) : up[c][i] = [kind |-> "ack", sequence |-> a + i, id |-> rows[a + i].id]
    BY <1>1, <1>2 DEF IInv, WindowOK
  <1>4. /\ next \in Nat \ {0} /\ TableOK(rows, next, issued) /\ a \in 0..(next - 1)
        /\ (\A s \in DOMAIN rows : rows[s].acked <=> s <= a) /\ (a + 1)..(next - 1) \subseteq DOMAIN rows
        /\ DOMAIN rows \subseteq 1..(next - 1)
    BY <1>2, OutboxFacts
  <1>5. Len(up[c]) \in Nat \ {0} /\ a \in Nat /\ b \in Nat /\ a < b
    BY <1>1, <1>3, <1>4
  <1>6. Head(up[c]) = [kind |-> "ack", sequence |-> a + 1, id |-> rows[a + 1].id]
    <2>1. 1 \in 1..Len(up[c]) /\ Head(up[c]) = up[c][1]
      BY <1>1, <1>3, <1>5
    <2> QED
      BY <1>3, <2>1
  <1>7. a + 1 \in DOMAIN rows /\ a + 1 \in sent[c]
    BY <1>3, <1>4, <1>5
  <1>8. table = [rows EXCEPT ![a + 1].acked = TRUE]
    BY <1>2 DEF Retire
  <1>9. Flush(c, table, granted[c], sent[c] \ {a + 1}, b, down[c])
    <2>1. PICK ack : ack = Head(up[c])
      OBVIOUS
    <2>2. ack.sequence = a + 1 /\ ack.id = rows[a + 1].id
      BY <1>6, <2>1
    <2>3. ack.sequence \in sent[c] \cap DOMAIN rows /\ rows[ack.sequence].id = ack.id
      BY <1>7, <2>2
    <2>4. Flush(c, [rows EXCEPT ![ack.sequence].acked = TRUE], granted[c], sent[c] \ {ack.sequence},
                sendCursor[c], down[c])
      BY <2>1, <2>3 DEF ReceiveAck
    <2> QED
      BY <1>2, <1>8, <2>2, <2>4
  <1>10. /\ TableOK(table, next, issued) /\ AckCursor(table, next) = a + 1
         /\ \A s \in DOMAIN rows : /\ s \in DOMAIN table /\ table[s].id = rows[s].id
                                   /\ table[s].command = rows[s].command
                                   /\ table[s].cancelled = rows[s].cancelled
    <2>1. DOMAIN table = DOMAIN rows /\ table = [s \in DOMAIN table |-> table[s]]
      BY <1>8
    <2>2. \A s \in DOMAIN rows :
            /\ table[s] \in Row /\ table[s].id = rows[s].id /\ table[s].command = rows[s].command
            /\ table[s].cancelled = rows[s].cancelled /\ (table[s].acked <=> (rows[s].acked \/ s <= a + 1))
      <3> SUFFICES ASSUME NEW s \in DOMAIN rows
                   PROVE  /\ table[s] \in Row /\ table[s].id = rows[s].id /\ table[s].command = rows[s].command
                          /\ table[s].cancelled = rows[s].cancelled
                          /\ (table[s].acked <=> (rows[s].acked \/ s <= a + 1))
        OBVIOUS
      <3>1. rows[s] \in Row /\ s \in Nat
        BY <1>4 DEF TableOK
      <3>2. CASE s = a + 1
        <4>1. table[s] = [rows[s] EXCEPT !.acked = TRUE]
          BY <1>8, <3>2
        <4>2. s <= a + 1
          BY <1>5, <3>2
        <4> QED
          BY <3>1, <4>1, <4>2 DEF Row
      <3>3. CASE s # a + 1
        <4>1. table[s] = rows[s]
          BY <1>8, <3>3
        <4>2. rows[s].acked <=> (rows[s].acked \/ s <= a + 1)
          BY <1>4, <1>5, <3>1, <3>3
        <4> QED
          BY <3>1, <4>1, <4>2
      <3> QED
        BY <3>2, <3>3
    <2>3. a + 1 \in 0..(next - 1) /\ AckCursor(rows, next) <= a + 1
      <3>1. AckCursor(rows, next) = a
        BY <1>2 DEF Acked
      <3> QED
        BY <1>3, <1>4, <1>5, <3>1
    <2>4. PICK d : d = a + 1
      OBVIOUS
    <2>5. /\ TableOK(table, next, issued) /\ AckCursor(table, next) = d
          /\ \A s \in DOMAIN rows : table[s].id = rows[s].id /\ table[s].command = rows[s].command
      BY <1>4, <2>1, <2>2, <2>3, <2>4, AckKeeps, SMTT(30)
    <2> QED
      BY <2>1, <2>2, <2>4, <2>5
  <1>11. b \in (a + 1)..(next - 1) /\ b - (a + 1) <= MaxInFlight /\ sent[c] \ {a + 1} = (a + 1 + 1)..b
    <2>1. Cardinality((a + 1)..b) = b - a
      BY <1>5, AscendingInterval
    <2>2. Cardinality(sent[c]) <= MaxInFlight
      BY DEF IInv, TypeOK
    <2>3. b - a <= MaxInFlight
      BY <1>3, <2>1, <2>2
    <2> QED
      BY <1>3, <1>5, <2>3, BoundsAssumption, SMTT(30)
  <1>12. PICK last, D : Refilled(c, table, next, issued, b, down[c], last, D)
    <2>1. Flush(c, table, granted[c], (AckCursor(table, next) + 1)..b, b, down[c])
      BY <1>9, <1>10, <1>11
    <2>2. b \in AckCursor(table, next)..(next - 1) /\ b - AckCursor(table, next) <= MaxInFlight
      BY <1>10, <1>11
    <2> QED
      BY <1>4, <1>10, <2>1, <2>2, FlushRefills
  <1>13. DOMAIN table = DOMAIN rows
    BY <1>8
  <1>14. b \in (Acked + 1)..(nextCommandSequence - 1)
    BY <1>2, <1>11
  <1> QED
    BY <1>2, <1>7, <1>10, <1>12, <1>13, <1>14

LEMMA ReceiveAckKeeps ==
    ASSUME IInv, NEW c \in Links, ReceiveAck(c)
    PROVE  IInv'
  <1>1. /\ c = current /\ up[c] # <<>> /\ current # 0 /\ up' = [up EXCEPT ![c] = Tail(@)]
        /\ UNCHANGED <<streamed, nextCommandSequence, deletionCapability, spool, client, server, granted, current,
                       issued, ran, refusal, lateHello>>
    BY DEF ReceiveAck, Arrives, Links
  <1>2. PICK a, b, next : a = Acked /\ b = sendCursor[c] /\ next = nextCommandSequence
    OBVIOUS
  <1>3. /\ b \in a..(next - 1) /\ sent[c] = (a + 1)..b
        /\ up[c] \in Seq(Acks) /\ Len(up[c]) <= b - a
        /\ \A i \in 1..Len(up[c]) : up[c][i] = [kind |-> "ack", sequence |-> a + i, id |-> rows[a + i].id]
    BY <1>1, <1>2 DEF IInv, WindowOK
  <1>4. /\ next \in Nat \ {0} /\ TableOK(rows, next, issued) /\ a \in 0..(next - 1)
        /\ (\A s \in DOMAIN rows : rows[s].acked <=> s <= a) /\ (a + 1)..(next - 1) \subseteq DOMAIN rows
        /\ DOMAIN rows \subseteq 1..(next - 1)
    BY <1>2, OutboxFacts
  <1>5. Len(up[c]) \in Nat \ {0} /\ a \in Nat /\ b \in Nat /\ a < b
    BY <1>1, <1>3, <1>4
  <1>8. PICK table : table = Retire(Acked + 1)
    OBVIOUS
  <1>10. /\ TableOK(table, next, issued) /\ AckCursor(table, next) = a + 1
         /\ \A s \in DOMAIN rows : /\ s \in DOMAIN table /\ table[s].id = rows[s].id
                                   /\ table[s].command = rows[s].command
    BY <1>2, <1>8, ReceiveAckRefills
  <1>11. b \in (a + 1)..(next - 1)
    BY <1>2, <1>8, ReceiveAckRefills
  <1>12. PICK last, D : Refilled(c, table, next, issued, b, down[c], last, D)
    BY <1>2, <1>8, ReceiveAckRefills
  <1>13. up'[c] = Tail(up[c]) /\ (\A d \in Links : d # c => up'[d] = up[d]) /\ up' \in [Links -> Seq(Hellos \cup Acks)]
         /\ Tail(up[c]) \in Seq(Acks) /\ Len(Tail(up[c])) = Len(up[c]) - 1
         /\ \A i \in 1..Len(Tail(up[c])) : Tail(up[c])[i] = up[c][i + 1]
    <2>1. up \in [Links -> Seq(Hellos \cup Acks)]
      BY DEF IInv, SocketsOK
    <2>2. /\ Tail(up[c]) \in Seq(Acks) /\ Len(Tail(up[c])) = Len(up[c]) - 1
          /\ \A i \in 1..Len(Tail(up[c])) : Tail(up[c])[i] = up[c][i + 1]
      BY <1>1, <1>3
    <2>3. Tail(up[c]) \in Seq(Hellos \cup Acks)
      BY <2>2
    <2> QED
      BY <1>1, <2>1, <2>2, <2>3
  <1>14. HandedTo(c, table, next, b, down[c])
    <2>1. /\ current' = c /\ server' = server
          /\ server \in [Links -> {"none", "open", "hello", "closed", "superseded"}]
          /\ \A d \in Links : server[d] = "none" <=> d > link
          /\ \A d \in Links : server[d] = "hello" <=> d = c
          /\ \A d \in Links : server[d] \in {"none", "closed", "superseded"} => up[d] = <<>>
      BY <1>1 DEF IInv, TypeOK, SocketsOK
    <2>2. \A d \in Links : d # c => up'[d] = up[d]
      BY <1>13
    <2>3. \A d \in Links : server'[d] \in {"none", "closed", "superseded"} => up'[d] = <<>>
      BY <2>1, <2>2
    <2>4. \A d \in Links : server'[d] = "open" => server[d] = "open" /\ up'[d] = up[d]
      BY <2>1, <2>2
    <2>5. Len(up'[c]) <= b - (a + 1) /\ up'[c] \in Seq(Acks)
      BY <1>3, <1>5, <1>13
    <2>6. \A i \in 1..Len(up'[c]) :
            up'[c][i] = [kind |-> "ack", sequence |-> a + 1 + i, id |-> table[a + 1 + i].id]
      <3> SUFFICES ASSUME NEW i \in 1..Len(up'[c])
                   PROVE  up'[c][i] = [kind |-> "ack", sequence |-> a + 1 + i, id |-> table[a + 1 + i].id]
        OBVIOUS
      <3>1. i + 1 \in 1..Len(up[c]) /\ up'[c][i] = up[c][i + 1] /\ a + (i + 1) = a + 1 + i
        BY <1>5, <1>13, SMTT(30)
      <3>2. a + 1 + i \in DOMAIN rows
        BY <1>3, <1>4, <1>5, <3>1
      <3>3. up[c][i + 1] = [kind |-> "ack", sequence |-> a + (i + 1), id |-> rows[a + (i + 1)].id]
        BY <1>3, <3>1
      <3> QED
        BY <1>10, <3>1, <3>2, <3>3
    <2>7. c = link /\ Connected => WireOK(table, next, down[c], b)
      <3> SUFFICES ASSUME c = link, Connected PROVE WireOK(table, next, down[c], b)
        OBVIOUS
      <3>1. WireOK(rows, next, down[c], b)
        BY <1>1, <1>2, OwnedWire
      <3>2. \A f, s : Carries(rows, f, s) => Carries(table, f, s)
        BY <1>10 DEF Carries
      <3> QED
        BY <3>1, <3>2 DEF WireOK
    <2>8. ~(c = link /\ phase = "hello")
      BY <1>1 DEF IInv, WindowOK
    <2>9. c = link /\ phase = "ready" => commandCursor = a + 1 + Len(up'[c])
      <3> SUFFICES ASSUME c = link, phase = "ready" PROVE commandCursor = a + 1 + Len(up'[c])
        OBVIOUS
      <3>1. commandCursor = a + Len(up[c])
        BY <1>1, <1>2 DEF IInv, WindowOK
      <3>2. Len(up'[c]) = Len(up[c]) - 1
        BY <1>13
      <3>3. PICK n, m : n = Len(up[c]) /\ m = Len(up'[c])
        OBVIOUS
      <3>4. n \in Nat /\ m = n - 1 /\ commandCursor = a + n
        BY <1>5, <3>1, <3>2, <3>3
      <3>5. commandCursor = a + 1 + m
        BY <1>5, <3>4
      <3> QED
        BY <3>3, <3>5
    <2> QED
      BY <1>10, <1>13, <2>1, <2>3, <2>4, <2>5, <2>6, <2>7, <2>8, <2>9 DEF HandedTo
  <1>15. Minting(next, issued)
    <2>1. streamed = TRUE
      BY <1>1 DEF IInv, TypeOK, RowsOK
    <2> QED
      BY <1>1, <1>2, <2>1, OutboxFacts DEF Minting, IInv, TypeOK
  <1>16. nextCommandSequence <= next /\ b \in AckCursor(table, next)..(next - 1)
    BY <1>2, <1>4, <1>10, <1>11
  <1> QED
    BY <1>4, <1>10, <1>12, <1>14, <1>15, <1>16, RefillKeeps

\* What a hello is read with: the numbering it is held against, and the rows it acknowledges.
HelloNext(c) == IF streamed THEN nextCommandSequence ELSE up[c][1].commandSequence + 1
HelloTable(c) == Reconcile(rows, up[c][1].commandSequence)

LEMMA HelloReconciles ==
    ASSUME IInv, NEW c \in Links, Hello(c)
    PROVE  /\ server[c] = "open" /\ up[c] = <<up[c][1]>> /\ up[c][1] \in Hellos
           /\ HelloNext(c) \in Nat \ {0} /\ nextCommandSequence <= HelloNext(c)
           /\ up[c][1].commandSequence \in 0..(HelloNext(c) - 1)
           /\ TableOK(rows, HelloNext(c), issued) /\ TableOK(HelloTable(c), HelloNext(c), issued)
           /\ up[c][1].commandSequence <= AckCursor(HelloTable(c), HelloNext(c))
           /\ AckCursor(HelloTable(c), HelloNext(c)) \in 0..(HelloNext(c) - 1)
           /\ \A s \in DOMAIN rows : /\ s \in DOMAIN HelloTable(c) /\ HelloTable(c)[s].id = rows[s].id
                                     /\ HelloTable(c)[s].command = rows[s].command
                                     /\ HelloTable(c)[s].cancelled = rows[s].cancelled
                                     /\ HelloTable(c)[s].acked
                                        <=> (rows[s].acked \/ s <= up[c][1].commandSequence)
           /\ DOMAIN HelloTable(c) = DOMAIN rows
           /\ streamed' = TRUE /\ nextCommandSequence' = HelloNext(c) /\ current' = c /\ server' = Supersede(c)
           /\ deletionCapability' = ("session_deletion" \in up[c][1].capabilities)
           /\ granted' = [granted EXCEPT ![c] = up[c][1].capabilities]
           /\ up' = [d \in Links |-> CASE d = c -> Tail(up[c]) [] d = current -> <<>> [] OTHER -> up[d]]
           /\ Flush(c, HelloTable(c), up[c][1].capabilities, {}, AckCursor(HelloTable(c), HelloNext(c)),
                    Append(down[c], [kind |-> "hello_ack",
                                     commandSequence |-> AckCursor(HelloTable(c), HelloNext(c)),
                                     capabilities |-> up[c][1].capabilities]))
  <1>1. server[c] = "open"
    BY DEF Hello
  <1>2. PICK hello \in Hellos : up[c] = <<hello>>
    BY <1>1 DEF IInv, SocketsOK
  <1>3. up[c] = <<up[c][1]>> /\ up[c][1] \in Hellos /\ up[c][1] = hello /\ Head(up[c]) = hello
    BY <1>2
  <1>4. PICK resume, next, table : resume = hello.commandSequence /\ next = HelloNext(c) /\ table = HelloTable(c)
    OBVIOUS
  <1>5. resume \in Nat
    BY <1>4 DEF Hellos
  <1>6. next = (IF streamed THEN nextCommandSequence ELSE resume + 1) /\ table = Reconcile(rows, resume)
    BY <1>3, <1>4 DEF HelloNext, HelloTable
  <1>7. resume < next /\ streamed' = TRUE /\ nextCommandSequence' = next /\ server' = Supersede(c) /\ current' = c
        /\ deletionCapability' = ("session_deletion" \in hello.capabilities)
        /\ granted' = [granted EXCEPT ![c] = hello.capabilities]
        /\ up' = [d \in Links |-> CASE d = c -> Tail(up[c]) [] d = current -> <<>> [] OTHER -> up[d]]
        /\ Flush(c, table, hello.capabilities, {}, AckCursor(table, next),
                 Append(down[c], [kind |-> "hello_ack", commandSequence |-> AckCursor(table, next),
                                  capabilities |-> hello.capabilities]))
    BY <1>3, <1>4, <1>6 DEF Hello
  <1>8. nextCommandSequence \in Nat \ {0} /\ TableOK(rows, nextCommandSequence, issued)
    BY OutboxFacts
  <1>9. next \in Nat \ {0} /\ nextCommandSequence <= next /\ TableOK(rows, next, issued)
    <2>1. CASE streamed
      BY <1>6, <1>8, <2>1
    <2>2. CASE ~streamed
      <3>1. DOMAIN rows = {} /\ nextCommandSequence = 1
        BY <2>2 DEF IInv, RowsOK
      <3>2. next = resume + 1
        BY <1>6, <2>2
      <3>3. TableOK(rows, next, issued)
        BY <1>8, <3>1 DEF TableOK
      <3> QED
        BY <1>5, <3>1, <3>2, <3>3
    <2> QED
      BY <2>1, <2>2
  <1>10. resume \in 0..(next - 1)
    BY <1>5, <1>7, <1>9
  <1>11. DOMAIN table = DOMAIN rows /\ table = [s \in DOMAIN table |-> table[s]]
    BY <1>6 DEF Reconcile
  <1>12. \A s \in DOMAIN rows :
           /\ table[s] \in Row /\ table[s].id = rows[s].id /\ table[s].command = rows[s].command
           /\ table[s].cancelled = rows[s].cancelled /\ (table[s].acked <=> (rows[s].acked \/ s <= resume))
    <2> SUFFICES ASSUME NEW s \in DOMAIN rows
                 PROVE  /\ table[s] \in Row /\ table[s].id = rows[s].id /\ table[s].command = rows[s].command
                        /\ table[s].cancelled = rows[s].cancelled
                        /\ (table[s].acked <=> (rows[s].acked \/ s <= resume))
      OBVIOUS
    <2>1. rows[s] \in Row
      BY <1>8 DEF TableOK
    <2>2. CASE s <= resume
      <3>1. table[s] = [rows[s] EXCEPT !.acked = TRUE]
        BY <1>6, <2>2 DEF Reconcile
      <3> QED
        BY <2>1, <2>2, <3>1 DEF Row
    <2>3. CASE ~(s <= resume)
      <3>1. table[s] = rows[s]
        BY <1>6, <2>3 DEF Reconcile
      <3> QED
        BY <2>1, <2>3, <3>1
    <2> QED
      BY <2>2, <2>3
  <1>13. TableOK(table, next, issued) /\ resume <= AckCursor(table, next)
    BY <1>9, <1>10, <1>11, <1>12, AckKeeps
  <1>14. AckCursor(table, next) \in 0..(next - 1)
    BY <1>9, <1>13, CursorSplits
  <1> QED
    BY <1>1, <1>3, <1>4, <1>7, <1>9, <1>10, <1>11, <1>12, <1>13, <1>14

\* A hello turns the window into what follows the acknowledged rows, behind the hello_ack.
LEMMA HelloRefills ==
    ASSUME IInv, NEW c \in Links, Hello(c),
           NEW a, a = AckCursor(HelloTable(c), HelloNext(c)),
           NEW wire, wire = Append(down[c], [kind |-> "hello_ack", commandSequence |-> a,
                                             capabilities |-> up[c][1].capabilities])
    PROVE  \E last, D : Refilled(c, HelloTable(c), HelloNext(c), issued, a, wire, last, D)
  <1>1. PICK next, table, hello : next = HelloNext(c) /\ table = HelloTable(c) /\ hello = up[c][1]
    OBVIOUS
  <1>2. next \in Nat \ {0} /\ TableOK(table, next, issued) /\ a = AckCursor(table, next) /\ a \in 0..(next - 1)
    BY <1>1, HelloReconciles
  <1>3. a \in AckCursor(table, next)..(next - 1) /\ a - AckCursor(table, next) <= MaxInFlight
        /\ (AckCursor(table, next) + 1)..a = {}
    BY <1>2, BoundsAssumption, SMTT(30)
  <1>4. Flush(c, table, hello.capabilities, (AckCursor(table, next) + 1)..a, a, wire)
    BY <1>1, <1>3, HelloReconciles
  <1> QED
    BY <1>1, <1>2, <1>3, <1>4, FlushRefills

LEMMA HelloKeeps ==
    ASSUME IInv, NEW c \in Links, Hello(c)
    PROVE  IInv'
  <1>1. PICK next, table, hello, a : next = HelloNext(c) /\ table = HelloTable(c) /\ hello = up[c][1]
                                     /\ a = AckCursor(table, next)
    OBVIOUS
  <1>2. PICK ack : ack = [kind |-> "hello_ack", commandSequence |-> a, capabilities |-> hello.capabilities]
    OBVIOUS
  <1>3. PICK wire : wire = Append(down[c], ack)
    OBVIOUS
  <1>4. /\ server[c] = "open" /\ up[c] = <<hello>> /\ hello \in Hellos
        /\ next \in Nat \ {0} /\ nextCommandSequence <= next /\ hello.commandSequence \in 0..(next - 1)
        /\ TableOK(table, next, issued) /\ hello.commandSequence <= a /\ a \in 0..(next - 1)
        /\ \A s \in DOMAIN rows : /\ s \in DOMAIN table /\ table[s].id = rows[s].id
                                  /\ table[s].command = rows[s].command
    BY <1>1, HelloReconciles
  <1>5. /\ streamed' = TRUE /\ nextCommandSequence' = next /\ current' = c /\ server' = Supersede(c)
        /\ deletionCapability' = ("session_deletion" \in hello.capabilities)
        /\ granted' = [granted EXCEPT ![c] = hello.capabilities]
        /\ up' = [d \in Links |-> CASE d = c -> Tail(up[c]) [] d = current -> <<>> [] OTHER -> up[d]]
    BY <1>1, HelloReconciles
  <1>6. /\ UNCHANGED <<spool, client, issued, ran, refusal>>
        /\ lateHello' = (lateHello \/ Outdated(c))
    BY DEF Hello
  <1>7. a \in AckCursor(table, next)..(next - 1)
    BY <1>1, <1>4
  <1>8. PICK last, D : Refilled(c, table, next, issued, a, wire, last, D)
    BY <1>1, <1>2, <1>3, HelloRefills
  <1>9. c # current /\ c <= link
    BY <1>4, SMTT(30) DEF IInv, SocketsOK, TypeOK, Links
  <1>10. /\ server' \in [Links -> {"none", "open", "hello", "closed", "superseded"}]
         /\ \A d \in Links : server'[d] = "none" <=> d > link
         /\ \A d \in Links : server'[d] = "hello" <=> d = c
         /\ \A d \in Links : server'[d] = "open" => server[d] = "open" /\ d # c /\ d # current
         /\ \A d \in Links : server'[d] \in {"none", "closed", "superseded"} =>
              d = current \/ server[d] \in {"none", "closed", "superseded"}
    <2>1. server \in [Links -> {"none", "open", "hello", "closed", "superseded"}]
          /\ (\A d \in Links : server[d] = "none" <=> d > link)
          /\ (\A d \in Links : server[d] = "hello" <=> d = current)
      BY DEF IInv, TypeOK, SocketsOK
    <2>2. \A d \in Links : server'[d] = (IF d = c THEN "hello" ELSE IF d = current THEN "superseded" ELSE server[d])
      BY <1>5, <1>9 DEF Supersede
    <2>3. server' \in [Links -> {"none", "open", "hello", "closed", "superseded"}]
      <3>1. server' = [d \in Links |-> server'[d]]
        BY <1>5 DEF Supersede
      <3> QED
        BY <2>1, <2>2, <3>1
    <2>4. \A d \in Links : server'[d] = "none" <=> d > link
      BY <1>4, <1>9, <2>1, <2>2
    <2> QED
      BY <1>9, <2>1, <2>2, <2>3, <2>4
  <1>11. /\ up'[c] = <<>> /\ (current \in Links => up'[current] = <<>>)
         /\ (\A d \in Links : d # c /\ d # current => up'[d] = up[d])
         /\ up' \in [Links -> Seq(Hellos \cup Acks)]
    <2>1. up \in [Links -> Seq(Hellos \cup Acks)]
      BY DEF IInv, SocketsOK
    <2>2. Tail(up[c]) = <<>>
      BY <1>4
    <2>3. \A d \in Links : up'[d] = (IF d = c \/ d = current THEN <<>> ELSE up[d])
      BY <1>5, <1>9, <2>2
    <2>4. up' \in [Links -> Seq(Hellos \cup Acks)]
      <3>1. up' = [d \in Links |-> up'[d]]
        BY <1>5
      <3>2. <<>> \in Seq(Hellos \cup Acks)
        OBVIOUS
      <3>3. \A d \in Links : up'[d] \in Seq(Hellos \cup Acks)
        BY <2>1, <2>3, <3>2
      <3> QED
        BY <3>1, <3>3, Zenon
    <2> QED
      BY <2>3, <2>4
  <1>12. HandedTo(c, table, next, a, wire)
    <2>1. \A d \in Links : server'[d] = "open" => server[d] = "open" /\ up'[d] = up[d]
      BY <1>10, <1>11
    <2>2. \A d \in Links : server'[d] \in {"none", "closed", "superseded"} => up'[d] = <<>>
      <3> SUFFICES ASSUME NEW d \in Links, server'[d] \in {"none", "closed", "superseded"} PROVE up'[d] = <<>>
        OBVIOUS
      <3>1. CASE d = current
        BY <1>11, <3>1
      <3>2. CASE d # current
        <4>1. server[d] \in {"none", "closed", "superseded"} /\ d # c
          BY <1>10, <3>2
        <4>2. up[d] = <<>>
          BY <4>1 DEF IInv, SocketsOK
        <4> QED
          BY <1>11, <3>2, <4>1, <4>2
      <3> QED
        BY <3>1, <3>2
    <2>3. up'[c] \in Seq(Acks) /\ Len(up'[c]) = 0 /\ 1..Len(up'[c]) = {}
      BY <1>11
    <2>4. Len(up'[c]) <= a - AckCursor(table, next)
      BY <1>1, <1>4, <2>3
    <2>5. c = link /\ Connected => phase = "hello" /\ WireOK(table, next, wire, a)
                                   /\ wire[1].commandSequence = AckCursor(table, next)
      <3> SUFFICES ASSUME c = link, Connected
                   PROVE  phase = "hello" /\ WireOK(table, next, wire, a)
                          /\ wire[1].commandSequence = AckCursor(table, next)
        OBVIOUS
      <3>1. phase = "hello" /\ down[link] = <<>> /\ hello.commandSequence = commandCursor
        BY <1>1, <1>4 DEF IInv, SocketsOK
      <3>2. ack \in HelloAcks /\ ack.commandSequence = a
        BY <1>2, <1>4 DEF HelloAcks, Hellos
      <3>3. wire = <<ack>> /\ wire[1] = ack /\ Len(wire) = 1 /\ wire # <<>> /\ wire \in Seq(HelloAcks \cup Frames)
        BY <1>3, <3>1, <3>2
      <3>4. a \in commandCursor..(next - 1)
        BY <1>4, <3>1
      <3>5. Len(wire) = a - a + 1
        BY <1>4, <3>3
      <3>6. WireOK(table, next, wire, a)
        BY <3>1, <3>2, <3>3, <3>4, <3>5 DEF WireOK
      <3> QED
        BY <1>1, <3>1, <3>2, <3>3, <3>6
    <2>6. Connected <=> phase \in {"hello", "ready"}
      BY DEF Connected
    <2> QED
      BY <1>5, <1>10, <1>11, <2>1, <2>2, <2>3, <2>4, <2>5, <2>6 DEF HandedTo
  <1>13. Minting(next, issued)
    <2>1. hello.capabilities \in SUBSET AllCapabilities
      BY <1>4 DEF Hellos
    <2>2. granted' \in [Links -> SUBSET AllCapabilities]
      BY <1>5, <2>1 DEF IInv, TypeOK
    <2>3. lateHello' \in BOOLEAN /\ deletionCapability' \in BOOLEAN
      BY <1>5, <1>6
    <2> QED
      BY <1>5, <1>6, <2>2, <2>3, OutboxFacts DEF Minting
  <1> QED
    BY <1>4, <1>7, <1>8, <1>12, <1>13, RefillKeeps

----------------------------------------------------------------------------
(* Connections that end                                                    *)

\* A step that only takes connections away.
LEMMA CloseStep ==
    ASSUME IInv, UNCHANGED <<outbox, spool, client, down, granted, sent, sendCursor, issued, ran, reopened, lateHello>>,
           server' \in [Links -> {"none", "open", "hello", "closed", "superseded"}],
           \A d \in Links : server'[d] = "none" <=> d > link,
           \A d \in Links : server'[d] = "hello" <=> d = current',
           \A d \in Links : server'[d] = "open" => server[d] = "open" /\ up'[d] = up[d],
           up' \in [Links -> Seq(Hellos \cup Acks)],
           \A d \in Links : server'[d] \in {"none", "closed", "superseded"} => up'[d] = <<>>,
           current' = 0 \/ (current' = current /\ up'[current] = up[current]),
           refusal' \in {refusal, "gateway_resume"}
    PROVE  IInv'
  <1>1. UNCHANGED <<rows, streamed, nextCommandSequence, deletionCapability, inbox, commandCursor, link, phase,
                    capabilities, backlog, running, down, granted, sent, sendCursor, issued, ran, reopened, lateHello>>
    BY DEF outbox, spool, client
  <1>2. current' # 0 => current' \in Links /\ current # 0
    BY DEF IInv, SocketsOK
  <1>3. TypeOK'
    <2>1. current' \in 0..MaxLinks
      <3>1. MaxLinks \in Nat /\ current \in 0..MaxLinks
        BY BoundsAssumption DEF IInv, TypeOK
      <3>2. CASE current' = 0
        BY <3>1, <3>2
      <3> QED
        BY <3>1, <3>2
    <2>2. refusal' \in {"none", "gateway_resume", "plugin_resume", "gap", "conflict"}
      BY DEF IInv, TypeOK
    <2> QED
      BY <1>1, <2>1, <2>2 DEF IInv, TypeOK
  <1>4. RowsOK' /\ InboxOK' /\ BacklogOK'
    BY <1>1, <1>2 DEF IInv, RowsOK, InboxOK, BacklogOK, Connected
  <1>5. SocketsOK'
    <2>1. Connected' <=> Connected
      BY <1>1 DEF Connected
    <2>2. \A d \in Links : server'[d] = "open" => \E hello \in Hellos : up'[d] = <<hello>>
      BY DEF IInv, SocketsOK
    <2>3. Connected /\ server'[link] = "open" =>
            phase = "hello" /\ down[link] = <<>> /\ up'[link][1].commandSequence = commandCursor
      BY DEF IInv, SocketsOK
    <2>4. /\ down \in [Links -> Seq(HelloAcks \cup Frames)]
          /\ \A d \in Links : (d # link \/ ~Connected) => down[d] = <<>>
          /\ Connected => link \in Links
      BY DEF IInv, SocketsOK
    <2> QED
      BY <1>1, <1>2, <2>1, <2>2, <2>3, <2>4 DEF SocketsOK
  <1>6. DownOK'
    BY <1>1 DEF IInv, DownOK, Connected, Position
  <1>7. WindowOK'
    <2>1. Acked' = Acked
      BY <1>1 DEF Acked
    <2>2. CASE current' = 0
      BY <2>2 DEF WindowOK
    <2>3. CASE current' # 0
      <3>1. current' = current /\ up'[current] = up[current]
        BY <2>3
      <3> HIDE DEF Acked
      <3> QED
        BY <1>1, <2>1, <2>3, <3>1 DEF IInv, WindowOK
    <2> QED
      BY <2>2, <2>3
  <1>8. NoGapLoop'
    BY DEF IInv, NoGapLoop
  <1> QED
    BY <1>3, <1>4, <1>5, <1>6, <1>7, <1>8 DEF IInv

LEMMA CloseKeeps ==
    ASSUME IInv, NEW C \in SUBSET Open, Close(C)
    PROVE  IInv'
  <1>1. /\ server' = [c \in Links |-> IF c \in C THEN "closed" ELSE server[c]]
        /\ up' = [c \in Links |-> IF c \in C THEN <<>> ELSE up[c]]
        /\ current' = IF current \in C THEN 0 ELSE current
        /\ UNCHANGED <<outbox, spool, client, down, granted, sent, sendCursor, issued, ran, reopened, lateHello>>
        /\ refusal' \in {refusal, "gateway_resume"}
    BY DEF Close, history
  <1>2. /\ server \in [Links -> {"none", "open", "hello", "closed", "superseded"}]
        /\ up \in [Links -> Seq(Hellos \cup Acks)]
        /\ (\A d \in Links : server[d] = "none" <=> d > link)
        /\ (\A d \in Links : server[d] = "hello" <=> d = current)
        /\ (current # 0 => current \in Links)
        /\ (\A d \in Links : server[d] \in {"none", "closed", "superseded"} => up[d] = <<>>)
    BY DEF IInv, TypeOK, SocketsOK
  <1>3. \A d \in C : d \in Links /\ server[d] \in {"open", "hello"}
    BY DEF Open
  <1>4. server' \in [Links -> {"none", "open", "hello", "closed", "superseded"}]
    BY <1>1, <1>2
  <1>5. up' \in [Links -> Seq(Hellos \cup Acks)]
    <2>1. <<>> \in Seq(Hellos \cup Acks)
      OBVIOUS
    <2>2. \A d \in Links : up'[d] \in Seq(Hellos \cup Acks)
      BY <1>1, <1>2, <2>1
    <2>3. up' = [d \in Links |-> up'[d]]
      BY <1>1
    <2> QED
      BY <2>2, <2>3, Zenon
  <1>6. \A d \in Links : server'[d] = "none" <=> d > link
    BY <1>1, <1>2, <1>3
  <1>7. \A d \in Links : server'[d] = "hello" <=> d = current'
    <2> SUFFICES ASSUME NEW d \in Links PROVE server'[d] = "hello" <=> d = current'
      OBVIOUS
    <2>1. d # 0
      BY DEF Links
    <2> QED
      BY <1>1, <1>2, <2>1
  <1>8. /\ \A d \in Links : server'[d] = "open" => server[d] = "open" /\ up'[d] = up[d]
        /\ \A d \in Links : server'[d] \in {"none", "closed", "superseded"} => up'[d] = <<>>
        /\ current' = 0 \/ (current' = current /\ up'[current] = up[current])
    BY <1>1, <1>2
  <1> QED
    BY <1>1, <1>4, <1>5, <1>6, <1>7, <1>8, CloseStep

LEMMA RefuseHelloKeeps ==
    ASSUME IInv, NEW c \in Links, RefuseHello(c)
    PROVE  IInv'
  <1>1. /\ server[c] = "open" /\ server' = [Supersede(c) EXCEPT ![c] = "closed"]
        /\ up' = [d \in Links |-> IF d \in {c, current} THEN <<>> ELSE up[d]]
        /\ current' = 0
        /\ UNCHANGED <<outbox, spool, client, down, granted, sent, sendCursor, issued, ran, reopened, lateHello>>
        /\ refusal' \in {refusal, "gateway_resume"}
    BY DEF RefuseHello, Refuse
  <1>2. /\ server \in [Links -> {"none", "open", "hello", "closed", "superseded"}]
        /\ up \in [Links -> Seq(Hellos \cup Acks)]
        /\ (\A d \in Links : server[d] = "none" <=> d > link)
        /\ (\A d \in Links : server[d] = "hello" <=> d = current)
        /\ (\A d \in Links : server[d] \in {"none", "closed", "superseded"} => up[d] = <<>>)
    BY DEF IInv, TypeOK, SocketsOK
  <1>3. \A d \in Links : server'[d] = (IF d = c THEN "closed" ELSE IF d = current THEN "superseded" ELSE server[d])
    BY <1>1 DEF Supersede
  <1>4. server' \in [Links -> {"none", "open", "hello", "closed", "superseded"}]
    <2>1. server' = [d \in Links |-> server'[d]]
      BY <1>1 DEF Supersede
    <2> QED
      BY <1>2, <1>3, <2>1
  <1>5. up' \in [Links -> Seq(Hellos \cup Acks)]
    <2>1. <<>> \in Seq(Hellos \cup Acks)
      OBVIOUS
    <2>2. \A d \in Links : up'[d] \in Seq(Hellos \cup Acks)
      BY <1>1, <1>2, <2>1
    <2>3. up' = [d \in Links |-> up'[d]]
      BY <1>1
    <2> QED
      BY <2>2, <2>3, Zenon
  <1>6. \A d \in Links : server'[d] = "none" <=> d > link
    BY <1>1, <1>2, <1>3
  <1>7. \A d \in Links : server'[d] = "hello" <=> d = current'
    <2> SUFFICES ASSUME NEW d \in Links PROVE server'[d] # "hello" /\ d # 0
      BY <1>1
    <2>1. d # 0
      BY DEF Links
    <2> QED
      BY <1>2, <1>3, <2>1
  <1>8. \A d \in Links : server'[d] = "open" => server[d] = "open" /\ up'[d] = up[d]
    BY <1>1, <1>3
  <1>9. \A d \in Links : server'[d] \in {"none", "closed", "superseded"} => up'[d] = <<>>
    BY <1>1, <1>2, <1>3
  <1> QED
    BY <1>1, <1>4, <1>5, <1>6, <1>7, <1>8, <1>9, CloseStep

\* A step after which the plugin has no socket.
LEMMA OfflineStep ==
    ASSUME IInv, Connected, phase' \in {"closed", "stopped"}, capabilities' = {}, backlog' = <<>>,
           running' \subseteq (DOMAIN inbox') \X Nat, \A e \in running' : inbox'[e[1]].command # "resolve",
           DOMAIN inbox' \subseteq 1..commandCursor', commandCursor' \in Nat, InboxOK',
           inbox' \in [DOMAIN inbox' -> [id : Nat, command : Kinds \cup {"discard", "turn"}, processed : BOOLEAN]],
           down' = [down EXCEPT ![link] = <<>>],
           UNCHANGED <<link, outbox, up, ingress, issued, ran, reopened, refusal, lateHello>>
    PROVE  IInv'
  <1>1. UNCHANGED <<link, rows, streamed, nextCommandSequence, deletionCapability, up, server, granted, current,
                    sent, sendCursor, issued, ran, reopened, refusal, lateHello>>
    BY DEF outbox, ingress
  <1>2. ~Connected'
    BY DEF Connected
  <1>3. down' \in [Links -> Seq(HelloAcks \cup Frames)] /\ \A d \in Links : down'[d] = <<>>
    <2>1. down \in [Links -> Seq(HelloAcks \cup Frames)] /\ \A d \in Links : d # link => down[d] = <<>>
      BY DEF IInv, SocketsOK
    <2>2. <<>> \in Seq(HelloAcks \cup Frames)
      OBVIOUS
    <2> QED
      BY <2>1, <2>2
  <1>4. TypeOK'
    <2>1. <<>> \in Seq(DOMAIN inbox')
      OBVIOUS
    <2>2. capabilities' \in SUBSET AllCapabilities /\ phase' \in {"closed", "hello", "ready", "stopped"}
      OBVIOUS
    <2> QED
      BY <1>1, <2>1, <2>2 DEF IInv, TypeOK
  <1>5. RowsOK' /\ BacklogOK'
    BY <1>1, <1>2 DEF IInv, RowsOK, BacklogOK
  <1>6. SocketsOK'
    BY <1>1, <1>2, <1>3 DEF IInv, SocketsOK
  <1>7. DownOK' /\ NoGapLoop'
    BY <1>1, <1>2 DEF IInv, DownOK, NoGapLoop
  <1>8. WindowOK'
    <2>1. Acked' = Acked /\ phase' # "hello" /\ phase' # "ready"
      BY <1>1 DEF Acked
    <2> HIDE DEF Acked
    <2> QED
      BY <1>1, <2>1 DEF IInv, WindowOK
  <1> QED
    BY <1>4, <1>5, <1>6, <1>7, <1>8 DEF IInv

\* The plugin gives a socket up, and nothing it was waiting for goes on.
LEMMA HangupKeeps ==
    ASSUME IInv, NEW next \in {"closed", "stopped"}, Hangup(next), backlog' = <<>>, Connected,
           running' \subseteq running, \A e \in running' : inbox[e[1]].command # "resolve",
           UNCHANGED spool
    PROVE  IInv'
  <1>1. /\ phase' = next /\ capabilities' = {} /\ down' = [down EXCEPT ![link] = <<>>]
        /\ UNCHANGED <<link, outbox, up, ingress, issued, ran, reopened, refusal, lateHello, inbox, commandCursor>>
    BY DEF Hangup, spool
  <1>3. /\ DOMAIN inbox \subseteq 1..commandCursor /\ commandCursor \in Nat /\ running \subseteq (DOMAIN inbox) \X Nat
        /\ inbox \in [DOMAIN inbox -> [id : Nat, command : Kinds \cup {"discard", "turn"}, processed : BOOLEAN]]
    BY DEF IInv, TypeOK
  <1>4. InboxOK'
    BY <1>1 DEF IInv, InboxOK, outbox
  <1>5. running' \subseteq (DOMAIN inbox') \X Nat /\ \A e \in running' : inbox'[e[1]].command # "resolve"
    BY <1>1, <1>3
  <1>6. UNCHANGED <<link, outbox, up, ingress, issued, ran, reopened, refusal, lateHello>>
    BY <1>1
  <1>7. /\ DOMAIN inbox' \subseteq 1..commandCursor' /\ commandCursor' \in Nat
        /\ inbox' \in [DOMAIN inbox' -> [id : Nat, command : Kinds \cup {"discard", "turn"}, processed : BOOLEAN]]
    BY <1>1, <1>3
  <1> QED
    BY <1>1, <1>4, <1>5, <1>6, <1>7, OfflineStep
----------------------------------------------------------------------------
(* The plugin's steps                                                      *)

LEMMA DialKeeps ==
    ASSUME IInv, Dial
    PROVE  IInv'
  <1>1. /\ phase = "closed" /\ link < MaxLinks /\ link' = link + 1 /\ phase' = "hello" /\ capabilities' = {}
        /\ backlog' = Ascending(Unprocessed) /\ server' = [server EXCEPT ![link + 1] = "open"]
        /\ UNCHANGED <<outbox, spool, running, down, granted, current, sent, sendCursor, history>>
    BY DEF Dial
  <1>2. PICK offered \in CapabilitySets :
          up' = [up EXCEPT ![link + 1] =
                   <<[kind |-> "hello", commandSequence |-> commandCursor, capabilities |-> offered]>>]
    BY DEF Dial
  <1>3. PICK hello : hello = [kind |-> "hello", commandSequence |-> commandCursor, capabilities |-> offered]
    OBVIOUS
  <1>4. hello \in Hellos /\ hello.commandSequence = commandCursor
    <2>1. offered \in SUBSET AllCapabilities
      BY KindsAssumption
    <2> QED
      BY <1>3, <2>1 DEF Hellos, IInv, TypeOK
  <1>5. UNCHANGED <<rows, streamed, nextCommandSequence, deletionCapability, inbox, commandCursor, running, down,
                    granted, current, sent, sendCursor, issued, ran, reopened, refusal, lateHello>>
    BY <1>1 DEF outbox, spool, history
  <1>6. ~Connected /\ Connected'
    BY <1>1 DEF Connected
  <1>7. link \in Nat /\ link + 1 \in Links /\ link' \in Links /\ link + 1 \in 0..MaxLinks
    <2>1. link \in 0..MaxLinks /\ MaxLinks \in Nat
      BY BoundsAssumption DEF IInv, TypeOK
    <2> QED
      BY <1>1, <2>1 DEF Links
  <1>8. backlog' \in Seq(DOMAIN inbox)
    <2>1. Unprocessed \subseteq DOMAIN inbox /\ DOMAIN inbox \subseteq 1..commandCursor /\ commandCursor \in Nat
      BY DEF Unprocessed, IInv, TypeOK
    <2>2. IsFiniteSet(1..commandCursor)
      BY <2>1, FS_Interval
    <2>3. Unprocessed \in SUBSET Nat /\ IsFiniteSet(Unprocessed)
      BY <2>1, <2>2, FS_Subset
    <2>4. Ascending(Unprocessed) \in Seq(Unprocessed)
      BY <2>3, AscendingLists
    <2> QED
      BY <1>1, <2>1, <2>4
  <1>9. /\ server' \in [Links -> {"none", "open", "hello", "closed", "superseded"}]
        /\ server'[link + 1] = "open" /\ server[link + 1] = "none"
        /\ \A d \in Links : d # link + 1 => server'[d] = server[d] /\ up'[d] = up[d]
        /\ up'[link + 1] = <<hello>> /\ up' \in [Links -> Seq(Hellos \cup Acks)]
    <2>1. /\ server \in [Links -> {"none", "open", "hello", "closed", "superseded"}]
          /\ up \in [Links -> Seq(Hellos \cup Acks)] /\ (\A d \in Links : server[d] = "none" <=> d > link)
      BY DEF IInv, TypeOK, SocketsOK
    <2>2. <<hello>> \in Seq(Hellos \cup Acks)
      BY <1>4
    <2>3. up' = [up EXCEPT ![link + 1] = <<hello>>]
      BY <1>2, <1>3
    <2> QED
      BY <1>1, <1>7, <2>1, <2>2, <2>3
  <1>10. current # link + 1
    BY <1>7, <1>9 DEF IInv, SocketsOK
  <1>11. TypeOK'
    BY <1>1, <1>5, <1>7, <1>8, <1>9 DEF IInv, TypeOK
  <1>12. RowsOK' /\ InboxOK' /\ NoGapLoop'
    BY <1>5 DEF IInv, RowsOK, InboxOK, NoGapLoop
  <1>13. BacklogOK'
    BY <1>5, <1>6 DEF IInv, BacklogOK
  <1>14. SocketsOK'
    <2>1. \A d \in Links : down[d] = <<>>
      BY <1>6 DEF IInv, SocketsOK
    <2>2. \A d \in Links : server'[d] = "none" <=> d > link'
      <3>1. \A d \in Links : d \in Nat /\ (server[d] = "none" <=> d > link)
        BY DEF IInv, SocketsOK, Links
      <3> QED
        BY <1>1, <1>7, <1>9, <3>1
    <2>3. \A d \in Links : server'[d] = "hello" <=> d = current'
      BY <1>5, <1>9, <1>10 DEF IInv, SocketsOK
    <2>4. \A d \in Links : server'[d] \in {"none", "closed", "superseded"} => up'[d] = <<>>
      BY <1>9 DEF IInv, SocketsOK
    <2>5. \A d \in Links : server'[d] = "open" => \E h \in Hellos : up'[d] = <<h>>
      BY <1>4, <1>9, ZenonT(60) DEF IInv, SocketsOK
    <2>6. up'[link'][1].commandSequence = commandCursor'
      BY <1>1, <1>4, <1>5, <1>9
    <2>7. down' \in [Links -> Seq(HelloAcks \cup Frames)] /\ (\A d \in Links : down'[d] = <<>>)
          /\ (current' # 0 => current' \in Links)
      BY <1>5, <2>1 DEF IInv, SocketsOK
    <2> QED
      BY <1>1, <1>7, <1>9, <2>2, <2>3, <2>4, <2>5, <2>6, <2>7 DEF SocketsOK
  <1>15. DownOK'
    <2>1. down'[link'] = <<>>
      BY <1>1, <1>5, <1>6, <1>7 DEF IInv, SocketsOK
    <2> QED
      BY <2>1 DEF DownOK
  <1>16. WindowOK'
    <2> SUFFICES ASSUME current # 0 PROVE WindowOK'
      BY <1>5 DEF WindowOK
    <2>1. Acked' = Acked /\ up'[current] = up[current] /\ current # link'
      BY <1>1, <1>5, <1>9, <1>10 DEF Acked, IInv, SocketsOK
    <2> HIDE DEF Acked
    <2> QED
      BY <1>5, <2>1 DEF IInv, WindowOK
  <1> QED
    BY <1>11, <1>12, <1>13, <1>14, <1>15, <1>16 DEF IInv

\* Reading a frame leaves the rest of the wire.
LEMMA InboundTail ==
    ASSUME IInv, NEW kind, Inbound(kind), down' = [down EXCEPT ![link] = Tail(@)]
    PROVE  /\ Connected /\ link \in Links /\ backlog = <<>> /\ down[link] # <<>>
           /\ down[link] \in Seq(HelloAcks \cup Frames) /\ Head(down[link]) = down[link][1] /\ down[link][1].kind = kind
           /\ down' \in [Links -> Seq(HelloAcks \cup Frames)] /\ down'[link] = Tail(down[link])
           /\ Len(down[link]) \in Nat \ {0} /\ Len(down'[link]) = Len(down[link]) - 1
           /\ \A i \in 1..Len(down'[link]) : i + 1 \in 1..Len(down[link]) /\ down'[link][i] = down[link][i + 1]
           /\ \A d \in Links : d # link => down'[d] = down[d]
           /\ server[link] # "open"
           /\ \A e \in running : inbox[e[1]].command # "resolve"
  <1>1. Connected /\ backlog = <<>> /\ down[link] # <<>> /\ Head(down[link]).kind = kind
    BY DEF Inbound
  <1>2. link \in Links /\ down \in [Links -> Seq(HelloAcks \cup Frames)] /\ server[link] # "open"
    BY <1>1 DEF IInv, SocketsOK
  <1>3. \A e \in running : inbox[e[1]].command # "resolve"
    BY <1>1 DEF IInv, BacklogOK
  <1>4. PICK wire : wire = down[link]
    OBVIOUS
  <1>5. wire \in Seq(HelloAcks \cup Frames) /\ wire # <<>>
    BY <1>1, <1>2, <1>4
  <1>6. /\ Head(wire) = wire[1] /\ Len(wire) \in Nat \ {0} /\ Tail(wire) \in Seq(HelloAcks \cup Frames)
        /\ Len(Tail(wire)) = Len(wire) - 1
        /\ \A i \in 1..Len(Tail(wire)) : i + 1 \in 1..Len(wire) /\ Tail(wire)[i] = wire[i + 1]
    BY <1>5
  <1>7. down' = [down EXCEPT ![link] = Tail(wire)]
    BY <1>4
  <1>8. down' \in [Links -> Seq(HelloAcks \cup Frames)] /\ down'[link] = Tail(wire)
        /\ \A d \in Links : d # link => down'[d] = down[d]
    BY <1>2, <1>6, <1>7
  <1> QED
    BY <1>1, <1>2, <1>3, <1>4, <1>5, <1>6, <1>8

\* The hello_ack is the first frame of its connection and never moves the cursor back.
LEMMA HelloAckIsTaken ==
    ASSUME IInv, ReceiveHelloAck, NEW ack, ack = down[link][1]
    PROVE  /\ Inbound("hello_ack") /\ Connected /\ link \in Links /\ phase = "hello"
           /\ down[link] # <<>> /\ down[link] \in Seq(HelloAcks \cup Frames) /\ Len(down[link]) \in Nat \ {0}
           /\ ack \in HelloAcks /\ ack.commandSequence \in commandCursor..(nextCommandSequence - 1)
           /\ commandCursor \in Nat /\ nextCommandSequence \in Nat
           /\ \A i \in 1..Len(down[link]) : i > 1 => Carries(rows, down[link][i], ack.commandSequence + i - 1)
           /\ commandCursor' = ack.commandSequence /\ capabilities' = ack.capabilities /\ phase' = "ready"
           /\ down' = [down EXCEPT ![link] = Tail(@)] /\ UNCHANGED refusal
           /\ UNCHANGED <<outbox, inbox, link, backlog, running, up, ingress, issued, ran, reopened, lateHello>>
  <1>1. Inbound("hello_ack")
    BY DEF ReceiveHelloAck
  <1>3. Connected /\ link \in Links /\ down[link] # <<>> /\ Head(down[link]) = ack /\ ack.kind = "hello_ack"
        /\ down[link] \in Seq(HelloAcks \cup Frames) /\ Len(down[link]) \in Nat \ {0}
    <2>1. Connected /\ down[link] # <<>> /\ Head(down[link]).kind = "hello_ack"
      BY <1>1 DEF Inbound
    <2>2. link \in Links /\ down \in [Links -> Seq(HelloAcks \cup Frames)]
      BY <2>1 DEF IInv, SocketsOK
    <2> QED
      BY <2>1, <2>2
  <1>4. phase = "hello"
    <2> SUFFICES ASSUME phase = "ready" PROVE FALSE
      BY <1>3 DEF Connected
    <2>1. 1 \in 1..Len(down[link])
      BY <1>3
    <2>2. Carries(rows, ack, Position(1))
      BY <1>3, <2>1 DEF IInv, DownOK
    <2> QED
      BY <1>3, <2>2 DEF Carries
  <1>5. ack \in HelloAcks /\ ack.commandSequence \in commandCursor..(nextCommandSequence - 1)
        /\ commandCursor \in Nat /\ nextCommandSequence \in Nat
        /\ \A i \in 1..Len(down[link]) : i > 1 => Carries(rows, down[link][i], ack.commandSequence + i - 1)
    BY <1>3, <1>4 DEF IInv, DownOK, TypeOK, Position
  <1>6. /\ commandCursor' = ack.commandSequence /\ capabilities' = ack.capabilities /\ phase' = "ready"
        /\ down' = [down EXCEPT ![link] = Tail(@)] /\ UNCHANGED refusal
        /\ UNCHANGED <<outbox, inbox, link, backlog, running, up, ingress, issued, ran, reopened, lateHello>>
    BY <1>3, <1>5 DEF ReceiveHelloAck
  <1> QED
    BY <1>1, <1>3, <1>4, <1>5, <1>6

LEMMA ReceiveHelloAckKeeps ==
    ASSUME IInv, ReceiveHelloAck
    PROVE  IInv'
  <1>2. PICK ack : ack = down[link][1]
    OBVIOUS
  <1>1. Inbound("hello_ack")
    BY <1>2, HelloAckIsTaken
  <1>3. Connected /\ link \in Links /\ down[link] # <<>> /\ down[link] \in Seq(HelloAcks \cup Frames)
        /\ Len(down[link]) \in Nat \ {0}
    BY <1>2, HelloAckIsTaken
  <1>4. phase = "hello"
    BY <1>2, HelloAckIsTaken
  <1>5. ack \in HelloAcks /\ ack.commandSequence \in commandCursor..(nextCommandSequence - 1)
        /\ commandCursor \in Nat /\ nextCommandSequence \in Nat
        /\ \A i \in 1..Len(down[link]) : i > 1 => Carries(rows, down[link][i], ack.commandSequence + i - 1)
    BY <1>2, HelloAckIsTaken
  <1>6. /\ commandCursor' = ack.commandSequence /\ capabilities' = ack.capabilities /\ phase' = "ready"
        /\ down' = [down EXCEPT ![link] = Tail(@)] /\ UNCHANGED refusal
        /\ UNCHANGED <<outbox, inbox, link, backlog, running, up, ingress, issued, ran, reopened, lateHello>>
    BY <1>2, HelloAckIsTaken
  <1>7. UNCHANGED <<rows, streamed, nextCommandSequence, deletionCapability, inbox, link, backlog, running, up, server,
                    granted, current, sent, sendCursor, issued, ran, reopened, lateHello, refusal>>
    BY <1>6 DEF outbox, ingress
  <1>8. /\ down' \in [Links -> Seq(HelloAcks \cup Frames)] /\ down'[link] = Tail(down[link])
        /\ Len(down'[link]) = Len(down[link]) - 1
        /\ \A i \in 1..Len(down'[link]) : i + 1 \in 1..Len(down[link]) /\ down'[link][i] = down[link][i + 1]
        /\ \A d \in Links : d # link => down'[d] = down[d]
        /\ server[link] # "open" /\ backlog = <<>>
    BY <1>1, <1>6, InboundTail
  <1>9. Connected /\ Connected'
    BY <1>3, <1>6 DEF Connected
  <1>10. commandCursor' \in Nat /\ commandCursor <= commandCursor' /\ capabilities' \in SUBSET AllCapabilities
    BY <1>5, <1>6 DEF HelloAcks
  <1>11. TypeOK'
    <2>1. DOMAIN inbox \subseteq 1..commandCursor'
      BY <1>5, <1>10 DEF IInv, TypeOK
    <2> QED
      BY <1>6, <1>7, <1>10, <2>1 DEF IInv, TypeOK
  <1>12. RowsOK' /\ InboxOK' /\ NoGapLoop' /\ BacklogOK'
    BY <1>7, <1>9 DEF IInv, RowsOK, InboxOK, NoGapLoop, BacklogOK
  <1>13. SocketsOK'
    BY <1>3, <1>7, <1>8, <1>9 DEF IInv, SocketsOK
  <1>14. DownOK'
    <2>1. \A i \in 1..Len(down'[link]) : Carries(rows, down'[link][i], ack.commandSequence + i)
      <3> SUFFICES ASSUME NEW i \in 1..Len(down'[link])
                   PROVE  Carries(rows, down'[link][i], ack.commandSequence + i)
        OBVIOUS
      <3>1. i + 1 \in 1..Len(down[link]) /\ down'[link][i] = down[link][i + 1] /\ i + 1 > 1
        BY <1>8
      <3>2. Carries(rows, down[link][i + 1], ack.commandSequence + (i + 1) - 1)
        BY <1>5, <3>1
      <3>3. ack.commandSequence + (i + 1) - 1 = ack.commandSequence + i
        BY <1>5
      <3> QED
        BY <3>1, <3>2, <3>3
    <2> QED
      BY <1>6, <1>7, <2>1 DEF DownOK, Position
  <1>15. WindowOK'
    <2> SUFFICES ASSUME current # 0 PROVE WindowOK'
      BY <1>7 DEF WindowOK
    <2>1. Acked' = Acked
      BY <1>7 DEF Acked
    <2>2. current = link => commandCursor' = Acked + Len(up[link]) /\ Len(down'[link]) = sendCursor[link] - commandCursor'
      <3> SUFFICES ASSUME current = link
                   PROVE  commandCursor' = Acked + Len(up[link])
                          /\ Len(down'[link]) = sendCursor[link] - commandCursor'
        OBVIOUS
      <3>1. up[link] = <<>> /\ ack.commandSequence = Acked /\ Len(down[link]) = 1 + sendCursor[link] - Acked
            /\ sendCursor[link] \in Nat
        BY <1>2, <1>3, <1>4 DEF IInv, WindowOK, TypeOK
      <3>2. PICK n, m, b, a : n = Len(down[link]) /\ m = Len(down'[link]) /\ b = sendCursor[link] /\ a = Acked
        OBVIOUS
      <3>3. n \in Nat /\ m = n - 1 /\ n = 1 + b - a /\ b \in Nat /\ a \in Nat /\ commandCursor' = a
        BY <1>3, <1>5, <1>6, <1>8, <3>1, <3>2
      <3>4. m = b - a /\ a = a + 0
        BY <3>3
      <3>5. Len(up[link]) = 0
        BY <3>1
      <3> QED
        BY <3>2, <3>3, <3>4, <3>5
    <2> HIDE DEF Acked
    <2> QED
      BY <1>6, <1>7, <2>1, <2>2 DEF IInv, WindowOK
  <1> QED
    BY <1>11, <1>12, <1>13, <1>14, <1>15 DEF IInv

\* The next command is always the one the spool expects, and it is new.
LEMMA NextIsAccepted ==
    ASSUME IInv, Inbound("command")
    PROVE  /\ phase = "ready" /\ link \in Links /\ down[link][1] = Head(down[link])
           /\ Carries(rows, Head(down[link]), commandCursor + 1)
           /\ Verdict(Head(down[link])) = "accepted"
  <1>1. PICK frame : frame = Head(down[link])
    OBVIOUS
  <1>2. Connected /\ down[link] # <<>> /\ frame.kind = "command"
    BY <1>1 DEF Inbound
  <1>3. link \in Links /\ down[link] \in Seq(HelloAcks \cup Frames)
    BY <1>2 DEF IInv, SocketsOK
  <1>4. frame = down[link][1] /\ 1 \in 1..Len(down[link])
    BY <1>1, <1>2, <1>3
  <1>5. phase = "ready"
    <2> SUFFICES ASSUME phase = "hello" PROVE FALSE
      BY <1>2 DEF Connected
    <2>1. frame \in HelloAcks
      BY <1>2, <1>4 DEF IInv, DownOK
    <2> QED
      BY <1>2, <2>1 DEF HelloAcks
  <1>6. Carries(rows, frame, commandCursor + 1)
    BY <1>2, <1>4, <1>5 DEF IInv, DownOK, Position
  <1>7. commandCursor + 1 \in DOMAIN rows /\ frame.sequence = commandCursor + 1
        /\ frame.id = rows[commandCursor + 1].id
    BY <1>6 DEF Carries
  <1>8. {s \in DOMAIN inbox : inbox[s].id = frame.id} = {}
    <2> SUFFICES ASSUME NEW s \in DOMAIN inbox, inbox[s].id = frame.id PROVE FALSE
      OBVIOUS
    <2>1. s \in 1..commandCursor /\ commandCursor \in Nat
      BY DEF IInv, TypeOK
    <2>2. CASE s <= PriorCommands /\ inbox[s].id = s
      <3>1. rows[commandCursor + 1].id \in (PriorCommands + 1)..Len(issued)
        BY <1>7 DEF IInv, RowsOK, TableOK
      <3> QED
        BY <1>7, <2>1, <2>2, <3>1, BoundsAssumption
    <2>3. CASE s \in DOMAIN rows /\ rows[s].id = inbox[s].id
      <3>1. \A r, t \in DOMAIN rows : rows[r].id = rows[t].id => r = t
        BY DEF IInv, RowsOK, TableOK
      <3>2. s = commandCursor + 1
        BY <1>7, <2>3, <3>1
      <3> QED
        BY <2>1, <3>2
    <2> QED
      BY <2>2, <2>3 DEF IInv, InboxOK
  <1>9. Verdict(frame) = "accepted"
    BY <1>7, <1>8 DEF Verdict
  <1> QED
    BY <1>1, <1>3, <1>4, <1>5, <1>6, <1>9

\* Journaling it.
LEMMA JournalKeeps ==
    ASSUME IInv, NEW frame, Carries(rows, frame, commandCursor + 1), Journal(frame), UNCHANGED <<rows, issued, ran>>
    PROVE  /\ InboxOK' /\ frame.sequence = commandCursor + 1 /\ commandCursor' = commandCursor + 1
           /\ commandCursor \in Nat /\ commandCursor + 1 \notin DOMAIN inbox
           /\ DOMAIN inbox' = DOMAIN inbox \cup {commandCursor + 1}
           /\ \A s \in DOMAIN inbox : inbox'[s] = inbox[s]
           /\ inbox'[commandCursor + 1] = [id |-> frame.id, command |-> frame.command, processed |-> FALSE]
           /\ taken' = taken \cup {<<frame.id, frame.command>>}
           /\ DOMAIN inbox' \subseteq 1..commandCursor'
           /\ inbox' \in [DOMAIN inbox' -> [id : Nat, command : Kinds \cup {"discard", "turn"}, processed : BOOLEAN]]
  <1>1. PICK n : n = commandCursor + 1
    OBVIOUS
  <1>2. /\ n \in DOMAIN rows /\ frame.sequence = n /\ frame.id = rows[n].id
        /\ frame.command \in {rows[n].command, "discard"}
    BY <1>1 DEF Carries
  <1>3. commandCursor \in Nat /\ DOMAIN inbox \subseteq 1..commandCursor
        /\ inbox \in [DOMAIN inbox -> [id : Nat, command : Kinds \cup {"discard", "turn"}, processed : BOOLEAN]]
        /\ rows[n] \in Row
    BY <1>2 DEF IInv, TypeOK
  <1>4. n \notin DOMAIN inbox /\ DOMAIN inbox \cup {n} \subseteq 1..n
    BY <1>1, <1>3
  <1>5. PICK new : new = [id |-> frame.id, command |-> frame.command, processed |-> FALSE]
    OBVIOUS
  <1>6. /\ inbox' = [s \in DOMAIN inbox \cup {n} |-> IF s = n THEN new ELSE inbox[s]]
        /\ commandCursor' = n /\ taken' = taken \cup {<<frame.id, frame.command>>}
    BY <1>2, <1>5 DEF Journal
  <1>7. DOMAIN inbox' = DOMAIN inbox \cup {n} /\ inbox'[n] = new /\ \A s \in DOMAIN inbox : inbox'[s] = inbox[s]
    BY <1>4, <1>6
  <1>8. new \in [id : Nat, command : Kinds \cup {"discard", "turn"}, processed : BOOLEAN]
        /\ new.id = frame.id /\ new.command = frame.command
    BY <1>2, <1>3, <1>5 DEF Row
  <1>9. inbox' \in [DOMAIN inbox' -> [id : Nat, command : Kinds \cup {"discard", "turn"}, processed : BOOLEAN]]
    BY <1>3, <1>6, <1>8
  <1>10. InboxOK'
    <2>1. ran' \in Seq(Nat) /\ PriorCommands <= Len(issued')
      BY DEF IInv, InboxOK
    <2>2. \A s \in DOMAIN inbox' :
            \/ s <= PriorCommands /\ inbox'[s].id = s /\ inbox'[s].command = "turn"
            \/ /\ s \in DOMAIN rows /\ rows[s].id = inbox'[s].id
               /\ inbox'[s].command \in {rows[s].command, "discard"}
      BY <1>2, <1>7, <1>8 DEF IInv, InboxOK
    <2> QED
      BY <2>1, <2>2 DEF InboxOK
  <1> QED
    BY <1>1, <1>2, <1>3, <1>4, <1>5, <1>6, <1>7, <1>9, <1>10

LEMMA ReceiveCommandKeeps ==
    ASSUME IInv, ReceiveCommand
    PROVE  IInv'
  <1>1. PICK frame, n : frame = Head(down[link]) /\ n = commandCursor + 1
    OBVIOUS
  <1>2. Inbound("command") /\ down' = [down EXCEPT ![link] = Tail(@)]
        /\ UNCHANGED <<outbox, link, phase, capabilities, running, ingress, issued, ran, reopened, lateHello>>
    BY DEF ReceiveCommand
  <1>3. phase = "ready" /\ link \in Links /\ frame = down[link][1] /\ Carries(rows, frame, n)
        /\ Verdict(frame) = "accepted"
    BY <1>1, <1>2, NextIsAccepted
  <1>4. /\ Journal(frame) /\ backlog' = <<frame.sequence>>
        /\ up' = IF link \in Open THEN [up EXCEPT ![link] = Append(@, AckOf(frame))] ELSE up
        /\ UNCHANGED refusal
    BY <1>1, <1>3 DEF ReceiveCommand
  <1>5. UNCHANGED <<rows, streamed, nextCommandSequence, deletionCapability, link, phase, capabilities, running, server,
                    granted, current, sent, sendCursor, issued, ran, reopened, lateHello, refusal>>
    BY <1>2, <1>4 DEF outbox, ingress
  <1>6. /\ InboxOK' /\ frame.sequence = n /\ commandCursor' = n
        /\ commandCursor \in Nat /\ n \notin DOMAIN inbox
        /\ DOMAIN inbox' = DOMAIN inbox \cup {n}
        /\ \A s \in DOMAIN inbox : inbox'[s] = inbox[s]
        /\ DOMAIN inbox' \subseteq 1..commandCursor'
        /\ inbox' \in [DOMAIN inbox' -> [id : Nat, command : Kinds \cup {"discard", "turn"}, processed : BOOLEAN]]
    BY <1>1, <1>3, <1>4, <1>5, JournalKeeps
  <1>7. /\ Connected /\ backlog = <<>> /\ down[link] # <<>>
        /\ down' \in [Links -> Seq(HelloAcks \cup Frames)] /\ down'[link] = Tail(down[link])
        /\ Len(down[link]) \in Nat \ {0} /\ Len(down'[link]) = Len(down[link]) - 1
        /\ \A i \in 1..Len(down'[link]) : i + 1 \in 1..Len(down[link]) /\ down'[link][i] = down[link][i + 1]
        /\ \A d \in Links : d # link => down'[d] = down[d]
        /\ server[link] # "open"
        /\ \A e \in running : inbox[e[1]].command # "resolve"
    BY <1>2, InboundTail
  <1>8. frame.id = rows[n].id /\ n \in DOMAIN rows /\ n \in Nat /\ rows[n].id \in Nat
    <2>1. frame.id = rows[n].id /\ n \in DOMAIN rows
      BY <1>3 DEF Carries
    <2>2. n \in Nat
      BY <1>1, <1>6
    <2>3. rows \in [DOMAIN rows -> Row]
      BY DEF IInv, TypeOK
    <2>4. rows[n] \in Row
      BY <2>1, <2>3
    <2>5. rows[n].id \in Nat
      BY <2>4 DEF Row
    <2> QED
      BY <2>1, <2>2, <2>5
  <1>9. PICK ack : ack = [kind |-> "ack", sequence |-> n, id |-> rows[n].id]
    OBVIOUS
  <1>10. ack = AckOf(frame) /\ ack \in Acks
    BY <1>6, <1>8, <1>9 DEF AckOf, Acks
  <1>11. /\ link \in Open <=> link = current
         /\ up \in [Links -> Seq(Hellos \cup Acks)] /\ (current # 0 => current \in Links)
    BY <1>3, <1>7 DEF IInv, SocketsOK, Open
  <1>12. /\ up' \in [Links -> Seq(Hellos \cup Acks)] /\ \A d \in Links : d # link => up'[d] = up[d]
         /\ (link # current => up' = up)
         /\ (link = current => up'[link] = Append(up[link], ack))
    <2>1. CASE link \in Open
      <3>1. up' = [up EXCEPT ![link] = Append(up[link], ack)]
        BY <1>4, <1>10, <2>1
      <3>2. Append(up[link], ack) \in Seq(Hellos \cup Acks)
        <4>1. up[link] \in Seq(Hellos \cup Acks) /\ ack \in Hellos \cup Acks
          BY <1>3, <1>10, <1>11
        <4> QED
          BY <4>1
      <3> QED
        BY <1>3, <1>11, <2>1, <3>1, <3>2
    <2>2. CASE link \notin Open
      BY <1>4, <1>11, <2>2
    <2> QED
      BY <2>1, <2>2
  <1>13. TypeOK'
    <2>1. backlog' \in Seq(DOMAIN inbox')
      <3>1. n \in DOMAIN inbox'
        BY <1>6
      <3> QED
        BY <1>4, <1>6, <3>1
    <2>2. running' \subseteq (DOMAIN inbox') \X Nat
      BY <1>5, <1>6 DEF IInv, TypeOK
    <2>3. commandCursor' \in Nat
      BY <1>6, <1>8
    <2> QED
      BY <1>5, <1>6, <2>1, <2>2, <2>3 DEF IInv, TypeOK
  <1>14. RowsOK' /\ NoGapLoop'
    BY <1>5 DEF IInv, RowsOK, NoGapLoop
  <1>15. BacklogOK'
    <2>1. Connected'
      BY <1>5, <1>7 DEF Connected
    <2>2. \A e \in running' : inbox'[e[1]].command # "resolve"
      <3>1. \A e \in running : e[1] \in DOMAIN inbox
        BY DEF IInv, TypeOK
      <3> QED
        BY <1>5, <1>6, <1>7, <3>1
    <2> QED
      BY <2>1, <2>2 DEF BacklogOK
  <1>16. SocketsOK'
    <2>1. \A d \in Links : server[d] \in {"none", "closed", "superseded"} => up'[d] = <<>>
      <3>1. \A d \in Links : server[d] \in {"none", "closed", "superseded"} => up[d] = <<>> /\ d # current
        BY DEF IInv, SocketsOK
      <3> QED
        BY <1>12, <3>1
    <2>2. \A d \in Links : server[d] = "open" => \E hello \in Hellos : up'[d] = <<hello>>
      BY <1>7, <1>12, SMTT(30) DEF IInv, SocketsOK
    <2>3. /\ \A d \in Links : (d # link \/ ~Connected) => down'[d] = <<>>
          /\ \A d \in Links : server[d] = "none" <=> d > link
          /\ \A d \in Links : server[d] = "hello" <=> d = current
      BY <1>7 DEF IInv, SocketsOK
    <2>4. Connected'
      BY <1>5, <1>7 DEF Connected
    <2> QED
      BY <1>3, <1>5, <1>7, <1>11, <1>12, <2>1, <2>2, <2>3, <2>4 DEF SocketsOK
  <1>17. DownOK'
    <2>1. \A i \in 1..Len(down'[link]) : Carries(rows, down'[link][i], n + i)
      <3> SUFFICES ASSUME NEW i \in 1..Len(down'[link]) PROVE Carries(rows, down'[link][i], n + i)
        OBVIOUS
      <3>1. i + 1 \in 1..Len(down[link]) /\ down'[link][i] = down[link][i + 1]
        BY <1>7
      <3>2. Carries(rows, down[link][i + 1], commandCursor + (i + 1))
        BY <1>3, <1>7, <3>1 DEF IInv, DownOK, Position
      <3>3. commandCursor + (i + 1) = n + i
        BY <1>1, <1>6
      <3> QED
        BY <3>1, <3>2, <3>3
    <2> QED
      BY <1>3, <1>5, <1>6, <2>1 DEF DownOK, Position
  <1>18. WindowOK'
    <2> SUFFICES ASSUME current # 0 PROVE WindowOK'
      BY <1>5 DEF WindowOK
    <2>1. Acked' = Acked
      BY <1>5 DEF Acked
    <2>2. CASE link # current
      <3>1. up'[current] = up[current]
        BY <1>12, <2>2
      <3> HIDE DEF Acked
      <3> QED
        BY <1>3, <1>5, <2>1, <2>2, <3>1 DEF IInv, WindowOK
    <2>3. CASE link = current
      <3>1. PICK a, b, k, m : a = Acked /\ b = sendCursor[link] /\ k = Len(up[link]) /\ m = Len(down[link])
        OBVIOUS
      <3>2. /\ b \in a..(nextCommandSequence - 1) /\ sent[link] = (a + 1)..b
            /\ up[link] \in Seq(Acks) /\ k <= b - a
            /\ \A i \in 1..k : up[link][i] = [kind |-> "ack", sequence |-> a + i, id |-> rows[a + i].id]
            /\ commandCursor = a + k /\ m = b - commandCursor
        BY <1>3, <2>3, <3>1 DEF IInv, WindowOK
      <3>3. a \in Nat /\ nextCommandSequence \in Nat /\ m \in Nat \ {0} /\ k \in Nat /\ b \in Nat
        <4>1. a \in 0..(nextCommandSequence - 1) /\ nextCommandSequence \in Nat
          BY <3>1, OutboxFacts
        <4> QED
          BY <1>7, <3>1, <3>2, <4>1
      <3>4. /\ up'[link] \in Seq(Acks) /\ Len(up'[link]) = k + 1
            /\ (\A i \in 1..k : up'[link][i] = up[link][i]) /\ up'[link][k + 1] = ack
        <4>1. up'[link] = Append(up[link], ack)
          BY <1>12, <2>3
        <4> QED
          BY <1>10, <3>1, <3>2, <4>1
      <3>5. n = a + (k + 1) /\ k + 1 <= b - a
        BY <1>1, <3>2, <3>3
      <3>6. \A i \in 1..(k + 1) : up'[link][i] = [kind |-> "ack", sequence |-> a + i, id |-> rows[a + i].id]
        <4> SUFFICES ASSUME NEW i \in 1..(k + 1)
                     PROVE  up'[link][i] = [kind |-> "ack", sequence |-> a + i, id |-> rows[a + i].id]
          OBVIOUS
        <4>1. CASE i = k + 1
          BY <1>9, <3>4, <3>5, <4>1
        <4>2. CASE i \in 1..k
          BY <3>2, <3>4, <4>2
        <4> QED
          BY <3>3, <4>1, <4>2
      <3>7. Len(down'[link]) = b - n
        <4>1. PICK x : x = Len(down'[link])
          OBVIOUS
        <4>2. x = m - 1
          BY <1>7, <3>1, <4>1
        <4>3. x = b - n
          BY <3>2, <3>3, <3>5, <4>2
        <4> QED
          BY <4>1, <4>3
      <3> HIDE DEF Acked
      <3> QED
        BY <1>3, <1>5, <1>6, <2>1, <2>3, <3>1, <3>2, <3>4, <3>5, <3>6, <3>7 DEF WindowOK
    <2> QED
      BY <2>2, <2>3
  <1> QED
    BY <1>6, <1>13, <1>14, <1>15, <1>16, <1>17, <1>18 DEF IInv

LEMMA ReceiveCommandUnansweredKeeps ==
    ASSUME IInv, ReceiveCommandUnanswered
    PROVE  IInv'
  <1>1. PICK frame, n : frame = Head(down[link]) /\ n = commandCursor + 1
    OBVIOUS
  <1>2. /\ Inbound("command") /\ Journal(frame) /\ Hangup(HangupPhase) /\ backlog' = <<>> /\ UNCHANGED running
    BY <1>1 DEF ReceiveCommandUnanswered
  <1>3. link \in Links /\ Carries(rows, frame, n) /\ Connected /\ backlog = <<>>
    BY <1>1, <1>2, NextIsAccepted DEF Inbound
  <1>4. /\ phase' \in {"closed", "stopped"} /\ capabilities' = {} /\ down' = [down EXCEPT ![link] = <<>>]
        /\ UNCHANGED <<link, outbox, up, ingress, issued, ran, reopened, refusal, lateHello>>
    BY <1>2 DEF Hangup, HangupPhase
  <1>5. /\ InboxOK' /\ DOMAIN inbox' = DOMAIN inbox \cup {n} /\ commandCursor' = n
        /\ commandCursor \in Nat /\ (\A s \in DOMAIN inbox : inbox'[s] = inbox[s])
        /\ DOMAIN inbox' \subseteq 1..commandCursor'
        /\ inbox' \in [DOMAIN inbox' -> [id : Nat, command : Kinds \cup {"discard", "turn"}, processed : BOOLEAN]]
    <2>1. UNCHANGED <<rows, issued, ran>>
      BY <1>4 DEF outbox
    <2> QED
      BY <1>1, <1>2, <1>3, <2>1, JournalKeeps
  <1>6. running' \subseteq (DOMAIN inbox') \X Nat /\ \A e \in running' : inbox'[e[1]].command # "resolve"
    <2>1. running \subseteq (DOMAIN inbox) \X Nat /\ \A e \in running : inbox[e[1]].command # "resolve"
      BY <1>3 DEF IInv, TypeOK, BacklogOK
    <2>2. \A e \in running : e[1] \in DOMAIN inbox
      BY <2>1
    <2> QED
      BY <1>2, <1>5, <2>1, <2>2
  <1>7. commandCursor' \in Nat
    BY <1>1, <1>5
  <1> QED
    BY <1>2, <1>3, <1>4, <1>5, <1>6, <1>7, OfflineStep

LEMMA RecreateSpoolKeeps ==
    ASSUME IInv, RecreateSpool
    PROVE  IInv'
  <1>1. /\ phase = "closed" /\ inbox' = [s \in {} |-> 0] /\ commandCursor' = 0 /\ running' = {}
        /\ UNCHANGED <<outbox, link, phase, capabilities, backlog, up, down, ingress, history>>
    BY DEF RecreateSpool
  <1>2. ~Connected /\ backlog = <<>>
    BY <1>1 DEF Connected, IInv, BacklogOK
  <1>3. DOMAIN inbox' = {}
    BY <1>1
  <1>4. UNCHANGED <<issued, ran, reopened, refusal, lateHello, rows>>
    BY <1>1 DEF history, outbox
  <1>5. InboxOK'
    BY <1>3, <1>4 DEF IInv, InboxOK
  <1>6. inbox' \in [DOMAIN inbox' -> [id : Nat, command : Kinds \cup {"discard", "turn"}, processed : BOOLEAN]]
    BY <1>1, <1>3
  <1>8. /\ down' = down /\ backlog' = <<>> /\ running' \subseteq (DOMAIN inbox') \X Nat
        /\ (\A e \in running' : inbox'[e[1]].command # "resolve")
        /\ DOMAIN inbox' \subseteq 1..commandCursor' /\ commandCursor' \in Nat
    BY <1>1, <1>2, <1>3
  <1>9. UNCHANGED <<link, phase, capabilities, rows, streamed, nextCommandSequence, deletionCapability, up, down, server,
                    granted, current, sent, sendCursor>>
    BY <1>1 DEF outbox, ingress
  <1>10. ~Connected'
    BY <1>1 DEF Connected
  <1>11. TypeOK'
    <2>1. <<>> \in Seq(DOMAIN inbox')
      OBVIOUS
    <2> QED
      BY <1>4, <1>6, <1>8, <1>9, <2>1 DEF IInv, TypeOK
  <1>12. RowsOK' /\ BacklogOK' /\ DownOK' /\ NoGapLoop'
    BY <1>4, <1>8, <1>9, <1>10 DEF IInv, RowsOK, BacklogOK, DownOK, NoGapLoop
  <1>13. SocketsOK'
    BY <1>2, <1>9, <1>10 DEF IInv, SocketsOK
  <1>14. WindowOK'
    <2>1. Acked' = Acked /\ phase' # "hello" /\ phase' # "ready"
      BY <1>1, <1>9 DEF Acked
    <2> HIDE DEF Acked
    <2> QED
      BY <1>4, <1>9, <2>1 DEF IInv, WindowOK
  <1> QED
    BY <1>5, <1>11, <1>12, <1>13, <1>14 DEF IInv

----------------------------------------------------------------------------
(* Handlers                                                                *)

\* Recording a command as carried out changes nothing else about it.
LEMMA MarkKeeps ==
    ASSUME IInv, NEW s, MarkProcessed(s) \/ UNCHANGED inbox
    PROVE  /\ DOMAIN inbox' = DOMAIN inbox
           /\ \A r \in DOMAIN inbox : inbox'[r].id = inbox[r].id /\ inbox'[r].command = inbox[r].command
           /\ inbox' \in [DOMAIN inbox' -> [id : Nat, command : Kinds \cup {"discard", "turn"}, processed : BOOLEAN]]
  <1>1. inbox \in [DOMAIN inbox -> [id : Nat, command : Kinds \cup {"discard", "turn"}, processed : BOOLEAN]]
    BY DEF IInv, TypeOK
  <1>2. CASE MarkProcessed(s)
    <2>1. inbox' = [r \in DOMAIN inbox |-> IF r = s THEN [inbox[r] EXCEPT !.processed = TRUE] ELSE inbox[r]]
      BY <1>2 DEF MarkProcessed
    <2>2. DOMAIN inbox' = DOMAIN inbox
      BY <2>1
    <2>3. ASSUME NEW r \in DOMAIN inbox
          PROVE  /\ inbox'[r].id = inbox[r].id /\ inbox'[r].command = inbox[r].command
                 /\ inbox'[r] \in [id : Nat, command : Kinds \cup {"discard", "turn"}, processed : BOOLEAN]
      BY <1>1, <2>1
    <2> QED
      BY <2>1, <2>2, <2>3
  <1>3. CASE UNCHANGED inbox
    BY <1>1, <1>3
  <1> QED
    BY <1>2, <1>3

\* A handler's step touches the inbox, the backlog and what runs, and nothing on the sockets.
LEMMA HandlerStep ==
    ASSUME IInv, NEW s, MarkProcessed(s) \/ UNCHANGED inbox,
           UNCHANGED <<outbox, commandCursor, link, phase, capabilities, up, down, ingress, issued, reopened, refusal,
                       lateHello>>,
           ran' \in Seq(Nat), Len(ran') = Len(ran), backlog' \in Seq(DOMAIN inbox),
           running' \subseteq (DOMAIN inbox) \X Nat,
           ~Connected => backlog' = <<>>,
           \A e \in running' : inbox[e[1]].command = "resolve" =>
             /\ backlog' # <<>> /\ Head(backlog') = e[1]
             /\ \A f \in running' : f[1] = e[1] => f = e
    PROVE  IInv'
  <1>1. UNCHANGED <<rows, streamed, nextCommandSequence, deletionCapability, commandCursor, link, phase, capabilities,
                    up, down, server, granted, current, sent, sendCursor, issued, reopened, refusal, lateHello>>
    BY DEF outbox, ingress
  <1>2. /\ DOMAIN inbox' = DOMAIN inbox
        /\ \A r \in DOMAIN inbox : inbox'[r].id = inbox[r].id /\ inbox'[r].command = inbox[r].command
        /\ inbox' \in [DOMAIN inbox' -> [id : Nat, command : Kinds \cup {"discard", "turn"}, processed : BOOLEAN]]
    BY MarkKeeps
  <1>3. TypeOK'
    <2>1. /\ DOMAIN inbox' \subseteq 1..commandCursor' /\ backlog' \in Seq(DOMAIN inbox')
          /\ running' \subseteq (DOMAIN inbox') \X Nat /\ Len(ran') = Len(issued')
      BY <1>1, <1>2 DEF IInv, TypeOK
    <2> QED
      BY <1>1, <1>2, <2>1 DEF IInv, TypeOK
  <1>4. RowsOK' /\ NoGapLoop'
    BY <1>1 DEF IInv, RowsOK, NoGapLoop
  <1>5. InboxOK'
    BY <1>1, <1>2 DEF IInv, InboxOK
  <1>6. BacklogOK'
    <2>1. \A e \in running' : e[1] \in DOMAIN inbox
      OBVIOUS
    <2> QED
      BY <1>1, <1>2, <2>1 DEF BacklogOK, Connected
  <1>7. SocketsOK' /\ DownOK'
    BY <1>1 DEF IInv, SocketsOK, DownOK, Connected, Position
  <1>8. WindowOK'
    <2>1. Acked' = Acked
      BY <1>1 DEF Acked
    <2> HIDE DEF Acked
    <2> QED
      BY <1>1, <2>1 DEF IInv, WindowOK
  <1> QED
    BY <1>3, <1>4, <1>5, <1>6, <1>7, <1>8 DEF IInv

\* Starting a handler counts one more execution of its command.
LEMMA StartCounts ==
    ASSUME IInv, NEW s \in DOMAIN inbox, Start(s)
    PROVE  /\ ran' \in Seq(Nat) /\ Len(ran') = Len(ran)
           /\ Execution(s) \in (DOMAIN inbox) \X Nat /\ Execution(s)[1] = s
           /\ inbox[s].id \in 1..Len(ran) /\ ran' = [ran EXCEPT ![inbox[s].id] = @ + 1]
  <1>1. ran \in Seq(Nat) /\ Len(ran) = Len(issued) /\ PriorCommands <= Len(issued) /\ issued \in Seq(Kinds \cup {"turn"})
        /\ PriorCommands \in Nat
    BY OutboxFacts, BoundsAssumption
  <1>2. inbox[s].id \in 1..Len(ran)
    <2>1. s \in 1..commandCursor /\ commandCursor \in Nat
      BY DEF IInv, TypeOK
    <2>2. CASE s <= PriorCommands /\ inbox[s].id = s
      BY <1>1, <2>1, <2>2
    <2>3. CASE s \in DOMAIN rows /\ rows[s].id = inbox[s].id
      <3>1. rows[s].id \in (PriorCommands + 1)..Len(issued)
        BY <2>3 DEF IInv, RowsOK, TableOK
      <3> QED
        BY <1>1, <2>3, <3>1
    <2> QED
      BY <2>2, <2>3 DEF IInv, InboxOK
  <1>3. ran' = [ran EXCEPT ![inbox[s].id] = @ + 1]
    BY DEF Start
  <1>4. PICK i : i = inbox[s].id
    OBVIOUS
  <1>5. ran' = [ran EXCEPT ![i] = ran[i] + 1] /\ i \in 1..Len(ran) /\ ran[i] \in Nat
    BY <1>1, <1>2, <1>3, <1>4
  <1>6. ran' \in Seq(Nat) /\ Len(ran') = Len(ran)
    BY <1>1, <1>5
  <1>7. Execution(s) \in (DOMAIN inbox) \X Nat /\ Execution(s)[1] = s
    BY <1>4, <1>5 DEF Execution
  <1> QED
    BY <1>2, <1>3, <1>6, <1>7

\* What Dispatch does, by the kind of command at the head of the backlog.
LEMMA DispatchKeeps ==
    ASSUME IInv, Dispatch
    PROVE  IInv'
  <1>1. PICK s, command : s = Head(backlog) /\ command = inbox[s].command
    OBVIOUS
  <1>2. backlog # <<>> /\ backlog \in Seq(DOMAIN inbox) /\ running \subseteq (DOMAIN inbox) \X Nat
    BY DEF Dispatch, IInv, TypeOK
  <1>3. s \in DOMAIN inbox /\ Tail(backlog) \in Seq(DOMAIN inbox)
    BY <1>1, <1>2
  <1>4. Connected
    BY <1>2 DEF IInv, BacklogOK
  <1>5. UNCHANGED <<outbox, commandCursor, link, phase, capabilities, up, down, ingress, issued, reopened, refusal, lateHello>>
    BY DEF Dispatch
  <1>6. \A e \in running : inbox[e[1]].command = "resolve" =>
          e[1] = s /\ \A f \in running : f[1] = e[1] => f = e
    BY <1>1 DEF IInv, BacklogOK
  <1>7. ran \in Seq(Nat)
    BY OutboxFacts
  <1>8. CASE command \in {"discard", "deletion"} /\ MarkProcessed(s) /\ backlog' = Tail(backlog) /\ UNCHANGED <<running, ran>>
    <2>1. \A e \in running' : inbox[e[1]].command # "resolve"
      BY <1>1, <1>6, <1>8
    <2> QED
      BY <1>2, <1>3, <1>4, <1>5, <1>7, <1>8, <2>1, HandlerStep
  <1>9. CASE command = "turn" /\ Start(s) /\ MarkProcessed(s) /\ backlog' = Tail(backlog) /\ UNCHANGED running
    <2>1. \A e \in running' : inbox[e[1]].command # "resolve"
      BY <1>1, <1>6, <1>9
    <2>2. ran' \in Seq(Nat) /\ Len(ran') = Len(ran)
      BY <1>3, <1>9, StartCounts
    <2> QED
      BY <1>2, <1>3, <1>4, <1>5, <1>9, <2>1, <2>2, HandlerStep
  <1>10. CASE /\ command = "resolve" /\ \A e \in running : e[1] # s
              /\ Start(s) /\ running' = running \cup {Execution(s)} /\ UNCHANGED <<inbox, backlog>>
    <2>1. ran' \in Seq(Nat) /\ Len(ran') = Len(ran) /\ Execution(s) \in (DOMAIN inbox) \X Nat /\ Execution(s)[1] = s
      BY <1>3, <1>10, StartCounts
    <2>2. \A e \in running' : inbox[e[1]].command = "resolve" =>
            /\ backlog' # <<>> /\ Head(backlog') = e[1]
            /\ \A f \in running' : f[1] = e[1] => f = e
      <3> SUFFICES ASSUME NEW e \in running', inbox[e[1]].command = "resolve"
                   PROVE  e = Execution(s)
        BY <1>1, <1>2, <1>10, <2>1
      <3> QED
        BY <1>6, <1>10
    <2>3. running' \subseteq (DOMAIN inbox) \X Nat
      BY <1>2, <1>10, <2>1
    <2> QED
      BY <1>2, <1>4, <1>5, <1>10, <2>1, <2>2, <2>3, HandlerStep
  <1>11. CASE /\ command = "action" /\ Start(s) /\ running' = running \cup {Execution(s)}
              /\ backlog' = Tail(backlog) /\ UNCHANGED inbox
    <2>1. ran' \in Seq(Nat) /\ Len(ran') = Len(ran) /\ Execution(s) \in (DOMAIN inbox) \X Nat /\ Execution(s)[1] = s
      BY <1>3, <1>11, StartCounts
    <2>2. \A e \in running' : inbox[e[1]].command # "resolve"
      BY <1>1, <1>6, <1>11, <2>1
    <2>3. running' \subseteq (DOMAIN inbox) \X Nat
      BY <1>2, <1>11, <2>1
    <2> QED
      BY <1>3, <1>4, <1>5, <1>11, <2>1, <2>2, <2>3, HandlerStep
  <1> QED
    BY <1>1, <1>8, <1>9, <1>10, <1>11 DEF Dispatch

LEMMA FinishResolveKeeps ==
    ASSUME IInv, NEW e \in running, FinishResolve(e)
    PROVE  IInv'
  <1>1. /\ inbox[e[1]].command = "resolve" /\ running' = running \ {e} /\ backlog' = Tail(backlog)
        /\ MarkProcessed(e[1]) \/ UNCHANGED inbox
        /\ UNCHANGED <<outbox, commandCursor, link, phase, capabilities, up, down, ingress, issued, ran, reopened, refusal,
                       lateHello>>
    BY DEF FinishResolve, history
  <1>2. backlog \in Seq(DOMAIN inbox) /\ running \subseteq (DOMAIN inbox) \X Nat /\ ran \in Seq(Nat)
    BY OutboxFacts DEF IInv, TypeOK
  <1>3. /\ backlog # <<>> /\ Head(backlog) = e[1] /\ \A f \in running : f[1] = e[1] => f = e
        /\ \A f \in running : inbox[f[1]].command = "resolve" => Head(backlog) = f[1]
    BY <1>1 DEF IInv, BacklogOK
  <1>4. Connected
    BY <1>3 DEF IInv, BacklogOK
  <1>5. \A f \in running' : inbox[f[1]].command # "resolve"
    BY <1>1, <1>3
  <1>6. Tail(backlog) \in Seq(DOMAIN inbox)
    BY <1>2, <1>3
  <1>7. running' \subseteq (DOMAIN inbox) \X Nat /\ ran' \in Seq(Nat) /\ Len(ran') = Len(ran)
    BY <1>1, <1>2
  <1> QED
    BY <1>1, <1>4, <1>5, <1>6, <1>7, HandlerStep

LEMMA FinishActionKeeps ==
    ASSUME IInv, NEW e \in running, FinishAction(e)
    PROVE  IInv'
  <1>1. /\ running' = running \ {e} /\ UNCHANGED backlog
        /\ MarkProcessed(e[1]) \/ UNCHANGED inbox
        /\ UNCHANGED <<outbox, commandCursor, link, phase, capabilities, up, down, ingress, issued, ran, reopened, refusal,
                       lateHello>>
    BY DEF FinishAction, history
  <1>2. backlog \in Seq(DOMAIN inbox) /\ running \subseteq (DOMAIN inbox) \X Nat /\ ran \in Seq(Nat)
    BY OutboxFacts DEF IInv, TypeOK
  <1>3. \A f \in running' : inbox[f[1]].command = "resolve" =>
             /\ backlog' # <<>> /\ Head(backlog') = f[1]
             /\ \A g \in running' : g[1] = f[1] => g = f
    BY <1>1 DEF IInv, BacklogOK
  <1>4. ~Connected => backlog' = <<>>
    BY <1>1 DEF IInv, BacklogOK
  <1>5. running' \subseteq (DOMAIN inbox) \X Nat /\ ran' \in Seq(Nat) /\ Len(ran') = Len(ran) /\ backlog' \in Seq(DOMAIN inbox)
    BY <1>1, <1>2
  <1> QED
    BY <1>1, <1>3, <1>4, <1>5, HandlerStep

----------------------------------------------------------------------------
(* The specification                                                       *)

LEMMA InitHolds == Init => IInv
  <1> SUFFICES ASSUME Init PROVE IInv
    OBVIOUS
  <1>1. PriorCommands \in Nat /\ MaxLinks \in Nat /\ MaxInFlight \in Nat
    BY BoundsAssumption
  <1>2. /\ rows = [s \in {} |-> 0] /\ streamed = FALSE /\ nextCommandSequence = 1 /\ deletionCapability = FALSE
        /\ commandCursor = PriorCommands /\ link = 0 /\ phase = "closed" /\ capabilities = {} /\ backlog = <<>>
        /\ running = {} /\ up = [c \in Links |-> <<>>] /\ down = [c \in Links |-> <<>>]
        /\ server = [c \in Links |-> "none"] /\ granted = [c \in Links |-> {}] /\ current = 0
        /\ sent = [c \in Links |-> {}] /\ sendCursor = [c \in Links |-> 0]
        /\ reopened = {} /\ refusal = "none" /\ lateHello = FALSE
    BY DEF Init
  <1>3. inbox = [s \in 1..PriorCommands |-> [id |-> s, command |-> "turn", processed |-> TRUE]]
        /\ issued = [i \in 1..PriorCommands |-> "turn"] /\ ran = [i \in 1..PriorCommands |-> 1]
    BY DEF Init
  <1>4. issued \in Seq(Kinds \cup {"turn"}) /\ ran \in Seq(Nat) /\ Len(ran) = PriorCommands /\ Len(issued) = PriorCommands
    BY <1>1, <1>3
  <1>5. ~Connected /\ DOMAIN rows = {}
    BY <1>2 DEF Connected
  <1>6. Cardinality({}) = 0
    BY FS_EmptySet
  <1>7. TypeOK
    <2>1. DOMAIN rows \subseteq 1..(nextCommandSequence - 1) /\ rows \in [DOMAIN rows -> Row]
      BY <1>2, <1>5
    <2>2. /\ DOMAIN inbox \subseteq 1..commandCursor
          /\ inbox \in [DOMAIN inbox -> [id : Nat, command : Kinds \cup {"discard", "turn"}, processed : BOOLEAN]]
      BY <1>1, <1>2, <1>3
    <2>3. sent \in [Links -> SUBSET DOMAIN rows] /\ \A c \in Links : Cardinality(sent[c]) <= MaxInFlight
      BY <1>1, <1>2, <1>6
    <2>4. link \in 0..MaxLinks /\ current \in 0..MaxLinks /\ <<>> \in Seq(DOMAIN inbox)
      BY <1>1, <1>2
    <2>5. /\ server \in [Links -> {"none", "open", "hello", "closed", "superseded"}]
          /\ granted \in [Links -> SUBSET AllCapabilities] /\ sendCursor \in [Links -> Nat]
      BY <1>2
    <2>6. {streamed, lateHello} \subseteq BOOLEAN /\ deletionCapability \in BOOLEAN
      BY <1>2, Zenon
    <2>7. /\ nextCommandSequence \in Nat \ {0} /\ commandCursor \in Nat
          /\ phase \in {"closed", "hello", "ready", "stopped"} /\ capabilities \in SUBSET AllCapabilities
          /\ backlog \in Seq(DOMAIN inbox) /\ running \subseteq (DOMAIN inbox) \X Nat
          /\ reopened \subseteq 1..Len(issued)
          /\ refusal \in {"none", "gateway_resume", "plugin_resume", "gap", "conflict"}
      BY <1>1, <1>2, <2>4
    <2>8. Len(ran) = Len(issued)
      BY <1>4
    <2> QED
      BY <1>4, <2>1, <2>2, <2>3, <2>4, <2>5, <2>6, <2>7, <2>8 DEF TypeOK
  <1>8. RowsOK
    <2>1. TableOK(rows, nextCommandSequence, issued)
      BY <1>2, <1>5 DEF TableOK
    <2> QED
      BY <1>2, <2>1 DEF RowsOK
  <1>9. InboxOK
    BY <1>1, <1>3, <1>4 DEF InboxOK
  <1>10. BacklogOK /\ DownOK /\ WindowOK /\ NoGapLoop
    BY <1>2, <1>5 DEF BacklogOK, DownOK, WindowOK, NoGapLoop
  <1>11. SocketsOK
    <2>1. <<>> \in Seq(Hellos \cup Acks) /\ <<>> \in Seq(HelloAcks \cup Frames)
      OBVIOUS
    <2>2. up \in [Links -> Seq(Hellos \cup Acks)] /\ down \in [Links -> Seq(HelloAcks \cup Frames)]
      BY <1>2, <2>1
    <2>3. \A c \in Links : c > link /\ c # current
      BY <1>2 DEF Links
    <2> QED
      BY <1>2, <1>5, <2>2, <2>3 DEF SocketsOK
  <1> QED
    BY <1>7, <1>8, <1>9, <1>10, <1>11 DEF IInv

LEMMA NextKeeps == IInv /\ [Next]_vars => IInv'
  <1> SUFFICES ASSUME IInv, [Next]_vars PROVE IInv'
    OBVIOUS
  <1>1. CASE UNCHANGED vars
    <2>1. UNCHANGED <<rows, streamed, nextCommandSequence, deletionCapability, inbox, commandCursor, link, phase,
                      capabilities, backlog, running, up, down, server, granted, current, sent, sendCursor, issued,
                      taken, ran, reopened, refusal, lateHello>>
      BY <1>1 DEF vars, outbox, spool, client, ingress, history
    <2> QED
      BY <2>1, SMTT(30) DEF IInv, TypeOK, RowsOK, InboxOK, BacklogOK, SocketsOK, DownOK, WindowOK, NoGapLoop, Acked, Connected,
                  Position
  <1>2. CASE \E command \in Kinds : Enqueue(command)
    BY <1>2, EnqueueKeeps
  <1>3. CASE FlushQueued
    BY <1>3, FlushQueuedKeeps
  <1>4. CASE \E s \in DOMAIN rows : Cancel(s)
    BY <1>4, CancelKeeps
  <1>5. CASE \E c \in Links : Hello(c) \/ RefuseHello(c) \/ ReceiveAck(c)
    BY <1>5, HelloKeeps, RefuseHelloKeeps, ReceiveAckKeeps
  <1>6. CASE \E c \in Links : CloseAbandoned(c) \/ (c \in Open /\ Fault({c}))
    <2>1. PICK c \in Links : CloseAbandoned(c) \/ (c \in Open /\ Fault({c}))
      BY <1>6
    <2>2. {c} \in SUBSET Open /\ Close({c})
      BY <2>1 DEF CloseAbandoned, Fault
    <2> QED
      BY <2>2, CloseKeeps
  <1>7. CASE Fault(Open)
    <2>1. Open \in SUBSET Open /\ Close(Open)
      BY <1>7 DEF Fault
    <2> QED
      BY <2>1, CloseKeeps
  <1>8. CASE Dial \/ ReceiveHelloAck \/ ReceiveCommand \/ ReceiveCommandUnanswered \/ Dispatch \/ RecreateSpool
    BY <1>8, DialKeeps, ReceiveHelloAckKeeps, ReceiveCommandKeeps, ReceiveCommandUnansweredKeeps, DispatchKeeps,
       RecreateSpoolKeeps
  <1>9. CASE \E e \in running : FinishResolve(e) \/ FinishAction(e)
    BY <1>9, FinishResolveKeeps, FinishActionKeeps
  <1>10. CASE NoticeClose \/ DropSocket
    <2>1. PICK next \in {"closed", "stopped"} : Hangup(next)
      BY <1>10 DEF NoticeClose, DropSocket, HangupPhase
    <2>2. Connected /\ backlog' = <<>> /\ running' = running /\ UNCHANGED spool
          /\ \A e \in running : inbox[e[1]].command # "resolve"
      BY <1>10 DEF NoticeClose, DropSocket, IInv, BacklogOK
    <2> QED
      BY <2>1, <2>2, HangupKeeps
  <1>11. CASE Crash
    <2>1. /\ Hangup("closed") /\ backlog' = <<>> /\ Connected /\ UNCHANGED spool
          /\ running' \subseteq running /\ \A e \in running' : inbox[e[1]].command # "resolve"
      BY <1>11 DEF Crash
    <2> QED
      BY <2>1, HangupKeeps
  <1> QED
    BY <1>1, <1>2, <1>3, <1>4, <1>5, <1>6, <1>7, <1>8, <1>9, <1>10, <1>11 DEF Next

\* The invariant: however connections, processes and files are lost, what is acknowledged, on its
\* way and journaled are consecutive parts of one numbering.
THEOREM InvariantHolds == Spec => []IInv
  BY InitHolds, NextKeeps, PTL DEF Spec

\* Type correctness: in particular a window never holds more than the frames negotiated for it.
THEOREM TypeCorrect == Spec => []TypeOK
  <1>1. IInv => TypeOK
    BY DEF IInv
  <1> QED
    BY <1>1, InvariantHolds, PTL

\* A command the plugin reads is always the next one of its spool: it never answers with a gap or
\* finds a number or an id used twice (accept_command), and never sees the gateway's cursor go
\* back (reconcile_server_resume), even when it comes with the spool of a lost gateway database or
\* has lost its own.
THEOREM NeverDrivenIntoAGap == Spec => []NoGapLoop
  <1>1. IInv => NoGapLoop
    BY DEF IInv
  <1> QED
    BY <1>1, InvariantHolds, PTL

----------------------------------------------------------------------------
(* Deletions are delivered                                                 *)

\* Every deletion up to number n of a table was taken as one.
Delivered(table, took, n) ==
    \A s \in DOMAIN table : s <= n /\ table[s].command = "deletion" => <<table[s].id, "deletion">> \in took

\* The hellos that are not late, and the cursors they name.
Unread == {c \in Links : server[c] = "open" /\ ~Outdated(c)}
Resume(c) == up[c][1].commandSequence

\* No deletion is numbered, and none will be, below a cursor the plugin holds or has told.
NumbersAreAhead ==
    deletionCapability \/ (\E s \in DOMAIN rows : rows[s].command = "deletion") =>
        /\ commandCursor < nextCommandSequence
        /\ \A c \in Unread : Resume(c) < nextCommandSequence

\* A cursor on its way, in either direction, only covers deletions that were taken; a later hello
\* never names more than an earlier one.
CursorsAreEarned ==
    /\ Delivered(rows, taken, commandCursor)
    /\ \A c \in Unread : Resume(c) >= commandCursor /\ Delivered(rows, taken, Resume(c))
    /\ \A c, d \in Unread : c < d => Resume(c) >= Resume(d)
    /\ Connected /\ phase = "hello" /\ down[link] # <<>> =>
         Delivered(rows, taken, down[link][1].commandSequence)

\* So does an ACK on its way, and what is acknowledged already.
AcksAreEarned ==
    /\ current # 0 => \A i \in 1..Len(up[current]) :
         rows[Acked + i].command = "deletion" => <<rows[Acked + i].id, "deletion">> \in taken
    /\ Delivered(rows, taken, Acked)

DeletionOK == ~lateHello => NumbersAreAhead /\ CursorsAreEarned /\ AcksAreEarned

LEMMA UnreadShrinks ==
    ASSUME \A d \in Links : server'[d] = "open" => server[d] = "open" /\ up'[d] = up[d],
           \A d \in Links : server[d] \notin {"none", "open"} => server'[d] \notin {"none", "open"}
    PROVE  \A d \in Unread' : d \in Unread /\ Resume(d)' = Resume(d)
  BY DEF Unread, Outdated, Resume

\* Once the gateway answered a hello, whatever it has not read is late.
LEMMA NobodyUnread ==
    ASSUME IInv, Connected, server[link] # "open"
    PROVE  Unread = {}
  <1> SUFFICES ASSUME NEW c \in Links, server[c] = "open", ~Outdated(c)
               PROVE  FALSE
    BY DEF Unread
  <1>1. link \in Links /\ server[link] # "none" /\ c <= link /\ c # link
    BY DEF IInv, SocketsOK, Links, TypeOK
  <1> QED
    BY <1>1 DEF Outdated, Links

\* Steps that take nothing and acknowledge nothing.
LEMMA DeletionStep ==
    ASSUME IInv, DeletionOK, UNCHANGED <<commandCursor, deletionCapability, taken, lateHello>>, Acked' = Acked,
           nextCommandSequence' \in Nat, nextCommandSequence <= nextCommandSequence',
           \A s \in DOMAIN rows : s \in DOMAIN rows' /\ rows'[s].id = rows[s].id /\ rows'[s].command = rows[s].command,
           \A s \in DOMAIN rows' : s \notin DOMAIN rows /\ rows'[s].command = "deletion" =>
             s = nextCommandSequence /\ deletionCapability,
           \A d \in Unread' : d \in Unread /\ Resume(d)' = Resume(d),
           Connected' /\ phase' = "hello" /\ down'[link'] # <<>> =>
             /\ Connected /\ phase = "hello" /\ down[link] # <<>>
             /\ down'[link'][1].commandSequence = down[link][1].commandSequence,
           current' # 0 => current' = current /\ up'[current] = up[current]
    PROVE  DeletionOK'
  <1> SUFFICES ASSUME ~lateHello
               PROVE  NumbersAreAhead' /\ CursorsAreEarned' /\ AcksAreEarned'
    BY DEF DeletionOK
  <1>1. NumbersAreAhead /\ CursorsAreEarned /\ AcksAreEarned
    BY DEF DeletionOK
  <1>2. PICK next, n, a : next = nextCommandSequence /\ n = nextCommandSequence' /\ a = Acked
    OBVIOUS
  <1>3. /\ next \in Nat \ {0} /\ n \in Nat /\ next <= n /\ a \in 0..(next - 1) /\ commandCursor \in Nat
        /\ (a + 1)..(next - 1) \subseteq DOMAIN rows
    BY <1>2, OutboxFacts
  <1>4. \A c \in Unread : Resume(c) \in Nat
    <2>1. \A c \in Links : server[c] = "open" => \E hello \in Hellos : up[c] = <<hello>>
      BY DEF IInv, SocketsOK
    <2> QED
      BY <2>1 DEF Unread, Resume, Hellos
  <1>5. deletionCapability' \/ (\E s \in DOMAIN rows' : rows'[s].command = "deletion")
        => deletionCapability \/ (\E s \in DOMAIN rows : rows[s].command = "deletion")
    OBVIOUS
  <1>6. NumbersAreAhead'
    BY <1>1, <1>2, <1>3, <1>4, <1>5 DEF NumbersAreAhead
  <1>7. ASSUME NEW m \in Nat, Delivered(rows, taken, m),
               \A s \in DOMAIN rows' : rows'[s].command = "deletion" /\ s = next /\ deletionCapability => m < next
        PROVE  Delivered(rows', taken', m)
    BY <1>2, <1>3, <1>7 DEF Delivered
  <1>8. Delivered(rows', taken', commandCursor)
    BY <1>1, <1>2, <1>3, <1>7 DEF NumbersAreAhead, CursorsAreEarned
  <1>9. \A c \in Unread' : Resume(c)' >= commandCursor' /\ Delivered(rows', taken', Resume(c)')
    <2> SUFFICES ASSUME NEW c \in Unread'
                 PROVE  Resume(c)' >= commandCursor' /\ Delivered(rows', taken', Resume(c)')
      OBVIOUS
    <2>1. PICK m : m = Resume(c)
      OBVIOUS
    <2>2. c \in Unread /\ Resume(c)' = m
      BY <2>1
    <2>3. m \in Nat /\ m >= commandCursor /\ Delivered(rows, taken, m) /\ (deletionCapability => m < next)
      BY <1>1, <1>2, <1>4, <2>1, <2>2 DEF CursorsAreEarned, NumbersAreAhead
    <2>4. Delivered(rows', taken', m)
      BY <1>7, <2>3
    <2> QED
      BY <2>2, <2>3, <2>4
  <1>10. \A c, d \in Unread' : c < d => Resume(c)' >= Resume(d)'
    BY <1>1 DEF CursorsAreEarned
  <1>11. Connected' /\ phase' = "hello" /\ down'[link'] # <<>> =>
           Delivered(rows', taken', down'[link'][1].commandSequence)
    <2> SUFFICES ASSUME Connected', phase' = "hello", down'[link'] # <<>>
                 PROVE  Delivered(rows', taken', down'[link'][1].commandSequence)
      OBVIOUS
    <2>1. PICK m : m = down[link][1].commandSequence
      OBVIOUS
    <2>2. Connected /\ phase = "hello" /\ down[link] # <<>> /\ down'[link'][1].commandSequence = m
      BY <2>1
    <2>3. m \in commandCursor..(next - 1)
      BY <1>2, <2>1, <2>2 DEF IInv, DownOK
    <2>4. Delivered(rows, taken, m)
      BY <1>1, <2>1, <2>2 DEF CursorsAreEarned
    <2>5. m \in Nat /\ m < next
      BY <1>3, <2>3
    <2> QED
      BY <1>7, <2>2, <2>4, <2>5
  <1>12. CursorsAreEarned'
    BY <1>8, <1>9, <1>10, <1>11 DEF CursorsAreEarned
  <1>13. AcksAreEarned'
    <2>1. Delivered(rows', taken', a)
      BY <1>1, <1>2, <1>3, <1>7 DEF AcksAreEarned
    <2>2. ASSUME current' # 0, NEW i \in 1..Len(up'[current']), rows'[a + i].command = "deletion"
          PROVE  <<rows'[a + i].id, "deletion">> \in taken'
      <3>1. current # 0 /\ i \in 1..Len(up[current])
        BY <2>2
      <3>2. Len(up[current]) <= sendCursor[current] - a /\ sendCursor[current] \in a..(next - 1)
            /\ up[current] \in Seq(Acks)
        BY <1>2, <3>1 DEF IInv, WindowOK
      <3>3. a + i \in DOMAIN rows
        BY <1>3, <3>1, <3>2
      <3> QED
        BY <1>1, <1>2, <2>2, <3>1, <3>3 DEF AcksAreEarned
    <2>3. Acked' = a
      BY <1>2
    <2> QED
      BY <2>1, <2>2, <2>3 DEF AcksAreEarned
  <1> QED
    BY <1>6, <1>12, <1>13

LEMMA EnqueueDeletes ==
    ASSUME IInv, IInv', DeletionOK, NEW command \in Kinds, Enqueue(command)
    PROVE  DeletionOK'
  <1>1. /\ UNCHANGED <<commandCursor, deletionCapability, taken, lateHello, server, up, current, link, phase>>
        /\ nextCommandSequence' = nextCommandSequence + 1 /\ issued' = Append(issued, command)
        /\ command = "deletion" => deletionCapability
    BY DEF Enqueue, spool, client
  <1>2. PICK table, next, minted : table = Queued(command) /\ next = nextCommandSequence + 1
                                   /\ minted = Append(issued, command)
    OBVIOUS
  <1>3. /\ TableOK(table, next, minted) /\ AckCursor(table, next) = Acked /\ next \in Nat \ {0}
        /\ \A s \in DOMAIN rows : /\ s \in DOMAIN table /\ table[s].id = rows[s].id
                                  /\ table[s].command = rows[s].command
    BY <1>2, QueuedKeeps, OutboxFacts
  <1>4. /\ DOMAIN table = DOMAIN rows \cup {nextCommandSequence}
        /\ table[nextCommandSequence].command = command
    BY <1>2 DEF Queued
  <1>5. /\ DOMAIN rows' = DOMAIN table /\ AckCursor(rows', next) = Acked
        /\ \A s \in DOMAIN table : rows'[s].id = table[s].id /\ rows'[s].command = table[s].command
        /\ current = 0 \/ current # link => down'[link] = down[link]
    <2>1. CASE current # 0
      <3>1. PICK last, D : Refilled(current, table, next, minted, sendCursor[current], down[current], last, D)
        BY <1>2, <2>1, EnqueueRefills
      <3>2. down \in [Links -> Seq(HelloAcks \cup Frames)]
        BY DEF IInv, SocketsOK
      <3>3. current # link => down'[link] = down[link]
        BY <3>1, <3>2 DEF Refilled
      <3>4. TableOK(table, next, minted) /\ next \in Nat \ {0}
        BY <1>3
      <3>5. DOMAIN rows' = DOMAIN table /\ AckCursor(rows', next) = AckCursor(table, next)
        BY <3>1, <3>4, RefillEffect
      <3>6. \A s \in DOMAIN table : rows'[s].id = table[s].id /\ rows'[s].command = table[s].command
        BY <3>1, <3>4, RefillEffect
      <3> QED
        BY <1>3, <2>1, <3>3, <3>5, <3>6
    <2>2. CASE current = 0
      BY <1>2, <1>3, <2>2 DEF Enqueue, FlushCurrent
    <2> QED
      BY <2>1, <2>2
  <1>6. Acked' = Acked
    BY <1>1, <1>2, <1>5 DEF Acked
  <1>7. nextCommandSequence' \in Nat /\ nextCommandSequence <= nextCommandSequence'
    BY <1>1, OutboxFacts
  <1>8. \A s \in DOMAIN rows : s \in DOMAIN rows' /\ rows'[s].id = rows[s].id /\ rows'[s].command = rows[s].command
    BY <1>3, <1>5
  <1>9. \A s \in DOMAIN rows' : s \notin DOMAIN rows /\ rows'[s].command = "deletion" =>
          s = nextCommandSequence /\ deletionCapability
    BY <1>1, <1>4, <1>5
  <1>10. \A d \in Unread' : d \in Unread /\ Resume(d)' = Resume(d)
    BY <1>1, UnreadShrinks
  <1>11. Connected' /\ phase' = "hello" /\ down'[link'] # <<>> =>
           /\ Connected /\ phase = "hello" /\ down[link] # <<>>
           /\ down'[link'][1].commandSequence = down[link][1].commandSequence
    <2>1. CASE current = 0 \/ current # link
      BY <1>1, <1>5, <2>1 DEF Connected
    <2>2. CASE current # 0 /\ current = link
      BY <1>1, <1>6, <2>2 DEF Connected, IInv, WindowOK
    <2> QED
      BY <2>1, <2>2
  <1>12. current' # 0 => current' = current /\ up'[current] = up[current]
    BY <1>1
  <1> QED
    BY <1>1, <1>6, <1>7, <1>8, <1>9, <1>10, <1>11, <1>12, DeletionStep

LEMMA FlushQueuedDeletes ==
    ASSUME IInv, IInv', DeletionOK, FlushQueued
    PROVE  DeletionOK'
  <1>1. /\ UNCHANGED <<commandCursor, deletionCapability, taken, lateHello, server, up, current, link, phase,
                       nextCommandSequence>>
        /\ current # 0
    BY DEF FlushQueued, spool, client
  <1>2. PICK last, D : Refilled(current, rows, nextCommandSequence, issued, sendCursor[current], down[current], last, D)
    BY FlushQueuedRefills
  <1>3. /\ DOMAIN rows' = DOMAIN rows /\ AckCursor(rows', nextCommandSequence) = AckCursor(rows, nextCommandSequence)
        /\ \A s \in DOMAIN rows : rows'[s].id = rows[s].id /\ rows'[s].command = rows[s].command
    <2>1. PICK next : next = nextCommandSequence
      OBVIOUS
    <2>2. TableOK(rows, next, issued) /\ next \in Nat \ {0}
      BY <2>1, OutboxFacts
    <2>3. Refilled(current, rows, next, issued, sendCursor[current], down[current], last, D)
      BY <1>2, <2>1
    <2>4. DOMAIN rows' = DOMAIN rows /\ AckCursor(rows', next) = AckCursor(rows, next)
      BY <2>2, <2>3, RefillEffect
    <2>5. \A s \in DOMAIN rows : rows'[s].id = rows[s].id /\ rows'[s].command = rows[s].command
      BY <2>2, <2>3, RefillEffect
    <2> QED
      BY <2>1, <2>4, <2>5
  <1>4. Acked' = Acked
    BY <1>1, <1>3 DEF Acked
  <1>5. nextCommandSequence' \in Nat /\ nextCommandSequence <= nextCommandSequence'
    BY <1>1, OutboxFacts
  <1>6. \A d \in Unread' : d \in Unread /\ Resume(d)' = Resume(d)
    BY <1>1, UnreadShrinks
  <1>7. Connected' /\ phase' = "hello" /\ down'[link'] # <<>> =>
          /\ Connected /\ phase = "hello" /\ down[link] # <<>>
          /\ down'[link'][1].commandSequence = down[link][1].commandSequence
    <2>1. CASE current # link
      <3>1. down \in [Links -> Seq(HelloAcks \cup Frames)]
        BY DEF IInv, SocketsOK
      <3>2. down'[link] = down[link]
        BY <1>2, <2>1, <3>1 DEF Refilled
      <3> QED
        BY <1>1, <3>2 DEF Connected
    <2>2. CASE current = link
      BY <1>1, <1>4, <2>2 DEF Connected, IInv, WindowOK
    <2> QED
      BY <2>1, <2>2
  <1>8. current' # 0 => current' = current /\ up'[current] = up[current]
    BY <1>1
  <1> QED
    BY <1>1, <1>3, <1>4, <1>5, <1>6, <1>7, <1>8, DeletionStep

LEMMA CancelDeletes ==
    ASSUME IInv, DeletionOK, NEW s \in DOMAIN rows, Cancel(s)
    PROVE  DeletionOK'
  <1>1. /\ UNCHANGED <<commandCursor, deletionCapability, taken, lateHello, server, up, current, link, phase, down,
                       nextCommandSequence>>
        /\ rows' = [rows EXCEPT ![s].cancelled = TRUE]
    BY DEF Cancel, spool, client, ingress
  <1>2. DOMAIN rows' = DOMAIN rows
    BY <1>1
  <1>3. \A r \in DOMAIN rows : /\ rows'[r].id = rows[r].id /\ rows'[r].command = rows[r].command
                               /\ rows'[r].acked = rows[r].acked
    <2>1. \A r \in DOMAIN rows : rows[r] \in Row
      BY DEF IInv, TypeOK
    <2> SUFFICES ASSUME NEW r \in DOMAIN rows
                 PROVE  /\ rows'[r].id = rows[r].id /\ rows'[r].command = rows[r].command
                        /\ rows'[r].acked = rows[r].acked
      OBVIOUS
    <2>2. rows'[r] = IF r = s THEN [rows[r] EXCEPT !.cancelled = TRUE] ELSE rows[r]
      BY <1>1
    <2> QED
      BY <2>1, <2>2 DEF Row
  <1>4. Acked' = Acked
    <2>1. Unacked(rows') = Unacked(rows)
      BY <1>2, <1>3 DEF Unacked
    <2> QED
      BY <1>1, <2>1 DEF Acked, AckCursor
  <1>5. nextCommandSequence' \in Nat /\ nextCommandSequence <= nextCommandSequence'
    BY <1>1, OutboxFacts
  <1>6. \A d \in Unread' : d \in Unread /\ Resume(d)' = Resume(d)
    BY <1>1, UnreadShrinks
  <1>7. Connected' /\ phase' = "hello" /\ down'[link'] # <<>> =>
          /\ Connected /\ phase = "hello" /\ down[link] # <<>>
          /\ down'[link'][1].commandSequence = down[link][1].commandSequence
    BY <1>1 DEF Connected
  <1>8. current' # 0 => current' = current /\ up'[current] = up[current]
    BY <1>1
  <1>9. \A r \in DOMAIN rows : r \in DOMAIN rows' /\ rows'[r].id = rows[r].id /\ rows'[r].command = rows[r].command
    BY <1>2, <1>3
  <1>10. \A r \in DOMAIN rows' : r \notin DOMAIN rows /\ rows'[r].command = "deletion" =>
          r = nextCommandSequence /\ deletionCapability
    BY <1>2
  <1> QED
    BY <1>1, <1>4, <1>5, <1>6, <1>7, <1>8, <1>9, <1>10, DeletionStep

\* What the ACK acknowledges was taken, because it was on its way.
LEMMA ReceiveAckDeletes ==
    ASSUME IInv, IInv', DeletionOK, NEW c \in Links, ReceiveAck(c)
    PROVE  DeletionOK'
  <1> SUFFICES ASSUME ~lateHello'
               PROVE  NumbersAreAhead' /\ CursorsAreEarned' /\ AcksAreEarned'
    BY DEF DeletionOK
  <1>1. /\ UNCHANGED <<commandCursor, deletionCapability, taken, lateHello, server, current, link, phase,
                       nextCommandSequence, issued>>
        /\ c = current /\ current # 0 /\ up[c] # <<>> /\ up' = [up EXCEPT ![c] = Tail(@)]
    BY DEF ReceiveAck, spool, client, Arrives, Links
  <1>2. NumbersAreAhead /\ CursorsAreEarned /\ AcksAreEarned
    BY <1>1 DEF DeletionOK
  <1>3. PICK next, a, table : next = nextCommandSequence /\ a = Acked /\ table = Retire(Acked + 1)
    OBVIOUS
  <1>4. next \in Nat \ {0} /\ a \in 0..(next - 1) /\ (a + 1)..(next - 1) \subseteq DOMAIN rows
    BY <1>3, OutboxFacts
  <1>5. /\ a + 1 \in DOMAIN rows /\ TableOK(table, next, issued) /\ AckCursor(table, next) = a + 1
        /\ DOMAIN table = DOMAIN rows
        /\ \A s \in DOMAIN rows : table[s].id = rows[s].id /\ table[s].command = rows[s].command
    BY <1>3, ReceiveAckRefills
  <1>6. PICK last, D : Refilled(c, table, next, issued, sendCursor[c], down[c], last, D)
    BY <1>3, ReceiveAckRefills
  <1>7. DOMAIN rows' = DOMAIN table /\ AckCursor(rows', next) = a + 1
    BY <1>4, <1>5, <1>6, RefillEffect
  <1>8. \A s \in DOMAIN rows : rows'[s].id = rows[s].id /\ rows'[s].command = rows[s].command
    <2>1. \A s \in DOMAIN table : rows'[s].id = table[s].id /\ rows'[s].command = table[s].command
      BY <1>4, <1>5, <1>6, RefillEffect
    <2> QED
      BY <1>5, <2>1
  <1>9. DOMAIN rows' = DOMAIN rows /\ Acked' = a + 1
    BY <1>1, <1>3, <1>5, <1>7 DEF Acked
  <1>10. \A m : Delivered(rows, taken, m) => Delivered(rows', taken', m)
    BY <1>1, <1>8, <1>9 DEF Delivered
  <1>11. \A d \in Unread' : d \in Unread /\ Resume(d)' = Resume(d)
    <2>1. server[c] = "hello"
      BY <1>1 DEF IInv, SocketsOK
    <2>2. \A d \in Links : server'[d] = "open" => server[d] = "open" /\ up'[d] = up[d]
      BY <1>1, <2>1 DEF IInv, SocketsOK
    <2> QED
      BY <1>1, <2>2, UnreadShrinks
  <1>12. NumbersAreAhead'
    BY <1>1, <1>2, <1>8, <1>9, <1>11 DEF NumbersAreAhead
  <1>13. Connected' /\ phase' = "hello" /\ down'[link'] # <<>> =>
           Delivered(rows', taken', down'[link'][1].commandSequence)
    <2> SUFFICES ASSUME Connected', phase' = "hello", down'[link'] # <<>>
                 PROVE  Delivered(rows', taken', down'[link'][1].commandSequence)
      OBVIOUS
    <2>1. ~(c = link /\ phase = "hello")
      BY <1>1 DEF IInv, WindowOK
    <2>2. down \in [Links -> Seq(HelloAcks \cup Frames)]
      BY DEF IInv, SocketsOK
    <2>3. link' = link /\ phase = "hello" /\ Connected /\ c # link
      BY <1>1, <2>1 DEF Connected
    <2>4. down'[link] = down[link]
      BY <1>6, <2>2, <2>3 DEF Refilled
    <2>5. Delivered(rows, taken, down[link][1].commandSequence)
      BY <1>2, <2>3, <2>4 DEF CursorsAreEarned
    <2> QED
      BY <1>10, <2>3, <2>4, <2>5
  <1>14. CursorsAreEarned'
    <2>1. Delivered(rows', taken', commandCursor')
      BY <1>1, <1>2, <1>10 DEF CursorsAreEarned
    <2>2. \A d \in Unread' : Resume(d)' >= commandCursor' /\ Delivered(rows', taken', Resume(d)')
      BY <1>1, <1>2, <1>10, <1>11 DEF CursorsAreEarned
    <2>3. \A d, e \in Unread' : d < e => Resume(d)' >= Resume(e)'
      BY <1>2, <1>11 DEF CursorsAreEarned
    <2> QED
      BY <1>13, <2>1, <2>2, <2>3 DEF CursorsAreEarned
  <1>15. /\ up[c] \in Seq(Acks) /\ Len(up[c]) \in Nat \ {0} /\ a + Len(up[c]) <= next - 1
         /\ up'[c] = Tail(up[c]) /\ Len(up'[c]) = Len(up[c]) - 1
    <2>1. up[c] \in Seq(Acks) /\ Len(up[c]) <= sendCursor[c] - a /\ sendCursor[c] \in a..(next - 1)
      BY <1>1, <1>3 DEF IInv, WindowOK
    <2>2. up \in [Links -> Seq(Hellos \cup Acks)]
      BY DEF IInv, SocketsOK
    <2>3. Len(up[c]) \in Nat \ {0}
      BY <1>1, <2>1
    <2>4. up'[c] = Tail(up[c])
      BY <1>1, <2>2
    <2>5. Len(Tail(up[c])) = Len(up[c]) - 1
      BY <1>1, <2>1
    <2> QED
      BY <1>4, <2>1, <2>3, <2>4, <2>5
  <1>16. AcksAreEarned'
    <2>1. Delivered(rows, taken, a) /\ (rows[a + 1].command = "deletion" => <<rows[a + 1].id, "deletion">> \in taken)
      <3>1. 1 \in 1..Len(up[c])
        BY <1>15
      <3> QED
        BY <1>1, <1>2, <1>3, <3>1 DEF AcksAreEarned
    <2>2. DOMAIN rows \subseteq Nat
      BY OutboxFacts
    <2>3. Delivered(rows, taken, a + 1)
      BY <1>4, <2>1, <2>2 DEF Delivered
    <2>4. ASSUME NEW i \in 1..Len(up'[c]), rows'[a + 1 + i].command = "deletion"
          PROVE  <<rows'[a + 1 + i].id, "deletion">> \in taken'
      <3>1. PICK n : n = Len(up[c])
        OBVIOUS
      <3>2. n \in Nat \ {0} /\ a + n <= next - 1 /\ i \in 1..(n - 1)
        BY <1>15, <2>4, <3>1
      <3>3. i + 1 \in 1..n /\ a + (i + 1) = a + 1 + i /\ a + (i + 1) \in (a + 1)..(next - 1)
        BY <1>4, <3>2
      <3>4. a + 1 + i \in DOMAIN rows
        BY <1>4, <3>3
      <3>5. rows[a + (i + 1)].command = "deletion" => <<rows[a + (i + 1)].id, "deletion">> \in taken
        BY <1>1, <1>2, <1>3, <3>1, <3>3 DEF AcksAreEarned
      <3> QED
        BY <1>1, <1>8, <2>4, <3>3, <3>4, <3>5
    <2> QED
      BY <1>1, <1>9, <1>10, <2>3, <2>4 DEF AcksAreEarned
  <1> QED
    BY <1>12, <1>14, <1>16

\* The hellos unread after one is read are later ones.
LEMMA HelloUnread ==
    ASSUME IInv, NEW c \in Links, Hello(c)
    PROVE  \A d \in Unread' : d \in Unread /\ Resume(d)' = Resume(d) /\ c < d
  <1>a. /\ server[c] = "open" /\ server' = Supersede(c)
        /\ up' = [d \in Links |-> CASE d = c -> Tail(up[c]) [] d = current -> <<>> [] OTHER -> up[d]]
    BY HelloReconciles
  <1>b. c # current
    BY <1>a DEF IInv, SocketsOK
  <1>1. \A d \in Links : server'[d] = (IF d = c THEN "hello" ELSE IF d = current THEN "superseded" ELSE server[d])
    BY <1>a, <1>b DEF Supersede
  <1>2. \A d \in Links : up'[d] = (IF d = c THEN Tail(up[c]) ELSE IF d = current THEN <<>> ELSE up[d])
    BY <1>a, <1>b
  <1>3. \A d \in Links : server'[d] = "open" => server[d] = "open" /\ up'[d] = up[d]
    BY <1>1, <1>2
  <1>4. \A d \in Links : server[d] \notin {"none", "open"} => server'[d] \notin {"none", "open"}
    BY <1>1
  <1>5. \A d \in Unread' : d \in Unread /\ Resume(d)' = Resume(d)
    BY <1>3, <1>4, UnreadShrinks
  <1>6. ASSUME NEW d \in Links, server'[d] = "open", d < c PROVE Outdated(d)'
    BY <1>1, <1>6 DEF Outdated
  <1>7. \A d \in Unread' : d \in Links /\ server'[d] = "open" /\ ~Outdated(d)'
    BY DEF Unread
  <1>8. \A d \in Unread' : d # c /\ ~(d < c)
    BY <1>1, <1>6, <1>7
  <1> QED
    BY <1>5, <1>7, <1>8 DEF Links

\* A hello that is not late acknowledges what its own cursor covers; older ones name more, so what
\* is still unread names less.
LEMMA HelloDeletes ==
    ASSUME IInv, IInv', DeletionOK, NEW c \in Links, Hello(c)
    PROVE  DeletionOK'
  <1> SUFFICES ASSUME ~lateHello'
               PROVE  NumbersAreAhead' /\ CursorsAreEarned' /\ AcksAreEarned'
    BY DEF DeletionOK
  <1>1. /\ UNCHANGED <<commandCursor, taken, link, phase, issued>>
        /\ lateHello' = (lateHello \/ Outdated(c))
    BY DEF Hello, spool, client
  <1>2. NumbersAreAhead /\ CursorsAreEarned /\ AcksAreEarned
    BY <1>1 DEF DeletionOK
  <1>3. PICK next, table, h, a : next = HelloNext(c) /\ table = HelloTable(c) /\ h = Resume(c)
                                 /\ a = AckCursor(table, next)
    OBVIOUS
  <1>4. /\ server[c] = "open" /\ up[c] = <<up[c][1]>> /\ next \in Nat \ {0} /\ nextCommandSequence <= next
        /\ h \in 0..(next - 1) /\ TableOK(table, next, issued) /\ h <= a /\ a \in 0..(next - 1)
        /\ DOMAIN table = DOMAIN rows
        /\ \A s \in DOMAIN rows : /\ table[s].id = rows[s].id /\ table[s].command = rows[s].command
                                  /\ table[s].acked <=> (rows[s].acked \/ s <= h)
    BY <1>3, HelloReconciles DEF Resume
  <1>5. /\ nextCommandSequence' = next /\ current' = c /\ server' = Supersede(c)
        /\ up' = [d \in Links |-> CASE d = c -> Tail(up[c]) [] d = current -> <<>> [] OTHER -> up[d]]
    BY <1>3, HelloReconciles
  <1>6. PICK wire : wire = Append(down[c], [kind |-> "hello_ack", commandSequence |-> a,
                                            capabilities |-> up[c][1].capabilities])
    OBVIOUS
  <1>7. PICK last, D : Refilled(c, table, next, issued, a, wire, last, D)
    BY <1>3, <1>6, HelloRefills
  <1>8. DOMAIN rows' = DOMAIN rows /\ Acked' = a
        /\ \A s \in DOMAIN rows : rows'[s].id = rows[s].id /\ rows'[s].command = rows[s].command
    <2>1. DOMAIN rows' = DOMAIN table /\ AckCursor(rows', next) = a
      BY <1>3, <1>4, <1>7, RefillEffect
    <2>2. \A s \in DOMAIN table : rows'[s].id = table[s].id /\ rows'[s].command = table[s].command
      BY <1>4, <1>7, RefillEffect
    <2> QED
      BY <1>4, <1>5, <2>1, <2>2 DEF Acked
  <1>9. \A m : Delivered(rows, taken, m) => Delivered(rows', taken', m)
    BY <1>1, <1>8 DEF Delivered
  <1>10. c # current /\ c \in Unread
    BY <1>1, <1>4 DEF IInv, SocketsOK, Unread
  <1>11. \A d \in Unread' : d \in Unread /\ Resume(d)' = Resume(d) /\ c < d
    BY HelloUnread
  <1>12. /\ h >= commandCursor /\ Delivered(rows, taken, h) /\ commandCursor \in Nat
         /\ \A d \in Unread' : Resume(d) <= h /\ Resume(d) \in Nat
    <2>1. \A d \in Links : server[d] = "open" => \E hello \in Hellos : up[d] = <<hello>>
      BY DEF IInv, SocketsOK
    <2>2. \A d \in Unread : Resume(d) \in Nat
      BY <2>1 DEF Unread, Resume, Hellos
    <2> QED
      BY <1>2, <1>3, <1>10, <1>11, <2>2, OutboxFacts DEF CursorsAreEarned
  <1>13. NumbersAreAhead'
    <2>1. commandCursor' < nextCommandSequence'
      BY <1>1, <1>4, <1>5, <1>12
    <2>2. \A d \in Unread' : Resume(d)' < nextCommandSequence'
      BY <1>4, <1>5, <1>11, <1>12
    <2> QED
      BY <2>1, <2>2 DEF NumbersAreAhead
  <1>14. Delivered(rows', taken', a)
    <2> SUFFICES ASSUME NEW s \in DOMAIN rows, s <= a, rows[s].command = "deletion"
                 PROVE  <<rows[s].id, "deletion">> \in taken
      BY <1>1, <1>8 DEF Delivered
    <2>1. table[s].acked
      BY <1>3, <1>4, CursorSplits
    <2>2. rows[s].acked \/ s <= h
      BY <1>4, <2>1
    <2>3. rows[s].acked => s <= Acked
      BY OutboxFacts
    <2> QED
      BY <1>2, <1>12, <2>2, <2>3 DEF AcksAreEarned, Delivered
  <1>15. CursorsAreEarned'
    <2>1. Delivered(rows', taken', commandCursor')
      BY <1>1, <1>2, <1>9 DEF CursorsAreEarned
    <2>2. \A d \in Unread' : Resume(d)' >= commandCursor' /\ Delivered(rows', taken', Resume(d)')
      BY <1>1, <1>2, <1>9, <1>11 DEF CursorsAreEarned
    <2>3. \A d, e \in Unread' : d < e => Resume(d)' >= Resume(e)'
      BY <1>2, <1>11 DEF CursorsAreEarned
    <2>4. Connected' /\ phase' = "hello" /\ down'[link'] # <<>> =>
            Delivered(rows', taken', down'[link'][1].commandSequence)
      <3> SUFFICES ASSUME Connected', phase' = "hello", down'[link'] # <<>>
                   PROVE  Delivered(rows', taken', down'[link'][1].commandSequence)
        OBVIOUS
      <3>1. CASE c = link
        <4>1. down'[link'][1].commandSequence = Acked'
          BY <1>1, <1>5, <1>4, <3>1 DEF IInv, WindowOK, Links
        <4> QED
          BY <1>8, <1>14, <4>1
      <3>2. CASE c # link
        <4>1. down \in [Links -> Seq(HelloAcks \cup Frames)]
          BY DEF IInv, SocketsOK
        <4>2. down'[link] = down[link] /\ Connected /\ phase = "hello" /\ link' = link
          BY <1>1, <1>7, <3>2, <4>1 DEF Refilled, Connected
        <4>3. Delivered(rows, taken, down[link][1].commandSequence)
          BY <1>2, <4>2 DEF CursorsAreEarned
        <4> QED
          BY <1>9, <4>2, <4>3
      <3> QED
        BY <3>1, <3>2
    <2> QED
      BY <2>1, <2>2, <2>3, <2>4 DEF CursorsAreEarned
  <1>16. AcksAreEarned'
    <2>1. up'[c] = <<>>
      <3>1. \A d \in Links : up'[d] = (IF d = c THEN Tail(up[c]) ELSE IF d = current THEN <<>> ELSE up[d])
        BY <1>5, <1>10
      <3>2. PICK hello : hello = up[c][1]
        OBVIOUS
      <3>3. up[c] = <<hello>>
        BY <1>4, <3>2
      <3> QED
        BY <3>1, <3>3
    <2>2. 1..Len(up'[c]) = {}
      BY <2>1
    <2> QED
      BY <1>5, <1>8, <1>14, <2>2 DEF AcksAreEarned
  <1> QED
    BY <1>13, <1>15, <1>16

\* The new hello names the spool's cursor, which every hello still unread names at least.
LEMMA DialDeletes ==
    ASSUME IInv, DeletionOK, Dial
    PROVE  DeletionOK'
  <1> SUFFICES ASSUME ~lateHello'
               PROVE  NumbersAreAhead' /\ CursorsAreEarned' /\ AcksAreEarned'
    BY DEF DeletionOK
  <1>1. /\ UNCHANGED <<rows, nextCommandSequence, deletionCapability, commandCursor, taken, lateHello, current, down>>
        /\ link < MaxLinks /\ link' = link + 1 /\ server' = [server EXCEPT ![link + 1] = "open"] /\ ~Connected
    BY DEF Dial, outbox, spool, history, Connected
  <1>2. NumbersAreAhead /\ CursorsAreEarned /\ AcksAreEarned
    BY <1>1 DEF DeletionOK
  <1>3. PICK offered \in CapabilitySets : up' = [up EXCEPT ![link + 1] =
                  <<[kind |-> "hello", commandSequence |-> commandCursor, capabilities |-> offered]>>]
    BY DEF Dial
  <1>4. PICK l : l = link + 1
    OBVIOUS
  <1>5. /\ l \in Links /\ link \in Nat /\ (current # 0 => current \in Links /\ current # l)
        /\ server \in [Links -> {"none", "open", "hello", "closed", "superseded"}]
        /\ up \in [Links -> Seq(Hellos \cup Acks)] /\ down \in [Links -> Seq(HelloAcks \cup Frames)]
        /\ \A d \in Links : server[d] = "none" <=> d > link
        /\ down[l] = <<>> /\ server[l] = "none"
    <2>1. MaxLinks \in Nat
      BY BoundsAssumption
    <2>2. l \in Links /\ link \in Nat /\ l > link
      BY <1>1, <1>4, <2>1 DEF IInv, TypeOK, Links
    <2>3. server[l] = "none" /\ server[l] # "hello"
      BY <2>2 DEF IInv, SocketsOK
    <2> QED
      BY <1>1, <2>2, <2>3 DEF IInv, SocketsOK, TypeOK
  <1>6. /\ server'[l] = "open" /\ Resume(l)' = commandCursor
        /\ \A d \in Links : d # l => server'[d] = server[d] /\ up'[d] = up[d]
    BY <1>1, <1>3, <1>4, <1>5 DEF Resume
  <1>7. \A d \in Unread' : d = l \/ (d \in Unread /\ Resume(d)' = Resume(d) /\ d < l)
    <2> SUFFICES ASSUME NEW d \in Links, server'[d] = "open", ~Outdated(d)', d # l
                 PROVE  d \in Unread /\ Resume(d)' = Resume(d) /\ d < l
      BY DEF Unread
    <2>1. server[d] = "open" /\ up'[d] = up[d]
      BY <1>6
    <2>2. ~Outdated(d)
      BY <1>5, <1>6 DEF Outdated
    <2>3. ~(d > link)
      BY <1>5, <2>1
    <2> QED
      BY <1>4, <1>5, <2>1, <2>2, <2>3 DEF Unread, Resume, Links
  <1>8. commandCursor \in Nat /\ l \in Nat
    BY <1>5, OutboxFacts DEF Links
  <1>9. NumbersAreAhead'
    BY <1>1, <1>2, <1>6, <1>7 DEF NumbersAreAhead
  <1>10. CursorsAreEarned'
    <2>1. \A d \in Unread' : Resume(d)' >= commandCursor' /\ Delivered(rows', taken', Resume(d)')
      BY <1>1, <1>2, <1>6, <1>7, <1>8 DEF CursorsAreEarned
    <2>2. \A d, e \in Unread' : d < e => Resume(d)' >= Resume(e)'
      <3> SUFFICES ASSUME NEW d \in Unread', NEW e \in Unread', d < e
                   PROVE  Resume(d)' >= Resume(e)'
        OBVIOUS
      <3>1. d # l
        <4>1. d \in Nat /\ e \in Nat
          BY DEF Unread, Links
        <4>2. e = l \/ e < l
          BY <1>7
        <4> QED
          BY <1>8, <4>1, <4>2
      <3>2. d \in Unread /\ Resume(d)' = Resume(d)
        BY <1>7, <3>1
      <3>3. CASE e = l
        BY <1>2, <1>6, <3>2, <3>3 DEF CursorsAreEarned
      <3>4. CASE e # l
        BY <1>2, <1>7, <3>2, <3>4 DEF CursorsAreEarned
      <3> QED
        BY <3>3, <3>4
    <2>3. down'[link'] = <<>>
      BY <1>1, <1>4, <1>5
    <2> QED
      BY <1>1, <1>2, <2>1, <2>2, <2>3 DEF CursorsAreEarned
  <1>11. AcksAreEarned'
    <2>1. Acked' = Acked
      BY <1>1 DEF Acked
    <2>2. current # 0 => up'[current] = up[current]
      BY <1>5, <1>6
    <2> QED
      BY <1>1, <1>2, <2>1, <2>2 DEF AcksAreEarned
  <1> QED
    BY <1>9, <1>10, <1>11

\* The plugin adopts a cursor that was earned.
LEMMA ReceiveHelloAckDeletes ==
    ASSUME IInv, DeletionOK, ReceiveHelloAck
    PROVE  DeletionOK'
  <1> SUFFICES ASSUME ~lateHello'
               PROVE  NumbersAreAhead' /\ CursorsAreEarned' /\ AcksAreEarned'
    BY DEF DeletionOK
  <1>1. PICK ack : ack = down[link][1]
    OBVIOUS
  <1>2. /\ Inbound("hello_ack") /\ Connected /\ phase = "hello" /\ down[link] # <<>>
        /\ ack.commandSequence \in commandCursor..(nextCommandSequence - 1)
        /\ commandCursor \in Nat /\ nextCommandSequence \in Nat
        /\ commandCursor' = ack.commandSequence /\ phase' = "ready" /\ down' = [down EXCEPT ![link] = Tail(@)]
    BY <1>1, HelloAckIsTaken
  <1>3. UNCHANGED <<rows, nextCommandSequence, deletionCapability, taken, lateHello, current, server, up, link>>
    BY DEF ReceiveHelloAck, outbox, ingress
  <1>4. NumbersAreAhead /\ CursorsAreEarned /\ AcksAreEarned
    BY <1>3 DEF DeletionOK
  <1>5. Unread' = {}
    <2>1. server[link] # "open"
      BY <1>2, InboundTail
    <2>2. Unread = {}
      BY <1>2, <2>1, NobodyUnread
    <2>3. \A d \in Unread' : d \in Unread
      BY <1>3, UnreadShrinks
    <2> QED
      BY <2>2, <2>3
  <1>6. commandCursor' < nextCommandSequence'
    BY <1>2, <1>3
  <1>7. Delivered(rows', taken', commandCursor')
    BY <1>1, <1>2, <1>3, <1>4 DEF CursorsAreEarned
  <1>8. Acked' = Acked
    BY <1>3 DEF Acked
  <1> QED
    BY <1>2, <1>3, <1>4, <1>5, <1>6, <1>7, <1>8 DEF NumbersAreAhead, CursorsAreEarned, AcksAreEarned

\* The command taken next is the row right above the cursor, and a deletion is taken as one.
LEMMA JournalDeletes ==
    ASSUME IInv, DeletionOK, Inbound("command"), Journal(Head(down[link])),
           UNCHANGED <<rows, nextCommandSequence, deletionCapability, issued, ran, lateHello, current, server>>,
           phase' # "hello", \A d \in Links : server[d] = "open" => up'[d] = up[d],
           current # 0 => \/ up'[current] = up[current]
                          \/ current = link /\ Len(up'[current]) = Len(up[current]) + 1
    PROVE  DeletionOK'
  <1> SUFFICES ASSUME ~lateHello
               PROVE  NumbersAreAhead' /\ CursorsAreEarned' /\ AcksAreEarned'
    BY DEF DeletionOK
  <1>1. PICK frame, n, next, a : frame = Head(down[link]) /\ n = commandCursor + 1 /\ next = nextCommandSequence
                                 /\ a = Acked
    OBVIOUS
  <1>2. NumbersAreAhead /\ CursorsAreEarned /\ AcksAreEarned
    BY DEF DeletionOK
  <1>3. phase = "ready" /\ Carries(rows, frame, n)
    BY <1>1, NextIsAccepted
  <1>4. commandCursor' = n /\ taken' = taken \cup {<<frame.id, frame.command>>} /\ commandCursor \in Nat
    <2>1. Carries(rows, frame, commandCursor + 1) /\ Journal(frame)
      BY <1>1, <1>3
    <2> QED
      BY <1>1, <2>1, JournalKeeps
  <1>5. /\ n \in DOMAIN rows /\ frame.id = rows[n].id /\ (rows[n].command = "deletion" => frame.command = "deletion")
    BY <1>3 DEF Carries
  <1>6. DOMAIN rows \subseteq 1..(next - 1) /\ next \in Nat /\ a \in Nat
    BY <1>1, OutboxFacts
  <1>7. Unread' = {}
    <2>1. Connected /\ server[link] # "open"
      <3>1. Connected /\ down[link] # <<>>
        BY DEF Inbound
      <3> QED
        BY <3>1 DEF IInv, SocketsOK
    <2>2. Unread = {}
      BY <2>1, NobodyUnread
    <2>3. \A d \in Unread' : d \in Unread
      BY UnreadShrinks
    <2> QED
      BY <2>2, <2>3
  <1>8. rows[n].command = "deletion" => <<rows[n].id, "deletion">> \in taken'
    BY <1>4, <1>5
  <1>9. NumbersAreAhead'
    BY <1>1, <1>4, <1>5, <1>6, <1>7 DEF NumbersAreAhead
  <1>10. CursorsAreEarned'
    <2>1. Delivered(rows', taken', n)
      <3> SUFFICES ASSUME NEW s \in DOMAIN rows, s <= n, rows[s].command = "deletion"
                   PROVE  <<rows[s].id, "deletion">> \in taken'
        BY DEF Delivered
      <3>1. s = n \/ s <= commandCursor
        BY <1>1, <1>4, <1>6
      <3> QED
        BY <1>2, <1>4, <1>8, <3>1 DEF CursorsAreEarned, Delivered
    <2> QED
      BY <1>4, <1>7, <2>1 DEF CursorsAreEarned
  <1>11. AcksAreEarned'
    <2>1. Acked' = a
      BY <1>1 DEF Acked
    <2>2. Delivered(rows', taken', a)
      BY <1>1, <1>2, <1>4 DEF AcksAreEarned, Delivered
    <2>3. ASSUME current # 0, NEW i \in 1..Len(up'[current]), rows[a + i].command = "deletion"
          PROVE  <<rows[a + i].id, "deletion">> \in taken'
      <3>1. CASE i \in 1..Len(up[current])
        BY <1>1, <1>2, <1>4, <2>3, <3>1 DEF AcksAreEarned
      <3>2. CASE i \notin 1..Len(up[current])
        <4>1. current = link /\ Len(up'[current]) = Len(up[current]) + 1
          BY <2>3, <3>2
        <4>2. up[current] \in Seq(Acks) /\ commandCursor = a + Len(up[current])
          BY <1>1, <1>3, <2>3, <4>1 DEF IInv, WindowOK
        <4>3. PICK m : m = Len(up[current])
          OBVIOUS
        <4>4. m \in Nat /\ i \in 1..(m + 1) /\ i \notin 1..m /\ commandCursor = a + m
          BY <2>3, <3>2, <4>1, <4>2, <4>3
        <4>5. a + i = n
          BY <1>1, <1>6, <4>4
        <4> QED
          BY <1>8, <2>3, <4>5
      <3> QED
        BY <3>1, <3>2
    <2> QED
      BY <2>1, <2>2, <2>3 DEF AcksAreEarned
  <1> QED
    BY <1>9, <1>10, <1>11

LEMMA ReceiveCommandDeletes ==
    ASSUME IInv, DeletionOK, ReceiveCommand
    PROVE  DeletionOK'
  <1>1. /\ Inbound("command")
        /\ UNCHANGED <<rows, nextCommandSequence, deletionCapability, issued, ran, lateHello, current, server, phase>>
    BY DEF ReceiveCommand, outbox, ingress
  <1>2. phase = "ready" /\ Verdict(Head(down[link])) = "accepted" /\ link \in Links
    BY <1>1, NextIsAccepted
  <1>3. Journal(Head(down[link]))
    BY <1>2 DEF ReceiveCommand
  <1>4. up' = IF link \in Open THEN [up EXCEPT ![link] = Append(@, AckOf(Head(down[link])))] ELSE up
    BY <1>2 DEF ReceiveCommand
  <1>5. server[link] # "open" /\ up \in [Links -> Seq(Hellos \cup Acks)]
    <2>1. Connected
      BY <1>1 DEF Inbound
    <2> QED
      BY <1>2, <2>1 DEF IInv, SocketsOK
  <1>6. \A d \in Links : server[d] = "open" => up'[d] = up[d]
    BY <1>4, <1>5
  <1>7. current # 0 => \/ up'[current] = up[current]
                       \/ current = link /\ Len(up'[current]) = Len(up[current]) + 1
    <2>1. PICK ack : ack = AckOf(Head(down[link]))
      OBVIOUS
    <2>2. current # 0 => current \in Links
      BY DEF IInv, SocketsOK
    <2>3. CASE link \notin Open \/ current # link
      BY <1>4, <1>5, <2>2, <2>3
    <2>4. CASE link \in Open /\ current = link
      <3>1. up'[link] = Append(up[link], ack)
        BY <1>2, <1>4, <1>5, <2>1, <2>4
      <3>2. Len(Append(up[link], ack)) = Len(up[link]) + 1
        BY <1>2, <1>5
      <3> QED
        BY <2>4, <3>1, <3>2
    <2> QED
      BY <2>3, <2>4
  <1> QED
    BY <1>1, <1>2, <1>3, <1>6, <1>7, JournalDeletes

LEMMA ReceiveCommandUnansweredDeletes ==
    ASSUME IInv, DeletionOK, ReceiveCommandUnanswered
    PROVE  DeletionOK'
  <1>1. /\ Inbound("command") /\ Journal(Head(down[link]))
        /\ UNCHANGED <<rows, nextCommandSequence, deletionCapability, issued, ran, lateHello, current, server, up>>
        /\ phase' # "hello"
    BY DEF ReceiveCommandUnanswered, Hangup, HangupPhase, outbox, ingress
  <1> QED
    BY <1>1, JournalDeletes

\* Steps that leave outbox and cursors alone and add no hello.
LEMMA DeletionIdles ==
    ASSUME IInv, DeletionOK,
           UNCHANGED <<rows, nextCommandSequence, deletionCapability, commandCursor, taken, lateHello, link>>,
           \A d \in Links : server'[d] = "open" => server[d] = "open" /\ up'[d] = up[d],
           \A d \in Links : server[d] \notin {"none", "open"} => server'[d] \notin {"none", "open"},
           current' = 0 \/ (current' = current /\ up'[current] = up[current]),
           phase' # "hello" \/ UNCHANGED <<phase, down>>
    PROVE  DeletionOK'
  <1>1. Acked' = Acked
    BY DEF Acked
  <1>2. nextCommandSequence' \in Nat /\ nextCommandSequence <= nextCommandSequence'
    BY OutboxFacts
  <1>3. \A d \in Unread' : d \in Unread /\ Resume(d)' = Resume(d)
    BY UnreadShrinks
  <1>4. Connected' /\ phase' = "hello" /\ down'[link'] # <<>> =>
          /\ Connected /\ phase = "hello" /\ down[link] # <<>>
          /\ down'[link'][1].commandSequence = down[link][1].commandSequence
    BY DEF Connected
  <1> QED
    BY <1>1, <1>2, <1>3, <1>4, DeletionStep

LEMMA CloseDeletes ==
    ASSUME IInv, DeletionOK, NEW C \in SUBSET Open, Close(C)
    PROVE  DeletionOK'
  <1>1. /\ UNCHANGED <<rows, nextCommandSequence, deletionCapability, commandCursor, taken, lateHello, link, phase, down>>
        /\ server' = [c \in Links |-> IF c \in C THEN "closed" ELSE server[c]]
        /\ up' = [c \in Links |-> IF c \in C THEN <<>> ELSE up[c]]
        /\ current' = IF current \in C THEN 0 ELSE current
    BY DEF Close, outbox, spool, client, history
  <1>2. current # 0 => current \in Links
    BY DEF IInv, SocketsOK
  <1>3. current' = 0 \/ (current' = current /\ up'[current] = up[current])
    BY <1>1, <1>2
  <1> QED
    BY <1>1, <1>3, DeletionIdles

LEMMA RefuseHelloDeletes ==
    ASSUME IInv, DeletionOK, NEW c \in Links, RefuseHello(c)
    PROVE  DeletionOK'
  <1>1. /\ UNCHANGED <<rows, nextCommandSequence, deletionCapability, commandCursor, taken, lateHello, link, phase, down>>
        /\ server' = [Supersede(c) EXCEPT ![c] = "closed"] /\ current' = 0
        /\ up' = [d \in Links |-> IF d \in {c, current} THEN <<>> ELSE up[d]]
    BY DEF RefuseHello, outbox, spool, client
  <1>2. \A d \in Links : server'[d] = (IF d = c THEN "closed" ELSE IF d = current THEN "superseded" ELSE server[d])
    BY <1>1 DEF Supersede
  <1> QED
    BY <1>1, <1>2, DeletionIdles

\* A lost spool starts again below every number.
LEMMA RecreateSpoolDeletes ==
    ASSUME IInv, DeletionOK, RecreateSpool
    PROVE  DeletionOK'
  <1> SUFFICES ASSUME ~lateHello'
               PROVE  NumbersAreAhead' /\ CursorsAreEarned' /\ AcksAreEarned'
    BY DEF DeletionOK
  <1>1. /\ UNCHANGED <<rows, nextCommandSequence, deletionCapability, taken, lateHello, server, up, current, link, phase,
                       down>>
        /\ commandCursor' = 0
    BY DEF RecreateSpool, outbox, ingress, history
  <1>2. NumbersAreAhead /\ CursorsAreEarned /\ AcksAreEarned
    BY <1>1 DEF DeletionOK
  <1>3. nextCommandSequence \in Nat \ {0} /\ DOMAIN rows \subseteq 1..(nextCommandSequence - 1) /\ commandCursor \in Nat
    BY OutboxFacts
  <1>4. \A d \in Unread' : d \in Unread /\ Resume(d)' = Resume(d)
    BY <1>1, UnreadShrinks
  <1>5. \A d \in Unread : Resume(d) \in Nat
    <2>1. \A d \in Links : server[d] = "open" => \E hello \in Hellos : up[d] = <<hello>>
      BY DEF IInv, SocketsOK
    <2> QED
      BY <2>1 DEF Unread, Resume, Hellos
  <1>6. Delivered(rows', taken', 0)
    BY <1>1, <1>3 DEF Delivered
  <1>7. NumbersAreAhead'
    BY <1>1, <1>2, <1>3, <1>4 DEF NumbersAreAhead
  <1>8. CursorsAreEarned'
    BY <1>1, <1>2, <1>4, <1>5, <1>6 DEF CursorsAreEarned, Connected
  <1>9. AcksAreEarned'
    BY <1>1, <1>2 DEF AcksAreEarned, Acked
  <1> QED
    BY <1>7, <1>8, <1>9

LEMMA InitDeletes == Init => DeletionOK
  <1> SUFFICES ASSUME Init PROVE NumbersAreAhead /\ CursorsAreEarned /\ AcksAreEarned
    BY DEF DeletionOK
  <1>1. DOMAIN rows = {} /\ deletionCapability = FALSE /\ current = 0 /\ ~Connected
    BY DEF Init, Connected
  <1>2. Unread = {}
    BY DEF Init, Unread
  <1> QED
    BY <1>1, <1>2 DEF NumbersAreAhead, CursorsAreEarned, AcksAreEarned, Delivered

LEMMA NextDeletes == IInv /\ IInv' /\ DeletionOK /\ [Next]_vars => DeletionOK'
  <1> SUFFICES ASSUME IInv, IInv', DeletionOK, [Next]_vars PROVE DeletionOK'
    OBVIOUS
  <1>1. CASE UNCHANGED <<outbox, commandCursor, link, phase, up, down, ingress, taken, lateHello>>
    BY <1>1, DeletionIdles DEF outbox, ingress
  <1>2. CASE \E command \in Kinds : Enqueue(command)
    BY <1>2, EnqueueDeletes
  <1>3. CASE FlushQueued
    BY <1>3, FlushQueuedDeletes
  <1>4. CASE \E s \in DOMAIN rows : Cancel(s)
    BY <1>4, CancelDeletes
  <1>5. CASE \E c \in Links : Hello(c) \/ RefuseHello(c) \/ ReceiveAck(c)
    BY <1>5, HelloDeletes, RefuseHelloDeletes, ReceiveAckDeletes
  <1>6. CASE \E c \in Links : CloseAbandoned(c) \/ (c \in Open /\ Fault({c}))
    <2>1. PICK c \in Links : CloseAbandoned(c) \/ (c \in Open /\ Fault({c}))
      BY <1>6
    <2>2. {c} \in SUBSET Open /\ Close({c})
      BY <2>1 DEF CloseAbandoned, Fault
    <2> QED
      BY <2>2, CloseDeletes
  <1>7. CASE Fault(Open)
    <2>1. Open \in SUBSET Open /\ Close(Open)
      BY <1>7 DEF Fault
    <2> QED
      BY <2>1, CloseDeletes
  <1>8. CASE Dial \/ ReceiveHelloAck \/ ReceiveCommand \/ ReceiveCommandUnanswered \/ RecreateSpool
    BY <1>8, DialDeletes, ReceiveHelloAckDeletes, ReceiveCommandDeletes, ReceiveCommandUnansweredDeletes,
       RecreateSpoolDeletes
  <1>9. CASE Dispatch \/ (\E e \in running : FinishResolve(e) \/ FinishAction(e)) \/ UNCHANGED vars
    <2>1. UNCHANGED <<outbox, commandCursor, link, phase, up, down, ingress, taken, lateHello>>
      BY <1>9 DEF Dispatch, FinishResolve, FinishAction, history, vars, spool, client
    <2> QED
      BY <1>1, <2>1
  <1>10. CASE NoticeClose \/ DropSocket \/ Crash
    <2>1. /\ UNCHANGED <<rows, nextCommandSequence, deletionCapability, commandCursor, taken, lateHello, link, server, up,
                         current>>
          /\ phase' # "hello"
      BY <1>10 DEF NoticeClose, DropSocket, Crash, Hangup, HangupPhase, outbox, spool, ingress
    <2> QED
      BY <2>1, DeletionIdles
  <1> QED
    BY <1>2, <1>3, <1>4, <1>5, <1>6, <1>7, <1>8, <1>9, <1>10 DEF Next

\* A session deletion is retired only after a plugin that could carry it out took it as the deletion
\* it is, whatever older peers, lost spools and reconnects came between; a hello read after that of
\* a later dial is the one exception.
THEOREM DeletionsAreDelivered == Spec => []DeletionIsDelivered
  <1>1. IInv /\ DeletionOK => DeletionIsDelivered
    <2> SUFFICES ASSUME IInv, DeletionOK, ~lateHello, NEW s \in DOMAIN rows, rows[s].command = "deletion", rows[s].acked
                 PROVE  <<rows[s].id, "deletion">> \in taken
      BY DEF DeletionIsDelivered
    <2>1. s <= Acked
      BY OutboxFacts
    <2> QED
      BY <2>1 DEF DeletionOK, AcksAreEarned, Delivered
  <1>2. Spec => [](IInv /\ DeletionOK)
    <2>1. Init => IInv /\ DeletionOK
      BY InitHolds, InitDeletes
    <2>2. IInv /\ DeletionOK /\ [Next]_vars => IInv' /\ DeletionOK'
      BY NextKeeps, NextDeletes
    <2> QED
      BY <2>1, <2>2, PTL DEF Spec
  <1> QED
    BY <1>1, <1>2, PTL

----------------------------------------------------------------------------
(* Nothing runs twice                                                      *)

\* What started is in the spool as it was minted; a turn that the spool has as not processed has not
\* started, and only such turns wait in the backlog, each once.
StartsOK ==
    /\ \A i \in 1..PriorCommands : issued[i] = "turn"
    /\ \A i \in 1..Len(issued) : ran[i] > 0 => \E s \in DOMAIN inbox : inbox[s].id = i /\ inbox[s].command = issued[i]
    /\ \A s \in DOMAIN inbox : inbox[s].command = "turn" /\ ~inbox[s].processed => ran[inbox[s].id] = 0
    /\ \A i \in 1..Len(issued) : issued[i] = "turn" => ran[i] <= 1
    /\ \A i \in 1..Len(backlog) : inbox[backlog[i]].command = "turn" => ~inbox[backlog[i]].processed
    /\ \A i, j \in 1..Len(backlog) : backlog[i] = backlog[j] => i = j

\* A command that stands for row s of a table is a discard if the row is a resolution taken back.
Told(table, s, command) == table[s].command = "resolve" /\ table[s].cancelled => command = "discard"

\* A card is reopened when its resolution is taken back, and wherever that row was copied to, in the
\* spool or on the wire, it is the discard.
CardsOK ==
    /\ \A i \in reopened : \E s \in DOMAIN rows : rows[s].id = i /\ rows[s].command = "resolve" /\ rows[s].cancelled
    /\ \A s \in DOMAIN inbox \cap DOMAIN rows : inbox[s].id = rows[s].id => Told(rows, s, inbox[s].command)
    /\ \A c \in Links : \A i \in 1..Len(down[c]) :
         down[c][i].kind = "command" => Told(rows, down[c][i].sequence, down[c][i].command)

\* What a flush may still take back is ahead of the spool: no cursor is behind it and nobody but the
\* connection that owns the agent has commands on its way.
AheadOK ==
    /\ current # 0 => commandCursor <= sendCursor[current]
    /\ current # 0 /\ Connected /\ current # link => phase = "hello" /\ down[link] = <<>>
    /\ \A c \in Unread : Resume(c) = commandCursor

OnceOK == recreations \in Nat /\ (recreations = 0 => StartsOK /\ (~lateHello => CardsOK /\ AheadOK))

\* Ids in the spool are distinct, and what is not a discard is the command minted.
LEMMA InboxIds ==
    ASSUME IInv, \A i \in 1..PriorCommands : issued[i] = "turn"
    PROVE  /\ \A s \in DOMAIN inbox : /\ inbox[s].id \in 1..Len(issued)
                                      /\ inbox[s].command \in {issued[inbox[s].id], "discard"}
           /\ \A s, r \in DOMAIN inbox : inbox[s].id = inbox[r].id => s = r
  <1>1. /\ TableOK(rows, nextCommandSequence, issued) /\ PriorCommands <= Len(issued) /\ PriorCommands \in Nat
        /\ Len(issued) \in Nat /\ DOMAIN inbox \subseteq Nat \ {0} /\ commandCursor \in Nat
    <2>1. PriorCommands \in Nat
      BY BoundsAssumption
    <2>2. DOMAIN inbox \subseteq 1..commandCursor /\ commandCursor \in Nat
      BY DEF IInv, TypeOK
    <2>3. DOMAIN inbox \subseteq Nat \ {0}
      BY <2>2
    <2> QED
      BY <2>1, <2>2, <2>3, OutboxFacts
  <1>2. \A s \in DOMAIN rows : rows[s].id \in (PriorCommands + 1)..Len(issued) /\ rows[s].command = issued[rows[s].id]
    BY <1>1 DEF TableOK
  <1>3. \A s, r \in DOMAIN rows : rows[s].id = rows[r].id => s = r
    BY <1>1 DEF TableOK
  <1>4. \A s \in DOMAIN inbox :
         \/ s \in 1..PriorCommands /\ inbox[s].id = s /\ inbox[s].command = "turn"
         \/ /\ s \in DOMAIN rows /\ rows[s].id = inbox[s].id
            /\ inbox[s].command \in {rows[s].command, "discard"}
    BY <1>1 DEF IInv, InboxOK
  <1>5. \A s \in DOMAIN inbox : /\ inbox[s].id \in 1..Len(issued)
                                /\ inbox[s].command \in {issued[inbox[s].id], "discard"}
    BY <1>1, <1>2, <1>4
  <1>6. \A s, r \in DOMAIN inbox : inbox[s].id = inbox[r].id => s = r
    BY <1>1, <1>2, <1>3, <1>4
  <1> QED
    BY <1>5, <1>6

\* Steps that start nothing and journal nothing: what has begun is only ever recorded, and the
\* backlog only gets shorter.
LEMMA StartsIdle ==
    ASSUME IInv, StartsOK, UNCHANGED <<issued, ran>>, DOMAIN inbox' = DOMAIN inbox,
           \A s \in DOMAIN inbox : /\ inbox'[s].id = inbox[s].id /\ inbox'[s].command = inbox[s].command
                                   /\ inbox[s].processed => inbox'[s].processed
                                   /\ inbox[s].command = "turn" => inbox'[s].processed = inbox[s].processed,
           backlog' \in {backlog, <<>>} \/ (backlog # <<>> /\ backlog' = Tail(backlog))
    PROVE  StartsOK'
  <1>1. backlog \in Seq(DOMAIN inbox)
    BY DEF IInv, TypeOK
  <1>2. /\ \A i \in 1..Len(backlog') : inbox'[backlog'[i]].command = "turn" => ~inbox'[backlog'[i]].processed
        /\ \A i, j \in 1..Len(backlog') : backlog'[i] = backlog'[j] => i = j
    <2>1. CASE backlog' = backlog
      BY <1>1, <2>1, SMTT(30) DEF StartsOK
    <2>2. CASE backlog' = <<>>
      BY <2>2
    <2>3. CASE backlog # <<>> /\ backlog' = Tail(backlog)
      <3>1. PICK n : n = Len(backlog)
        OBVIOUS
      <3>2. n \in Nat \ {0} /\ Len(backlog') = n - 1 /\ \A i \in 1..(n - 1) : i + 1 \in 1..n /\ backlog'[i] = backlog[i + 1]
        BY <1>1, <2>3, <3>1
      <3>3. \A i \in 1..n : backlog[i] \in DOMAIN inbox
        BY <1>1, <3>1
      <3> QED
        BY <3>1, <3>2, <3>3 DEF StartsOK
    <2> QED
      BY <2>1, <2>2, <2>3
  <1>3. \A s \in DOMAIN inbox' : inbox'[s].command = "turn" /\ ~inbox'[s].processed => ran'[inbox'[s].id] = 0
    BY DEF StartsOK
  <1>4. \A i \in 1..Len(issued') : ran'[i] > 0 => \E s \in DOMAIN inbox' : inbox'[s].id = i /\ inbox'[s].command = issued'[i]
    BY DEF StartsOK
  <1> QED
    BY <1>2, <1>3, <1>4 DEF StartsOK

LEMMA EnqueueStarts ==
    ASSUME IInv, StartsOK, NEW command \in Kinds, Enqueue(command)
    PROVE  StartsOK'
  <1>1. issued' = Append(issued, command) /\ ran' = Append(ran, 0) /\ UNCHANGED <<inbox, backlog>>
    BY DEF Enqueue, spool, client
  <1>2. PICK n : n = Len(issued)
    OBVIOUS
  <1>3. /\ n \in Nat /\ Len(ran) = n /\ PriorCommands <= n /\ PriorCommands \in Nat
        /\ issued \in Seq(Kinds \cup {"turn"}) /\ ran \in Seq(Nat)
    BY <1>2, OutboxFacts, BoundsAssumption
  <1>4. /\ Len(issued') = n + 1 /\ \A i \in 1..n : issued'[i] = issued[i] /\ ran'[i] = ran[i]
        /\ ran'[n + 1] = 0
    BY <1>1, <1>2, <1>3
  <1>5. \A s \in DOMAIN inbox : inbox[s].id \in 1..n
    BY <1>2, InboxIds DEF StartsOK
  <1>6. \A i \in 1..(n + 1) : i \in 1..n \/ i = n + 1
    BY <1>3
  <1>7. /\ \A i \in 1..PriorCommands : issued[i] = "turn"
        /\ \A i \in 1..n : ran[i] > 0 => \E s \in DOMAIN inbox : inbox[s].id = i /\ inbox[s].command = issued[i]
        /\ \A s \in DOMAIN inbox : inbox[s].command = "turn" /\ ~inbox[s].processed => ran[inbox[s].id] = 0
        /\ \A i \in 1..n : issued[i] = "turn" => ran[i] <= 1
    BY <1>2 DEF StartsOK
  <1>8. \A i \in 1..Len(issued') : ran'[i] > 0 => \E s \in DOMAIN inbox' : inbox'[s].id = i /\ inbox'[s].command = issued'[i]
    <2> SUFFICES ASSUME NEW i \in 1..Len(issued'), ran'[i] > 0
                 PROVE  \E s \in DOMAIN inbox : inbox[s].id = i /\ inbox[s].command = issued'[i]
      BY <1>1
    <2>1. i \in 1..n /\ ran[i] > 0 /\ issued'[i] = issued[i]
      BY <1>4, <1>6
    <2> QED
      BY <1>7, <2>1
  <1>9. \A i \in 1..Len(issued') : issued'[i] = "turn" => ran'[i] <= 1
    BY <1>4, <1>6, <1>7
  <1>10. \A s \in DOMAIN inbox' : inbox'[s].command = "turn" /\ ~inbox'[s].processed => ran'[inbox'[s].id] = 0
    BY <1>1, <1>4, <1>5, <1>7
  <1>11. \A i \in 1..PriorCommands : issued'[i] = "turn"
    BY <1>3, <1>4, <1>7
  <1> QED
    BY <1>1, <1>8, <1>9, <1>10, <1>11, ZenonT(60) DEF StartsOK

LEMMA DialStarts ==
    ASSUME IInv, StartsOK, Dial
    PROVE  StartsOK'
  <1>1. backlog' = Ascending(Unprocessed) /\ UNCHANGED <<inbox, issued, ran>>
    BY DEF Dial, spool, history
  <1>2. Unprocessed \in SUBSET Nat /\ IsFiniteSet(Unprocessed)
    <2>1. Unprocessed \subseteq 1..commandCursor /\ commandCursor \in Nat
      BY DEF IInv, TypeOK, Unprocessed
    <2>2. IsFiniteSet(1..commandCursor)
      <3>1. 1 \in Int /\ commandCursor \in Int
        BY <2>1
      <3> QED
        BY <3>1, FS_Interval
    <2>3. IsFiniteSet(Unprocessed)
      BY <2>1, <2>2, FS_Subset
    <2>4. Unprocessed \in SUBSET Nat
      BY <2>1
    <2> QED
      BY <2>3, <2>4
  <1>3. backlog' \in Seq(Unprocessed) /\ \A i, j \in 1..Len(backlog') : backlog'[i] = backlog'[j] => i = j
    BY <1>1, <1>2, AscendingLists
  <1>4. \A i \in 1..Len(backlog') : backlog'[i] \in Unprocessed
    BY <1>3
  <1> QED
    BY <1>1, <1>3, <1>4 DEF StartsOK, Unprocessed

\* A command that is journaled is one the spool did not have, so nothing of it has started.
LEMMA JournalStarts ==
    ASSUME IInv, StartsOK, Inbound("command"), Journal(Head(down[link])), UNCHANGED <<rows, issued, ran>>,
           backlog' \in {<<Head(down[link]).sequence>>, <<>>}
    PROVE  StartsOK'
  <1>1. PICK frame, n : frame = Head(down[link]) /\ n = commandCursor + 1
    OBVIOUS
  <1>2. Carries(rows, frame, n)
    BY <1>1, NextIsAccepted
  <1>3. /\ n \notin DOMAIN inbox /\ DOMAIN inbox' = DOMAIN inbox \cup {n} /\ frame.sequence = n
        /\ \A s \in DOMAIN inbox : inbox'[s] = inbox[s]
        /\ inbox'[n] = [id |-> frame.id, command |-> frame.command, processed |-> FALSE]
    <2>1. Carries(rows, frame, commandCursor + 1) /\ Journal(frame)
      BY <1>1, <1>2
    <2> QED
      BY <1>1, <2>1, JournalKeeps
  <1>4. n \in DOMAIN rows /\ frame.id = rows[n].id
    BY <1>2 DEF Carries
  <1>5. rows[n].id \in (PriorCommands + 1)..Len(issued) /\ \A s \in DOMAIN rows : rows[s].id = rows[n].id => s = n
    BY <1>4, OutboxFacts DEF TableOK
  <1>6. \A s \in DOMAIN inbox : inbox[s].id # frame.id
    <2>1. PriorCommands \in Nat /\ DOMAIN inbox \subseteq Nat
      BY BoundsAssumption, SMTT(30) DEF IInv, TypeOK
    <2> QED
      BY <1>3, <1>4, <1>5, <2>1 DEF IInv, InboxOK
  <1>7. ran[frame.id] = 0
    <2>1. ran \in Seq(Nat) /\ Len(ran) = Len(issued) /\ Len(issued) \in Nat
      BY OutboxFacts
    <2>2. frame.id \in 1..Len(issued) /\ PriorCommands \in Nat
      BY <1>4, <1>5, BoundsAssumption
    <2>3. ~(ran[frame.id] > 0)
      BY <1>6, <2>2 DEF StartsOK
    <2>4. ran[frame.id] \in Nat
      BY <2>1, <2>2
    <2> QED
      BY <2>3, <2>4
  <1>8. \A i \in 1..Len(issued') : ran'[i] > 0 => \E s \in DOMAIN inbox' : inbox'[s].id = i /\ inbox'[s].command = issued'[i]
    BY <1>3 DEF StartsOK
  <1>9. \A s \in DOMAIN inbox' : inbox'[s].command = "turn" /\ ~inbox'[s].processed => ran'[inbox'[s].id] = 0
    BY <1>3, <1>7 DEF StartsOK
  <1>10. /\ \A i \in 1..Len(backlog') : inbox'[backlog'[i]].command = "turn" => ~inbox'[backlog'[i]].processed
         /\ \A i, j \in 1..Len(backlog') : backlog'[i] = backlog'[j] => i = j
    BY <1>1, <1>3
  <1> QED
    BY <1>8, <1>9, <1>10 DEF StartsOK

\* A handler starts: its command is in the spool as minted, and a turn had not started before.
LEMMA StartStarts ==
    ASSUME IInv, StartsOK, NEW s \in DOMAIN inbox, Start(s), UNCHANGED issued,
           inbox[s].command \in {"turn", "resolve", "action"},
           inbox[s].command = "turn" => MarkProcessed(s) /\ ~inbox[s].processed,
           inbox[s].command # "turn" => UNCHANGED inbox
    PROVE  /\ \A i \in 1..Len(issued') : ran'[i] > 0 =>
                \E r \in DOMAIN inbox' : inbox'[r].id = i /\ inbox'[r].command = issued'[i]
           /\ \A r \in DOMAIN inbox' : inbox'[r].command = "turn" /\ ~inbox'[r].processed => ran'[inbox'[r].id] = 0
           /\ \A i \in 1..Len(issued') : issued'[i] = "turn" => ran'[i] <= 1
  <1>1. PICK j : j = inbox[s].id
    OBVIOUS
  <1>2. /\ ran \in Seq(Nat) /\ Len(ran) = Len(issued) /\ Len(issued) \in Nat /\ j \in 1..Len(issued)
        /\ ran' = [ran EXCEPT ![j] = @ + 1]
    BY <1>1, StartCounts, OutboxFacts
  <1>3. /\ \A r \in DOMAIN inbox : inbox[r].id \in 1..Len(issued)
        /\ \A r \in DOMAIN inbox : inbox[r].id = j => r = s
        /\ inbox[s].command = issued[j]
    BY <1>1, InboxIds DEF StartsOK
  <1>4. ran'[j] = ran[j] + 1 /\ ran[j] \in Nat /\ \A i \in 1..Len(issued) : i # j => ran'[i] = ran[i]
    BY <1>2
  <1>5. DOMAIN inbox' = DOMAIN inbox /\ \A r \in DOMAIN inbox : /\ inbox'[r].id = inbox[r].id
                                                                /\ inbox'[r].command = inbox[r].command
    <2>1. MarkProcessed(s) \/ UNCHANGED inbox
      OBVIOUS
    <2> QED
      BY <2>1, MarkKeeps
  <1>6. /\ \A r \in DOMAIN inbox : r # s => inbox'[r].processed = inbox[r].processed
        /\ inbox[s].command = "turn" => inbox'[s].processed
    <2>1. inbox[s] \in [id : Nat, command : Kinds \cup {"discard", "turn"}, processed : BOOLEAN]
      BY DEF IInv, TypeOK
    <2> QED
      BY <2>1 DEF MarkProcessed
  <1>7. \A i \in 1..Len(issued) : ran'[i] > 0 =>
          \E r \in DOMAIN inbox' : inbox'[r].id = i /\ inbox'[r].command = issued[i]
    <2> SUFFICES ASSUME NEW i \in 1..Len(issued), ran'[i] > 0
                 PROVE  \E r \in DOMAIN inbox : inbox[r].id = i /\ inbox[r].command = issued[i]
      BY <1>5
    <2> QED
      BY <1>1, <1>3, <1>4 DEF StartsOK
  <1>8. \A r \in DOMAIN inbox' : inbox'[r].command = "turn" /\ ~inbox'[r].processed => ran'[inbox'[r].id] = 0
    BY <1>3, <1>4, <1>5, <1>6 DEF StartsOK
  <1>9. \A i \in 1..Len(issued) : issued[i] = "turn" => ran'[i] <= 1
    <2> SUFFICES ASSUME NEW i \in 1..Len(issued), issued[i] = "turn" PROVE ran'[i] <= 1
      OBVIOUS
    <2>1. CASE i = j
      <3>1. ran[j] = 0
        BY <1>1, <1>3, <2>1 DEF StartsOK
      <3> QED
        BY <1>4, <2>1, <3>1
    <2>2. CASE i # j
      BY <1>4, <2>2 DEF StartsOK
    <2> QED
      BY <2>1, <2>2
  <1> QED
    BY <1>7, <1>8, <1>9

LEMMA DispatchStarts ==
    ASSUME IInv, StartsOK, Dispatch
    PROVE  StartsOK'
  <1>1. PICK s : s = Head(backlog)
    OBVIOUS
  <1>2. backlog \in Seq(DOMAIN inbox) /\ backlog # <<>> /\ UNCHANGED issued
    BY DEF IInv, TypeOK, Dispatch
  <1>3. /\ s \in DOMAIN inbox /\ s = backlog[1] /\ Len(backlog) \in Nat \ {0}
        /\ Len(Tail(backlog)) = Len(backlog) - 1
        /\ \A i \in 1..Len(Tail(backlog)) : i + 1 \in 1..Len(backlog) /\ Tail(backlog)[i] = backlog[i + 1]
        /\ \A i \in 1..Len(backlog) : backlog[i] \in DOMAIN inbox
    BY <1>1, <1>2
  <1>4. \A i \in 1..Len(Tail(backlog)) : Tail(backlog)[i] # s
    <2> SUFFICES ASSUME NEW i \in 1..Len(Tail(backlog)), backlog[i + 1] = backlog[1] PROVE FALSE
      BY <1>3
    <2>1. i + 1 \in 1..Len(backlog) /\ 1 \in 1..Len(backlog) /\ i + 1 # 1
      BY <1>3
    <2> QED
      BY <2>1 DEF StartsOK
  <1>5. CASE inbox[s].command \in {"discard", "deletion"} /\ MarkProcessed(s) /\ backlog' = Tail(backlog) /\ UNCHANGED ran
    <2>1. DOMAIN inbox' = DOMAIN inbox /\ \A r \in DOMAIN inbox : /\ inbox'[r].id = inbox[r].id
                                                                  /\ inbox'[r].command = inbox[r].command
      BY <1>5, MarkKeeps
    <2>2. \A r \in DOMAIN inbox : /\ inbox[r].processed => inbox'[r].processed
                                  /\ inbox[r].command = "turn" => inbox'[r].processed = inbox[r].processed
      <3>1. \A r \in DOMAIN inbox : inbox[r] \in [id : Nat, command : Kinds \cup {"discard", "turn"}, processed : BOOLEAN]
        BY DEF IInv, TypeOK
      <3> QED
        BY <1>5, <3>1 DEF MarkProcessed
    <2> QED
      BY <1>2, <1>5, <2>1, <2>2, StartsIdle
  <1>6. CASE inbox[s].command = "turn" /\ Start(s) /\ MarkProcessed(s) /\ backlog' = Tail(backlog)
    <2>1. ~inbox[s].processed
      <3>1. 1 \in 1..Len(backlog)
        BY <1>3
      <3> QED
        BY <1>3, <1>6, <3>1 DEF StartsOK
    <2>2. /\ \A i \in 1..Len(issued') : ran'[i] > 0 =>
               \E r \in DOMAIN inbox' : inbox'[r].id = i /\ inbox'[r].command = issued'[i]
          /\ \A r \in DOMAIN inbox' : inbox'[r].command = "turn" /\ ~inbox'[r].processed => ran'[inbox'[r].id] = 0
          /\ \A i \in 1..Len(issued') : issued'[i] = "turn" => ran'[i] <= 1
      BY <1>2, <1>3, <1>6, <2>1, StartStarts
    <2>3. \A r \in DOMAIN inbox : r # s => inbox'[r] = inbox[r]
      BY <1>6 DEF MarkProcessed
    <2>4. /\ \A i \in 1..Len(backlog') : inbox'[backlog'[i]].command = "turn" => ~inbox'[backlog'[i]].processed
          /\ \A i, j \in 1..Len(backlog') : backlog'[i] = backlog'[j] => i = j
      <3>1. \A i \in 1..Len(backlog) : inbox[backlog[i]].command = "turn" => ~inbox[backlog[i]].processed
        BY DEF StartsOK
      <3>2. \A i, j \in 1..Len(backlog) : backlog[i] = backlog[j] => i = j
        BY DEF StartsOK
      <3> QED
        BY <1>3, <1>4, <1>6, <2>3, <3>1, <3>2
    <2> QED
      BY <1>2, <2>2, <2>4 DEF StartsOK
  <1>7. CASE inbox[s].command \in {"resolve", "action"} /\ Start(s) /\ UNCHANGED inbox /\ backlog' \in {backlog, Tail(backlog)}
    <2>1. /\ \A i \in 1..Len(issued') : ran'[i] > 0 =>
               \E r \in DOMAIN inbox' : inbox'[r].id = i /\ inbox'[r].command = issued'[i]
          /\ \A r \in DOMAIN inbox' : inbox'[r].command = "turn" /\ ~inbox'[r].processed => ran'[inbox'[r].id] = 0
          /\ \A i \in 1..Len(issued') : issued'[i] = "turn" => ran'[i] <= 1
      BY <1>2, <1>3, <1>7, StartStarts
    <2>2. /\ \A i \in 1..Len(backlog') : inbox'[backlog'[i]].command = "turn" => ~inbox'[backlog'[i]].processed
          /\ \A i, j \in 1..Len(backlog') : backlog'[i] = backlog'[j] => i = j
      <3>1. \A i \in 1..Len(backlog) : inbox[backlog[i]].command = "turn" => ~inbox[backlog[i]].processed
        BY DEF StartsOK
      <3>2. \A i, j \in 1..Len(backlog) : backlog[i] = backlog[j] => i = j
        BY DEF StartsOK
      <3>3. CASE backlog' = backlog
        BY <1>7, <3>1, <3>2, <3>3
      <3>4. CASE backlog' = Tail(backlog)
        BY <1>3, <1>7, <3>1, <3>2, <3>4
      <3> QED
        BY <1>7, <3>3, <3>4
    <2> QED
      BY <1>2, <2>1, <2>2 DEF StartsOK
  <1> QED
    BY <1>1, <1>5, <1>6, <1>7 DEF Dispatch

LEMMA FinishStarts ==
    ASSUME IInv, StartsOK, NEW e \in running, FinishResolve(e) \/ FinishAction(e)
    PROVE  StartsOK'
  <1>1. /\ UNCHANGED <<issued, ran>> /\ inbox[e[1]].command \in {"resolve", "action"}
        /\ MarkProcessed(e[1]) \/ UNCHANGED inbox
        /\ backlog' = backlog \/ backlog' = Tail(backlog)
    BY DEF FinishResolve, FinishAction, history
  <1>2. DOMAIN inbox' = DOMAIN inbox /\ \A r \in DOMAIN inbox : /\ inbox'[r].id = inbox[r].id
                                                                /\ inbox'[r].command = inbox[r].command
    BY <1>1, MarkKeeps
  <1>3. \A r \in DOMAIN inbox : /\ inbox[r].processed => inbox'[r].processed
                                /\ inbox[r].command = "turn" => inbox'[r].processed = inbox[r].processed
    <2>1. \A r \in DOMAIN inbox : inbox[r] \in [id : Nat, command : Kinds \cup {"discard", "turn"}, processed : BOOLEAN]
      BY DEF IInv, TypeOK
    <2> QED
      BY <1>1, <2>1 DEF MarkProcessed
  <1>4. backlog' \in {backlog, <<>>} \/ (backlog # <<>> /\ backlog' = Tail(backlog))
    <2>1. CASE FinishResolve(e)
      BY <2>1 DEF FinishResolve, IInv, BacklogOK
    <2>2. CASE FinishAction(e)
      BY <2>2 DEF FinishAction
    <2> QED
      BY <2>1, <2>2
  <1> QED
    BY <1>1, <1>2, <1>3, <1>4, StartsIdle

\* Steps that add nothing to the wire, the spool or the reopened cards.
LEMMA CardsIdle ==
    ASSUME CardsOK, UNCHANGED reopened,
           \A s \in DOMAIN rows : /\ s \in DOMAIN rows' /\ rows'[s].id = rows[s].id /\ rows'[s].command = rows[s].command
                                  /\ rows[s].cancelled => rows'[s].cancelled
                                  /\ rows[s].command = "resolve" => rows'[s].cancelled = rows[s].cancelled,
           \A s \in DOMAIN rows' : s \notin DOMAIN rows => ~rows'[s].cancelled,
           DOMAIN inbox' = DOMAIN inbox,
           \A s \in DOMAIN inbox : inbox'[s].id = inbox[s].id /\ inbox'[s].command = inbox[s].command,
           \A c \in Links : \A i \in 1..Len(down'[c]) : \E j \in 1..Len(down[c]) : down'[c][i] = down[c][j],
           \A c \in Links : \A i \in 1..Len(down[c]) :
             down[c][i].kind = "command" => down[c][i].sequence \in DOMAIN rows
    PROVE  CardsOK'
  <1>1. \A i \in reopened' : \E s \in DOMAIN rows' :
          rows'[s].id = i /\ rows'[s].command = "resolve" /\ rows'[s].cancelled
    BY DEF CardsOK
  <1>2. ASSUME NEW s \in DOMAIN rows, NEW command, Told(rows, s, command)
        PROVE  Told(rows', s, command)
    BY <1>2 DEF Told
  <1>3. \A s \in DOMAIN inbox' \cap DOMAIN rows' : inbox'[s].id = rows'[s].id => Told(rows', s, inbox'[s].command)
    <2> SUFFICES ASSUME NEW s \in DOMAIN inbox \cap DOMAIN rows', inbox[s].id = rows'[s].id
                 PROVE  Told(rows', s, inbox[s].command)
      OBVIOUS
    <2>1. CASE s \in DOMAIN rows
      BY <1>2, <2>1 DEF CardsOK
    <2>2. CASE s \notin DOMAIN rows
      BY <2>2 DEF Told
    <2> QED
      BY <2>1, <2>2
  <1>4. \A c \in Links : \A i \in 1..Len(down'[c]) :
          down'[c][i].kind = "command" => Told(rows', down'[c][i].sequence, down'[c][i].command)
    <2> SUFFICES ASSUME NEW c \in Links, NEW i \in 1..Len(down'[c]), down'[c][i].kind = "command"
                 PROVE  Told(rows', down'[c][i].sequence, down'[c][i].command)
      OBVIOUS
    <2>1. PICK j \in 1..Len(down[c]) : down'[c][i] = down[c][j]
      OBVIOUS
    <2>2. down[c][j].sequence \in DOMAIN rows /\ Told(rows, down[c][j].sequence, down[c][j].command)
      BY <2>1 DEF CardsOK
    <2> QED
      BY <1>2, <2>1, <2>2
  <1> QED
    BY <1>1, <1>3, <1>4 DEF CardsOK

\* Command frames name rows.
LEMMA FramesNameRows ==
    ASSUME IInv, NEW c \in Links, NEW i \in 1..Len(down[c]), down[c][i].kind = "command"
    PROVE  /\ c = link /\ Connected /\ down[c][i].sequence \in DOMAIN rows
           /\ down[c][i].sequence = Position(i)
  <1>1. c = link /\ Connected
    <2>1. down[c] # <<>>
      OBVIOUS
    <2> QED
      BY <2>1 DEF IInv, SocketsOK
  <1>2. phase = "ready" \/ i > 1
    <2> SUFFICES ASSUME phase = "hello", i = 1 PROVE FALSE
      BY <1>1 DEF Connected
    <2>1. down[link] # <<>>
      BY <1>1
    <2>2. down[link][1] \in HelloAcks
      BY <1>1, <2>1 DEF IInv, DownOK
    <2> QED
      BY <1>1, <2>2 DEF HelloAcks
  <1>3. Carries(rows, down[link][i], Position(i))
    BY <1>1, <1>2 DEF IInv, DownOK
  <1>4. PICK f : f = down[link][i]
    OBVIOUS
  <1>5. f.sequence = Position(i) /\ Position(i) \in DOMAIN rows
    BY <1>3, <1>4 DEF Carries
  <1> QED
    BY <1>1, <1>4, <1>5

\* Of the connection that owns the agent, frames name rows up to the send cursor.
LEMMA OwnedFrames ==
    ASSUME IInv, current = link, NEW i \in 1..Len(down[link]), down[link][i].kind = "command", link \in Links
    PROVE  down[link][i].sequence <= sendCursor[link]
  <1>1. Connected /\ down[link][i].sequence = Position(i)
    BY FramesNameRows
  <1>2. WireOK(rows, nextCommandSequence, down[link], sendCursor[link])
    BY <1>1, OwnedWire
  <1>3. PICK n, b, last : n = Len(down[link]) /\ b = down[link][1].commandSequence /\ last = sendCursor[link]
    OBVIOUS
  <1>4. down[link] \in Seq(HelloAcks \cup Frames) /\ last \in Nat /\ commandCursor \in Nat
    BY <1>1, <1>3 DEF IInv, SocketsOK, TypeOK
  <1>5. n \in Nat /\ i \in 1..n
    BY <1>3, <1>4
  <1>6. CASE phase = "hello"
    <2>1. b \in Nat /\ n = last - b + 1
      <3>1. down[link][1] \in HelloAcks /\ Len(down[link]) = last - b + 1
        BY <1>2, <1>3, <1>6 DEF WireOK
      <3> QED
        BY <1>3, <3>1 DEF HelloAcks
    <2>2. Position(i) = b + i - 1
      BY <1>3, <1>6 DEF Position
    <2> QED
      BY <1>1, <1>3, <1>4, <1>5, <2>1, <2>2
  <1>7. CASE phase = "ready"
    <2>1. n = last - commandCursor /\ Position(i) = commandCursor + i
      BY <1>2, <1>3, <1>7 DEF WireOK, Position
    <2> QED
      BY <1>1, <1>3, <1>4, <1>5, <2>1
  <1> QED
    BY <1>1, <1>6, <1>7 DEF Connected

\* A flush that starts above the plugin's cursor takes back only what nobody was told.
LEMMA RefillCards ==
    ASSUME IInv, CardsOK, NEW c \in Links, NEW table, NEW next \in Nat \ {0}, NEW minted, TableOK(table, next, minted),
           \A s \in DOMAIN rows : /\ s \in DOMAIN table /\ table[s].id = rows[s].id
                                  /\ table[s].command = rows[s].command /\ table[s].cancelled = rows[s].cancelled,
           NEW cursor \in AckCursor(table, next)..(next - 1), commandCursor <= cursor,
           NEW wire \in Seq(HelloAcks \cup Frames), NEW last, NEW D, Refilled(c, table, next, minted, cursor, wire, last, D),
           \A i \in 1..Len(wire) : wire[i].kind = "command" =>
             /\ wire[i].sequence \in DOMAIN rows /\ wire[i].sequence <= cursor
             /\ Told(rows, wire[i].sequence, wire[i].command),
           \A d \in Links : d # c => down[d] = <<>>, UNCHANGED inbox
    PROVE  CardsOK'
  <1>1. /\ last \in cursor..(next - 1) /\ D \subseteq (cursor + 1)..(next - 1)
        /\ reopened' = reopened \cup {table[s].id : s \in {r \in D : table[r].command = "resolve"}}
        /\ down' = [down EXCEPT ![c] = IF c = link /\ Connected
               THEN wire \o [i \in 1..(last - cursor) |-> CommandFrame(rows', cursor + i)] ELSE @]
    BY DEF Refilled
  <1>2. PICK a : a = AckCursor(table, next)
    OBVIOUS
  <1>3. a \in 0..(next - 1) /\ (a + 1)..(next - 1) \subseteq DOMAIN table /\ cursor \in Nat /\ a <= cursor /\ last \in Nat
    BY <1>1, <1>2, CursorSplits
  <1>4. D \subseteq DOMAIN table /\ \A s \in D : s > cursor
    BY <1>1, <1>3
  <1>5. DOMAIN rows' = DOMAIN table /\ AckCursor(rows', next) = a /\ TableOK(rows', next, minted)
    <2>1. DOMAIN rows' = DOMAIN table /\ rows' = Downgrade(table, D) /\ \A s \in D : table[s].command # "deletion"
      BY RefillEffect, ZenonT(60) DEF Refilled
    <2>2. AckCursor(rows', next) = AckCursor(table, next) /\ TableOK(rows', next, minted)
      BY DEF Refilled
    <2> QED
      BY <1>2, <2>1, <2>2
  <1>6. \A s \in DOMAIN table : rows'[s].id = table[s].id /\ rows'[s].command = table[s].command
    <2>1. rows' = Downgrade(table, D) /\ \A s \in D : s \in DOMAIN table => table[s].command # "deletion"
      BY DEF Refilled
    <2> QED
      BY <2>1, DowngradeKeeps
  <1>7. \A s \in DOMAIN table : rows'[s].cancelled = (s \in D \/ table[s].cancelled)
    BY RefillDiscards
  <1>8. ASSUME NEW s \in DOMAIN rows, s <= cursor, NEW command, Told(rows, s, command)
        PROVE  Told(rows', s, command)
    <2>1. s \notin D
      BY <1>3, <1>4, <1>8, OutboxFacts
    <2>2. rows'[s].cancelled => rows[s].cancelled
      BY <1>7, <2>1
    <2> QED
      BY <1>6, <1>8, <2>2 DEF Told
  <1>9. \A i \in reopened' : \E s \in DOMAIN rows' :
          rows'[s].id = i /\ rows'[s].command = "resolve" /\ rows'[s].cancelled
    <2> SUFFICES ASSUME NEW i \in reopened'
                 PROVE  \E s \in DOMAIN rows' : rows'[s].id = i /\ rows'[s].command = "resolve" /\ rows'[s].cancelled
      OBVIOUS
    <2>1. CASE i \in reopened
      <3>1. PICK s \in DOMAIN rows : rows[s].id = i /\ rows[s].command = "resolve" /\ rows[s].cancelled
        BY <2>1 DEF CardsOK
      <3>2. rows'[s].cancelled
        BY <1>7, <3>1
      <3> QED
        BY <1>5, <1>6, <3>1, <3>2
    <2>2. CASE i \notin reopened
      <3>1. PICK s \in D : table[s].command = "resolve" /\ table[s].id = i
        BY <1>1, <2>2
      <3>2. s \in DOMAIN table /\ rows'[s].cancelled
        BY <1>4, <1>7
      <3> QED
        BY <1>5, <1>6, <3>1, <3>2
    <2> QED
      BY <2>1, <2>2
  <1>10. \A s \in DOMAIN inbox' \cap DOMAIN rows' : inbox'[s].id = rows'[s].id => Told(rows', s, inbox'[s].command)
    <2> SUFFICES ASSUME NEW s \in DOMAIN inbox \cap DOMAIN rows', inbox[s].id = rows'[s].id
                 PROVE  Told(rows', s, inbox[s].command)
      OBVIOUS
    <2>1. s \in Nat /\ s <= commandCursor /\ commandCursor \in Nat /\ PriorCommands \in Nat
      <3>1. PriorCommands \in Nat
        BY BoundsAssumption
      <3> QED
        BY <3>1 DEF IInv, TypeOK
    <2>2. rows'[s].id \in (PriorCommands + 1)..Len(minted)
      BY <1>5 DEF TableOK
    <2>3. s \in DOMAIN rows /\ rows[s].id = inbox[s].id
      BY <2>1, <2>2 DEF IInv, InboxOK
    <2>4. s <= cursor
      BY <1>3, <2>1
    <2>5. Told(rows, s, inbox[s].command)
      BY <2>3 DEF CardsOK
    <2> QED
      BY <1>8, <2>3, <2>4, <2>5
  <1>11. \A d \in Links : \A i \in 1..Len(down'[d]) :
           down'[d][i].kind = "command" => Told(rows', down'[d][i].sequence, down'[d][i].command)
    <2> SUFFICES ASSUME NEW d \in Links, NEW i \in 1..Len(down'[d]), down'[d][i].kind = "command"
                 PROVE  Told(rows', down'[d][i].sequence, down'[d][i].command)
      OBVIOUS
    <2>1. down \in [Links -> Seq(HelloAcks \cup Frames)]
      BY DEF IInv, SocketsOK
    <2>2. d = c /\ c = link /\ Connected
      <3>1. CASE d # c
        <4>1. down'[d] = <<>>
          BY <1>1, <2>1, <3>1
        <4> QED
          BY <4>1
      <3>2. CASE d = c /\ ~(c = link /\ Connected)
        <4>1. down'[d] = <<>>
          BY <1>1, <2>1, <3>2 DEF IInv, SocketsOK
        <4> QED
          BY <4>1
      <3> QED
        BY <3>1, <3>2
    <2>3. PICK frames : frames = [j \in 1..(last - cursor) |-> CommandFrame(rows', cursor + j)]
      OBVIOUS
    <2>4. down'[c] = wire \o frames
      BY <1>1, <2>1, <2>2, <2>3
    <2>5. frames \in Seq(Frames) /\ Len(frames) = last - cursor
      <3>1. AckCursor(rows', next) \in 0..(next - 1) /\ cursor \in AckCursor(rows', next)..(next - 1)
        BY <1>2, <1>3, <1>5
      <3>2. last \in cursor..(next - 1) /\ TableOK(rows', next, minted)
        BY <1>1, <1>5
      <3>3. PICK grid : grid = rows'
        OBVIOUS
      <3>4. /\ TableOK(grid, next, minted) /\ AckCursor(grid, next) \in 0..(next - 1)
            /\ cursor \in AckCursor(grid, next)..(next - 1) /\ last \in cursor..(next - 1)
        BY <3>1, <3>2, <3>3
      <3>5. /\ [j \in 1..(last - cursor) |-> CommandFrame(grid, cursor + j)] \in Seq(Frames)
            /\ Len([j \in 1..(last - cursor) |-> CommandFrame(grid, cursor + j)]) = last - cursor
        BY <3>4, FramesCarry
      <3> QED
        BY <2>3, <3>3, <3>5
    <2>6. PICK n, m : n = Len(wire) /\ m = last - cursor
      OBVIOUS
    <2>7. /\ n \in Nat /\ m \in Nat /\ i \in 1..(n + m)
          /\ \A j \in 1..n : (wire \o frames)[j] = wire[j]
          /\ \A j \in (n + 1)..(n + m) : (wire \o frames)[j] = frames[j - n]
      <3>1. PICK whole : whole = wire \o frames
        OBVIOUS
      <3>2. n \in Nat /\ m \in Nat /\ Len(whole) = n + m
        BY <1>1, <1>3, <2>5, <2>6, <3>1, SMTT(30)
      <3>3. /\ \A j \in 1..n : whole[j] = wire[j]
            /\ \A j \in (n + 1)..(n + m) : whole[j] = frames[j - n]
        BY <2>5, <2>6, <3>1, <3>2, SMTT(30)
      <3>4. i \in 1..(n + m)
        BY <2>2, <2>4, <3>1, <3>2
      <3> QED
        BY <3>1, <3>2, <3>3, <3>4
    <2>8. CASE i <= n
      <3>1. down'[d][i] = wire[i] /\ i \in 1..Len(wire)
        BY <2>2, <2>4, <2>6, <2>7, <2>8
      <3>2. wire[i].sequence \in DOMAIN rows /\ wire[i].sequence <= cursor /\ Told(rows, wire[i].sequence, wire[i].command)
        BY <3>1
      <3> QED
        BY <1>8, <3>1, <3>2
    <2>9. CASE i > n
      <3>1. PICK j : j = i - n
        OBVIOUS
      <3>2. j \in 1..m /\ down'[d][i] = frames[j]
        BY <2>2, <2>4, <2>7, <2>9, <3>1, SMTT(30)
      <3>3. down'[d][i] = CommandFrame(rows', cursor + j)
        BY <2>3, <2>6, <3>2
      <3>4. down'[d][i].sequence = cursor + j /\ down'[d][i].command = WireCommand(rows'[cursor + j])
        BY <3>3 DEF CommandFrame
      <3> QED
        BY <3>4 DEF Told, WireCommand
    <2> QED
      BY <2>7, <2>8, <2>9
  <1> QED
    BY <1>9, <1>10, <1>11 DEF CardsOK

LEMMA OthersAreSilent ==
    ASSUME IInv, AheadOK, current # 0
    PROVE  \A d \in Links : d # current => down[d] = <<>>
  <1> SUFFICES ASSUME NEW d \in Links, d # current, d = link, Connected PROVE down[d] = <<>>
    BY DEF IInv, SocketsOK
  <1> QED
    BY DEF AheadOK

\* A flush of the connection that owns the agent.
LEMMA CurrentCards ==
    ASSUME IInv, CardsOK, AheadOK, current # 0, NEW table, NEW next \in Nat \ {0}, NEW minted,
           TableOK(table, next, minted),
           \A s \in DOMAIN rows : /\ s \in DOMAIN table /\ table[s].id = rows[s].id
                                  /\ table[s].command = rows[s].command /\ table[s].cancelled = rows[s].cancelled,
           sendCursor[current] \in AckCursor(table, next)..(next - 1),
           NEW last, NEW D, Refilled(current, table, next, minted, sendCursor[current], down[current], last, D),
           UNCHANGED <<inbox, commandCursor, current, link, phase, server>>,
           \A d \in Links : server[d] = "open" => up'[d] = up[d]
    PROVE  CardsOK' /\ AheadOK'
  <1>1. PICK c, cursor, wire : c = current /\ cursor = sendCursor[current] /\ wire = down[current]
    OBVIOUS
  <1>2. c \in Links /\ down \in [Links -> Seq(HelloAcks \cup Frames)] /\ sendCursor \in [Links -> Nat]
    BY <1>1 DEF IInv, SocketsOK, TypeOK
  <1>3. /\ wire \in Seq(HelloAcks \cup Frames) /\ cursor \in AckCursor(table, next)..(next - 1)
        /\ commandCursor <= cursor /\ Refilled(c, table, next, minted, cursor, wire, last, D)
    BY <1>1, <1>2 DEF AheadOK
  <1>4. \A d \in Links : d # c => down[d] = <<>>
    BY <1>1, OthersAreSilent
  <1>5. \A i \in 1..Len(wire) : wire[i].kind = "command" =>
          /\ wire[i].sequence \in DOMAIN rows /\ wire[i].sequence <= cursor
          /\ Told(rows, wire[i].sequence, wire[i].command)
    <2> SUFFICES ASSUME NEW i \in 1..Len(down[c]), down[c][i].kind = "command"
                 PROVE  /\ down[c][i].sequence \in DOMAIN rows /\ down[c][i].sequence <= cursor
                        /\ Told(rows, down[c][i].sequence, down[c][i].command)
      BY <1>1
    <2>1. c = link /\ down[c][i].sequence \in DOMAIN rows
      BY <1>2, FramesNameRows
    <2>2. down[c][i].sequence <= cursor
      BY <1>1, <1>2, <2>1, OwnedFrames
    <2>3. Told(rows, down[c][i].sequence, down[c][i].command)
      BY <1>2 DEF CardsOK
    <2> QED
      BY <2>1, <2>2, <2>3
  <1>6. CardsOK'
    BY <1>2, <1>3, <1>4, <1>5, RefillCards
  <1>7. sendCursor'[c] = last /\ last >= cursor /\ cursor \in Nat /\ last \in Nat /\ commandCursor \in Nat
    <2>1. sendCursor' = [sendCursor EXCEPT ![c] = last] /\ last \in cursor..(next - 1)
      BY <1>3 DEF Refilled
    <2>2. cursor \in Nat
      BY <1>1, <1>2
    <2> QED
      BY <1>2, <2>1, <2>2, OutboxFacts
  <1>8. c # link /\ link \in Links => down'[link] = down[link]
    BY <1>2, <1>3 DEF Refilled
  <1>9. \A d \in Unread' : d \in Unread /\ Resume(d)' = Resume(d)
    BY UnreadShrinks
  <1>10. Connected => link \in Links
    BY DEF IInv, SocketsOK
  <1>11. AheadOK'
    BY <1>1, <1>3, <1>7, <1>8, <1>9, <1>10 DEF AheadOK, Connected
  <1> QED
    BY <1>6, <1>11

LEMMA EnqueueCards ==
    ASSUME IInv, CardsOK, AheadOK, NEW command \in Kinds, Enqueue(command)
    PROVE  CardsOK' /\ AheadOK'
  <1>1. UNCHANGED <<inbox, commandCursor, current, link, phase, server, up>>
    BY DEF Enqueue, spool, client
  <1>2. PICK table, next, minted : table = Queued(command) /\ next = nextCommandSequence + 1
                                   /\ minted = Append(issued, command)
    OBVIOUS
  <1>3. /\ TableOK(table, next, minted) /\ AckCursor(table, next) = Acked /\ next \in Nat \ {0}
        /\ nextCommandSequence <= next /\ nextCommandSequence \notin DOMAIN rows
        /\ \A s \in DOMAIN rows : /\ s \in DOMAIN table /\ table[s].id = rows[s].id
                                  /\ table[s].command = rows[s].command
    BY <1>2, QueuedKeeps, OutboxFacts
  <1>4. /\ \A s \in DOMAIN rows : table[s].cancelled = rows[s].cancelled
        /\ \A s \in DOMAIN table : s \notin DOMAIN rows => table[s].cancelled = FALSE
    BY <1>2, <1>3 DEF Queued
  <1>5. CASE current # 0
    <2>1. PICK last, D : Refilled(current, table, next, minted, sendCursor[current], down[current], last, D)
      BY <1>2, <1>5, EnqueueRefills
    <2>2. sendCursor[current] \in AckCursor(table, next)..(next - 1)
      <3>1. UNCHANGED <<up, server, current>>
        BY <1>1
      <3> QED
        BY <1>3, <1>5, <3>1, CurrentKeeps
    <2> QED
      BY <1>1, <1>3, <1>4, <1>5, <2>1, <2>2, CurrentCards
  <1>6. CASE current = 0
    <2>1. rows' = table /\ UNCHANGED <<reopened, down>>
      BY <1>2, <1>6 DEF Enqueue, FlushCurrent
    <2>2. \A d \in Links : \A i \in 1..Len(down[d]) :
            down[d][i].kind = "command" => down[d][i].sequence \in DOMAIN rows
      BY FramesNameRows
    <2>3. CardsOK'
      BY <1>1, <1>3, <1>4, <2>1, <2>2, CardsIdle
    <2>4. \A d \in Unread' : d \in Unread /\ Resume(d)' = Resume(d)
      BY <1>1, UnreadShrinks
    <2>5. AheadOK'
      BY <1>1, <1>6, <2>4 DEF AheadOK
    <2> QED
      BY <2>3, <2>5
  <1> QED
    BY <1>5, <1>6

LEMMA FlushQueuedCards ==
    ASSUME IInv, CardsOK, AheadOK, FlushQueued
    PROVE  CardsOK' /\ AheadOK'
  <1>1. UNCHANGED <<inbox, commandCursor, current, link, phase, server, up>> /\ current # 0
    BY DEF FlushQueued, spool, client
  <1>2. PICK next : next = nextCommandSequence
    OBVIOUS
  <1>3. next \in Nat \ {0} /\ TableOK(rows, next, issued) /\ sendCursor[current] \in AckCursor(rows, next)..(next - 1)
    BY <1>1, <1>2, OutboxFacts DEF IInv, WindowOK, Acked
  <1>4. PICK last, D : Refilled(current, rows, next, issued, sendCursor[current], down[current], last, D)
    BY <1>2, FlushQueuedRefills
  <1> QED
    BY <1>1, <1>3, <1>4, CurrentCards

LEMMA ReceiveAckCards ==
    ASSUME IInv, CardsOK, AheadOK, NEW c \in Links, ReceiveAck(c)
    PROVE  CardsOK' /\ AheadOK'
  <1>1. /\ UNCHANGED <<inbox, commandCursor, current, link, phase, server>> /\ c = current /\ current # 0
        /\ up' = [up EXCEPT ![c] = Tail(@)]
    BY DEF ReceiveAck, spool, client, Links
  <1>2. PICK next, table : next = nextCommandSequence /\ table = Retire(Acked + 1)
    OBVIOUS
  <1>3. /\ next \in Nat \ {0} /\ TableOK(table, next, issued) /\ sendCursor[current] \in AckCursor(table, next)..(next - 1)
        /\ \A s \in DOMAIN rows : /\ s \in DOMAIN table /\ table[s].id = rows[s].id
                                  /\ table[s].command = rows[s].command /\ table[s].cancelled = rows[s].cancelled
    BY <1>1, <1>2, ReceiveAckRefills, OutboxFacts
  <1>4. PICK last, D : Refilled(current, table, next, issued, sendCursor[current], down[current], last, D)
    BY <1>1, <1>2, ReceiveAckRefills
  <1>5. \A d \in Links : server[d] = "open" => up'[d] = up[d]
    BY <1>1 DEF IInv, SocketsOK
  <1> QED
    BY <1>1, <1>3, <1>4, <1>5, CurrentCards

\* Only turns are cancelled.
LEMMA CancelCards ==
    ASSUME IInv, CardsOK, AheadOK, NEW s \in DOMAIN rows, Cancel(s)
    PROVE  CardsOK' /\ AheadOK'
  <1>1. /\ UNCHANGED <<inbox, commandCursor, current, link, phase, server, up, down, reopened, sendCursor>>
        /\ rows' = [rows EXCEPT ![s].cancelled = TRUE] /\ rows[s].command = "turn"
    BY DEF Cancel, spool, client, ingress
  <1>2. \A r \in DOMAIN rows : /\ r \in DOMAIN rows' /\ rows'[r].id = rows[r].id /\ rows'[r].command = rows[r].command
                               /\ rows[r].cancelled => rows'[r].cancelled
                               /\ rows[r].command = "resolve" => rows'[r].cancelled = rows[r].cancelled
    <2>1. \A r \in DOMAIN rows : rows[r] \in Row
      BY DEF IInv, TypeOK
    <2>2. \A r \in DOMAIN rows : rows'[r] = IF r = s THEN [rows[r] EXCEPT !.cancelled = TRUE] ELSE rows[r]
      BY <1>1
    <2> QED
      BY <1>1, <2>1, <2>2 DEF Row
  <1>3. DOMAIN rows' = DOMAIN rows
    BY <1>1
  <1>4. \A d \in Links : \A i \in 1..Len(down[d]) :
          down[d][i].kind = "command" => down[d][i].sequence \in DOMAIN rows
    BY FramesNameRows
  <1>5. CardsOK'
    BY <1>1, <1>2, <1>3, <1>4, CardsIdle
  <1>6. \A d \in Unread' : d \in Unread /\ Resume(d)' = Resume(d)
    BY <1>1, UnreadShrinks
  <1> QED
    BY <1>1, <1>5, <1>6 DEF AheadOK, Connected

\* The hello of the newest connection the gateway has heard of names the spool's own cursor, so the
\* window it opens starts above it.
LEMMA HelloCards ==
    ASSUME IInv, CardsOK, AheadOK, NEW c \in Links, Hello(c), ~Outdated(c)
    PROVE  CardsOK' /\ AheadOK'
  <1>1. UNCHANGED <<inbox, commandCursor, link, phase>>
    BY DEF Hello, spool, client
  <1>2. PICK next, table, h, a : next = HelloNext(c) /\ table = HelloTable(c) /\ h = Resume(c)
                                 /\ a = AckCursor(table, next)
    OBVIOUS
  <1>3. /\ server[c] = "open" /\ next \in Nat \ {0} /\ TableOK(table, next, issued) /\ h <= a /\ a \in 0..(next - 1)
        /\ \A s \in DOMAIN rows : /\ s \in DOMAIN table /\ table[s].id = rows[s].id
                                  /\ table[s].command = rows[s].command /\ table[s].cancelled = rows[s].cancelled
    BY <1>2, HelloReconciles DEF Resume
  <1>4. PICK wire : wire = Append(down[c], [kind |-> "hello_ack", commandSequence |-> a,
                                            capabilities |-> up[c][1].capabilities])
    OBVIOUS
  <1>5. PICK last, D : Refilled(c, table, next, issued, a, wire, last, D)
    BY <1>2, <1>4, HelloRefills
  <1>6. c \in Unread /\ commandCursor <= a /\ commandCursor \in Nat
    <2>1. c \in Unread
      BY <1>3 DEF Unread
    <2> QED
      BY <1>2, <1>3, <2>1, OutboxFacts DEF AheadOK
  <1>7. \A d \in Links : d # c => down[d] = <<>> /\ (d = link /\ Connected => phase = "hello")
    <2> SUFFICES ASSUME NEW d \in Links, d # c, d = link, Connected
                 PROVE  down[d] = <<>> /\ phase = "hello"
      BY DEF IInv, SocketsOK
    <2>1. server[d] # "none" /\ c <= d
      BY <1>3 DEF IInv, SocketsOK, Links
    <2>2. server[d] = "open"
      BY <1>3, <2>1 DEF Outdated, Links
    <2> QED
      BY <2>2 DEF IInv, SocketsOK
  <1>8. down[c] = <<>>
    <2>1. c = link => ~Connected \/ down[c] = <<>>
      BY <1>3 DEF IInv, SocketsOK
    <2> QED
      BY <2>1 DEF IInv, SocketsOK
  <1>9. wire \in Seq(HelloAcks \cup Frames) /\ \A i \in 1..Len(wire) : wire[i].kind = "hello_ack"
    <2>1. PICK ack : ack = [kind |-> "hello_ack", commandSequence |-> a, capabilities |-> up[c][1].capabilities]
      OBVIOUS
    <2>2. wire = <<ack>>
      BY <1>4, <1>8, <2>1
    <2>3. ack \in HelloAcks /\ ack.kind = "hello_ack"
      <3>1. up[c][1] \in Hellos
        BY HelloReconciles
      <3> QED
        BY <1>3, <2>1, <3>1 DEF Hellos, HelloAcks
    <2> QED
      BY <2>2, <2>3
  <1>10. CardsOK'
    <2>1. a \in AckCursor(table, next)..(next - 1)
      BY <1>2, <1>3
    <2>2. \A i \in 1..Len(wire) : wire[i].kind = "command" =>
             /\ wire[i].sequence \in DOMAIN rows /\ wire[i].sequence <= a
             /\ Told(rows, wire[i].sequence, wire[i].command)
      BY <1>9
    <2>3. \A d \in Links : d # c => down[d] = <<>>
      BY <1>7
    <2> QED
      BY <1>1, <1>3, <1>5, <1>6, <1>9, <2>1, <2>2, <2>3, RefillCards
  <1>11. current' = c /\ sendCursor'[c] = last /\ last >= a /\ last \in Nat /\ a \in Nat
    <2>1. sendCursor' = [sendCursor EXCEPT ![c] = last] /\ last \in a..(next - 1)
      BY <1>5 DEF Refilled
    <2>2. sendCursor \in [Links -> Nat]
      BY DEF IInv, TypeOK
    <2> QED
      BY <1>3, <2>1, <2>2 DEF Hello
  <1>12. \A d \in Unread' : d \in Unread /\ Resume(d)' = Resume(d)
    BY HelloUnread
  <1>13. Connected' /\ link' # c => phase' = "hello" /\ down'[link'] = <<>>
    <2> SUFFICES ASSUME Connected, link # c PROVE phase = "hello" /\ down'[link] = <<>>
      BY <1>1 DEF Connected
    <2>1. link \in Links /\ down \in [Links -> Seq(HelloAcks \cup Frames)]
      BY DEF IInv, SocketsOK
    <2>2. down'[link] = down[link]
      BY <1>5, <2>1 DEF Refilled
    <2> QED
      BY <1>7, <2>1, <2>2
  <1>14. commandCursor' <= sendCursor'[current']
    BY <1>1, <1>6, <1>11
  <1> QED
    BY <1>1, <1>10, <1>11, <1>12, <1>13, <1>14 DEF AheadOK

\* A new connection names the spool's cursor and has nothing on its way yet.
LEMMA DialCards ==
    ASSUME IInv, CardsOK, AheadOK, Dial
    PROVE  CardsOK' /\ AheadOK'
  <1>1. /\ UNCHANGED <<rows, inbox, commandCursor, reopened, current, sendCursor, down>>
        /\ link < MaxLinks /\ link' = link + 1 /\ phase' = "hello"
        /\ server' = [server EXCEPT ![link + 1] = "open"]
    BY DEF Dial, outbox, spool, history
  <1>2. PICK offered \in CapabilitySets : up' = [up EXCEPT ![link + 1] =
                  <<[kind |-> "hello", commandSequence |-> commandCursor, capabilities |-> offered]>>]
    BY DEF Dial
  <1>3. PICK l : l = link + 1
    OBVIOUS
  <1>4. l \in Links /\ link \in Nat /\ l > link
    <2>1. MaxLinks \in Nat
      BY BoundsAssumption
    <2> QED
      BY <1>1, <1>3, <2>1 DEF IInv, TypeOK, Links
  <1>5. down[l] = <<>>
    BY <1>4 DEF IInv, SocketsOK
  <1>6. CardsOK'
    <2>1. \A c \in Links : \A i \in 1..Len(down[c]) :
            down[c][i].kind = "command" => down[c][i].sequence \in DOMAIN rows
      BY FramesNameRows
    <2> QED
      BY <1>1, <2>1, CardsIdle
  <1>7. \A d \in Unread' : Resume(d)' = commandCursor
    <2> SUFFICES ASSUME NEW d \in Links, server'[d] = "open", ~Outdated(d)'
                 PROVE  Resume(d)' = commandCursor
      BY DEF Unread
    <2>a. /\ server \in [Links -> {"none", "open", "hello", "closed", "superseded"}]
          /\ up \in [Links -> Seq(Hellos \cup Acks)]
      BY DEF IInv, TypeOK, SocketsOK
    <2>1. CASE d = l
      BY <1>2, <1>3, <2>a, <2>1 DEF Resume
    <2>2. CASE d # l
      <3>1. server[d] = "open" /\ up'[d] = up[d]
        BY <1>1, <1>2, <1>3, <1>4, <2>a, <2>2
      <3>b. \A e \in Links : e # l => server'[e] = server[e]
        BY <1>1, <1>3, <2>a
      <3>c. server[l] = "none"
        BY <1>4 DEF IInv, SocketsOK
      <3>2. ~Outdated(d)
        BY <3>b, <3>c DEF Outdated
      <3> QED
        BY <3>1, <3>2 DEF AheadOK, Unread, Resume
    <2> QED
      BY <2>1, <2>2
  <1> QED
    BY <1>1, <1>3, <1>5, <1>6, <1>7 DEF AheadOK

\* The cursor the plugin adopts is the one its window was opened above.
LEMMA ReceiveHelloAckCards ==
    ASSUME IInv, CardsOK, AheadOK, ReceiveHelloAck
    PROVE  CardsOK' /\ AheadOK'
  <1>1. PICK ack : ack = down[link][1]
    OBVIOUS
  <1>2. /\ Inbound("hello_ack") /\ Connected /\ link \in Links /\ phase = "hello" /\ down[link] # <<>>
        /\ commandCursor' = ack.commandSequence /\ phase' = "ready"
        /\ down' = [down EXCEPT ![link] = Tail(@)]
        /\ ack.commandSequence \in commandCursor..(nextCommandSequence - 1)
    BY <1>1, HelloAckIsTaken
  <1>3. UNCHANGED <<rows, inbox, link, server, current, sendCursor, up, reopened>>
    BY DEF ReceiveHelloAck, outbox, ingress
  <1>4. CardsOK'
    <2>1. \A c \in Links : \A i \in 1..Len(down[c]) :
            down[c][i].kind = "command" => down[c][i].sequence \in DOMAIN rows
      BY FramesNameRows
    <2>2. \A c \in Links : \A i \in 1..Len(down'[c]) : \E j \in 1..Len(down[c]) : down'[c][i] = down[c][j]
      BY <1>2, InboundTail
    <2> QED
      BY <1>3, <2>1, <2>2, CardsIdle
  <1>5. Unread' = {}
    <2>1. server[link] # "open"
      BY <1>2, InboundTail
    <2>2. Unread = {}
      BY <1>2, <2>1, NobodyUnread
    <2>3. \A d \in Unread' : d \in Unread
      BY <1>3, UnreadShrinks
    <2> QED
      BY <2>2, <2>3
  <1>6. current # 0 => current = link /\ commandCursor' <= sendCursor[current]
    <2> SUFFICES ASSUME current # 0 PROVE current = link /\ commandCursor' <= sendCursor[current]
      OBVIOUS
    <2>1. current = link
      BY <1>2 DEF AheadOK
    <2>2. PICK a, next, last : a = Acked /\ next = nextCommandSequence /\ last = sendCursor[current]
      OBVIOUS
    <2>3. last \in a..(next - 1) /\ ack.commandSequence = a
      BY <1>1, <1>2, <2>1, <2>2 DEF IInv, WindowOK
    <2> QED
      BY <1>2, <2>1, <2>2, <2>3
  <1> QED
    BY <1>3, <1>4, <1>5, <1>6 DEF AheadOK

\* A journaled command is told what its frame said; and the frame was within the window.
LEMMA JournalCards ==
    ASSUME IInv, CardsOK, AheadOK, Inbound("command"), Journal(Head(down[link])),
           UNCHANGED <<rows, issued, ran, reopened, current, link, server, sendCursor>>,
           \A c \in Links : \A i \in 1..Len(down'[c]) : \E j \in 1..Len(down[c]) : down'[c][i] = down[c][j],
           \A d \in Links : server[d] = "open" => up'[d] = up[d]
    PROVE  CardsOK' /\ AheadOK'
  <1>1. PICK frame, n : frame = Head(down[link]) /\ n = commandCursor + 1
    OBVIOUS
  <1>2. phase = "ready" /\ link \in Links /\ frame = down[link][1] /\ Carries(rows, frame, n) /\ Connected
    BY <1>1, NextIsAccepted DEF Inbound
  <1>3. /\ commandCursor' = n /\ commandCursor \in Nat /\ frame.sequence = n
        /\ DOMAIN inbox' = DOMAIN inbox \cup {n} /\ \A s \in DOMAIN inbox : inbox'[s] = inbox[s]
        /\ inbox'[n] = [id |-> frame.id, command |-> frame.command, processed |-> FALSE]
    <2>1. Carries(rows, frame, commandCursor + 1) /\ Journal(frame)
      BY <1>1, <1>2
    <2> QED
      BY <1>1, <2>1, JournalKeeps
  <1>4. PICK wire : wire = down[link]
    OBVIOUS
  <1>5. wire \in Seq(HelloAcks \cup Frames) /\ wire # <<>> /\ 1 \in 1..Len(wire) /\ Len(wire) \in Nat \ {0}
    BY <1>2, <1>4 DEF IInv, SocketsOK, Inbound
  <1>6. Told(rows, n, frame.command)
    <2>1. frame.kind = "command"
      BY <1>2 DEF Carries
    <2> QED
      BY <1>2, <1>3, <1>4, <1>5, <2>1 DEF CardsOK
  <1>7. CardsOK'
    <2>1. \A i \in reopened' : \E s \in DOMAIN rows' : rows'[s].id = i /\ rows'[s].command = "resolve" /\ rows'[s].cancelled
      BY DEF CardsOK
    <2>2. \A s \in DOMAIN inbox' \cap DOMAIN rows' : inbox'[s].id = rows'[s].id => Told(rows', s, inbox'[s].command)
      BY <1>3, <1>6 DEF CardsOK
    <2>3. \A c \in Links : \A i \in 1..Len(down'[c]) :
            down'[c][i].kind = "command" => Told(rows', down'[c][i].sequence, down'[c][i].command)
      BY DEF CardsOK
    <2> QED
      BY <2>1, <2>2, <2>3 DEF CardsOK
  <1>8. Unread' = {}
    <2>1. server[link] # "open"
      BY <1>2 DEF IInv, SocketsOK
    <2>2. Unread = {}
      BY <1>2, <2>1, NobodyUnread
    <2>3. \A d \in Unread' : d \in Unread
      BY UnreadShrinks
    <2> QED
      BY <2>2, <2>3
  <1>9. current # 0 => current = link /\ commandCursor' <= sendCursor[current]
    <2> SUFFICES ASSUME current # 0 PROVE current = link /\ commandCursor' <= sendCursor[current]
      OBVIOUS
    <2>1. current = link
      BY <1>2 DEF AheadOK
    <2>2. PICK m, last : m = Len(wire) /\ last = sendCursor[current]
      OBVIOUS
    <2>3. m = last - commandCursor /\ last \in Nat
      BY <1>2, <1>4, <2>1, <2>2 DEF IInv, WindowOK, TypeOK
    <2> QED
      BY <1>1, <1>3, <1>5, <2>1, <2>2, <2>3
  <1> QED
    BY <1>7, <1>8, <1>9 DEF AheadOK

LEMMA ReceiveCommandCards ==
    ASSUME IInv, CardsOK, AheadOK, ReceiveCommand
    PROVE  CardsOK' /\ AheadOK'
  <1>1. /\ Inbound("command") /\ down' = [down EXCEPT ![link] = Tail(@)]
        /\ UNCHANGED <<rows, issued, ran, reopened, current, link, server, sendCursor>>
    BY DEF ReceiveCommand, outbox, ingress
  <1>2. Verdict(Head(down[link])) = "accepted" /\ link \in Links
    BY <1>1, NextIsAccepted
  <1>3. Journal(Head(down[link]))
    BY <1>2 DEF ReceiveCommand
  <1>4. up' = IF link \in Open THEN [up EXCEPT ![link] = Append(@, AckOf(Head(down[link])))] ELSE up
    BY <1>2 DEF ReceiveCommand
  <1>5. server[link] # "open" /\ \A c \in Links : \A i \in 1..Len(down'[c]) : \E j \in 1..Len(down[c]) : down'[c][i] = down[c][j]
    BY <1>1, InboundTail
  <1>6. \A d \in Links : server[d] = "open" => up'[d] = up[d]
    <2>1. up \in [Links -> Seq(Hellos \cup Acks)]
      BY DEF IInv, SocketsOK
    <2> QED
      BY <1>4, <1>5, <2>1
  <1> QED
    BY <1>1, <1>3, <1>5, <1>6, JournalCards

LEMMA HangupEmpties ==
    ASSUME IInv, NEW next, Hangup(next), next \in {"closed", "stopped"}
    PROVE  /\ \A c \in Links : \A i \in 1..Len(down'[c]) : \E j \in 1..Len(down[c]) : down'[c][i] = down[c][j]
           /\ UNCHANGED <<rows, issued, ran, reopened, current, link, server, sendCursor, up>> /\ ~Connected'
  <1>1. /\ down' = [down EXCEPT ![link] = <<>>] /\ phase' = next
        /\ UNCHANGED <<rows, issued, ran, reopened, current, link, server, sendCursor, up>>
    BY DEF Hangup, outbox, ingress
  <1>2. down \in [Links -> Seq(HelloAcks \cup Frames)]
    BY DEF IInv, SocketsOK
  <1>3. ASSUME NEW c \in Links, NEW i \in 1..Len(down'[c])
        PROVE  \E j \in 1..Len(down[c]) : down'[c][i] = down[c][j]
    <2>1. CASE c = link
      <3>1. down'[c] = <<>>
        BY <1>1, <1>2, <2>1
      <3> QED
        BY <3>1
    <2>2. CASE c # link
      <3>1. down'[c] = down[c]
        BY <1>1, <1>2, <2>2
      <3> QED
        BY <3>1
    <2> QED
      BY <2>1, <2>2
  <1> QED
    BY <1>1, <1>3 DEF Connected

LEMMA ReceiveCommandUnansweredCards ==
    ASSUME IInv, CardsOK, AheadOK, ReceiveCommandUnanswered
    PROVE  CardsOK' /\ AheadOK'
  <1>1. /\ Inbound("command") /\ Journal(Head(down[link])) /\ Hangup(HangupPhase)
    BY DEF ReceiveCommandUnanswered
  <1>2. HangupPhase \in {"closed", "stopped"}
    BY DEF HangupPhase
  <1> QED
    BY <1>1, <1>2, HangupEmpties, JournalCards

\* Steps that journal nothing, take nothing back and send nothing.
LEMMA OnceIdles ==
    ASSUME IInv, CardsOK, AheadOK, UNCHANGED <<rows, reopened, commandCursor, link, sendCursor>>,
           DOMAIN inbox' = DOMAIN inbox,
           \A s \in DOMAIN inbox : inbox'[s].id = inbox[s].id /\ inbox'[s].command = inbox[s].command,
           \A c \in Links : \A i \in 1..Len(down'[c]) : \E j \in 1..Len(down[c]) : down'[c][i] = down[c][j],
           ~Connected' \/ UNCHANGED <<phase, down>>, current' \in {0, current},
           \A d \in Links : server'[d] = "open" => server[d] = "open" /\ up'[d] = up[d],
           \A d \in Links : server[d] \notin {"none", "open"} => server'[d] \notin {"none", "open"}
    PROVE  CardsOK' /\ AheadOK'
  <1>1. \A c \in Links : \A i \in 1..Len(down[c]) :
          down[c][i].kind = "command" => down[c][i].sequence \in DOMAIN rows
    BY FramesNameRows
  <1>2. CardsOK'
    BY <1>1, CardsIdle
  <1>3. \A d \in Unread' : d \in Unread /\ Resume(d)' = Resume(d)
    BY UnreadShrinks
  <1> QED
    BY <1>2, <1>3 DEF AheadOK, Connected

LEMMA HangupCards ==
    ASSUME IInv, CardsOK, AheadOK, NoticeClose \/ DropSocket \/ Crash
    PROVE  CardsOK' /\ AheadOK'
  <1>1. PICK next \in {"closed", "stopped"} : Hangup(next)
    BY DEF NoticeClose, DropSocket, Crash, HangupPhase
  <1>2. UNCHANGED <<inbox, commandCursor>>
    BY DEF NoticeClose, DropSocket, Crash, spool
  <1> QED
    BY <1>1, <1>2, HangupEmpties, OnceIdles

LEMMA CloseCards ==
    ASSUME IInv, CardsOK, AheadOK, NEW C \in SUBSET Open, Close(C)
    PROVE  CardsOK' /\ AheadOK'
  <1>1. /\ UNCHANGED <<rows, inbox, commandCursor, reopened, link, phase, down, sendCursor>>
        /\ server' = [c \in Links |-> IF c \in C THEN "closed" ELSE server[c]]
        /\ up' = [c \in Links |-> IF c \in C THEN <<>> ELSE up[c]]
        /\ current' = IF current \in C THEN 0 ELSE current
    BY DEF Close, outbox, spool, client, history
  <1> QED
    BY <1>1, OnceIdles

LEMMA RefuseHelloCards ==
    ASSUME IInv, CardsOK, AheadOK, NEW c \in Links, RefuseHello(c)
    PROVE  CardsOK' /\ AheadOK'
  <1>1. /\ UNCHANGED <<rows, inbox, commandCursor, reopened, link, phase, down, sendCursor>> /\ current' = 0
        /\ server' = [Supersede(c) EXCEPT ![c] = "closed"]
        /\ up' = [d \in Links |-> IF d \in {c, current} THEN <<>> ELSE up[d]]
    BY DEF RefuseHello, outbox, spool, client
  <1>2. \A d \in Links : server'[d] = (IF d = c THEN "closed" ELSE IF d = current THEN "superseded" ELSE server[d])
    BY <1>1 DEF Supersede
  <1> QED
    BY <1>1, <1>2, OnceIdles

LEMMA HandlerCards ==
    ASSUME IInv, CardsOK, AheadOK, Dispatch \/ \E e \in running : FinishResolve(e) \/ FinishAction(e)
    PROVE  CardsOK' /\ AheadOK'
  <1>1. /\ UNCHANGED <<rows, commandCursor, reopened, link, phase, down, sendCursor, server, up, current>>
        /\ (\E s : MarkProcessed(s)) \/ UNCHANGED inbox
    BY DEF Dispatch, FinishResolve, FinishAction, outbox, ingress, history
  <1>2. DOMAIN inbox' = DOMAIN inbox /\ \A r \in DOMAIN inbox : /\ inbox'[r].id = inbox[r].id
                                                                /\ inbox'[r].command = inbox[r].command
    BY <1>1, MarkKeeps
  <1> QED
    BY <1>1, <1>2, OnceIdles

LEMMA InitOnce == Init => OnceOK
  <1> SUFFICES ASSUME Init PROVE StartsOK /\ CardsOK /\ AheadOK
    <2>1. Init => recreations = 0
      BY DEF Init
    <2> QED
      BY <2>1 DEF OnceOK
  <1>1. PICK p : p = PriorCommands
    OBVIOUS
  <1>2. p \in Nat
    BY <1>1, BoundsAssumption
  <1>3. /\ issued = [i \in 1..p |-> "turn"] /\ ran = [i \in 1..p |-> 1] /\ backlog = <<>> /\ reopened = {}
        /\ inbox = [s \in 1..p |-> [id |-> s, command |-> "turn", processed |-> TRUE]]
        /\ DOMAIN rows = {} /\ down = [c \in Links |-> <<>>] /\ current = 0 /\ server = [c \in Links |-> "none"]
    BY <1>1 DEF Init
  <1>4. Len(issued) = p
    BY <1>2, <1>3
  <1>5. StartsOK
    <2>1. \A i \in 1..Len(issued) : \E s \in DOMAIN inbox : inbox[s].id = i /\ inbox[s].command = issued[i]
      BY <1>3, <1>4
    <2>2. \A s \in DOMAIN inbox : inbox[s].processed
      BY <1>3
    <2>3. \A i \in 1..Len(issued) : ran[i] <= 1
      <3>1. \A i \in 1..Len(issued) : ran[i] = 1
        BY <1>3, <1>4
      <3>2. \A m : m = 1 => m <= 1
        OBVIOUS
      <3> QED
        BY <3>1, <3>2
    <2>4. \A i \in 1..PriorCommands : issued[i] = "turn"
      BY <1>1, <1>3
    <2>5. 1..Len(backlog) = {}
      BY <1>3
    <2> QED
      BY <2>1, <2>2, <2>3, <2>4, <2>5 DEF StartsOK
  <1>6. CardsOK
    <2>1. \A c \in Links : 1..Len(down[c]) = {}
      BY <1>3
    <2> QED
      BY <1>3, <2>1 DEF CardsOK
  <1>7. AheadOK
    BY <1>3 DEF AheadOK, Unread
  <1> QED
    BY <1>5, <1>6, <1>7

LEMMA NextOnce == IInv /\ OnceOK /\ [Next]_vars => OnceOK'
  <1> SUFFICES ASSUME IInv, OnceOK, [Next]_vars
               PROVE  OnceOK'
    OBVIOUS
  <1>1. CASE ~RecreateSpool
    <2> SUFFICES ASSUME recreations' = 0, recreations = 0
                 PROVE  StartsOK' /\ (~lateHello' => CardsOK' /\ AheadOK')
      <3>1. recreations' = recreations
        BY <1>1 DEF Next, vars, budget, Enqueue, FlushQueued, Cancel, Hello, RefuseHello, ReceiveAck, CloseAbandoned,
           Fault, Close, Dial, ReceiveHelloAck, ReceiveCommand, ReceiveCommandUnanswered, Dispatch, FinishResolve,
           FinishAction, NoticeClose, DropSocket, Crash, Hangup
      <3> QED
        BY <3>1, SMTT(30) DEF OnceOK
    <2>2. StartsOK /\ (~lateHello => CardsOK /\ AheadOK)
      BY DEF OnceOK
    <2>3. CASE \E command \in Kinds : Enqueue(command)
      <3>1. PICK command \in Kinds : Enqueue(command)
        BY <2>3
      <3>2. lateHello' = lateHello
        BY <3>1 DEF Enqueue
      <3> QED
        BY <2>2, <3>1, <3>2, EnqueueStarts, EnqueueCards
    <2>4. CASE FlushQueued
      <3>1. StartsOK' /\ lateHello' = lateHello
        BY <2>2, <2>4, StartsIdle DEF FlushQueued, spool, client
      <3> QED
        BY <2>2, <2>4, <3>1, FlushQueuedCards
    <2>5. CASE \E s \in DOMAIN rows : Cancel(s)
      <3>1. StartsOK' /\ lateHello' = lateHello
        BY <2>2, <2>5, StartsIdle DEF Cancel, spool, client
      <3> QED
        BY <2>2, <2>5, <3>1, CancelCards
    <2>6. CASE \E c \in Links : Hello(c)
      <3>1. PICK c \in Links : Hello(c)
        BY <2>6
      <3>2. StartsOK' /\ lateHello' = (lateHello \/ Outdated(c))
        BY <2>2, <3>1, StartsIdle DEF Hello, spool, client
      <3> QED
        BY <2>2, <3>1, <3>2, HelloCards
    <2>7. CASE \E c \in Links : RefuseHello(c)
      <3>1. StartsOK' /\ lateHello' = lateHello
        BY <2>2, <2>7, StartsIdle DEF RefuseHello, spool, client
      <3> QED
        BY <2>2, <2>7, <3>1, RefuseHelloCards
    <2>8. CASE \E c \in Links : ReceiveAck(c)
      <3>1. StartsOK' /\ lateHello' = lateHello
        BY <2>2, <2>8, StartsIdle DEF ReceiveAck, spool, client
      <3> QED
        BY <2>2, <2>8, <3>1, ReceiveAckCards
    <2>9. CASE \E C \in SUBSET Open : Close(C)
      <3>1. StartsOK' /\ lateHello' = lateHello
        BY <2>2, <2>9, StartsIdle DEF Close, spool, client, history
      <3> QED
        BY <2>2, <2>9, <3>1, CloseCards
    <2>10. CASE Dial
      <3>1. lateHello' = lateHello
        BY <2>10 DEF Dial, history
      <3> QED
        BY <2>2, <2>10, <3>1, DialStarts, DialCards
    <2>11. CASE ReceiveHelloAck
      <3>1. StartsOK' /\ lateHello' = lateHello
        BY <2>2, <2>11, StartsIdle DEF ReceiveHelloAck
      <3> QED
        BY <2>2, <2>11, <3>1, ReceiveHelloAckCards
    <2>12. CASE ReceiveCommand
      <3>1. Inbound("command") /\ UNCHANGED <<rows, issued, ran, lateHello>>
        BY <2>12 DEF ReceiveCommand, outbox
      <3>2. Verdict(Head(down[link])) = "accepted"
        BY <3>1, NextIsAccepted
      <3>3. Journal(Head(down[link])) /\ backlog' = <<Head(down[link]).sequence>>
        BY <2>12, <3>2 DEF ReceiveCommand
      <3> QED
        BY <2>2, <2>12, <3>1, <3>3, JournalStarts, ReceiveCommandCards
    <2>13. CASE ReceiveCommandUnanswered
      <3>1. /\ Inbound("command") /\ UNCHANGED <<rows, issued, ran, lateHello>>
            /\ Journal(Head(down[link])) /\ backlog' = <<>>
        BY <2>13 DEF ReceiveCommandUnanswered, Hangup, outbox
      <3> QED
        BY <2>2, <2>13, <3>1, JournalStarts, ReceiveCommandUnansweredCards
    <2>14. CASE Dispatch
      <3>1. lateHello' = lateHello
        BY <2>14 DEF Dispatch
      <3> QED
        BY <2>2, <2>14, <3>1, DispatchStarts, HandlerCards
    <2>15. CASE \E e \in running : FinishResolve(e) \/ FinishAction(e)
      <3>1. lateHello' = lateHello
        BY <2>15 DEF FinishResolve, FinishAction, history
      <3> QED
        BY <2>2, <2>15, <3>1, FinishStarts, HandlerCards
    <2>16. CASE NoticeClose \/ DropSocket \/ Crash
      <3>1. UNCHANGED <<issued, ran, inbox, lateHello>> /\ backlog' \in {backlog, <<>>}
        BY <2>16 DEF NoticeClose, DropSocket, Crash, Hangup, spool
      <3>2. StartsOK'
        BY <2>2, <3>1, StartsIdle
      <3> QED
        BY <2>2, <2>16, <3>1, <3>2, HangupCards
    <2>17. CASE UNCHANGED vars
      <3>1. /\ UNCHANGED <<issued, ran, inbox, backlog, rows, reopened, commandCursor, link, sendCursor, down, phase,
                           current, server, up, lateHello>>
        BY <2>17 DEF vars, outbox, spool, client, ingress, history
      <3>2. StartsOK'
        BY <2>2, <3>1, StartsIdle
      <3>3. ~lateHello' => CardsOK' /\ AheadOK'
        BY <2>2, <3>1, OnceIdles
      <3> QED
        BY <3>2, <3>3
    <2>18. \A c \in Links : CloseAbandoned(c) \/ (c \in Open /\ Fault({c})) => {c} \in SUBSET Open /\ Close({c})
      BY DEF CloseAbandoned, Fault
    <2>19. Fault(Open) => Close(Open)
      BY DEF Fault
    <2> QED
      BY <1>1, <2>3, <2>4, <2>5, <2>6, <2>7, <2>8, <2>9, <2>10, <2>11, <2>12, <2>13, <2>14, <2>15, <2>16, <2>17, <2>18,
         <2>19 DEF Next
  <1>2. CASE RecreateSpool
    <2>1. recreations' = recreations + 1 /\ recreations \in Nat
      BY <1>2 DEF RecreateSpool, OnceOK
    <2>2. recreations' \in Nat /\ recreations' # 0
      BY <2>1
    <2> QED
      BY <2>2 DEF OnceOK
  <1> QED
    BY <1>1, <1>2

\* As long as the spool's file is there, no turn starts twice, whatever ACKs, sockets and processes
\* are lost, and a card that was made answerable again belongs to a resolution that never reached a
\* handler; for the cards, a hello read after that of a later dial is the exception.
THEOREM StartedOnce == Spec => [](recreations = 0 => NothingRunsTwice)
  <1>1. IInv /\ OnceOK => (recreations = 0 => NothingRunsTwice)
    <2> SUFFICES ASSUME IInv, StartsOK, ~lateHello => CardsOK
                 PROVE  NothingRunsTwice
      BY DEF OnceOK
    <2>1. \A i \in DOMAIN issued : issued[i] = "turn" => ran[i] <= 1
      <3>1. DOMAIN issued = 1..Len(issued)
        BY OutboxFacts
      <3> QED
        BY <3>1 DEF StartsOK
    <2>2. ASSUME ~lateHello, NEW i \in reopened PROVE ran[i] = 0
      <3>1. PICK s \in DOMAIN rows : rows[s].id = i /\ rows[s].command = "resolve" /\ rows[s].cancelled
        BY <2>2 DEF CardsOK
      <3>2. i \in (PriorCommands + 1)..Len(issued) /\ issued[i] = "resolve"
        BY <3>1, OutboxFacts DEF TableOK
      <3>3. i \in 1..Len(issued) /\ ran[i] \in Nat
        <4>1. PriorCommands \in Nat
          BY BoundsAssumption
        <4>2. ran \in Seq(Nat) /\ Len(ran) = Len(issued)
          BY OutboxFacts
        <4>3. i \in 1..Len(ran)
          BY <3>2, <4>1, <4>2
        <4> QED
          BY <4>2, <4>3
      <3>4. ~(ran[i] > 0)
        <4> SUFFICES ASSUME ran[i] > 0 PROVE FALSE
          OBVIOUS
        <4>1. PICK r \in DOMAIN inbox : inbox[r].id = i /\ inbox[r].command = "resolve"
          BY <3>2, <3>3 DEF StartsOK
        <4>2. r \in DOMAIN rows /\ rows[r].id = i
          <5>1. ~(r <= PriorCommands /\ inbox[r].id = r /\ inbox[r].command = "turn")
            BY <4>1
          <5> QED
            BY <4>1, <5>1 DEF IInv, InboxOK
        <4>3. r = s
          BY <3>1, <4>2, OutboxFacts DEF TableOK
        <4>4. Told(rows, s, inbox[s].command)
          BY <2>2, <3>1, <4>1, <4>3 DEF CardsOK
        <4> QED
          BY <3>1, <4>1, <4>3, <4>4 DEF Told
      <3> QED
        BY <3>3, <3>4
    <2> QED
      BY <2>1, <2>2 DEF NothingRunsTwice
  <1>2. Spec => [](IInv /\ OnceOK)
    <2>1. Init => IInv /\ OnceOK
      BY InitHolds, InitOnce
    <2>2. IInv /\ OnceOK /\ [Next]_vars => IInv' /\ OnceOK'
      BY NextKeeps, NextOnce
    <2> QED
      BY <2>1, <2>2, PTL DEF Spec
  <1> QED
    BY <1>1, <1>2, PTL

----------------------------------------------------------------------------
(* What was retired is never replayed                                      *)

\* A connection other than the owner's has nothing on its way, and what is on its way, or still to
\* be sent, is not acknowledged yet.
BehindOK == ~lateHello =>
    /\ current # 0 /\ Connected /\ current # link => phase = "hello" /\ down[link] = <<>>
    /\ Connected /\ phase = "ready" => Acked <= commandCursor
    /\ Connected /\ phase = "hello" /\ down[link] # <<>> => Acked <= down[link][1].commandSequence

\* With the connection that owns the agent, this is what its window says.
LEMMA OwnerIsBehind ==
    ASSUME IInv', current' # 0, current' = link'
    PROVE  BehindOK'
  <1>1. PICK n, m, a, k : n = commandCursor' /\ m = Len(up'[link']) /\ a = Acked' /\ k = nextCommandSequence'
    OBVIOUS
  <1>2. up' \in [Links -> Seq(Hellos \cup Acks)] /\ link' \in Links
    BY DEF IInv, SocketsOK
  <1>3. m \in Nat
    BY <1>1, <1>2
  <1>4. a \in Nat
    <2>1. k \in Nat \ {0} /\ TableOK(rows', k, issued') /\ a = AckCursor(rows', k)
      BY <1>1 DEF IInv, TypeOK, RowsOK, Acked
    <2> QED
      BY <2>1, CursorSplits
  <1>5. (phase = "ready")' => n = a + m
    BY <1>1 DEF IInv, WindowOK
  <1>6. (phase = "hello")' => down'[link'][1].commandSequence = a
    BY <1>1 DEF IInv, WindowOK
  <1> QED
    BY <1>1, <1>3, <1>4, <1>5, <1>6 DEF BehindOK

\* Steps that acknowledge nothing of what the plugin still waits for.
LEMMA BehindIdles ==
    ASSUME BehindOK, lateHello' = lateHello, current' \in {0, current},
           Connected' => /\ UNCHANGED <<link, phase, commandCursor>> /\ down'[link] = down[link]
                         /\ Acked' = Acked \/ (phase = "hello" /\ down[link] = <<>>)
    PROVE  BehindOK'
  BY DEF BehindOK, Connected

LEMMA FlushBehind ==
    ASSUME IInv, IInv', BehindOK, current # 0, NEW table, NEW next, NEW minted, NEW cursor, NEW wire, NEW last, NEW D,
           Refilled(current, table, next, minted, cursor, wire, last, D),
           UNCHANGED <<current, link, phase, commandCursor, lateHello>>
    PROVE  BehindOK'
  <1>1. CASE current = link
    BY <1>1, OwnerIsBehind
  <1>2. CASE current # link
    <2>1. down \in [Links -> Seq(HelloAcks \cup Frames)] /\ (Connected => link \in Links)
      BY DEF IInv, SocketsOK
    <2>2. Connected => down'[link] = down[link]
      BY <1>2, <2>1 DEF Refilled
    <2> QED
      BY <1>2, <2>2 DEF BehindOK, Connected
  <1> QED
    BY <1>1, <1>2

LEMMA OutboxBehind ==
    ASSUME IInv, IInv', BehindOK,
           \/ \E command \in Kinds : Enqueue(command)
           \/ FlushQueued
           \/ \E c \in Links : ReceiveAck(c)
           \/ \E s \in DOMAIN rows : Cancel(s)
    PROVE  BehindOK'
  <1>1. UNCHANGED <<current, link, phase, commandCursor, lateHello>>
    BY DEF Enqueue, FlushQueued, ReceiveAck, Cancel, spool, client, ingress
  <1>2. ASSUME NEW command \in Kinds, Enqueue(command) PROVE BehindOK'
    <2>1. CASE current # 0
      <3>1. \E last, D : Refilled(current, Queued(command), nextCommandSequence + 1, Append(issued, command),
                                  sendCursor[current], down[current], last, D)
        BY <1>2, <2>1, EnqueueRefills
      <3> QED
        BY <1>1, <2>1, <3>1, FlushBehind
    <2>2. CASE current = 0
      <3>1. rows' = Queued(command) /\ nextCommandSequence' = nextCommandSequence + 1 /\ down' = down
        BY <1>2, <2>2 DEF Enqueue, FlushCurrent
      <3>2. Acked' = Acked
        BY <3>1, QueuedKeeps DEF Acked
      <3> QED
        BY <1>1, <2>2, <3>1, <3>2, BehindIdles
    <2> QED
      BY <2>1, <2>2
  <1>3. ASSUME FlushQueued PROVE BehindOK'
    <2>1. current # 0
      BY <1>3 DEF FlushQueued
    <2>2. \E last, D : Refilled(current, rows, nextCommandSequence, issued, sendCursor[current], down[current], last, D)
      BY <1>3, FlushQueuedRefills
    <2> QED
      BY <1>1, <2>1, <2>2, FlushBehind
  <1>4. ASSUME NEW c \in Links, ReceiveAck(c) PROVE BehindOK'
    <2>1. current # 0 /\ c = current
      BY <1>4 DEF ReceiveAck, Links
    <2>2. \E last, D : Refilled(current, Retire(Acked + 1), nextCommandSequence, issued, sendCursor[current],
                                down[current], last, D)
      BY <1>4, <2>1, ReceiveAckRefills
    <2> QED
      BY <1>1, <2>1, <2>2, FlushBehind, SMTT(30)
  <1>5. ASSUME NEW s \in DOMAIN rows, Cancel(s) PROVE BehindOK'
    <2>1. down' = down
      BY <1>5 DEF Cancel
    <2>2. Acked' = Acked
      <3>1. rows' = [rows EXCEPT ![s].cancelled = TRUE] /\ UNCHANGED nextCommandSequence
        BY <1>5 DEF Cancel
      <3>2. \A r \in DOMAIN rows : rows[r] \in Row
        BY DEF IInv, TypeOK
      <3>3. Unacked(rows') = Unacked(rows)
        BY <3>1, <3>2 DEF Unacked, Row
      <3> QED
        BY <3>1, <3>3 DEF Acked, AckCursor
    <2> QED
      BY <1>1, <2>1, <2>2, BehindIdles
  <1> QED
    BY <1>2, <1>3, <1>4, <1>5, SMTT(30)

LEMMA HelloBehind ==
    ASSUME IInv, IInv', BehindOK, NEW c \in Links, Hello(c)
    PROVE  BehindOK'
  <1> SUFFICES ASSUME ~lateHello' PROVE BehindOK'
    BY DEF BehindOK
  <1>1. UNCHANGED <<link, phase, commandCursor>> /\ ~Outdated(c) /\ current' = c /\ server[c] = "open" /\ c # 0
    <2>1. c # 0
      BY DEF Links
    <2> QED
      BY <2>1 DEF Hello, client, spool
  <1>2. CASE c = link
    BY <1>1, <1>2, OwnerIsBehind
  <1>3. CASE c # link /\ Connected
    <2>1. link \in Links /\ server[link] # "none" /\ c <= link /\ down \in [Links -> Seq(HelloAcks \cup Frames)]
      <3>1. link \in Links /\ server[link] # "none" /\ ~(c > link) /\ down \in [Links -> Seq(HelloAcks \cup Frames)]
        <4>1. link \in Links
          BY <1>3 DEF IInv, SocketsOK
        <4>2. ~(link > link)
          BY <4>1 DEF Links
        <4> QED
          BY <1>1, <4>1, <4>2 DEF IInv, SocketsOK
      <3> QED
        BY <3>1 DEF Links
    <2>2. server[link] = "open"
      BY <1>1, <1>3, <2>1 DEF Outdated, Links
    <2>3. phase = "hello" /\ down[link] = <<>>
      BY <1>3, <2>2 DEF IInv, SocketsOK
    <2>4. down'[link] = down[link]
      <3>1. PICK a, wire : /\ a = AckCursor(HelloTable(c), HelloNext(c))
                           /\ wire = Append(down[c], [kind |-> "hello_ack", commandSequence |-> a,
                                                      capabilities |-> up[c][1].capabilities])
        OBVIOUS
      <3>2. PICK last, D : Refilled(c, HelloTable(c), HelloNext(c), issued, a, wire, last, D)
        BY <3>1, HelloRefills
      <3> QED
        BY <1>3, <2>1, <3>2 DEF Refilled
    <2> QED
      BY <1>1, <2>3, <2>4 DEF BehindOK, Connected
  <1>4. CASE ~Connected
    BY <1>1, <1>4 DEF BehindOK, Connected
  <1> QED
    BY <1>2, <1>3, <1>4

\* On the only connection with frames on their way, the row taken next is not acknowledged.
LEMMA InboundBehind ==
    ASSUME IInv, BehindOK, ~lateHello, NEW kind, Inbound(kind)
    PROVE  current # 0 => current = link
  BY DEF BehindOK, Inbound

LEMMA PluginBehind ==
    ASSUME IInv, IInv', BehindOK, Dial \/ ReceiveHelloAck \/ ReceiveCommand
    PROVE  BehindOK'
  <1> SUFFICES ASSUME ~lateHello, ~lateHello' PROVE BehindOK'
    BY DEF BehindOK, Dial, ReceiveHelloAck, ReceiveCommand, history
  <1>1. CASE Dial
    <2>1. down' = down /\ phase' = "hello" /\ link' = link + 1 /\ link < MaxLinks
      BY <1>1 DEF Dial
    <2>2. down[link + 1] = <<>>
      <3>1. link + 1 \in Links /\ link + 1 # link
        <4>1. MaxLinks \in Nat
          BY BoundsAssumption
        <4> QED
          BY <2>1, <4>1, SMTT(30) DEF IInv, TypeOK, Links
      <3> QED
        BY <3>1 DEF IInv, SocketsOK
    <2> QED
      BY <2>1, <2>2 DEF BehindOK
  <1>2. CASE ReceiveHelloAck
    <2>1. PICK ack : ack = down[link][1]
      OBVIOUS
    <2>2. /\ Inbound("hello_ack") /\ Connected /\ phase = "hello" /\ down[link] # <<>>
          /\ commandCursor' = ack.commandSequence /\ phase' = "ready"
      BY <1>2, <2>1, HelloAckIsTaken
    <2>3. UNCHANGED <<link, current, rows, nextCommandSequence>>
      BY <1>2 DEF ReceiveHelloAck, ingress, outbox
    <2>4. Acked' = Acked /\ Acked <= ack.commandSequence
      BY <2>1, <2>2, <2>3 DEF BehindOK, Acked
    <2>5. current # 0 => current = link
      BY <2>2, InboundBehind
    <2> QED
      BY <2>2, <2>3, <2>4, <2>5 DEF BehindOK
  <1>3. CASE ReceiveCommand
    <2>1. Inbound("command") /\ UNCHANGED <<link, current, phase, rows, nextCommandSequence>>
      BY <1>3 DEF ReceiveCommand, ingress, outbox
    <2>2. phase = "ready" /\ Verdict(Head(down[link])) = "accepted" /\ Carries(rows, Head(down[link]), commandCursor + 1)
      BY <2>1, NextIsAccepted
    <2>3. commandCursor' = commandCursor + 1
      BY <1>3, <2>2 DEF ReceiveCommand, Journal, Carries
    <2>4. Acked <= commandCursor /\ Acked \in Nat /\ commandCursor \in Nat /\ Acked' = Acked
      BY <2>1, <2>2, OutboxFacts DEF BehindOK, Acked, Connected
    <2>5. current # 0 => current = link
      BY <2>1, InboundBehind
    <2> QED
      BY <2>1, <2>2, <2>3, <2>4, <2>5 DEF BehindOK
  <1> QED
    BY <1>1, <1>2, <1>3

LEMMA NextBehind == IInv /\ IInv' /\ BehindOK /\ [Next]_vars => BehindOK'
  <1> SUFFICES ASSUME IInv, IInv', BehindOK, [Next]_vars PROVE BehindOK'
    OBVIOUS
  <1>1. CASE \/ \E command \in Kinds : Enqueue(command)
             \/ FlushQueued
             \/ \E c \in Links : ReceiveAck(c)
             \/ \E s \in DOMAIN rows : Cancel(s)
    BY <1>1, OutboxBehind
  <1>2. CASE \E c \in Links : Hello(c)
    BY <1>2, HelloBehind
  <1>3. CASE (\E c \in Links : RefuseHello(c)) \/ (\E C : Close(C))
    <2>1. UNCHANGED <<rows, nextCommandSequence, commandCursor, lateHello, link, phase, down>> /\ current' \in {0, current}
      BY <1>3 DEF RefuseHello, Close, outbox, spool, client, history
    <2>2. Acked' = Acked
      BY <2>1 DEF Acked
    <2> QED
      BY <2>1, <2>2, BehindIdles DEF Connected
  <1>4. CASE (\E c \in Links : CloseAbandoned(c) \/ Fault({c})) \/ Fault(Open)
    <2>1. \E C : Close(C)
      BY <1>4 DEF CloseAbandoned, Fault
    <2> QED
      BY <1>3, <2>1
  <1>5. CASE Dial \/ ReceiveHelloAck \/ ReceiveCommand
    BY <1>5, PluginBehind
  <1>6. CASE ReceiveCommandUnanswered \/ NoticeClose \/ DropSocket \/ Crash \/ RecreateSpool
    <2>1. lateHello' = lateHello /\ current' = current /\ ~Connected'
      BY <1>6 DEF ReceiveCommandUnanswered, NoticeClose, DropSocket, Crash, RecreateSpool, Hangup, HangupPhase, ingress,
         history, Connected
    <2> QED
      BY <2>1, BehindIdles
  <1>7. CASE Dispatch \/ (\E e \in running : FinishResolve(e) \/ FinishAction(e)) \/ UNCHANGED vars
    <2>1. UNCHANGED <<rows, nextCommandSequence, commandCursor, lateHello, link, phase, down, current>>
      BY <1>7 DEF Dispatch, FinishResolve, FinishAction, vars, outbox, spool, client, ingress, history
    <2>2. Acked' = Acked
      BY <2>1 DEF Acked
    <2> QED
      BY <2>1, <2>2, BehindIdles DEF Connected
  <1> QED
    BY <1>1, <1>2, <1>3, <1>4, <1>5, <1>6, <1>7 DEF Next

\* What is journaled is a row the gateway still waits for.
LEMMA JournalBehind ==
    ASSUME IInv, BehindOK, ~lateHello, Inbound("command"), Journal(Head(down[link]))
    PROVE  \A s \in DOMAIN inbox' : s \notin DOMAIN inbox =>
             ~\E r \in DOMAIN rows : rows[r].id = inbox'[s].id /\ rows[r].acked
  <1>1. PICK frame, n : frame = Head(down[link]) /\ n = commandCursor + 1
    OBVIOUS
  <1>2. phase = "ready" /\ Connected /\ Carries(rows, frame, n)
    BY <1>1, NextIsAccepted DEF Inbound
  <1>3. n \in DOMAIN rows /\ frame.sequence = n /\ frame.id = rows[n].id
    BY <1>2 DEF Carries
  <1>4. DOMAIN inbox' = DOMAIN inbox \cup {n} /\ (n \notin DOMAIN inbox => inbox'[n].id = frame.id)
    BY <1>1, <1>3 DEF Journal
  <1>5. ~rows[n].acked
    <2>1. Acked <= commandCursor
      BY <1>2 DEF BehindOK
    <2> QED
      BY <1>1, <1>3, <2>1, OutboxFacts
  <1>6. \A r \in DOMAIN rows : rows[r].id = rows[n].id => r = n
    BY <1>3, OutboxFacts DEF TableOK
  <1> QED
    BY <1>3, <1>4, <1>5, <1>6

\* What the gateway retired is never taken again, not even by a spool that never held it; a hello
\* read after that of a later dial is the one exception.
THEOREM RetiredAreNotReplayed == Spec => RetiredNeverReplayed
  <1> DEFINE Fresh == lateHello' \/ \A s \in DOMAIN inbox' : s \notin DOMAIN inbox =>
               ~\E r \in DOMAIN rows : /\ rows[r].id = inbox'[s].id /\ rows[r].acked
                                      /\ \E t \in taken : t[1] = rows[r].id
  <1>1. IInv /\ BehindOK /\ [Next]_vars => [Fresh]_vars
    <2> SUFFICES ASSUME IInv, BehindOK, Next, ~lateHello' PROVE Fresh
      OBVIOUS
    <2>1. CASE ReceiveCommand \/ ReceiveCommandUnanswered
      <3>1. Inbound("command") /\ ~lateHello
        BY <2>1 DEF ReceiveCommand, ReceiveCommandUnanswered, Hangup
      <3>2. Journal(Head(down[link]))
        BY <2>1, <3>1, NextIsAccepted DEF ReceiveCommand, ReceiveCommandUnanswered
      <3> QED
        BY <3>1, <3>2, JournalBehind
    <2>2. CASE ~(ReceiveCommand \/ ReceiveCommandUnanswered)
      <3>1. DOMAIN inbox' \subseteq DOMAIN inbox
        BY <2>2 DEF Next, Enqueue, FlushQueued, Cancel, Hello, RefuseHello, ReceiveAck, CloseAbandoned, Fault, Close, Dial,
           ReceiveHelloAck, Dispatch, FinishResolve, FinishAction, NoticeClose, DropSocket, Crash, RecreateSpool,
           MarkProcessed, spool
      <3> QED
        BY <3>1, SMTT(30)
    <2> QED
      BY <2>1, <2>2
  <1>2. Init => IInv /\ BehindOK
    <2>1. Init => BehindOK
      BY DEF Init, BehindOK, Connected
    <2> QED
      BY <2>1, InitHolds
  <1>3. IInv /\ BehindOK /\ [Next]_vars => IInv' /\ BehindOK'
    BY NextKeeps, NextBehind
  <1>4. Spec => [][Fresh]_vars
    <2> HIDE DEF Fresh
    <2> QED
      BY <1>1, <1>2, <1>3, PTL DEF Spec
  <1> QED
    BY <1>4 DEF RetiredNeverReplayed

----------------------------------------------------------------------------
(* The outbox, the wire and the inbox are one log                          *)

\* As long as no database is lost: both sides have every number, and neither a cursor nor an ACK is
\* ahead of what the plugin took.
LogOK ==
    /\ recreations = 0
    /\ DOMAIN inbox = 1..commandCursor /\ DOMAIN rows = 1..(nextCommandSequence - 1)
    /\ Acked <= commandCursor /\ commandCursor < nextCommandSequence
    /\ \A c \in Links : server[c] = "open" => Resume(c) <= commandCursor
    /\ Connected /\ phase = "hello" /\ down[link] # <<>> => down[link][1].commandSequence <= commandCursor
    /\ current # 0 => Acked + Len(up[current]) <= commandCursor

\* A step of the log that numbers nothing and takes nothing.
Settles ==
    /\ UNCHANGED <<nextCommandSequence, commandCursor>>
    /\ DOMAIN rows' = DOMAIN rows /\ DOMAIN inbox' = DOMAIN inbox
    /\ \A s \in DOMAIN rows : rows'[s].id = rows[s].id /\ (rows[s].acked => rows'[s].acked)
    /\ \A s \in DOMAIN inbox : inbox'[s].id = inbox[s].id

LEMMA LogStep ==
    ASSUME IInv', LogOK, Settles, recreations' = recreations, Acked' <= commandCursor,
           \A c \in Links : server'[c] = "open" => server[c] = "open" /\ up'[c] = up[c],
           \/ current' # 0 /\ current' = link'
           \/ ~Connected' \/ phase' = "ready"
           \/ UNCHANGED <<link, phase>> /\ down'[link] = down[link],
           current' # 0 => Acked' + Len(up'[current']) <= commandCursor
    PROVE  LogOK'
  <1>1. Connected' /\ phase' = "hello" /\ down'[link'] # <<>> => down'[link'][1].commandSequence <= commandCursor'
    <2>1. CASE current' # 0 /\ current' = link'
      BY <2>1 DEF IInv, WindowOK, Settles
    <2>2. CASE ~(current' # 0 /\ current' = link')
      BY <2>2 DEF LogOK, Settles, Connected
    <2> QED
      BY <2>1, <2>2
  <1> QED
    BY <1>1 DEF LogOK, Settles, Resume

\* What a row's id and mark become under a flush.
LEMMA RefillSettles ==
    ASSUME IInv, NEW c, NEW table, NEW next, next = nextCommandSequence, NEW cursor, NEW wire, NEW last, NEW D,
           TableOK(table, next, issued), Refilled(c, table, next, issued, cursor, wire, last, D),
           DOMAIN table = DOMAIN rows,
           \A s \in DOMAIN rows : table[s].id = rows[s].id /\ (rows[s].acked => table[s].acked),
           UNCHANGED <<nextCommandSequence, inbox, commandCursor>>
    PROVE  Settles /\ Acked' = AckCursor(table, next)
  <1>0. next \in Nat \ {0}
    BY OutboxFacts
  <1>1. DOMAIN rows' = DOMAIN table /\ AckCursor(rows', next) = AckCursor(table, next)
    BY <1>0, RefillEffect
  <1>2. \A s \in DOMAIN table : rows'[s].id = table[s].id
    BY <1>0, RefillEffect
  <1>3. \A s \in DOMAIN table : rows'[s].acked = table[s].acked
    <2>1. \A s \in DOMAIN table : /\ rows'[s].acked = table[s].acked
                                  /\ rows'[s].cancelled = (s \in D \/ table[s].cancelled)
      BY <1>0, RefillDiscards
    <2> QED
      BY <2>1, Zenon
  <1> QED
    BY <1>1, <1>2, <1>3 DEF Settles, Acked

LEMMA FlushQueuedLogs ==
    ASSUME IInv, IInv', LogOK, FlushQueued
    PROVE  LogOK' /\ Settles
  <1>1. /\ UNCHANGED <<nextCommandSequence, inbox, commandCursor, link, phase, server, current, up, recreations>>
        /\ current # 0
    BY DEF FlushQueued, spool, client
  <1>2. PICK last, D : Refilled(current, rows, nextCommandSequence, issued, sendCursor[current], down[current], last, D)
    BY FlushQueuedRefills
  <1>3. Settles /\ Acked' = Acked
    BY <1>1, <1>2, RefillSettles, OutboxFacts DEF Acked
  <1>4. current = link \/ ~Connected' \/ down'[link] = down[link]
    BY <1>1, <1>2 DEF Refilled, IInv, SocketsOK, Connected
  <1>5. Acked' <= commandCursor /\ Acked' + Len(up'[current']) <= commandCursor
    BY <1>1, <1>3 DEF LogOK
  <1> QED
    BY <1>1, <1>3, <1>4, <1>5, LogStep

LEMMA ReceiveAckLogs ==
    ASSUME IInv, IInv', LogOK, NEW c \in Links, ReceiveAck(c)
    PROVE  LogOK' /\ Settles
  <1>1. /\ UNCHANGED <<nextCommandSequence, inbox, commandCursor, link, phase, server, current, recreations>>
        /\ c = current /\ c # 0 /\ up[c] # <<>> /\ up' = [up EXCEPT ![c] = Tail(@)]
    BY DEF ReceiveAck, Arrives, spool, client, Links
  <1>2. PICK table, a : table = Retire(Acked + 1) /\ a = Acked
    OBVIOUS
  <1>3. PICK last, D : Refilled(c, table, nextCommandSequence, issued, sendCursor[c], down[c], last, D)
    BY <1>2, ReceiveAckRefills
  <1>4. /\ TableOK(table, nextCommandSequence, issued) /\ AckCursor(table, nextCommandSequence) = a + 1
        /\ DOMAIN table = DOMAIN rows /\ \A s \in DOMAIN rows : table[s].id = rows[s].id
    BY <1>2, ReceiveAckRefills
  <1>5. \A s \in DOMAIN rows : rows[s].acked => table[s].acked
    <2>1. \A s \in DOMAIN rows : rows[s].acked => s <= a /\ a \in Nat /\ s \in Nat
      BY <1>2, OutboxFacts
    <2>2. \A s \in DOMAIN table : table[s].acked <=> s <= a + 1
      BY <1>4, CursorSplits, OutboxFacts
    <2> QED
      BY <1>4, <2>1, <2>2
  <1>6. Settles /\ Acked' = a + 1
    BY <1>1, <1>3, <1>4, <1>5, RefillSettles
  <1>7. PICK n : n = Len(up[c])
    OBVIOUS
  <1>8. n \in Nat \ {0} /\ Len(up'[c]) = n - 1 /\ a \in Nat /\ commandCursor \in Nat
    <2>1. up \in [Links -> Seq(Hellos \cup Acks)] /\ up[c] # <<>>
      BY <1>1 DEF IInv, SocketsOK
    <2>2. up'[c] = Tail(up[c]) /\ up[c] \in Seq(Hellos \cup Acks)
      BY <1>1, <2>1
    <2> QED
      BY <1>2, <1>7, <2>1, <2>2, OutboxFacts
  <1>9. Acked' <= commandCursor /\ (a + 1) + (n - 1) <= commandCursor
    <2>1. a + n <= commandCursor
      BY <1>1, <1>2, <1>7 DEF LogOK
    <2> QED
      BY <1>6, <1>8, <2>1
  <1>10. current = link \/ ~Connected' \/ down'[link] = down[link]
    BY <1>1, <1>3 DEF Refilled, IInv, SocketsOK, Connected
  <1>11. \A d \in Links : server[d] = "open" => up'[d] = up[d]
    BY <1>1 DEF IInv, SocketsOK
  <1> QED
    BY <1>1, <1>6, <1>8, <1>9, <1>10, <1>11, LogStep

\* The hello of any connection names what the spool held when it dialed.
LEMMA HelloLogs ==
    ASSUME IInv, IInv', LogOK, NEW c \in Links, Hello(c)
    PROVE  LogOK' /\ Settles
  <1>1. UNCHANGED <<inbox, commandCursor, link, phase, recreations>> /\ current' = c /\ c # 0
    <2>1. c # 0
      BY DEF Links
    <2> QED
      BY <2>1 DEF Hello, spool, client
  <1>2. PICK next, table, h, a : next = HelloNext(c) /\ table = HelloTable(c) /\ h = Resume(c)
                                 /\ a = AckCursor(table, next)
    OBVIOUS
  <1>3. /\ server[c] = "open" /\ next \in Nat \ {0} /\ TableOK(table, next, issued) /\ h <= a /\ a \in 0..(next - 1)
        /\ h \in Nat /\ DOMAIN table = DOMAIN rows /\ \A s \in DOMAIN rows : table[s].id = rows[s].id
        /\ \A s \in DOMAIN rows : table[s].acked <=> (rows[s].acked \/ s <= h)
        /\ server' = Supersede(c) /\ nextCommandSequence' = next /\ up[c] = <<up[c][1]>>
        /\ up' = [d \in Links |-> CASE d = c -> Tail(up[c]) [] d = current -> <<>> [] OTHER -> up[d]]
    <2>1. h = up[c][1].commandSequence
      BY <1>2 DEF Resume
    <2>2. /\ server[c] = "open" /\ next \in Nat \ {0} /\ TableOK(table, next, issued) /\ h <= a /\ a \in 0..(next - 1)
          /\ h \in 0..(next - 1)
          /\ server' = Supersede(c) /\ nextCommandSequence' = next /\ up[c] = <<up[c][1]>>
          /\ up' = [d \in Links |-> CASE d = c -> Tail(up[c]) [] d = current -> <<>> [] OTHER -> up[d]]
      BY <1>2, <2>1, HelloReconciles
    <2>3. h \in Nat
      BY <2>2
    <2>4. DOMAIN table = DOMAIN rows /\ \A s \in DOMAIN rows : table[s].id = rows[s].id
      BY <1>2, HelloReconciles
    <2>5. \A s \in DOMAIN rows : table[s].acked <=> (rows[s].acked \/ s <= h)
      BY <1>2, <2>1, HelloReconciles, ZenonT(60)
    <2> QED
      BY <2>2, <2>3, <2>4, <2>5
  <1>4. h <= commandCursor /\ commandCursor < nextCommandSequence /\ commandCursor \in Nat /\ Acked <= commandCursor
    BY <1>2, <1>3, OutboxFacts DEF LogOK
  <1>5. next = nextCommandSequence
    <2>1. CASE streamed
      BY <1>2, <2>1 DEF HelloNext
    <2>2. CASE ~streamed
      <3>1. nextCommandSequence = 1
        BY <2>2 DEF IInv, RowsOK
      <3> QED
        BY <1>2, <1>3, <1>4, <2>2, <3>1 DEF HelloNext, Resume
    <2> QED
      BY <2>1, <2>2
  <1>6. PICK wire : wire = Append(down[c], [kind |-> "hello_ack", commandSequence |-> a,
                                            capabilities |-> up[c][1].capabilities])
    OBVIOUS
  <1>7. PICK last, D : Refilled(c, table, next, issued, a, wire, last, D)
    BY <1>2, <1>6, HelloRefills
  <1>8. Settles /\ Acked' = a
    BY <1>1, <1>2, <1>3, <1>5, <1>7, RefillSettles
  <1>9. a <= commandCursor
    <2> SUFFICES ASSUME a > commandCursor PROVE FALSE
      BY <1>3, <1>4
    <2>1. a \in DOMAIN rows
      BY <1>3, <1>4, <1>5 DEF LogOK
    <2>2. table[a].acked
      BY <1>2, <1>3, <2>1, CursorSplits
    <2>3. rows[a].acked
      BY <1>3, <1>4, <2>1, <2>2
    <2>4. a <= Acked
      BY <2>1, <2>3, OutboxFacts
    <2> QED
      BY <1>3, <1>4, <2>4, OutboxFacts
  <1>10. c # current
    BY <1>3 DEF IInv, SocketsOK
  <1>11. \A d \in Links : server'[d] = (IF d = c THEN "hello" ELSE IF d = current THEN "superseded" ELSE server[d])
    BY <1>3, <1>10 DEF Supersede
  <1>12. \A d \in Links : up'[d] = (IF d = c THEN Tail(up[c]) ELSE IF d = current THEN <<>> ELSE up[d])
    BY <1>3, <1>10
  <1>13. Len(up'[c]) = 0
    <2>1. PICK hello : hello = up[c][1]
      OBVIOUS
    <2>2. up[c] = <<hello>>
      BY <1>3, <2>1
    <2>3. up'[c] = <<>>
      BY <1>12, <2>2
    <2> QED
      BY <2>3
  <1>14. current' = link' \/ ~Connected' \/ down'[link] = down[link]
    BY <1>1, <1>7 DEF Refilled, IInv, SocketsOK, Connected
  <1>15. Acked' <= commandCursor /\ Acked' + Len(up'[current']) <= commandCursor
    <2>1. Acked' + Len(up'[current']) = a + 0
      BY <1>1, <1>8, <1>13
    <2> QED
      BY <1>3, <1>8, <1>9, <2>1
  <1>16. \A d \in Links : server'[d] = "open" => server[d] = "open" /\ up'[d] = up[d]
    BY <1>11, <1>12
  <1> QED
    BY <1>1, <1>8, <1>14, <1>15, <1>16, LogStep

\* The ids a log shows, and the numbers its sender may forget.
Numbered == [s \in 1..(nextCommandSequence - 1) |-> rows[s].id]
Received == [s \in 1..commandCursor |-> inbox[s].id]
Retired == {s \in DOMAIN rows : rows[s].acked}

LEMMA LogShape ==
    ASSUME IInv, LogOK, PriorCommands = 0
    PROVE  /\ Numbered \in Seq(Nat \ {0}) /\ Len(Numbered) = nextCommandSequence - 1
           /\ Received \in Seq(Nat \ {0}) /\ Len(Received) = commandCursor
           /\ Retired \subseteq 1..commandCursor
           /\ commandCursor \in Nat /\ nextCommandSequence \in Nat \ {0} /\ commandCursor < nextCommandSequence
           /\ \A s \in 1..commandCursor : Received[s] = Numbered[s]
  <1>1. /\ commandCursor \in Nat /\ nextCommandSequence \in Nat \ {0} /\ commandCursor < nextCommandSequence
        /\ DOMAIN rows = 1..(nextCommandSequence - 1) /\ DOMAIN inbox = 1..commandCursor /\ Acked <= commandCursor
        /\ Acked \in Nat
    BY OutboxFacts DEF LogOK
  <1>2. \A s \in DOMAIN rows : rows[s].id \in Nat \ {0}
    <2>1. \A s \in DOMAIN rows : rows[s].id \in (PriorCommands + 1)..Len(issued)
      BY OutboxFacts DEF TableOK
    <2> QED
      BY <2>1
  <1>3. \A s \in DOMAIN inbox : inbox[s].id = rows[s].id /\ s \in DOMAIN rows
    BY <1>1 DEF IInv, InboxOK
  <1>4. Retired \subseteq 1..commandCursor
    <2>1. \A s \in DOMAIN rows : rows[s].acked => s <= Acked
      BY OutboxFacts
    <2> QED
      BY <1>1, <2>1 DEF Retired
  <1> QED
    BY <1>1, <1>2, <1>3, <1>4 DEF Numbered, Received

LEMMA LogShapeNext ==
    ASSUME IInv', LogOK', PriorCommands = 0
    PROVE  /\ Numbered' \in Seq(Nat \ {0}) /\ Len(Numbered') = nextCommandSequence' - 1
           /\ Retired' \subseteq 1..commandCursor'
  <1>1. /\ commandCursor' \in Nat /\ nextCommandSequence' \in Nat \ {0}
        /\ DOMAIN rows' = 1..(nextCommandSequence' - 1) /\ Acked' <= commandCursor' /\ Acked' \in Nat
        /\ TableOK(rows', nextCommandSequence', issued')
    <2>1. commandCursor' \in Nat /\ nextCommandSequence' \in Nat \ {0} /\ TableOK(rows', nextCommandSequence', issued')
      BY DEF IInv, TypeOK, RowsOK
    <2>2. AckCursor(rows', nextCommandSequence') \in 0..(nextCommandSequence' - 1)
      BY <2>1, CursorSplits
    <2> QED
      BY <2>1, <2>2 DEF LogOK, Acked
  <1>2. \A s \in DOMAIN rows' : rows'[s].id \in Nat \ {0}
    <2>1. \A s \in DOMAIN rows' : rows'[s].id \in (PriorCommands + 1)..Len(issued')
      BY <1>1 DEF TableOK
    <2> QED
      BY <2>1
  <1>3. \A s \in DOMAIN rows' : rows'[s].acked => s <= Acked'
    BY <1>1, CursorSplits DEF Acked
  <1>4. PICK n, m, a : n = nextCommandSequence' /\ m = commandCursor' /\ a = Acked'
    OBVIOUS
  <1>5. Numbered' = [s \in 1..(n - 1) |-> rows'[s].id]
    BY <1>4 DEF Numbered
  <1>6. Numbered' \in Seq(Nat \ {0}) /\ Len(Numbered') = n - 1
    <2>1. n \in Nat \ {0} /\ DOMAIN rows' = 1..(n - 1)
      BY <1>1, <1>4
    <2>2. \A s \in 1..(n - 1) : rows'[s].id \in Nat \ {0}
      BY <1>2, <2>1
    <2>3. n - 1 \in Nat
      BY <2>1
    <2> QED
      BY <1>5, <2>2, <2>3
  <1>7. \A s \in Retired' : s \in 1..m
    BY <1>1, <1>3, <1>4 DEF Retired
  <1> QED
    BY <1>4, <1>6, <1>7

\* An ACK, a hello and everything that is invisible to the log.
LEMMA LogSettles ==
    ASSUME IInv, IInv', LogOK, LogOK', PriorCommands = 0, Settles
    PROVE  Log!Settle
  <1>1. Numbered' = Numbered
    BY DEF Numbered, Settles, LogOK
  <1>2. Received' = Received
    BY DEF Received, Settles, LogOK
  <1>3. Retired \subseteq Retired' /\ Retired' \subseteq 1..Len(Received)
    <2>1. Retired' \subseteq 1..commandCursor' /\ Len(Received) = commandCursor /\ commandCursor' = commandCursor
      BY LogShape, LogShapeNext DEF Settles
    <2>2. Retired \subseteq Retired'
      BY DEF Retired, Settles
    <2> QED
      BY <2>1, <2>2
  <1> QED
    BY <1>1, <1>2, <1>3 DEF Log!Settle, Numbered, Received, Retired

LEMMA EnqueueLogs ==
    ASSUME IInv, IInv', LogOK, PriorCommands = 0, NEW command \in Kinds, Enqueue(command)
    PROVE  LogOK' /\ Log!Issue
  <1>1. /\ UNCHANGED <<inbox, commandCursor, link, phase, server, current, up, recreations>>
        /\ nextCommandSequence' = nextCommandSequence + 1 /\ issued' = Append(issued, command)
    BY DEF Enqueue, spool, client
  <1>2. PICK table, n, next, minted : table = Queued(command) /\ n = nextCommandSequence
                                      /\ next = nextCommandSequence + 1 /\ minted = Append(issued, command)
    OBVIOUS
  <1>3. /\ TableOK(table, next, minted) /\ AckCursor(table, next) = Acked /\ next \in Nat \ {0} /\ n \in Nat \ {0}
        /\ DOMAIN table = DOMAIN rows \cup {n} /\ \A s \in DOMAIN rows : table[s].id = rows[s].id
    <2>1. TableOK(table, next, minted) /\ AckCursor(table, next) = Acked
      BY <1>2, QueuedKeeps
    <2>2. \A s \in DOMAIN rows : table[s].id = rows[s].id
      BY <1>2, QueuedKeeps
    <2>3. n \in Nat \ {0} /\ next \in Nat \ {0}
      BY <1>2, OutboxFacts
    <2>4. DOMAIN table = DOMAIN rows \cup {n}
      BY <1>2 DEF Queued
    <2> QED
      BY <2>1, <2>2, <2>3, <2>4
  <1>4. /\ \A s \in DOMAIN rows : table[s].acked = rows[s].acked
        /\ table[n].acked = FALSE
    <2>1. n \notin DOMAIN rows
      BY <1>2, OutboxFacts
    <2> QED
      BY <1>2, <2>1 DEF Queued
  <1>5. DOMAIN rows' = DOMAIN table /\ Acked' = Acked
        /\ \A s \in DOMAIN table : rows'[s].id = table[s].id /\ rows'[s].acked = table[s].acked
    <2>1. CASE current # 0
      <3>1. PICK last, D : Refilled(current, table, next, minted, sendCursor[current], down[current], last, D)
        BY <1>2, <2>1, EnqueueRefills
      <3>2. DOMAIN rows' = DOMAIN table /\ AckCursor(rows', next) = AckCursor(table, next)
        BY <1>3, <3>1, RefillEffect
      <3>3. \A s \in DOMAIN table : rows'[s].id = table[s].id
        BY <1>3, <3>1, RefillEffect
      <3>4. \A s \in DOMAIN table : /\ rows'[s].acked = table[s].acked
                                    /\ rows'[s].cancelled = (s \in D \/ table[s].cancelled)
        BY <1>3, <3>1, RefillDiscards
      <3>5. \A s \in DOMAIN table : rows'[s].acked = table[s].acked
        BY <3>4, Zenon
      <3> QED
        BY <1>1, <1>2, <1>3, <3>2, <3>3, <3>5 DEF Acked
    <2>2. CASE current = 0
      <3>1. rows' = table
        BY <1>2, <2>2 DEF Enqueue, FlushCurrent
      <3> QED
        BY <1>1, <1>2, <1>3, <3>1 DEF Acked
    <2> QED
      BY <2>1, <2>2
  <1>6. n \notin DOMAIN rows /\ DOMAIN rows = 1..(n - 1) /\ DOMAIN rows' = 1..n /\ next - 1 = n
    BY <1>2, <1>3, <1>5 DEF LogOK
  <1>7. current = 0 \/ current = link \/ ~Connected \/ down'[link] = down[link]
    <2> SUFFICES ASSUME current # 0, current # link, Connected PROVE down'[link] = down[link]
      OBVIOUS
    <2>1. PICK last, D : Refilled(current, table, next, minted, sendCursor[current], down[current], last, D)
      BY <1>2, EnqueueRefills
    <2> QED
      BY <2>1 DEF Refilled, IInv, SocketsOK
  <1>8. LogOK'
    <2>1. Connected' /\ phase' = "hello" /\ down'[link'] # <<>> => down'[link'][1].commandSequence <= commandCursor'
      <3>1. CASE current # 0 /\ current = link
        <4>1. Acked <= commandCursor
          BY DEF LogOK
        <4> QED
          BY <1>1, <1>5, <3>1, <4>1 DEF IInv, WindowOK
      <3>2. CASE current = 0
        <4>1. down' = down
          BY <3>2 DEF Enqueue, FlushCurrent
        <4> QED
          BY <1>1, <4>1 DEF LogOK, Connected
      <3>3. CASE current # 0 /\ current # link
        BY <1>1, <1>7, <3>3 DEF LogOK, Connected
      <3> QED
        BY <3>1, <3>2, <3>3
    <2>2. commandCursor' < nextCommandSequence' /\ Acked' <= commandCursor'
      <3>1. commandCursor \in Nat /\ commandCursor < nextCommandSequence /\ Acked <= commandCursor
        BY OutboxFacts DEF LogOK
      <3> QED
        BY <1>1, <1>2, <1>3, <1>5, <3>1
    <2>3. DOMAIN rows' = 1..(nextCommandSequence' - 1)
      BY <1>1, <1>2, <1>6
    <2> QED
      BY <1>1, <1>5, <2>1, <2>2, <2>3 DEF LogOK, Resume
  <1>9. Received' = Received
    BY <1>1 DEF Received
  <1>10. Retired' = Retired
    BY <1>3, <1>4, <1>5, <1>6 DEF Retired
  <1>11. /\ Numbered \in Seq(Nat \ {0}) /\ Len(Numbered) = n - 1
         /\ Numbered' \in Seq(Nat \ {0}) /\ Len(Numbered') = n
    <2>1. Numbered \in Seq(Nat \ {0}) /\ Len(Numbered) = n - 1
      BY <1>2, LogShape
    <2>2. Numbered' \in Seq(Nat \ {0}) /\ Len(Numbered') = nextCommandSequence' - 1
      BY <1>8, LogShapeNext
    <2> QED
      BY <1>1, <1>2, <1>6, <2>1, <2>2
  <1>12. \A s \in 1..(n - 1) : Numbered'[s] = Numbered[s]
    <2>1. Numbered' = [s \in 1..n |-> rows'[s].id] /\ Numbered = [s \in 1..(n - 1) |-> rows[s].id]
      BY <1>1, <1>2, <1>6 DEF Numbered
    <2> QED
      BY <1>3, <1>5, <1>6, <2>1
  <1>13. SubSeq(Numbered', 1, Len(Numbered)) = Numbered
    BY <1>3, <1>11, <1>12
  <1>14. Len(Numbered') = Len(Numbered) + 1 /\ Numbered'[Len(Numbered) + 1] \in Nat \ {0}
    BY <1>3, <1>11
  <1> QED
    BY <1>8, <1>9, <1>10, <1>13, <1>14 DEF Log!Issue, Log!Ids, Log!Missing, Numbered, Received, Retired

LEMMA JournalLogs ==
    ASSUME IInv, IInv', LogOK, PriorCommands = 0, ReceiveCommand \/ ReceiveCommandUnanswered
    PROVE  LogOK' /\ Log!Receive
  <1>1. /\ Inbound("command") /\ UNCHANGED <<rows, nextCommandSequence, issued, ran, link, server, current, recreations>>
    BY DEF ReceiveCommand, ReceiveCommandUnanswered, Hangup, HangupPhase, outbox, ingress, budget
  <1>2. PICK frame, n : frame = Head(down[link]) /\ n = commandCursor + 1
    OBVIOUS
  <1>3. phase = "ready" /\ link \in Links /\ Carries(rows, frame, n) /\ Connected
        /\ Verdict(frame) = "accepted"
    BY <1>1, <1>2, NextIsAccepted DEF Inbound
  <1>4. Journal(frame) /\ phase' # "hello"
    BY <1>2, <1>3 DEF ReceiveCommand, ReceiveCommandUnanswered, Hangup, HangupPhase
  <1>5. /\ commandCursor' = n /\ commandCursor \in Nat /\ n \notin DOMAIN inbox
        /\ DOMAIN inbox' = DOMAIN inbox \cup {n} /\ inbox'[n].id = frame.id
        /\ \A s \in DOMAIN inbox : inbox'[s] = inbox[s]
    <2>1. Carries(rows, frame, commandCursor + 1) /\ Journal(frame)
      BY <1>2, <1>3, <1>4
    <2>2. /\ commandCursor' = n /\ commandCursor \in Nat /\ n \notin DOMAIN inbox
          /\ DOMAIN inbox' = DOMAIN inbox \cup {n}
          /\ \A s \in DOMAIN inbox : inbox'[s] = inbox[s]
      BY <1>1, <1>2, <2>1, JournalKeeps
    <2>3. inbox'[n] = [id |-> frame.id, command |-> frame.command, processed |-> FALSE]
      BY <1>1, <1>2, <2>1, JournalKeeps
    <2> QED
      BY <2>2, <2>3
  <1>6. n \in DOMAIN rows /\ frame.id = rows[n].id
    BY <1>3 DEF Carries
  <1>7. PICK next, a : next = nextCommandSequence /\ a = Acked
    OBVIOUS
  <1>8. n < next /\ a <= commandCursor /\ a \in Nat /\ next \in Nat /\ Acked' = a
    BY <1>1, <1>6, <1>7, OutboxFacts DEF LogOK, Acked
  <1>9. up' = up \/ up' = [up EXCEPT ![link] = Append(@, AckOf(frame))]
    BY <1>2 DEF ReceiveCommand, ReceiveCommandUnanswered, Hangup
  <1>10. up \in [Links -> Seq(Hellos \cup Acks)] /\ server[link] # "open" /\ (current # 0 => current \in Links)
    <2>1. server[link] # "open"
      BY <1>3 DEF IInv, SocketsOK
    <2> QED
      BY <2>1 DEF IInv, SocketsOK
  <1>11. current # 0 => Acked' + Len(up'[current]) <= commandCursor'
    <2> SUFFICES ASSUME current # 0 PROVE Acked' + Len(up'[current]) <= commandCursor'
      OBVIOUS
    <2>1. PICK m, k : m = Len(up[current]) /\ k = Len(up'[current])
      OBVIOUS
    <2>2. m \in Nat /\ up[current] \in Seq(Hellos \cup Acks)
      BY <1>10, <2>1
    <2>3. k = m \/ k = m + 1
      <3>1. PICK ack, acks : ack = AckOf(frame) /\ acks = up[current]
        OBVIOUS
      <3>2. up'[current] = acks \/ up'[current] = Append(acks, ack)
        BY <1>9, <1>10, <3>1
      <3>3. Len(Append(acks, ack)) = Len(acks) + 1
        BY <2>2, <3>1
      <3> QED
        BY <2>1, <3>1, <3>2, <3>3
    <2>4. a + m <= commandCursor
      BY <1>7, <2>1 DEF LogOK
    <2> QED
      BY <1>2, <1>5, <1>8, <2>1, <2>2, <2>3, <2>4, SMTT(30)
  <1>12. LogOK'
    <2>1. DOMAIN inbox' = 1..commandCursor'
      BY <1>2, <1>5 DEF LogOK
    <2>2. Acked' <= commandCursor' /\ commandCursor' < nextCommandSequence'
      BY <1>1, <1>2, <1>5, <1>7, <1>8
    <2>3. \A c \in Links : server'[c] = "open" => Resume(c)' <= commandCursor'
      <3>1. \A c \in Links : server'[c] = "open" => server[c] = "open" /\ up'[c] = up[c]
        BY <1>1, <1>9, <1>10
      <3>2. \A c \in Links : server[c] = "open" => Resume(c) \in Nat
        <4>1. \A c \in Links : server[c] = "open" => \E hello \in Hellos : up[c] = <<hello>>
          BY DEF IInv, SocketsOK
        <4> QED
          BY <4>1 DEF Resume, Hellos
      <3>3. ASSUME NEW c \in Links, server'[c] = "open" PROVE Resume(c)' <= commandCursor'
        <4>1. Resume(c)' = Resume(c) /\ Resume(c) <= commandCursor /\ Resume(c) \in Nat
          BY <3>1, <3>2, <3>3 DEF LogOK, Resume
        <4> QED
          BY <1>2, <1>5, <4>1
      <3> QED
        BY <3>3
    <2> QED
      BY <1>1, <1>4, <1>11, <2>1, <2>2, <2>3 DEF LogOK
  <1>13. /\ Numbered' = Numbered /\ Retired' = Retired
    BY <1>1 DEF Numbered, Retired
  <1>14. /\ Received \in Seq(Nat \ {0}) /\ Len(Received) = commandCursor /\ Len(Numbered) = next - 1
         /\ Numbered[n] = rows[n].id /\ Numbered[n] \in Nat \ {0}
    <2>1. Received \in Seq(Nat \ {0}) /\ Len(Received) = commandCursor /\ Len(Numbered) = next - 1
          /\ Numbered \in Seq(Nat \ {0})
      BY <1>7, LogShape
    <2>2. n \in 1..(next - 1)
      BY <1>2, <1>5, <1>8
    <2>3. Numbered[n] = rows[n].id
      BY <1>7, <2>2 DEF Numbered
    <2>4. n \in 1..Len(Numbered)
      BY <2>1, <2>2
    <2> QED
      BY <2>1, <2>3, <2>4
  <1>15. Received' = Append(Received, Numbered[n])
    <2>1. PICK id : id = frame.id
      OBVIOUS
    <2>2. Received' = [s \in 1..n |-> IF s = n THEN id ELSE Received[s]]
      <3>1. Received' = [s \in 1..n |-> inbox'[s].id]
        BY <1>5 DEF Received
      <3>2. \A s \in 1..n : inbox'[s].id = IF s = n THEN id ELSE Received[s]
        BY <1>2, <1>5, <2>1 DEF Received, LogOK
      <3> QED
        BY <3>1, <3>2
    <2>3. id \in Nat \ {0} /\ id = Numbered[n]
      BY <1>6, <1>14, <2>1
    <2> QED
      BY <1>2, <1>5, <1>14, <2>2, <2>3
  <1>16. Len(Received) < Len(Numbered) /\ Len(Received) + 1 = n
    BY <1>2, <1>5, <1>8, <1>14
  <1> QED
    BY <1>12, <1>13, <1>14, <1>15, <1>16 DEF Log!Receive, Log!Missing, Numbered, Received, Retired

\* A dial names the spool's cursor; the hello_ack it gets cannot be ahead of it.
LEMMA DialLogs ==
    ASSUME IInv, LogOK, Dial
    PROVE  LogOK' /\ Settles
  <1>1. /\ UNCHANGED <<rows, nextCommandSequence, inbox, commandCursor, current, down, recreations>>
        /\ link < MaxLinks /\ link' = link + 1 /\ server' = [server EXCEPT ![link + 1] = "open"]
    BY DEF Dial, outbox, spool, budget
  <1>2. PICK offered \in CapabilitySets : up' = [up EXCEPT ![link + 1] =
                  <<[kind |-> "hello", commandSequence |-> commandCursor, capabilities |-> offered]>>]
    BY DEF Dial
  <1>3. PICK l : l = link + 1
    OBVIOUS
  <1>4. l \in Links /\ l > link /\ l # link
    <2>1. MaxLinks \in Nat
      BY BoundsAssumption
    <2> QED
      BY <1>1, <1>3, <2>1 DEF IInv, TypeOK, Links
  <1>5. down[l] = <<>> /\ server[l] = "none"
    BY <1>4 DEF IInv, SocketsOK
  <1>6. current # l /\ (current # 0 => current \in Links)
    BY <1>4, <1>5 DEF IInv, SocketsOK
  <1>7. /\ server \in [Links -> {"none", "open", "hello", "closed", "superseded"}]
        /\ up \in [Links -> Seq(Hellos \cup Acks)]
    BY DEF IInv, TypeOK, SocketsOK
  <1>8. /\ Resume(l)' = commandCursor
        /\ \A d \in Links : d # l => server'[d] = server[d] /\ up'[d] = up[d]
    BY <1>1, <1>2, <1>3, <1>4, <1>7 DEF Resume
  <1>9. Acked' = Acked /\ commandCursor \in Nat
    BY <1>1, OutboxFacts DEF Acked
  <1>10. Settles
    BY <1>1 DEF Settles
  <1>11. \A d \in Links : server'[d] = "open" => Resume(d)' <= commandCursor'
    <2>1. \A d \in Links : d # l => Resume(d)' = Resume(d)
      BY <1>8 DEF Resume
    <2> QED
      BY <1>1, <1>8, <1>9, <2>1 DEF LogOK
  <1>12. current # 0 => up'[current] = up[current]
    BY <1>6, <1>8
  <1> QED
    BY <1>1, <1>3, <1>5, <1>9, <1>10, <1>11, <1>12 DEF LogOK

LEMMA OthersLog ==
    ASSUME IInv, IInv', LogOK, UNCHANGED <<rows, nextCommandSequence, commandCursor, link, recreations>>,
           DOMAIN inbox' = DOMAIN inbox, \A s \in DOMAIN inbox : inbox'[s].id = inbox[s].id,
           \A c \in Links : server'[c] = "open" => server[c] = "open" /\ up'[c] = up[c],
           phase' \notin {"hello"} \/ UNCHANGED <<phase, down>>,
           current' = 0 \/ (current' = current /\ up'[current] = up[current])
    PROVE  LogOK' /\ Settles
  <1>1. Settles
    BY DEF Settles
  <1>2. Acked' = Acked
    BY DEF Acked
  <1> QED
    BY <1>1, <1>2, LogStep DEF LogOK, Connected

LEMMA SettlingLogs ==
    ASSUME IInv, IInv', LogOK,
           \/ \E s \in DOMAIN rows : Cancel(s)
           \/ ReceiveHelloAck
           \/ \E c \in Links : RefuseHello(c) \/ CloseAbandoned(c) \/ Fault({c})
           \/ Fault(Open)
           \/ Dispatch \/ (\E e \in running : FinishResolve(e) \/ FinishAction(e))
           \/ NoticeClose \/ DropSocket \/ Crash \/ UNCHANGED vars
    PROVE  LogOK' /\ Settles
  <1>1. CASE \E s \in DOMAIN rows : Cancel(s)
    <2>1. PICK s \in DOMAIN rows : Cancel(s)
      BY <1>1
    <2>2. /\ rows' = [rows EXCEPT ![s].cancelled = TRUE]
          /\ UNCHANGED <<nextCommandSequence, inbox, commandCursor, link, phase, up, down, server, current, recreations>>
      BY <2>1 DEF Cancel, spool, client, ingress
    <2>3. \A r \in DOMAIN rows : rows[r] \in Row
      BY DEF IInv, TypeOK
    <2>4. DOMAIN rows' = DOMAIN rows /\ \A r \in DOMAIN rows : rows'[r].id = rows[r].id
      BY <2>2, <2>3 DEF Row
    <2>5. \A r \in DOMAIN rows : rows'[r].acked <=> rows[r].acked
      BY <2>2, <2>3 DEF Row
    <2>6. Settles
      BY <2>2, <2>4, <2>5 DEF Settles
    <2>7. Acked' = Acked
      <3>1. Unacked(rows') = Unacked(rows)
        BY <2>4, <2>5 DEF Unacked
      <3> QED
        BY <2>2, <3>1 DEF Acked, AckCursor
    <2> QED
      BY <2>2, <2>6, <2>7, LogStep DEF LogOK
  <1>2. CASE ReceiveHelloAck
    <2>1. PICK ack : ack = down[link][1]
      OBVIOUS
    <2>2. /\ Connected /\ phase = "hello" /\ down[link] # <<>> /\ commandCursor \in Nat
          /\ commandCursor' = ack.commandSequence /\ phase' = "ready"
          /\ ack.commandSequence \in commandCursor..(nextCommandSequence - 1) /\ nextCommandSequence \in Nat
      BY <1>2, <2>1, HelloAckIsTaken
    <2>3. ack.commandSequence <= commandCursor
      BY <2>1, <2>2 DEF LogOK
    <2>4. commandCursor' = commandCursor
      BY <2>2, <2>3
    <2>5. UNCHANGED <<rows, nextCommandSequence, inbox, link, up, server, current, recreations>>
      BY <1>2 DEF ReceiveHelloAck, outbox, ingress, budget
    <2> QED
      BY <2>2, <2>4, <2>5, OthersLog
  <1>3. CASE (\E c \in Links : RefuseHello(c) \/ CloseAbandoned(c) \/ Fault({c})) \/ Fault(Open)
    <2>1. (\E c \in Links : RefuseHello(c)) \/ (\E C : Close(C))
      BY <1>3 DEF CloseAbandoned, Fault
    <2>2. CASE \E c \in Links : RefuseHello(c)
      <3>1. PICK c \in Links : RefuseHello(c)
        BY <2>2
      <3>2. /\ UNCHANGED <<rows, nextCommandSequence, inbox, commandCursor, link, phase, down, recreations>>
            /\ current' = 0 /\ server' = [Supersede(c) EXCEPT ![c] = "closed"]
            /\ up' = [d \in Links |-> IF d \in {c, current} THEN <<>> ELSE up[d]]
        BY <3>1 DEF RefuseHello, outbox, spool, client, budget
      <3>3. \A d \in Links : server'[d] = (IF d = c THEN "closed" ELSE IF d = current THEN "superseded" ELSE server[d])
        BY <3>2 DEF Supersede
      <3>4. \A d \in Links : server'[d] = "open" => server[d] = "open" /\ up'[d] = up[d]
        BY <3>2, <3>3
      <3> QED
        BY <3>2, <3>4, OthersLog
    <2>3. CASE \E C : Close(C)
      <3>1. PICK C : Close(C)
        BY <2>3
      <3>2. /\ UNCHANGED <<rows, nextCommandSequence, inbox, commandCursor, link, phase, down, recreations>>
            /\ server' = [c \in Links |-> IF c \in C THEN "closed" ELSE server[c]]
            /\ up' = [c \in Links |-> IF c \in C THEN <<>> ELSE up[c]]
            /\ current' = IF current \in C THEN 0 ELSE current
        BY <3>1 DEF Close, outbox, spool, client
      <3>3. current' = 0 \/ (current' = current /\ up'[current] = up[current])
        BY <3>2 DEF IInv, SocketsOK
      <3> QED
        BY <3>2, <3>3, OthersLog
    <2> QED
      BY <2>1, <2>2, <2>3
  <1>4. CASE Dispatch \/ (\E e \in running : FinishResolve(e) \/ FinishAction(e))
    <2>1. /\ UNCHANGED <<rows, nextCommandSequence, commandCursor, link, phase, down, server, up, current, recreations>>
          /\ (\E s : MarkProcessed(s)) \/ UNCHANGED inbox
      BY <1>4 DEF Dispatch, FinishResolve, FinishAction, outbox, ingress, history, budget
    <2>2. DOMAIN inbox' = DOMAIN inbox /\ \A r \in DOMAIN inbox : inbox'[r].id = inbox[r].id
      BY <2>1, MarkKeeps
    <2> QED
      BY <2>1, <2>2, OthersLog
  <1>5. CASE NoticeClose \/ DropSocket \/ Crash
    <2>1. /\ UNCHANGED <<rows, nextCommandSequence, inbox, commandCursor, link, server, up, current, recreations>>
          /\ phase' # "hello"
      BY <1>5 DEF NoticeClose, DropSocket, Crash, Hangup, HangupPhase, outbox, spool, ingress, budget
    <2> QED
      BY <2>1, OthersLog
  <1>6. CASE UNCHANGED vars
    <2>1. UNCHANGED <<rows, nextCommandSequence, inbox, commandCursor, link, phase, down, server, up, current, recreations>>
      BY <1>6 DEF vars, outbox, spool, client, ingress, budget
    <2> QED
      BY <2>1, OthersLog
  <1> QED
    BY <1>1, <1>2, <1>3, <1>4, <1>5, <1>6

LEMMA LogNext ==
    ASSUME IInv, IInv', LogOK, PriorCommands = 0, recreations' = 0, [Next]_vars
    PROVE  LogOK' /\ [Log!Next]_(Log!vars)
  <1>1. CASE LogOK' /\ Settles
    BY <1>1, LogSettles DEF Log!Next
  <1>2. CASE \E command \in Kinds : Enqueue(command)
    BY <1>2, EnqueueLogs DEF Log!Next
  <1>3. CASE ReceiveCommand \/ ReceiveCommandUnanswered
    BY <1>3, JournalLogs DEF Log!Next
  <1>4. ~RecreateSpool
    BY DEF RecreateSpool, LogOK
  <1>5. CASE FlushQueued \/ Dial \/ \E c \in Links : Hello(c) \/ ReceiveAck(c)
    BY <1>1, <1>5, FlushQueuedLogs, DialLogs, HelloLogs, ReceiveAckLogs
  <1>6. CASE \/ \E s \in DOMAIN rows : Cancel(s)
             \/ ReceiveHelloAck
             \/ \E c \in Links : RefuseHello(c) \/ CloseAbandoned(c) \/ Fault({c})
             \/ Fault(Open)
             \/ Dispatch \/ (\E e \in running : FinishResolve(e) \/ FinishAction(e))
             \/ NoticeClose \/ DropSocket \/ Crash \/ UNCHANGED vars
    BY <1>1, <1>6, SettlingLogs
  <1> QED
    BY <1>2, <1>3, <1>4, <1>5, <1>6 DEF Next

LEMMA LogInit ==
    ASSUME PriorCommands = 0, Init
    PROVE  LogOK /\ Log!Init
  <1>1. IInv
    BY InitHolds
  <1>2. /\ DOMAIN rows = {} /\ nextCommandSequence = 1 /\ DOMAIN inbox = {} /\ commandCursor = 0 /\ current = 0
        /\ ~Connected /\ recreations = 0 /\ \A c \in Links : server[c] # "open"
    BY DEF Init, Connected
  <1>3. LogOK
    <2>1. Acked = 0
      BY <1>2 DEF Acked, AckCursor, Unacked
    <2>2. 1..commandCursor = {} /\ 1..(nextCommandSequence - 1) = {}
      BY <1>2
    <2> QED
      BY <1>2, <2>1, <2>2 DEF LogOK
  <1>4. Log!Init
    <2>1. Numbered \in Seq(Nat) /\ Received \in Seq(Nat \ {0}) /\ Len(Received) <= Len(Numbered)
          /\ Retired \subseteq 1..Len(Received)
      <3>1. /\ Numbered \in Seq(Nat \ {0}) /\ Len(Numbered) = nextCommandSequence - 1
            /\ Received \in Seq(Nat \ {0}) /\ Len(Received) = commandCursor
            /\ Retired \subseteq 1..commandCursor
        BY <1>1, <1>3, LogShape
      <3>2. Numbered \in Seq(Nat)
        BY <3>1
      <3> QED
        BY <1>2, <3>1, <3>2
    <2> QED
      BY <2>1 DEF Log!Init, Log!Ids, Log!Missing, Numbered, Received, Retired
  <1> QED
    BY <1>3, <1>4

\* From an empty gateway database, and as long as the spool file is there, the outbox, the wire and
\* the inbox are one ordered log: an enqueue issues a number, the journal receives the next one, an
\* ACK or a hello settles, and everything else either side does is invisible.
THEOREM LogIsImplemented ==
    ASSUME PriorCommands = 0
    PROVE  Spec /\ [](recreations = 0) => ImplementsLog
  <1>1. Init => IInv /\ LogOK /\ Log!Init
    BY InitHolds, LogInit
  <1>2. IInv /\ LogOK /\ (recreations = 0)' /\ [Next]_vars => IInv' /\ LogOK' /\ [Log!Next]_(Log!vars)
    BY NextKeeps, LogNext
  <1> QED
    BY <1>1, <1>2, PTL DEF Spec, ImplementsLog, Log!Spec
=============================================================================
