------------------------- MODULE NativeTurnsProofs -------------------------
(***************************************************************************)
(* Proofs about NativeTurns for any number of messages, conversations,     *)
(* restarts and events.                                                    *)
(*                                                                         *)
(* The invariant rests on one distinction: a message that is sent is a     *)
(* turn (IsTurn), a steer, or neither yet, and only a promotion makes a    *)
(* turn of a steer.  Everything that carries a turn's number, the queued   *)
(* commands, the events, the rows, the leases, carries that of a message   *)
(* that is a turn already, so a new turn has no past: nothing ended it,    *)
(* nothing of it is queued and nobody speaks of it.                        *)
(***************************************************************************)
EXTENDS NativeTurns, TLAPS, FiniteSetTheorems, SequenceTheorems

CommandSet == [kind : {"turn", "steer", "interrupt"}, turn : Turns, msg : {None} \cup Messages]
EventSet == [kind : {"draft", "interim", "commit", "failed", "interrupted", "unknown_turn", "orphan"},
             session : Sessions, turn : {None} \cup Turns, msgs : SUBSET Messages]
Gateways == [selected : Sessions, sessions : Sessions,
             home : [Messages -> {None} \cup Sessions],
             active : [Sessions -> {None} \cup Turns],
             outbox : Seq(CommandSet), acked : SUBSET Turns,
             pending : [Messages -> {None} \cup Turns],
             terminal : [Turns -> {"none", "completed", "failed", "interrupted", "timed_out"}],
             steers : SUBSET Messages, promoted : SUBSET Messages,
             noted : SUBSET Messages, answered : SUBSET Messages]

\* Message t opened a turn, or was made one.
IsTurn(g, t) == t \in Turns /\ g.home[t] # None /\ (t \in g.steers => t \in g.promoted)

\* Turns: the active one of a conversation has not ended, and every turn whose
\* command is queued or was taken is active until it has ended.
TurnsOK(g) ==
  /\ \A s \in Sessions : g.active[s] # None =>
       IsTurn(g, g.active[s]) /\ g.home[g.active[s]] = s /\ g.terminal[g.active[s]] = "none"
  /\ \A t \in Turns : g.terminal[t] # "none" => IsTurn(g, t)
  /\ \A t \in Turns : Carried(g, t) =>
       IsTurn(g, t) /\ (g.terminal[t] = "none" => g.active[g.home[t]] = t)
  /\ \A t \in Turns : Queued(g, t) => t \notin g.acked /\ g.terminal[t] # "failed"

\* Steers: a row is open for a steer that is neither made a turn nor noted, and
\* names a turn of the steer's conversation.
SteersOK(g) ==
  /\ \A m \in g.steers : g.home[m] # None
  /\ g.promoted \cup g.noted \subseteq g.steers /\ g.promoted \cap g.noted = {}
  /\ \A m \in Messages : g.pending[m] # None =>
       /\ m \in g.steers /\ m \notin g.promoted /\ m \notin g.noted
       /\ IsTurn(g, g.pending[m]) /\ g.home[g.pending[m]] = g.home[m]

CommandOK(g, c) ==
  /\ IsTurn(g, c.turn)
  /\ c.kind = "turn" => c.msg = c.turn
  /\ c.kind = "steer" => c.msg \in g.steers /\ c.msg \notin g.promoted
  /\ c.kind = "interrupt" => c.msg = None

\* No two commands carry the same message, and what is queued for a turn whose
\* own command is queued stands behind it.
InOrder(o) ==
  /\ \A i, j \in 1..Len(o) : o[i].msg # None /\ o[i].msg = o[j].msg => i = j
  /\ \A i, j \in 1..Len(o) : o[i].kind = "turn" /\ o[j].turn = o[i].turn => i <= j
Has(o, c) == \E i \in 1..Len(o) : o[i] = c
OutboxOK(g) == InOrder(g.outbox) /\ \A c \in CommandSet : Has(g.outbox, c) => CommandOK(g, c)

Sane(g) == g \in Gateways /\ TurnsOK(g) /\ SteersOK(g) /\ OutboxOK(g)

\* What speaks of a turn: the agent's events, the turns it runs, the leases.
EventOK(g, e) ==
  /\ e.turn # None => IsTurn(g, e.turn) /\ ~Queued(g, e.turn)
  /\ e.kind = "unknown_turn" => e.turn # None
UplinkOK(g, up) == up \in Seq(EventSet) /\ \A i \in 1..Len(up) : EventOK(g, up[i])
HoldsOK(g, ho) == ho \in [Sessions -> {None} \cup Turns] /\ \A s \in Sessions : ho[s] # None => ho[s] \in g.acked

\* Sends that await their context are of messages nobody knows yet.
FreshOK(g, us, pre) ==
  /\ us.sends \in 0..MaxMessages
  /\ \A m \in Messages : m > us.sends => g.home[m] = None
  /\ pre \subseteq Messages \X Sessions
  /\ \A p \in pre : p[1] <= us.sends /\ g.home[p[1]] = None
  /\ \A p, q \in pre : p[1] = q[1] => p = q

UsedSet == [losses : Nat, absences : Nat, restarts : Nat, acts : Nat, frames : Nat, sends : Nat]

AgentOK ==
  /\ live \in BOOLEAN /\ media \in BOOLEAN /\ declares \in BOOLEAN
  /\ context \in [Sessions -> SUBSET Messages]
  /\ sealed \subseteq Turns /\ heard \subseteq Messages

IInv ==
  /\ Sane(gw) /\ gw.selected <= gw.sessions
  /\ lost \subseteq gw.acked /\ stopping \subseteq Turns
  /\ AgentOK /\ HoldsOK(gw, holds) /\ UplinkOK(gw, uplink)
  /\ used \in UsedSet /\ FreshOK(gw, used, preparing)

------------------------------------------------------------------------------
(* Data.                                                                       *)

LEMMA Constants ==
    /\ MaxMessages \in Nat \ {0} /\ MaxSessions \in Nat \ {0}
    /\ Messages = 1..MaxMessages /\ Turns = Messages /\ Sessions = 1..MaxSessions
    /\ None = 0 /\ None \notin Messages /\ None \notin Sessions /\ 1 \in Sessions
    /\ MediaMessages \subseteq Messages
  BY NativeTurnsAssumption DEF Messages, Turns, Sessions, None

\* Ascending lists a finite set of numbers, smallest first: counting the numbers
\* up to n is an injection into 1..Cardinality(ns), and so onto.
LEMMA AscendingLists ==
    ASSUME NEW ns \in SUBSET Nat, IsFiniteSet(ns)
    PROVE  /\ Cardinality(ns) \in Nat /\ Ascending(ns) \in Seq(ns)
           /\ Len(Ascending(ns)) = Cardinality(ns) /\ DOMAIN Ascending(ns) = 1..Cardinality(ns)
           /\ \A i, j \in 1..Len(Ascending(ns)) : i < j => Ascending(ns)[i] < Ascending(ns)[j]
           /\ \A n \in ns : \E i \in 1..Len(Ascending(ns)) : Ascending(ns)[i] = n
  <1> DEFINE UpTo(n) == {k \in ns : k <= n}
             rank == [n \in ns |-> Cardinality(UpTo(n))]
             size == Cardinality(ns)
  <1>1. size \in Nat
    BY FS_CardinalityType
  <1>2. \A n \in ns : IsFiniteSet(UpTo(n)) /\ Cardinality(UpTo(n)) \in 1..size
    <2> SUFFICES ASSUME NEW n \in ns PROVE IsFiniteSet(UpTo(n)) /\ Cardinality(UpTo(n)) \in 1..size
      OBVIOUS
    <2>1. UpTo(n) \in SUBSET ns /\ n \in UpTo(n)
      OBVIOUS
    <2>2. IsFiniteSet(UpTo(n)) /\ Cardinality(UpTo(n)) <= size
      BY <2>1, FS_Subset
    <2>3. Cardinality(UpTo(n)) \in Nat /\ Cardinality(UpTo(n)) # 0
      BY <2>1, <2>2, FS_CardinalityType, FS_EmptySet
    <2> QED
      BY <1>1, <2>2, <2>3
  <1>3. \A m, n \in ns : m < n => rank[m] < rank[n]
    <2> SUFFICES ASSUME NEW m \in ns, NEW n \in ns, m < n PROVE rank[m] < rank[n]
      OBVIOUS
    <2>1. m \in Nat /\ n \in Nat /\ \A k \in ns : k \in Nat
      OBVIOUS
    <2>2. \A k \in ns : k <= m => k <= n
      BY <2>1
    <2>3. UpTo(m) \in SUBSET UpTo(n)
      BY <2>2
    <2>4. n \in UpTo(n) /\ n \notin UpTo(m)
      BY <2>1
    <2>6. Cardinality(UpTo(m)) <= Cardinality(UpTo(n)) /\ Cardinality(UpTo(m)) # Cardinality(UpTo(n))
      BY <1>2, <2>3, <2>4, FS_Subset
    <2>5. Cardinality(UpTo(m)) \in Nat /\ Cardinality(UpTo(n)) \in Nat
      BY <1>1, <1>2
    <2> QED
      BY <2>6, <2>5
  <1>4. rank \in [ns -> 1..size]
    BY <1>2
  <1>5. \A m, n \in ns : rank[m] <= rank[n] => m <= n
    <2> HIDE DEF rank
    <2> SUFFICES ASSUME NEW m \in ns, NEW n \in ns, rank[m] <= rank[n], ~(m <= n) PROVE FALSE
      OBVIOUS
    <2>1. n < m
      OBVIOUS
    <2>2. rank[n] < rank[m] /\ rank[n] \in Nat /\ rank[m] \in Nat
      BY <1>1, <1>3, <1>4, <2>1
    <2> QED
      BY <2>2
  <1>6. rank \in Surjection(ns, 1..size)
    <2> HIDE DEF rank
    <2>1. \A m, n \in ns : rank[m] = rank[n] => m = n
      BY <1>1, <1>4, <1>5
    <2>2. rank \in Injection(ns, 1..size)
      BY <1>4, <2>1 DEF Injection, IsInjective
    <2>3. IsFiniteSet(1..size) /\ Cardinality(1..size) = size
      BY <1>1, FS_Interval
    <2> HIDE DEF size
    <2> QED
      BY <2>2, <2>3, FS_Injection DEF size
  <1>7. \A i \in 1..size : \E n \in ns : rank[n] = i
    BY <1>6 DEF Surjection
  <1>8. Ascending(ns) = [i \in 1..size |-> CHOOSE n \in ns : Cardinality(UpTo(n)) = i]
    BY DEF Ascending
  <1>9. \A i \in 1..size : Ascending(ns)[i] \in ns /\ rank[Ascending(ns)[i]] = i
    <2> SUFFICES ASSUME NEW i \in 1..size
                 PROVE  Ascending(ns)[i] \in ns /\ rank[Ascending(ns)[i]] = i
      OBVIOUS
    <2>1. \E n \in ns : Cardinality(UpTo(n)) = i
      BY <1>7
    <2>2. Ascending(ns)[i] = CHOOSE n \in ns : Cardinality(UpTo(n)) = i
      BY <1>8
    <2>3. Ascending(ns)[i] \in ns /\ Cardinality(UpTo(Ascending(ns)[i])) = i
      BY <2>1, <2>2
    <2> QED
      BY <2>3
  <1> HIDE DEF rank, size
  <1>10. Ascending(ns) \in [1..size -> ns]
    BY <1>8, <1>9
  <1>11. Ascending(ns) \in Seq(ns) /\ Len(Ascending(ns)) = size /\ DOMAIN Ascending(ns) = 1..size
    BY <1>1, <1>10
  <1>12. \A i, j \in 1..size : i < j => Ascending(ns)[i] < Ascending(ns)[j]
    <2> SUFFICES ASSUME NEW i \in 1..size, NEW j \in 1..size, i < j
                 PROVE  Ascending(ns)[i] < Ascending(ns)[j]
      OBVIOUS
    <2> DEFINE a == Ascending(ns)[i]
               b == Ascending(ns)[j]
    <2>1. a \in ns /\ b \in ns /\ rank[a] = i /\ rank[b] = j
      BY <1>9
    <2> HIDE DEF a, b
    <2>2. ~(b <= a) \/ a = b
      BY <1>3, <1>1, <2>1
    <2>3. a # b
      BY <1>1, <2>1
    <2>4. a < b
      BY <2>1, <2>2, <2>3
    <2> QED
      BY <2>4 DEF a, b
  <1>13. \A n \in ns : \E i \in 1..size : Ascending(ns)[i] = n
    <2> SUFFICES ASSUME NEW n \in ns PROVE Ascending(ns)[rank[n]] = n /\ rank[n] \in 1..size
      OBVIOUS
    <2>1. rank[n] \in 1..size
      BY <1>4
    <2>2. Ascending(ns)[rank[n]] \in ns /\ rank[Ascending(ns)[rank[n]]] = rank[n]
      BY <1>9, <2>1
    <2> DEFINE a == Ascending(ns)[rank[n]]
    <2>3. a \in ns /\ rank[a] = rank[n]
      BY <2>2
    <2> HIDE DEF a
    <2>4. rank[n] <= rank[a] /\ rank[a] <= rank[n]
      BY <1>1, <2>1, <2>3
    <2>5. n <= a /\ a <= n /\ a \in Nat /\ n \in Nat
      BY <1>5, <2>3, <2>4
    <2>6. a = n
      BY <2>5
    <2> QED
      BY <2>1, <2>6 DEF a
  <1> QED
    BY <1>1, <1>11, <1>12, <1>13 DEF size

\* What Remaining keeps, and in which order.
LEMMA RemainingHolds ==
    ASSUME NEW C, NEW o \in Seq(C), NEW X, NEW r, r = Remaining(o, X)
    PROVE  /\ r \in Seq(C) /\ Len(r) \in Nat
           /\ \E f \in [1..Len(r) -> 1..Len(o)] :
                /\ \A i \in 1..Len(r) : r[i] = o[f[i]] /\ o[f[i]] \notin X
                /\ \A i, j \in 1..Len(r) : i < j => f[i] < f[j]
                /\ \A k \in 1..Len(o) : o[k] \notin X => \E i \in 1..Len(r) : f[i] = k
  <1> DEFINE ns == {i \in DOMAIN o : o[i] \notin X}
             f == Ascending(ns)
  <1>1. DOMAIN o = 1..Len(o) /\ Len(o) \in Nat
    BY LenProperties
  <1>2. ns \in SUBSET (1..Len(o)) /\ \A k \in 1..Len(o) : k \in ns <=> o[k] \notin X
    BY <1>1
  <1>3. r = [i \in DOMAIN f |-> o[f[i]]]
    BY DEF Remaining
  <1> HIDE DEF ns
  <1>4. IsFiniteSet(1..Len(o))
    BY <1>1, FS_Interval
  <1>5. ns \in SUBSET Nat /\ IsFiniteSet(ns)
    <2>1. IsFiniteSet(ns)
      BY <1>2, <1>4, FS_Subset
    <2>2. ns \in SUBSET Nat
      BY <1>1, <1>2
    <2> QED
      BY <2>1, <2>2
  <1>6. /\ Cardinality(ns) \in Nat /\ f \in Seq(ns)
        /\ Len(f) = Cardinality(ns) /\ DOMAIN f = 1..Cardinality(ns)
        /\ \A i, j \in 1..Len(f) : i < j => f[i] < f[j]
        /\ \A n \in ns : \E i \in 1..Len(f) : f[i] = n
    BY <1>5, AscendingLists
  <1> HIDE DEF f
  <1>7. \A i \in 1..Len(f) : f[i] \in ns
    BY <1>6, ElementOfSeq
  <1>8. \A i \in 1..Len(f) : f[i] \in 1..Len(o) /\ o[f[i]] \notin X /\ o[f[i]] \in C
    BY <1>2, <1>7, ElementOfSeq
  <1>9. r \in [1..Len(f) -> C] /\ Len(f) \in Nat /\ \A i \in 1..Len(f) : r[i] = o[f[i]]
    BY <1>3, <1>6, <1>8
  <1>10. r \in Seq(C) /\ Len(r) = Len(f)
    BY <1>9
  <1>11. f = [i \in 1..Len(f) |-> f[i]]
    BY <1>6
  <1>12. f \in [1..Len(r) -> 1..Len(o)]
    BY <1>8, <1>10, <1>11
  <1>13. /\ \A i \in 1..Len(r) : r[i] = o[f[i]] /\ o[f[i]] \notin X
         /\ \A i, j \in 1..Len(r) : i < j => f[i] < f[j]
         /\ \A k \in 1..Len(o) : o[k] \notin X => \E i \in 1..Len(r) : f[i] = k
    BY <1>2, <1>6, <1>8, <1>9, <1>10
  <1> QED
    BY <1>9, <1>10, <1>12, <1>13

\* What a sequence of commands holds after its first is taken.
LEMMA TailKeepsOrder ==
    ASSUME NEW o \in Seq(CommandSet), o # <<>>, InOrder(o)
    PROVE  /\ Tail(o) \in Seq(CommandSet) /\ InOrder(Tail(o))
           /\ Head(o) \in CommandSet /\ Has(o, Head(o))
           /\ \A c : Has(Tail(o), c) => Has(o, c)
           /\ \A c : Has(o, c) => c = Head(o) \/ Has(Tail(o), c)
           /\ \A c : Has(Tail(o), c) => /\ c.msg # None => c.msg # Head(o).msg
                                        /\ c.kind = "turn" => c.turn # Head(o).turn
  <1>1. Len(o) \in Nat \ {0}
    BY EmptySeq
  <1>2. /\ Tail(o) \in Seq(CommandSet) /\ Len(Tail(o)) = Len(o) - 1
        /\ \A i \in 1..Len(Tail(o)) : Tail(o)[i] = o[i + 1]
        /\ Head(o) \in CommandSet
    BY HeadTailProperties
  <1>3. Head(o) = o[1] /\ 1 \in 1..Len(o)
    BY <1>1
  <1>4. \A i \in 1..Len(Tail(o)) : i + 1 \in 1..Len(o) /\ i + 1 # 1
    BY <1>1, <1>2
  <1>5. \A i \in 1..Len(o) : i = 1 \/ (i - 1 \in 1..Len(Tail(o)) /\ Tail(o)[i - 1] = o[i])
    <2> SUFFICES ASSUME NEW i \in 1..Len(o), i # 1
                 PROVE  i - 1 \in 1..Len(Tail(o)) /\ Tail(o)[i - 1] = o[i]
      OBVIOUS
    <2>1. i - 1 \in 1..Len(Tail(o)) /\ (i - 1) + 1 = i
      BY <1>1, <1>2
    <2> QED
      BY <1>2, <2>1
  <1>6. \A c : Has(Tail(o), c) => \E i \in 1..Len(o) : i # 1 /\ o[i] = c
    BY <1>2, <1>4 DEF Has
  <1>7. InOrder(Tail(o))
    <2>1. ASSUME NEW i \in 1..Len(Tail(o)), NEW j \in 1..Len(Tail(o)),
                 Tail(o)[i].msg # None, Tail(o)[i].msg = Tail(o)[j].msg
          PROVE  i = j
      <3>1. i + 1 \in 1..Len(o) /\ j + 1 \in 1..Len(o) /\ o[i + 1].msg # None /\ o[i + 1].msg = o[j + 1].msg
        BY <1>2, <1>4, <2>1
      <3>2. i + 1 = j + 1
        BY <3>1 DEF InOrder
      <3> QED
        BY <1>1, <1>2, <3>2
    <2>2. ASSUME NEW i \in 1..Len(Tail(o)), NEW j \in 1..Len(Tail(o)),
                 Tail(o)[i].kind = "turn", Tail(o)[j].turn = Tail(o)[i].turn
          PROVE  i <= j
      <3>1. i + 1 \in 1..Len(o) /\ j + 1 \in 1..Len(o) /\ o[i + 1].kind = "turn" /\ o[j + 1].turn = o[i + 1].turn
        BY <1>2, <1>4, <2>2
      <3>2. i + 1 <= j + 1
        BY <3>1 DEF InOrder
      <3> QED
        BY <1>1, <1>2, <3>2
    <2> QED
      BY <2>1, <2>2 DEF InOrder
  <1>8. ASSUME NEW c, Has(Tail(o), c)
        PROVE  (c.msg # None => c.msg # Head(o).msg) /\ (c.kind = "turn" => c.turn # Head(o).turn)
    <2>1. PICK i \in 1..Len(o) : i # 1 /\ o[i] = c
      BY <1>6, <1>8
    <2>2. ~(i <= 1)
      BY <1>1, <2>1
    <2> QED
      BY <1>3, <2>1, <2>2 DEF InOrder
  <1>9. Has(o, Head(o)) /\ \A c : Has(o, c) => c = Head(o) \/ Has(Tail(o), c)
    BY <1>3, <1>5 DEF Has
  <1>10. \A c : Has(Tail(o), c) => Has(o, c)
    BY <1>6 DEF Has
  <1> QED
    BY <1>2, <1>7, <1>8, <1>9, <1>10

\* Commands behind others stay in order when they carry other messages and start
\* no turn the others are for.
LEMMA ConcatKeepsOrder ==
    ASSUME NEW p \in Seq(CommandSet), NEW q \in Seq(CommandSet), InOrder(p), InOrder(q),
           \A c, d : Has(p, c) /\ Has(q, d) => /\ d.msg # None => c.msg # d.msg
                                               /\ d.kind = "turn" => c.turn # d.turn
    PROVE  /\ p \o q \in Seq(CommandSet) /\ InOrder(p \o q)
           /\ \A c : Has(p \o q, c) <=> Has(p, c) \/ Has(q, c)
  <1>1. /\ p \o q \in Seq(CommandSet) /\ Len(p \o q) = Len(p) + Len(q)
        /\ \A i \in 1..(Len(p) + Len(q)) : (p \o q)[i] = IF i <= Len(p) THEN p[i] ELSE q[i - Len(p)]
    BY ConcatProperties
  <1>2. Len(p) \in Nat /\ Len(q) \in Nat
    BY LenProperties
  <1> DEFINE o == p \o q
             n == Len(p)
  <1>3. \A i \in 1..Len(o) : \/ i \in 1..n /\ o[i] = p[i]
                             \/ i - n \in 1..Len(q) /\ i > n /\ o[i] = q[i - n]
    BY <1>1, <1>2
  <1>4. \A i \in 1..n : i \in 1..Len(o) /\ o[i] = p[i]
    BY <1>1, <1>2
  <1>5. \A i \in 1..Len(q) : i + n \in 1..Len(o) /\ o[i + n] = q[i]
    <2> SUFFICES ASSUME NEW i \in 1..Len(q) PROVE i + n \in 1..Len(o) /\ o[i + n] = q[i]
      OBVIOUS
    <2>1. i + n \in 1..(Len(p) + Len(q)) /\ ~(i + n <= n) /\ (i + n) - n = i
      BY <1>2
    <2> QED
      BY <1>1, <2>1
  <1>6. Len(o) \in Nat
    BY <1>1, <1>2
  <1> HIDE DEF o
  <1>7. \A i \in 1..n : Has(p, p[i])
    BY DEF Has
  <1>8. \A i \in 1..Len(q) : Has(q, q[i])
    BY DEF Has
  <1>9. ASSUME NEW i \in 1..Len(o), NEW j \in 1..Len(o), o[i].msg # None, o[i].msg = o[j].msg
        PROVE  i = j
    <2>1. CASE i \in 1..n /\ o[i] = p[i] /\ j \in 1..n /\ o[j] = p[j]
      BY <1>9, <2>1 DEF InOrder
    <2>2. CASE i \in 1..n /\ o[i] = p[i] /\ j - n \in 1..Len(q) /\ o[j] = q[j - n]
      BY <1>7, <1>8, <1>9, <2>2
    <2>3. CASE i - n \in 1..Len(q) /\ o[i] = q[i - n] /\ j \in 1..n /\ o[j] = p[j]
      BY <1>7, <1>8, <1>9, <2>3
    <2>4. CASE i - n \in 1..Len(q) /\ o[i] = q[i - n] /\ j - n \in 1..Len(q) /\ o[j] = q[j - n]
      <3>1. i - n = j - n
        BY <1>9, <2>4 DEF InOrder
      <3> QED
        BY <1>2, <1>6, <3>1
    <2> QED
      BY <1>3, <2>1, <2>2, <2>3, <2>4
  <1>10. ASSUME NEW i \in 1..Len(o), NEW j \in 1..Len(o), o[i].kind = "turn", o[j].turn = o[i].turn
         PROVE  i <= j
    <2>1. CASE i \in 1..n /\ o[i] = p[i] /\ j \in 1..n /\ o[j] = p[j]
      BY <1>10, <2>1 DEF InOrder
    <2>2. CASE i \in 1..n /\ j > n
      BY <1>2, <1>6, <2>2
    <2>3. CASE i - n \in 1..Len(q) /\ o[i] = q[i - n] /\ j \in 1..n /\ o[j] = p[j]
      BY <1>7, <1>8, <1>10, <2>3
    <2>4. CASE i - n \in 1..Len(q) /\ o[i] = q[i - n] /\ j - n \in 1..Len(q) /\ o[j] = q[j - n]
      <3>1. i - n <= j - n
        BY <1>10, <2>4 DEF InOrder
      <3> QED
        BY <1>2, <1>6, <3>1
    <2> QED
      BY <1>3, <2>1, <2>2, <2>3, <2>4
  <1>11. InOrder(o)
    BY <1>9, <1>10 DEF InOrder
  <1>12. \A c : Has(o, c) => Has(p, c) \/ Has(q, c)
    BY <1>3 DEF Has
  <1>13. \A c : Has(p, c) \/ Has(q, c) => Has(o, c)
    BY <1>4, <1>5 DEF Has
  <1> QED
    BY <1>1, <1>11, <1>12, <1>13 DEF o

LEMMA AppendKeepsOrder ==
    ASSUME NEW o \in Seq(CommandSet), NEW d \in CommandSet, InOrder(o),
           \A c : Has(o, c) => /\ d.msg # None => c.msg # d.msg
                               /\ d.kind = "turn" => c.turn # d.turn
    PROVE  /\ Append(o, d) \in Seq(CommandSet) /\ InOrder(Append(o, d))
           /\ \A c : Has(Append(o, d), c) <=> Has(o, c) \/ c = d
  <1> DEFINE q == <<d>>
  <1>1. q \in Seq(CommandSet) /\ Len(q) = 1 /\ q[1] = d
    OBVIOUS
  <1>2. Append(o, d) = o \o q
    BY AppendIsConcat
  <1> HIDE DEF q
  <1>3. \A c : Has(q, c) <=> c = d
    BY <1>1 DEF Has
  <1>4. \A i \in 1..Len(q) : i = 1
    BY <1>1
  <1>5. InOrder(q)
    BY <1>4 DEF InOrder
  <1>6. \A c, e : Has(o, c) /\ Has(q, e) => /\ e.msg # None => c.msg # e.msg
                                            /\ e.kind = "turn" => c.turn # e.turn
    BY <1>3
  <1>7. /\ o \o q \in Seq(CommandSet) /\ InOrder(o \o q)
        /\ \A c : Has(o \o q, c) <=> Has(o, c) \/ Has(q, c)
    BY <1>1, <1>5, <1>6, ConcatKeepsOrder
  <1> QED
    BY <1>2, <1>3, <1>7

LEMMA RemainingKeepsOrder ==
    ASSUME NEW o \in Seq(CommandSet), InOrder(o), NEW X
    PROVE  /\ Remaining(o, X) \in Seq(CommandSet) /\ InOrder(Remaining(o, X))
           /\ \A c : Has(Remaining(o, X), c) <=> Has(o, c) /\ c \notin X
  <1>0. PICK r : r = Remaining(o, X)
    OBVIOUS
  <1>1. /\ r \in Seq(CommandSet) /\ Len(r) \in Nat
        /\ \E f \in [1..Len(r) -> 1..Len(o)] :
             /\ \A i \in 1..Len(r) : r[i] = o[f[i]] /\ o[f[i]] \notin X
             /\ \A i, j \in 1..Len(r) : i < j => f[i] < f[j]
             /\ \A k \in 1..Len(o) : o[k] \notin X => \E i \in 1..Len(r) : f[i] = k
    BY <1>0, RemainingHolds
  <1>2. PICK f \in [1..Len(r) -> 1..Len(o)] :
             /\ \A i \in 1..Len(r) : r[i] = o[f[i]] /\ o[f[i]] \notin X
             /\ \A i, j \in 1..Len(r) : i < j => f[i] < f[j]
             /\ \A k \in 1..Len(o) : o[k] \notin X => \E i \in 1..Len(r) : f[i] = k
    BY <1>1
  <1>3. Len(o) \in Nat /\ Len(r) \in Nat
    BY <1>1, LenProperties
  <1>4. \A i, j \in 1..Len(r) : f[i] <= f[j] => i <= j
    <2> SUFFICES ASSUME NEW i \in 1..Len(r), NEW j \in 1..Len(r), f[i] <= f[j], ~(i <= j)
                 PROVE  FALSE
      OBVIOUS
    <2>1. j < i /\ f[i] \in 1..Len(o) /\ f[j] \in 1..Len(o)
      BY <1>3
    <2>2. f[j] < f[i]
      BY <1>2, <2>1
    <2> QED
      BY <1>3, <2>1, <2>2
  <1>5. \A c : Has(r, c) => Has(o, c) /\ c \notin X
    BY <1>2 DEF Has
  <1>6. ASSUME NEW c, Has(o, c), c \notin X PROVE Has(r, c)
    <2>1. PICK k \in 1..Len(o) : o[k] = c
      BY <1>6 DEF Has
    <2>2. PICK i \in 1..Len(r) : f[i] = k
      BY <1>2, <1>6, <2>1
    <2> QED
      BY <1>2, <2>1, <2>2 DEF Has
  <1>7. ASSUME NEW i \in 1..Len(r), NEW j \in 1..Len(r), r[i].msg # None, r[i].msg = r[j].msg
        PROVE  i = j
    <2>1. f[i] \in 1..Len(o) /\ f[j] \in 1..Len(o) /\ r[i] = o[f[i]] /\ r[j] = o[f[j]]
      BY <1>2
    <2>2. f[i] = f[j]
      BY <1>7, <2>1 DEF InOrder
    <2>3. i <= j /\ j <= i
      BY <1>3, <1>4, <2>1, <2>2
    <2> QED
      BY <1>1, <2>3
  <1>8. ASSUME NEW i \in 1..Len(r), NEW j \in 1..Len(r), r[i].kind = "turn", r[j].turn = r[i].turn
        PROVE  i <= j
    <2>1. f[i] \in 1..Len(o) /\ f[j] \in 1..Len(o) /\ r[i] = o[f[i]] /\ r[j] = o[f[j]]
      BY <1>2
    <2>2. f[i] <= f[j]
      BY <1>8, <2>1 DEF InOrder
    <2> QED
      BY <1>4, <2>2
  <1>9. InOrder(r)
    BY <1>7, <1>8 DEF InOrder
  <1> QED
    BY <1>0, <1>1, <1>5, <1>6, <1>9

------------------------------------------------------------------------------
(* What the gateway does to its rows keeps them sane: no turn that was one is  *)
(* forgotten, and none of theirs is queued or cancelled.                       *)

Safe(g, h) ==
  /\ Sane(h) /\ h.home = g.home /\ h.selected = g.selected /\ h.sessions = g.sessions
  /\ h.acked = g.acked
  /\ \A t \in Turns : IsTurn(g, t) => IsTurn(h, t) /\ (Queued(h, t) <=> Queued(g, t))

LEMMA QueuedIsHas ==
    ASSUME NEW g, g \in Gateways, NEW t
    PROVE  Queued(g, t) <=> Has(g.outbox, Command("turn", t, t))
  <1>1. g.outbox \in Seq(CommandSet)
    BY DEF Gateways
  <1>2. DOMAIN g.outbox = 1..Len(g.outbox)
    BY <1>1, LenProperties
  <1> QED
    BY <1>2 DEF Queued, Has

LEMMA SafeTransitive ==
    ASSUME NEW g, NEW h, NEW k, Safe(g, h), Safe(h, k)
    PROVE  Safe(g, k)
  BY DEF Safe

LEMMA SafeReflexive ==
    ASSUME NEW g, Sane(g)
    PROVE  Safe(g, g)
  BY DEF Safe

\* Rows of steers may be settled at any time.
LEMMA SettledSafe ==
    ASSUME NEW g, Sane(g), NEW ms
    PROVE  Safe(g, Settled(g, ms))
  <1>1. PICK h : h = Settled(g, ms)
    OBVIOUS
  <1>2. g \in Gateways
    BY DEF Sane
  <1>3. /\ h \in Gateways /\ h.home = g.home /\ h.selected = g.selected /\ h.sessions = g.sessions
        /\ h.acked = g.acked /\ h.active = g.active /\ h.outbox = g.outbox /\ h.terminal = g.terminal
        /\ h.steers = g.steers /\ h.promoted = g.promoted /\ h.noted = g.noted
    BY <1>1, <1>2 DEF Settled, Gateways
  <1>4. \A m \in Messages : h.pending[m] # None => h.pending[m] = g.pending[m]
    BY <1>1, <1>2 DEF Settled, Gateways
  <1>5. \A t : (IsTurn(h, t) <=> IsTurn(g, t)) /\ (Queued(h, t) <=> Queued(g, t)) /\ (Carried(h, t) <=> Carried(g, t))
    BY <1>3 DEF IsTurn, Queued, Carried
  <1>6. TurnsOK(g) /\ SteersOK(g) /\ OutboxOK(g)
    BY DEF Sane
  <1>7. TurnsOK(h)
    BY <1>3, <1>5, <1>6 DEF TurnsOK
  <1>8. SteersOK(h)
    BY <1>3, <1>4, <1>5, <1>6 DEF SteersOK
  <1>9. OutboxOK(h)
    BY <1>3, <1>5, <1>6 DEF OutboxOK, CommandOK
  <1> QED
    BY <1>1, <1>3, <1>5, <1>7, <1>8, <1>9 DEF Safe, Sane

LEMMA RepliedSafe ==
    ASSUME NEW g, Sane(g), NEW e \in EventSet
    PROVE  Safe(g, Replied(g, e))
  <1>1. PICK h : h = Replied(g, e)
    OBVIOUS
  <1>2. g \in Gateways /\ e.msgs \subseteq Messages
    BY DEF Sane, EventSet
  <1>3. /\ h \in Gateways /\ h.home = g.home /\ h.selected = g.selected /\ h.sessions = g.sessions
        /\ h.acked = g.acked /\ h.active = g.active /\ h.outbox = g.outbox /\ h.terminal = g.terminal
        /\ h.steers = g.steers /\ h.promoted = g.promoted /\ h.noted = g.noted /\ h.pending = g.pending
    BY <1>1, <1>2 DEF Replied, Gateways
  <1>4. \A t : (IsTurn(h, t) <=> IsTurn(g, t)) /\ (Queued(h, t) <=> Queued(g, t)) /\ (Carried(h, t) <=> Carried(g, t))
    BY <1>3 DEF IsTurn, Queued, Carried
  <1>5. TurnsOK(g) /\ SteersOK(g) /\ OutboxOK(g)
    BY DEF Sane
  <1>6. TurnsOK(h)
    BY <1>3, <1>4, <1>5 DEF TurnsOK
  <1>7. SteersOK(h)
    BY <1>3, <1>4, <1>5 DEF SteersOK
  <1>8. OutboxOK(h)
    BY <1>3, <1>4, <1>5 DEF OutboxOK, CommandOK
  <1> QED
    BY <1>1, <1>3, <1>4, <1>6, <1>7, <1>8 DEF Safe, Sane

Ends == {"completed", "failed", "interrupted", "timed_out"}

\* The end of a turn is recorded where it is the active one; "failed" is not for
\* a turn that is still queued.
LEMMA FinishedSafe ==
    ASSUME NEW g, Sane(g), NEW t, IsTurn(g, t), NEW status \in Ends,
           status = "failed" => ~Queued(g, t)
    PROVE  /\ Safe(g, Finished(g, t, status))
           /\ \A u \in Turns : Finished(g, t, status).terminal[u] \in {g.terminal[u], status}
  <1>1. PICK h : h = Finished(g, t, status)
    OBVIOUS
  <1>2. g \in Gateways /\ t \in Turns /\ t \in Messages /\ g.home[t] \in Sessions
    BY DEF Sane, IsTurn, Gateways, Turns
  <1>3. CASE g.active[g.home[t]] # t
    BY <1>1, <1>3, SafeReflexive DEF Finished
  <1>4. CASE g.active[g.home[t]] = t
    <2>1. h = [g EXCEPT !.active[g.home[t]] = None, !.terminal[t] = status]
      BY <1>1, <1>4 DEF Finished
    <2>2. /\ h \in Gateways /\ h.home = g.home /\ h.selected = g.selected /\ h.sessions = g.sessions
          /\ h.acked = g.acked /\ h.outbox = g.outbox /\ h.pending = g.pending
          /\ h.steers = g.steers /\ h.promoted = g.promoted /\ h.noted = g.noted
      BY <1>2, <2>1 DEF Gateways, Ends
    <2>3. /\ \A s \in Sessions : h.active[s] = IF s = g.home[t] THEN None ELSE g.active[s]
          /\ \A u \in Turns : h.terminal[u] = IF u = t THEN status ELSE g.terminal[u]
      BY <1>2, <2>1 DEF Gateways
    <2>4. \A u : (IsTurn(h, u) <=> IsTurn(g, u)) /\ (Queued(h, u) <=> Queued(g, u)) /\ (Carried(h, u) <=> Carried(g, u))
      BY <2>2 DEF IsTurn, Queued, Carried
    <2>5. TurnsOK(g) /\ SteersOK(g) /\ OutboxOK(g)
      BY DEF Sane
    <2>6. TurnsOK(h)
      <3>1. \A s \in Sessions : h.active[s] # None =>
              IsTurn(h, h.active[s]) /\ h.home[h.active[s]] = s /\ h.terminal[h.active[s]] = "none"
        <4> SUFFICES ASSUME NEW s \in Sessions, h.active[s] # None
                     PROVE  IsTurn(h, h.active[s]) /\ h.home[h.active[s]] = s /\ h.terminal[h.active[s]] = "none"
          OBVIOUS
        <4>1. s # g.home[t] /\ h.active[s] = g.active[s]
          BY <2>3
        <4>2. IsTurn(g, g.active[s]) /\ g.home[g.active[s]] = s /\ g.terminal[g.active[s]] = "none"
          BY <2>5, <4>1 DEF TurnsOK
        <4>3. g.active[s] # t /\ g.active[s] \in Turns
          BY <4>1, <4>2 DEF IsTurn
        <4> QED
          BY <2>2, <2>3, <2>4, <4>1, <4>2, <4>3
      <3>2. \A u \in Turns : h.terminal[u] # "none" => IsTurn(h, u)
        BY <2>3, <2>4, <2>5 DEF TurnsOK
      <3>3. \A u \in Turns : Carried(h, u) =>
              IsTurn(h, u) /\ (h.terminal[u] = "none" => h.active[h.home[u]] = u)
        <4> SUFFICES ASSUME NEW u \in Turns, Carried(h, u)
                     PROVE  IsTurn(h, u) /\ (h.terminal[u] = "none" => h.active[h.home[u]] = u)
          OBVIOUS
        <4>1. IsTurn(g, u) /\ (g.terminal[u] = "none" => g.active[g.home[u]] = u)
          BY <2>4, <2>5 DEF TurnsOK
        <4>2. ASSUME h.terminal[u] = "none" PROVE h.active[h.home[u]] = u
          <5>1. u # t /\ g.terminal[u] = "none"
            BY <2>3, <4>2 DEF Ends
          <5>2. g.home[u] \in Sessions /\ g.home[u] # g.home[t]
            BY <1>2, <1>4, <4>1, <5>1 DEF IsTurn, Gateways, Turns
          <5> QED
            BY <2>2, <2>3, <4>1, <5>1, <5>2
        <4> QED
          BY <2>4, <4>1, <4>2
      <3>4. \A u \in Turns : Queued(h, u) => u \notin h.acked /\ h.terminal[u] # "failed"
        BY <2>2, <2>3, <2>4, <2>5 DEF TurnsOK
      <3> QED
        BY <3>1, <3>2, <3>3, <3>4 DEF TurnsOK
    <2>7. SteersOK(h)
      BY <2>2, <2>4, <2>5 DEF SteersOK
    <2>8. OutboxOK(h)
      BY <2>2, <2>4, <2>5 DEF OutboxOK, CommandOK
    <2> QED
      BY <1>1, <2>2, <2>3, <2>4, <2>6, <2>7, <2>8 DEF Safe, Sane
  <1> QED
    BY <1>3, <1>4

LEMMA CommandFields ==
    \A k, u, m : Command(k, u, m).kind = k /\ Command(k, u, m).turn = u /\ Command(k, u, m).msg = m
  BY DEF Command

\* The commands of a promotion: the oldest of the open steers as a turn, the
\* others as steers of that turn.
LEMMA PromotionCommands ==
    ASSUME NEW open \in SUBSET Messages, open # {}, NEW first, first = Ascending(open)[1],
           NEW cs, cs = [i \in DOMAIN Ascending(open) |->
                           IF i = 1 THEN Command("turn", first, first)
                           ELSE Command("steer", first, Ascending(open)[i])]
    PROVE  /\ first \in open /\ cs \in Seq(CommandSet) /\ InOrder(cs)
           /\ Has(cs, Command("turn", first, first))
           /\ \A d : Has(cs, d) => /\ d \in CommandSet /\ d.turn = first /\ d.msg \in open
                                   /\ \/ d = Command("turn", first, first)
                                      \/ d.kind = "steer" /\ d.msg # first
  <1> DEFINE A == Ascending(open)
             n == Cardinality(open)
  <1>1. Messages \in SUBSET Nat /\ IsFiniteSet(Messages) /\ None \notin Messages /\ Messages = Turns
    BY Constants, FS_Interval
  <1>2. open \in SUBSET Nat /\ IsFiniteSet(open)
    BY <1>1, FS_Subset
  <1>3. /\ n \in Nat /\ A \in Seq(open) /\ Len(A) = n /\ DOMAIN A = 1..n
        /\ \A i, j \in 1..Len(A) : i < j => A[i] < A[j]
    BY <1>2, AscendingLists
  <1>4. n # 0
    BY <1>2, FS_EmptySet
  <1> HIDE DEF A, n
  <1>5. 1 \in 1..n /\ \A i \in 1..n : A[i] \in open
    BY <1>3, <1>4, ElementOfSeq
  <1>6. first \in open /\ first = A[1]
    BY <1>5 DEF A
  <1>7. \A i, j \in 1..n : i < j => A[i] < A[j] /\ A[i] \in Nat /\ A[j] \in Nat
    BY <1>2, <1>3, <1>5
  <1>8. \A i, j \in 1..n : A[i] = A[j] => i = j
    <2> SUFFICES ASSUME NEW i \in 1..n, NEW j \in 1..n, A[i] = A[j], i # j PROVE FALSE
      OBVIOUS
    <2>1. i < j \/ j < i
      BY <1>3
    <2> QED
      BY <1>7, <2>1
  <1>9. cs = [i \in 1..n |-> IF i = 1 THEN Command("turn", first, first) ELSE Command("steer", first, A[i])]
    BY <1>3 DEF A
  <1>10. \A m \in open : Command("turn", first, first) \in CommandSet /\ Command("steer", first, m) \in CommandSet
    BY <1>1, <1>6 DEF Command, CommandSet
  <1>11. cs \in [1..n -> CommandSet]
    BY <1>5, <1>9, <1>10
  <1>12. cs \in Seq(CommandSet) /\ Len(cs) = n
    BY <1>3, <1>11
  <1>13. \A i \in 1..n : cs[i] = IF i = 1 THEN Command("turn", first, first) ELSE Command("steer", first, A[i])
    BY <1>9
  <1>14. \A i \in 1..n : cs[i].msg = A[i] /\ cs[i].turn = first /\ (cs[i].kind = "turn" => i = 1)
    <2> SUFFICES ASSUME NEW i \in 1..n
                 PROVE  cs[i].msg = A[i] /\ cs[i].turn = first /\ (cs[i].kind = "turn" => i = 1)
      OBVIOUS
    <2>1. CASE i = 1
      <3>1. cs[i] = Command("turn", first, first)
        BY <1>13, <2>1
      <3> QED
        BY <1>6, <2>1, <3>1, CommandFields
    <2>2. CASE i # 1
      <3>1. cs[i] = Command("steer", first, A[i])
        BY <1>13, <2>2
      <3> QED
        BY <3>1, CommandFields
    <2> QED
      BY <2>1, <2>2
  <1>15. InOrder(cs)
    <2>1. \A i \in 1..n : 1 <= i
      BY <1>3
    <2> QED
      BY <1>8, <1>12, <1>14, <2>1 DEF InOrder
  <1>16. Has(cs, Command("turn", first, first))
    BY <1>5, <1>12, <1>13 DEF Has
  <1>17. ASSUME NEW d, Has(cs, d)
         PROVE  /\ d \in CommandSet /\ d.turn = first /\ d.msg \in open
                /\ d = Command("turn", first, first) \/ (d.kind = "steer" /\ d.msg # first)
    <2>1. PICK i \in 1..n : cs[i] = d
      BY <1>12, <1>17 DEF Has
    <2>2. d.msg = A[i] /\ d.turn = first /\ d.msg \in open
      BY <1>5, <1>14, <2>1
    <2>3. d \in CommandSet
      BY <1>11, <2>1
    <2>4. CASE i = 1
      BY <1>13, <2>1, <2>2, <2>3, <2>4
    <2>5. CASE i # 1
      <3>1. d.kind = "steer"
        <4>1. d = Command("steer", first, A[i])
          BY <1>13, <2>1, <2>5
        <4> QED
          BY <4>1, CommandFields
      <3>2. d.msg # first
        BY <1>5, <1>6, <1>8, <2>2, <2>5
      <3> QED
        BY <2>2, <2>3, <3>1, <3>2
    <2> QED
      BY <2>4, <2>5
  <1> QED
    BY <1>6, <1>12, <1>15, <1>16, <1>17

\* A promotion: the first open steer becomes a turn, and no earlier command of
\* its own is left.
LEMMA PromotedSafe ==
    ASSUME NEW g, Sane(g), NEW t, IsTurn(g, t)
    PROVE  Safe(g, Promoted(g, t))
  <1> DEFINE s == g.home[t]
             open == OpenSteers(g, t)
  <1>0. PICK h : h = Promoted(g, t)
    OBVIOUS
  <1>1. /\ g \in Gateways /\ TurnsOK(g) /\ SteersOK(g) /\ OutboxOK(g)
        /\ t \in Turns /\ Turns = Messages /\ t # None /\ s \in Sessions /\ s # None
    BY Constants DEF Sane, IsTurn, Gateways
  <1>2. /\ open \in SUBSET Messages
        /\ \A m \in Messages : m \in open <=> g.pending[m] = t
    BY DEF OpenSteers
  <1>3. \A m \in open : /\ g.pending[m] # None /\ m \in g.steers /\ m \notin g.promoted /\ m \notin g.noted
                        /\ ~IsTurn(g, m) /\ g.home[m] = s /\ m \in Turns
    BY <1>1, <1>2 DEF SteersOK, IsTurn
  <1>4. CASE open = {}
    <2>1. h = g
      BY <1>0, <1>4 DEF Promoted
    <2> QED
      BY <1>0, <2>1, SafeReflexive
  <1>5. CASE open # {} /\ (g.selected # s \/ g.active[s] # None)
    <2>1. h = [Settled(g, open) EXCEPT !.noted = @ \cup open]
      BY <1>0, <1>5 DEF Promoted
    <2> HIDE DEF open
    <2>2. /\ h \in Gateways /\ h.home = g.home /\ h.selected = g.selected /\ h.sessions = g.sessions
          /\ h.acked = g.acked /\ h.active = g.active /\ h.outbox = g.outbox /\ h.terminal = g.terminal
          /\ h.steers = g.steers /\ h.promoted = g.promoted /\ h.noted = g.noted \cup open
      BY <1>1, <1>2, <2>1 DEF Settled, Gateways
    <2>3. \A m \in Messages : h.pending[m] # None => h.pending[m] = g.pending[m] /\ m \notin open
      BY <1>1, <2>1 DEF Settled, Gateways
    <2>4. \A u : (IsTurn(h, u) <=> IsTurn(g, u)) /\ (Queued(h, u) <=> Queued(g, u)) /\ (Carried(h, u) <=> Carried(g, u))
      BY <2>2 DEF IsTurn, Queued, Carried
    <2>5. TurnsOK(h)
      BY <1>1, <2>2, <2>4 DEF TurnsOK
    <2>6. SteersOK(h)
      <3>1. /\ \A m \in h.steers : h.home[m] # None
            /\ \A m \in Messages : h.pending[m] # None =>
                 /\ m \in h.steers /\ m \notin h.promoted /\ m \notin h.noted
                 /\ IsTurn(h, h.pending[m]) /\ h.home[h.pending[m]] = h.home[m]
        BY <1>1, <2>2, <2>3, <2>4 DEF SteersOK
      <3>2. h.promoted \cup h.noted \subseteq h.steers /\ h.promoted \cap h.noted = {}
        BY <1>1, <1>3, <2>2 DEF SteersOK
      <3> QED
        BY <3>1, <3>2 DEF SteersOK
    <2>7. OutboxOK(h)
      BY <1>1, <2>2, <2>4 DEF OutboxOK, CommandOK
    <2> QED
      BY <1>0, <2>2, <2>4, <2>5, <2>6, <2>7 DEF Safe, Sane
  <1>6. CASE open # {} /\ g.selected = s /\ g.active[s] = None
    <2> DEFINE cancelled == {Command("steer", u, m) : u \in Turns, m \in open}
    <2>1. PICK first : first = Ascending(open)[1]
      OBVIOUS
    <2>2. PICK cs : cs = [i \in DOMAIN Ascending(open) |->
                            IF i = 1 THEN Command("turn", first, first)
                            ELSE Command("steer", first, Ascending(open)[i])]
      OBVIOUS
    <2>3. PICK r : r = Remaining(g.outbox, cancelled)
      <3> HIDE DEF cancelled, open
      <3> QED
        OBVIOUS
    <2>4. h = [g EXCEPT !.outbox = r \o cs, !.pending = Rows(g, open, first),
                        !.active[s] = first, !.promoted = @ \cup {first}]
      BY <1>0, <1>6, <2>1, <2>2, <2>3 DEF Promoted, Undelivered
    <2> HIDE DEF open
    <2>5. /\ first \in open /\ cs \in Seq(CommandSet) /\ InOrder(cs)
          /\ Has(cs, Command("turn", first, first))
          /\ \A d : Has(cs, d) => /\ d \in CommandSet /\ d.turn = first /\ d.msg \in open
                                  /\ \/ d = Command("turn", first, first)
                                     \/ d.kind = "steer" /\ d.msg # first
      BY <1>2, <1>6, <2>1, <2>2, PromotionCommands
    <2>6. first \in Messages /\ first \in Turns /\ first # None
      BY <1>1, <1>2, <2>5, Constants
    <2>7. g.outbox \in Seq(CommandSet) /\ InOrder(g.outbox)
      BY <1>1 DEF Gateways, OutboxOK
    <2>8. \A c \in CommandSet : Has(g.outbox, c) => CommandOK(g, c)
      BY <1>1 DEF OutboxOK
    <2>9. /\ r \in Seq(CommandSet) /\ InOrder(r)
          /\ \A c : Has(r, c) <=> Has(g.outbox, c) /\ c \notin cancelled
      BY <2>3, <2>7, RemainingKeepsOrder
    <2>10. \A c : Has(g.outbox, c) => c \in CommandSet
      BY <2>7, ElementOfSeq DEF Has
    <2>11. \A c \in CommandSet : c.kind = "steer" /\ c.msg \in open => c \in cancelled
      BY DEF CommandSet, Command
    <2>12. \A c \in cancelled : c.kind = "steer"
      BY DEF Command
    <2> HIDE DEF cancelled
    <2>13. \A c : Has(r, c) => c \in CommandSet /\ CommandOK(g, c) /\ c.msg \notin open /\ c.turn # first
      <3> SUFFICES ASSUME NEW c, Has(r, c)
                   PROVE  c \in CommandSet /\ CommandOK(g, c) /\ c.msg \notin open /\ c.turn # first
        OBVIOUS
      <3>1. c \in CommandSet /\ CommandOK(g, c) /\ c \notin cancelled
        BY <2>8, <2>9, <2>10
      <3>2. c.kind \in {"turn", "steer", "interrupt"}
        BY <3>1 DEF CommandSet
      <3>3. c.turn # first
        BY <1>3, <2>5, <3>1 DEF CommandOK
      <3>4. c.msg \notin open
        BY <1>1, <1>2, <1>3, <2>11, <3>1, <3>2, Constants DEF CommandOK
      <3> QED
        BY <3>1, <3>3, <3>4
    <2>14. /\ r \o cs \in Seq(CommandSet) /\ InOrder(r \o cs)
           /\ \A c : Has(r \o cs, c) <=> Has(r, c) \/ Has(cs, c)
      <3>1. \A c, d : Has(r, c) /\ Has(cs, d) => /\ d.msg # None => c.msg # d.msg
                                                 /\ d.kind = "turn" => c.turn # d.turn
        BY <2>5, <2>13
      <3> QED
        BY <2>5, <2>9, <3>1, ConcatKeepsOrder
    <2>15. /\ h \in Gateways /\ h.home = g.home /\ h.selected = g.selected /\ h.sessions = g.sessions
           /\ h.acked = g.acked /\ h.outbox = r \o cs /\ h.terminal = g.terminal
           /\ h.steers = g.steers /\ h.noted = g.noted /\ h.promoted = g.promoted \cup {first}
      <3>1. Rows(g, open, first) \in [Messages -> {None} \cup Turns]
        BY <1>1, <2>6 DEF Rows, Gateways
      <3> QED
        BY <1>1, <2>4, <2>6, <2>14, <3>1 DEF Gateways
    <2>16. /\ \A v \in Sessions : h.active[v] = IF v = s THEN first ELSE g.active[v]
           /\ \A m \in Messages : h.pending[m] = IF m = first THEN None
                                                 ELSE IF m \in open THEN first ELSE g.pending[m]
      BY <1>1, <2>4 DEF Gateways, Rows
    <2>17. \A u : IsTurn(h, u) <=> IsTurn(g, u) \/ u = first
      BY <1>1, <1>3, <2>5, <2>15 DEF IsTurn
    <2>18. \A u : Queued(h, u) <=> Queued(g, u) \/ u = first
      <3> SUFFICES ASSUME NEW u PROVE Queued(h, u) <=> Queued(g, u) \/ u = first
        OBVIOUS
      <3> DEFINE c == Command("turn", u, u)
      <3>1. c.kind = "turn" /\ c.turn = u
        BY DEF Command
      <3>2. Queued(h, u) <=> Has(r, c) \/ Has(cs, c)
        BY <2>14, <2>15, QueuedIsHas
      <3>3. Queued(g, u) <=> Has(g.outbox, c)
        BY <1>1, QueuedIsHas
      <3> HIDE DEF c
      <3>4. Has(r, c) <=> Has(g.outbox, c)
        BY <2>9, <2>12, <3>1
      <3>5. u = first => Has(cs, c)
        BY <2>5 DEF c
      <3>6. Has(cs, c) => u = first
        BY <2>5, <3>1
      <3> QED
        BY <3>2, <3>3, <3>4, <3>5, <3>6
    <2>19. \A u : Carried(h, u) <=> Carried(g, u) \/ u = first
      BY <2>15, <2>18 DEF Carried
    <2>20. TurnsOK(h)
      <3>1. first \notin g.acked /\ g.terminal[first] = "none" /\ ~Carried(g, first)
        BY <1>1, <1>3, <2>5, <2>6 DEF TurnsOK, Carried
      <3>2. \A v \in Sessions : h.active[v] # None =>
              IsTurn(h, h.active[v]) /\ h.home[h.active[v]] = v /\ h.terminal[h.active[v]] = "none"
        <4> SUFFICES ASSUME NEW v \in Sessions, h.active[v] # None
                     PROVE  IsTurn(h, h.active[v]) /\ h.home[h.active[v]] = v /\ h.terminal[h.active[v]] = "none"
          OBVIOUS
        <4>1. CASE v = s
          BY <1>3, <2>5, <2>15, <2>16, <2>17, <3>1, <4>1
        <4>2. CASE v # s
          BY <1>1, <2>15, <2>16, <2>17, <4>2 DEF TurnsOK
        <4> QED
          BY <4>1, <4>2
      <3>3. \A u \in Turns : h.terminal[u] # "none" => IsTurn(h, u)
        BY <1>1, <2>15, <2>17 DEF TurnsOK
      <3>4. \A u \in Turns : Carried(h, u) =>
              IsTurn(h, u) /\ (h.terminal[u] = "none" => h.active[h.home[u]] = u)
        <4> SUFFICES ASSUME NEW u \in Turns, Carried(h, u)
                     PROVE  IsTurn(h, u) /\ (h.terminal[u] = "none" => h.active[h.home[u]] = u)
          OBVIOUS
        <4>1. CASE u = first
          BY <1>1, <1>3, <2>5, <2>15, <2>16, <2>17, <4>1
        <4>2. CASE u # first
          <5>1. IsTurn(g, u) /\ (g.terminal[u] = "none" => g.active[g.home[u]] = u)
            BY <1>1, <2>19, <4>2 DEF TurnsOK
          <5>2. g.home[u] \in Sessions /\ u # None
            BY <1>1, <5>1, Constants DEF IsTurn, Gateways
          <5>3. g.terminal[u] = "none" => g.home[u] # s
            BY <1>6, <5>1, <5>2
          <5> QED
            BY <2>15, <2>16, <2>17, <5>1, <5>2, <5>3
        <4> QED
          BY <4>1, <4>2
      <3>5. \A u \in Turns : Queued(h, u) => u \notin h.acked /\ h.terminal[u] # "failed"
        BY <1>1, <2>15, <2>18, <3>1 DEF TurnsOK
      <3> QED
        BY <3>2, <3>3, <3>4, <3>5 DEF TurnsOK
    <2>21. SteersOK(h)
      <3>1. /\ \A m \in h.steers : h.home[m] # None
            /\ h.promoted \cup h.noted \subseteq h.steers /\ h.promoted \cap h.noted = {}
        BY <1>1, <1>3, <2>5, <2>15 DEF SteersOK
      <3>2. ASSUME NEW m \in Messages, h.pending[m] # None
            PROVE  /\ m \in h.steers /\ m \notin h.promoted /\ m \notin h.noted
                   /\ IsTurn(h, h.pending[m]) /\ h.home[h.pending[m]] = h.home[m]
        <4>1. m # first
          BY <2>16, <3>2
        <4>2. CASE m \in open
          BY <1>3, <2>5, <2>15, <2>16, <2>17, <4>1, <4>2
        <4>3. CASE m \notin open
          BY <1>1, <2>15, <2>16, <2>17, <3>2, <4>1, <4>3 DEF SteersOK
        <4> QED
          BY <4>2, <4>3
      <3> QED
        BY <3>1, <3>2 DEF SteersOK
    <2>22. OutboxOK(h)
      <3>1. InOrder(h.outbox)
        BY <2>14, <2>15
      <3>2. ASSUME NEW c \in CommandSet, Has(h.outbox, c) PROVE CommandOK(h, c)
        <4>1. Has(r, c) \/ Has(cs, c)
          BY <2>14, <2>15, <3>2
        <4>2. CASE Has(r, c)
          BY <2>5, <2>13, <2>15, <2>17, <4>2 DEF CommandOK
        <4>3. CASE Has(cs, c)
          <5>1. c.turn = first /\ c.msg \in open
            BY <2>5, <4>3
          <5>2. c = Command("turn", first, first) \/ (c.kind = "steer" /\ c.msg # first)
            BY <2>5, <4>3
          <5>3. (c.kind = "turn" /\ c.msg = first) \/ (c.kind = "steer" /\ c.msg # first)
            BY <5>2 DEF Command
          <5> QED
            BY <1>3, <2>15, <2>17, <5>1, <5>3 DEF CommandOK
        <4> QED
          BY <4>1, <4>2, <4>3
      <3> QED
        BY <3>1, <3>2 DEF OutboxOK
    <2>23. \A u \in Turns : IsTurn(g, u) => IsTurn(h, u) /\ (Queued(h, u) <=> Queued(g, u))
      BY <1>3, <2>5, <2>17, <2>18
    <2> QED
      BY <1>0, <2>15, <2>20, <2>21, <2>22, <2>23 DEF Safe, Sane
  <1> QED
    BY <1>4, <1>5, <1>6

\* #sealOwnerLoss of one turn.
LEMMA OwnerLostSafe ==
    ASSUME NEW g, Sane(g), NEW t, IsTurn(g, t), ~Queued(g, t)
    PROVE  Safe(g, OwnerLost(g, t))
  <1> DEFINE h == Finished(g, t, "failed")
  <1>1. Safe(g, h)
    BY FinishedSafe DEF Ends
  <1> HIDE DEF h
  <1>2. Sane(h) /\ IsTurn(h, t)
    BY <1>1 DEF Safe, IsTurn
  <1>3. Safe(h, Promoted(h, t))
    BY <1>2, PromotedSafe
  <1>4. OwnerLost(g, t) = Promoted(h, t)
    BY DEF OwnerLost, h
  <1> QED
    BY <1>1, <1>3, <1>4, SafeTransitive

\* A turn the agent took is one, and its command is not queued.
LEMMA AckedIsTurn ==
    ASSUME NEW g, Sane(g), NEW t, t \in g.acked
    PROVE  t \in Turns /\ IsTurn(g, t) /\ ~Queued(g, t)
  BY DEF Sane, TurnsOK, Carried, Gateways

\* #sealOwnerLoss of all the turns a hello leaves out.
LEMMA OwnersLostSafe ==
    ASSUME NEW g, Sane(g), NEW ts, ts \subseteq g.acked
    PROVE  Safe(g, OwnersLost(g, ts))
  <1> DEFINE t == g.active[g.selected]
             others == ts \ {t}
             open == {m \in Messages : g.pending[m] \in others}
  <1>1. /\ g \in Gateways /\ TurnsOK(g) /\ SteersOK(g) /\ OutboxOK(g)
        /\ others \subseteq Turns /\ None \notin Turns /\ open \subseteq Messages
        /\ \A u \in others : IsTurn(g, u) /\ ~Queued(g, u)
    BY AckedIsTurn, Constants DEF Sane
  <1>2. \A m \in open : g.pending[m] # None /\ g.pending[m] \in others
    BY <1>1
  <1>3. \A m \in open : m \in g.steers /\ m \notin g.promoted /\ m \notin g.noted
    BY <1>1, <1>2 DEF SteersOK
  <1>4. PICK h : h = [Settled(g, open) EXCEPT
                        !.active = [s \in Sessions |-> IF @[s] \in others THEN None ELSE @[s]],
                        !.terminal = [u \in Turns |-> IF u \in others THEN "failed" ELSE @[u]],
                        !.noted = @ \cup open]
    <2> HIDE DEF open, others
    <2> QED
      OBVIOUS
  <1>5. OwnersLost(g, ts) = IF t \in ts THEN OwnerLost(h, t) ELSE h
    BY <1>4 DEF OwnersLost
  <1> HIDE DEF open, others, t
  <1>6. /\ h \in Gateways /\ h.home = g.home /\ h.selected = g.selected /\ h.sessions = g.sessions
        /\ h.acked = g.acked /\ h.outbox = g.outbox
        /\ h.steers = g.steers /\ h.promoted = g.promoted /\ h.noted = g.noted \cup open
    BY <1>1, <1>4 DEF Settled, Gateways
  <1>7. \A m \in Messages : h.pending[m] # None => h.pending[m] = g.pending[m] /\ m \notin open
    BY <1>1, <1>4 DEF Settled, Gateways
  <1>8. /\ \A s \in Sessions : h.active[s] = IF g.active[s] \in others THEN None ELSE g.active[s]
        /\ \A u \in Turns : h.terminal[u] = IF u \in others THEN "failed" ELSE g.terminal[u]
    BY <1>1, <1>4 DEF Settled, Gateways
  <1>9. \A u : (IsTurn(h, u) <=> IsTurn(g, u)) /\ (Queued(h, u) <=> Queued(g, u)) /\ (Carried(h, u) <=> Carried(g, u))
    BY <1>6 DEF IsTurn, Queued, Carried
  <1>10. TurnsOK(h)
    <2>1. \A s \in Sessions : h.active[s] # None =>
            IsTurn(h, h.active[s]) /\ h.home[h.active[s]] = s /\ h.terminal[h.active[s]] = "none"
      <3> SUFFICES ASSUME NEW s \in Sessions, h.active[s] # None
                   PROVE  IsTurn(h, h.active[s]) /\ h.home[h.active[s]] = s /\ h.terminal[h.active[s]] = "none"
        OBVIOUS
      <3>1. g.active[s] \notin others /\ h.active[s] = g.active[s] /\ g.active[s] # None
        BY <1>8
      <3>2. IsTurn(g, g.active[s]) /\ g.home[g.active[s]] = s /\ g.terminal[g.active[s]] = "none"
        BY <1>1, <3>1 DEF TurnsOK
      <3>3. g.active[s] \in Turns
        BY <3>2 DEF IsTurn
      <3> QED
        BY <1>6, <1>8, <1>9, <3>1, <3>2, <3>3
    <2>2. \A u \in Turns : h.terminal[u] # "none" => IsTurn(h, u)
      BY <1>1, <1>8, <1>9 DEF TurnsOK
    <2>3. \A u \in Turns : Carried(h, u) =>
            IsTurn(h, u) /\ (h.terminal[u] = "none" => h.active[h.home[u]] = u)
      <3> SUFFICES ASSUME NEW u \in Turns, Carried(h, u)
                   PROVE  IsTurn(h, u) /\ (h.terminal[u] = "none" => h.active[h.home[u]] = u)
        OBVIOUS
      <3>1. IsTurn(g, u) /\ (g.terminal[u] = "none" => g.active[g.home[u]] = u)
        BY <1>1, <1>9 DEF TurnsOK
      <3>2. g.home[u] \in Sessions
        BY <1>1, <3>1, Constants DEF IsTurn, Gateways
      <3>3. h.terminal[u] = "none" => u \notin others /\ g.terminal[u] = "none"
        BY <1>8
      <3> QED
        BY <1>6, <1>8, <1>9, <3>1, <3>2, <3>3
    <2>4. \A u \in Turns : Queued(h, u) => u \notin h.acked /\ h.terminal[u] # "failed"
      BY <1>1, <1>6, <1>8, <1>9 DEF TurnsOK
    <2> QED
      BY <2>1, <2>2, <2>3, <2>4 DEF TurnsOK
  <1>11. SteersOK(h)
    <2>1. /\ \A m \in h.steers : h.home[m] # None
          /\ \A m \in Messages : h.pending[m] # None =>
               /\ m \in h.steers /\ m \notin h.promoted /\ m \notin h.noted
               /\ IsTurn(h, h.pending[m]) /\ h.home[h.pending[m]] = h.home[m]
      BY <1>1, <1>6, <1>7, <1>9 DEF SteersOK
    <2>2. h.promoted \cup h.noted \subseteq h.steers /\ h.promoted \cap h.noted = {}
      BY <1>1, <1>3, <1>6 DEF SteersOK
    <2> QED
      BY <2>1, <2>2 DEF SteersOK
  <1>12. OutboxOK(h)
    BY <1>1, <1>6, <1>9 DEF OutboxOK, CommandOK
  <1>13. Safe(g, h)
    BY <1>6, <1>9, <1>10, <1>11, <1>12 DEF Safe, Sane
  <1>14. CASE t \notin ts
    BY <1>5, <1>13, <1>14
  <1>15. CASE t \in ts
    <2>1. t \in h.acked /\ Sane(h)
      BY <1>6, <1>13, <1>15 DEF Safe
    <2>2. IsTurn(h, t) /\ ~Queued(h, t)
      BY <2>1, AckedIsTurn
    <2>3. Safe(h, OwnerLost(h, t))
      BY <2>1, <2>2, OwnerLostSafe
    <2> QED
      BY <1>5, <1>13, <1>15, <2>3, SafeTransitive
  <1> QED
    BY <1>14, <1>15

\* handle(): an event of a turn that is not queued.
LEMMA HandledSafe ==
    ASSUME NEW g, Sane(g), NEW e \in EventSet, EventOK(g, e)
    PROVE  Safe(g, Handled(g, e))
  <1> DEFINE h == Heard(g, e)
             all == {m \in Messages : g.home[m] = e.session}
             t == e.turn
             reply == e.kind \in {"commit", "interim", "orphan"}
  <1>1. Safe(g, h)
    BY SettledSafe, SafeReflexive DEF Heard
  <1>2. Safe(g, g) /\ Safe(g, Replied(g, e))
    BY SafeReflexive, RepliedSafe
  <1>3. Sane(Replied(g, e))
    BY <1>2 DEF Safe
  <1> HIDE DEF h
  <1>4. CASE t # None /\ g.terminal[t] # "none"
    <2>1. Handled(g, e) = IF reply /\ t \in g.acked THEN Replied(g, e) ELSE g
      BY <1>4 DEF Handled
    <2> QED
      BY <1>2, <2>1
  <1>5. CASE ~(t # None /\ g.terminal[t] # "none") /\ (t = None \/ ~Carried(g, t))
    <2> HIDE DEF all
    <2>1. Handled(g, e) = IF reply THEN Settled(Replied(g, e), all) ELSE g
      BY <1>5 DEF Handled, all
    <2>2. Safe(Replied(g, e), Settled(Replied(g, e), all))
      BY <1>3, SettledSafe
    <2> QED
      BY <1>2, <2>1, <2>2, SafeTransitive
  <1>6. CASE ~(t # None /\ g.terminal[t] # "none") /\ ~(t = None \/ ~Carried(g, t))
    <2>1. Handled(g, e) =
            CASE e.kind = "draft" -> h
              [] e.kind = "interim" -> Replied(h, e)
              [] e.kind = "commit" -> Finished(Replied(h, e), t, "completed")
              [] e.kind = "unknown_turn" -> OwnerLost(h, t)
              [] e.kind = "failed" -> Finished(h, t, "failed")
              [] OTHER -> Finished(h, t, "interrupted")
      BY <1>6 DEF Handled, h
    <2>2. IsTurn(g, t) /\ ~Queued(g, t)
      BY <1>6 DEF EventOK
    <2>3. Sane(h) /\ IsTurn(h, t) /\ ~Queued(h, t)
      BY <1>1, <2>2 DEF Safe, IsTurn
    <2>4. Safe(h, Replied(h, e))
      BY <2>3, RepliedSafe
    <2>5. Sane(Replied(h, e)) /\ IsTurn(Replied(h, e), t)
      BY <2>3, <2>4 DEF Safe, IsTurn
    <2>6. Safe(Replied(h, e), Finished(Replied(h, e), t, "completed"))
      BY <2>5, FinishedSafe DEF Ends
    <2>7. Safe(h, Finished(h, t, "failed")) /\ Safe(h, Finished(h, t, "interrupted"))
      BY <2>3, FinishedSafe DEF Ends
    <2>8. Safe(h, OwnerLost(h, t))
      BY <2>3, OwnerLostSafe
    <2>9. Safe(h, h) /\ Safe(h, Finished(Replied(h, e), t, "completed"))
      BY <2>3, <2>4, <2>6, SafeReflexive, SafeTransitive
    <2>10. Safe(h, Handled(g, e))
      BY <2>1, <2>4, <2>7, <2>8, <2>9
    <2> QED
      BY <1>1, <2>10, SafeTransitive
  <1> QED
    BY <1>4, <1>5, <1>6

\* No turn is forgotten, and no command of a turn that was one is queued anew.
Grows(g, h) ==
  /\ g.acked \subseteq h.acked
  /\ \A t \in Turns : IsTurn(g, t) => IsTurn(h, t) /\ (Queued(h, t) => Queued(g, t))

\* Other rows than the ones of the commands.
SameRows(g, h) ==
  /\ h.home = g.home /\ h.selected = g.selected /\ h.sessions = g.sessions
  /\ h.acked = g.acked /\ h.active = g.active /\ h.terminal = g.terminal
  /\ h.steers = g.steers /\ h.noted = g.noted /\ h.promoted = g.promoted /\ h.pending = g.pending

\* Commands are taken or cancelled, or one is added that opens no turn.
LEMMA OutboxSane ==
    ASSUME NEW g, Sane(g), NEW o \in Seq(CommandSet), InOrder(o),
           \A c \in CommandSet : Has(o, c) => Has(g.outbox, c) \/ (c.kind # "turn" /\ CommandOK(g, c)),
           NEW h, h = [g EXCEPT !.outbox = o]
    PROVE  Sane(h) /\ Grows(g, h) /\ SameRows(g, h) /\ h.outbox = o
  <1>1. g \in Gateways /\ TurnsOK(g) /\ SteersOK(g) /\ OutboxOK(g)
    BY DEF Sane
  <1>2. h \in Gateways /\ SameRows(g, h) /\ h.outbox = o
    BY <1>1 DEF Gateways, SameRows
  <1>3. \A u : IsTurn(h, u) <=> IsTurn(g, u)
    BY <1>2 DEF IsTurn, SameRows
  <1>4. \A u \in Turns : Queued(h, u) => Queued(g, u)
    <2> SUFFICES ASSUME NEW u \in Turns, Queued(h, u) PROVE Queued(g, u)
      OBVIOUS
    <2> DEFINE c == Command("turn", u, u)
    <2>1. c \in CommandSet /\ c.kind = "turn"
      BY DEF Command, CommandSet, Turns
    <2>2. Has(o, c)
      BY <1>2, QueuedIsHas
    <2>3. Queued(g, u) <=> Has(g.outbox, c)
      BY <1>1, QueuedIsHas
    <2> HIDE DEF c
    <2> QED
      BY <2>1, <2>2, <2>3
  <1>5. \A u \in Turns : Carried(h, u) => Carried(g, u)
    BY <1>2, <1>4 DEF Carried, SameRows
  <1>6. TurnsOK(h)
    BY <1>1, <1>2, <1>3, <1>4, <1>5 DEF TurnsOK, SameRows
  <1>7. SteersOK(h)
    BY <1>1, <1>2, <1>3 DEF SteersOK, SameRows
  <1>8. \A c : CommandOK(g, c) => CommandOK(h, c)
    BY <1>2, <1>3 DEF CommandOK, SameRows
  <1>9. OutboxOK(h)
    BY <1>1, <1>2, <1>8 DEF OutboxOK
  <1>10. Grows(g, h)
    BY <1>2, <1>3, <1>4 DEF Grows, SameRows
  <1> QED
    BY <1>2, <1>6, <1>7, <1>9, <1>10 DEF Sane

\* What is taken from, or cancelled in, the queue.
LEMMA TakenSane ==
    ASSUME NEW g, Sane(g), g.outbox # <<>>
    PROVE  /\ Sane(Taken(g)) /\ Grows(g, Taken(g)) /\ SameRows(g, Taken(g))
           /\ Taken(g).outbox = Tail(g.outbox)
           /\ Head(g.outbox) \in CommandSet /\ CommandOK(g, Head(g.outbox))
           /\ \A t \in Turns : /\ Queued(g, t) => Queued(Taken(g), t) \/ Head(g.outbox) = Command("turn", t, t)
                               /\ Queued(Taken(g), t) => Head(g.outbox).turn # t
  <1>1. PICK h : h = Taken(g)
    OBVIOUS
  <1>2. /\ g \in Gateways /\ g.outbox \in Seq(CommandSet) /\ InOrder(g.outbox)
        /\ \A c \in CommandSet : Has(g.outbox, c) => CommandOK(g, c)
    BY DEF Sane, OutboxOK, Gateways
  <1> DEFINE o == g.outbox
  <1>3. /\ Tail(o) \in Seq(CommandSet) /\ InOrder(Tail(o))
        /\ Head(o) \in CommandSet /\ Has(o, Head(o))
        /\ \A c : Has(Tail(o), c) => Has(o, c)
        /\ \A c : Has(o, c) => c = Head(o) \/ Has(Tail(o), c)
        /\ \A c : Has(Tail(o), c) => /\ c.msg # None => c.msg # Head(o).msg
                                     /\ c.kind = "turn" => c.turn # Head(o).turn
    BY <1>2, TailKeepsOrder
  <1>4. h = [g EXCEPT !.outbox = Tail(o)]
    BY <1>1, <1>2 DEF Taken, Gateways
  <1>5. Sane(h) /\ Grows(g, h) /\ SameRows(g, h) /\ h.outbox = Tail(o)
    BY <1>3, <1>4, OutboxSane
  <1>6. CommandOK(g, Head(o))
    BY <1>2, <1>3
  <1>7. ASSUME NEW t \in Turns
        PROVE  /\ Queued(g, t) => Queued(h, t) \/ Head(g.outbox) = Command("turn", t, t)
               /\ Queued(h, t) => Head(g.outbox).turn # t
    <2>1. Queued(g, t) <=> Has(o, Command("turn", t, t))
      BY <1>2, QueuedIsHas
    <2>2. Queued(h, t) <=> Has(Tail(o), Command("turn", t, t))
      BY <1>5, QueuedIsHas DEF Sane
    <2>3. Has(Tail(o), Command("turn", t, t)) => t # Head(o).turn
      BY <1>3, CommandFields
    <2> QED
      BY <1>3, <2>1, <2>2, <2>3
  <1> QED
    BY <1>1, <1>3, <1>5, <1>6, <1>7

LEMMA InterruptedSafe ==
    ASSUME NEW g, Sane(g), NEW t, IsTurn(g, t)
    PROVE  Safe(g, Interrupted(g, t)) /\ SameRows(g, Interrupted(g, t))
  <1>1. PICK h : h = Interrupted(g, t)
    OBVIOUS
  <1> DEFINE d == Command("interrupt", t, None)
             o == g.outbox
  <1>2. g \in Gateways /\ o \in Seq(CommandSet) /\ InOrder(o) /\ t \in Turns
    BY DEF Sane, OutboxOK, Gateways, IsTurn
  <1>3. d \in CommandSet /\ d.kind = "interrupt" /\ d.msg = None /\ d.turn = t
    BY <1>2 DEF Command, CommandSet
  <1>4. h = [g EXCEPT !.outbox = Append(o, d)]
    BY <1>1, <1>2 DEF Interrupted, Gateways
  <1> HIDE DEF d
  <1>5. CommandOK(g, d)
    BY <1>3 DEF CommandOK
  <1>6. /\ Append(o, d) \in Seq(CommandSet) /\ InOrder(Append(o, d))
        /\ \A c : Has(Append(o, d), c) <=> Has(o, c) \/ c = d
    BY <1>2, <1>3, AppendKeepsOrder
  <1>7. Sane(h) /\ Grows(g, h) /\ SameRows(g, h) /\ h.outbox = Append(o, d)
    <2>1. PICK p : p = Append(o, d)
      OBVIOUS
    <2>2. p \in Seq(CommandSet) /\ InOrder(p) /\ h = [g EXCEPT !.outbox = p]
      BY <1>4, <1>6, <2>1
    <2>3. \A c \in CommandSet : Has(p, c) => Has(o, c) \/ (c.kind # "turn" /\ CommandOK(g, c))
      BY <1>3, <1>5, <1>6, <2>1
    <2>4. Sane(h) /\ Grows(g, h) /\ SameRows(g, h) /\ h.outbox = p
      BY <2>2, <2>3, OutboxSane
    <2> QED
      BY <2>1, <2>4
  <1>8. \A u : Queued(g, u) => Queued(h, u)
    BY <1>2, <1>6, <1>7, QueuedIsHas DEF Sane
  <1> QED
    BY <1>1, <1>7, <1>8 DEF Safe, Grows, SameRows

\* #timeoutTurn: a queued turn is cancelled, a turn the agent took is interrupted.
LEMMA TimedOutSane ==
    ASSUME NEW g, Sane(g), NEW t, IsTurn(g, t), NEW h, h = TimedOut(g, t)
    PROVE  /\ Sane(h) /\ Grows(g, h) /\ h.home = g.home
           /\ h.selected = g.selected /\ h.sessions = g.sessions
           /\ \A u \in Turns : h.terminal[u] \in {g.terminal[u], "timed_out"}
  <1>1. g \in Gateways /\ t \in Turns /\ g.outbox \in Seq(CommandSet) /\ InOrder(g.outbox)
    BY DEF Sane, OutboxOK, Gateways, IsTurn
  <1>2. CASE ~Carried(g, t)
    <2>1. h = g
      BY <1>2 DEF TimedOut
    <2> QED
      BY <2>1 DEF Grows
  <1>3. CASE Carried(g, t) /\ t \in g.acked
    <2> DEFINE k == Interrupted(g, t)
    <2>1. Safe(g, k) /\ SameRows(g, k)
      BY InterruptedSafe
    <2>2. h = Finished(k, t, "timed_out")
      BY <1>3 DEF TimedOut
    <2> HIDE DEF k
    <2>3. Sane(k) /\ IsTurn(k, t) /\ k.terminal = g.terminal
      BY <2>1 DEF Safe, SameRows, IsTurn
    <2>4. Safe(k, h) /\ \A u \in Turns : h.terminal[u] \in {k.terminal[u], "timed_out"}
      BY <2>2, <2>3, FinishedSafe DEF Ends
    <2>5. Safe(g, h)
      BY <2>1, <2>4, SafeTransitive
    <2> QED
      BY <2>3, <2>4, <2>5 DEF Safe, Grows
  <1>4. CASE Carried(g, t) /\ t \notin g.acked
    <2> DEFINE o == Remaining(g.outbox, {Command("turn", t, t)})
    <2>1. PICK k : k = [g EXCEPT !.outbox = o]
      <3> HIDE DEF o
      <3> QED
        OBVIOUS
    <2>2. h = Finished(k, t, "timed_out")
      BY <1>1, <1>4, <2>1 DEF TimedOut, Gateways
    <2>3. o \in Seq(CommandSet) /\ InOrder(o) /\ \A c : Has(o, c) => Has(g.outbox, c)
      BY <1>1, RemainingKeepsOrder
    <2> HIDE DEF o
    <2>4. Sane(k) /\ Grows(g, k) /\ SameRows(g, k)
      BY <2>1, <2>3, OutboxSane
    <2>5. IsTurn(k, t) /\ k.terminal = g.terminal
      BY <2>4 DEF SameRows, IsTurn
    <2>6. Safe(k, h) /\ \A u \in Turns : h.terminal[u] \in {k.terminal[u], "timed_out"}
      BY <2>2, <2>4, <2>5, FinishedSafe DEF Ends
    <2> QED
      BY <2>4, <2>5, <2>6 DEF Safe, Grows, SameRows
  <1> QED
    BY <1>2, <1>3, <1>4

\* A message nobody knows yet.
LEMMA FreshIsUnknown ==
    ASSUME NEW g, Sane(g), NEW m \in Messages, g.home[m] = None
    PROVE  /\ ~IsTurn(g, m) /\ m \notin g.steers /\ m \notin g.promoted /\ m \notin g.noted
           /\ g.pending[m] = None /\ m \notin g.acked /\ g.terminal[m] = "none" /\ ~Queued(g, m)
           /\ \A c : Has(g.outbox, c) => c \in CommandSet /\ CommandOK(g, c) /\ c.msg # m /\ c.turn # m
  <1>1. /\ g \in Gateways /\ TurnsOK(g) /\ SteersOK(g) /\ OutboxOK(g)
        /\ m \in Turns /\ m # None /\ g.outbox \in Seq(CommandSet)
    BY Constants DEF Sane, Gateways
  <1>2. ~IsTurn(g, m)
    BY DEF IsTurn
  <1>3. m \notin g.steers /\ m \notin g.promoted /\ m \notin g.noted /\ g.pending[m] = None
    BY <1>1 DEF SteersOK
  <1>4. m \notin g.acked /\ g.terminal[m] = "none" /\ ~Queued(g, m)
    BY <1>1, <1>2 DEF TurnsOK, Carried
  <1>5. ASSUME NEW c, Has(g.outbox, c)
        PROVE  c \in CommandSet /\ CommandOK(g, c) /\ c.msg # m /\ c.turn # m
    <2>1. c \in CommandSet /\ CommandOK(g, c)
      BY <1>1, <1>5, ElementOfSeq DEF Has, OutboxOK
    <2>2. c.kind \in {"turn", "steer", "interrupt"}
      BY <2>1 DEF CommandSet
    <2> QED
      BY <1>1, <1>2, <1>3, <2>1, <2>2 DEF CommandOK
  <1> QED
    BY <1>2, <1>3, <1>4, <1>5

Opened(g, m, s) == [g EXCEPT !.home[m] = s, !.active[s] = m,
                             !.outbox = Append(@, Command("turn", m, m))]
Steered(g, m, s, t) == [g EXCEPT !.home[m] = s, !.pending[m] = t, !.steers = @ \cup {m},
                                 !.outbox = Append(@, Command("steer", t, m))]

\* A message opens its turn.
LEMMA OpenTurnSane ==
    ASSUME NEW g, Sane(g), NEW m \in Messages, g.home[m] = None,
           NEW s \in Sessions, g.active[s] = None,
           NEW h, h = Opened(g, m, s)
    PROVE  /\ Sane(h) /\ Grows(g, h)
           /\ \A n \in Messages : n # m => h.home[n] = g.home[n]
           /\ h.selected = g.selected /\ h.sessions = g.sessions
           /\ h.acked = g.acked /\ h.terminal = g.terminal
  <1> DEFINE d == Command("turn", m, m)
             o == g.outbox
  <1>1. /\ g \in Gateways /\ TurnsOK(g) /\ SteersOK(g) /\ OutboxOK(g)
        /\ Turns = Messages /\ m # None /\ s # None /\ o \in Seq(CommandSet) /\ InOrder(o)
    BY Constants DEF Sane, Gateways, OutboxOK
  <1>2. /\ ~IsTurn(g, m) /\ m \notin g.steers /\ m \notin g.promoted /\ m \notin g.noted
        /\ g.pending[m] = None /\ m \notin g.acked /\ g.terminal[m] = "none" /\ ~Queued(g, m)
        /\ \A c : Has(o, c) => c \in CommandSet /\ CommandOK(g, c) /\ c.msg # m /\ c.turn # m
    BY FreshIsUnknown
  <1>3. d \in CommandSet /\ d.kind = "turn" /\ d.msg = m /\ d.turn = m
    BY <1>1 DEF Command, CommandSet
  <1> HIDE DEF d
  <1>4. PICK p : p = Append(o, d)
    OBVIOUS
  <1>5. p \in Seq(CommandSet) /\ InOrder(p) /\ \A c : Has(p, c) <=> Has(o, c) \/ c = d
    BY <1>1, <1>2, <1>3, <1>4, AppendKeepsOrder
  <1>6. h = [g EXCEPT !.home[m] = s, !.active[s] = m, !.outbox = p]
    BY <1>1, <1>4 DEF d, Gateways, Opened
  <1>7. /\ h \in Gateways /\ h.selected = g.selected /\ h.sessions = g.sessions
        /\ h.acked = g.acked /\ h.terminal = g.terminal /\ h.outbox = p
        /\ h.steers = g.steers /\ h.noted = g.noted /\ h.promoted = g.promoted /\ h.pending = g.pending
    <2>1. g \in Gateways /\ m \in Turns /\ p \in Seq(CommandSet)
      BY <1>1, <1>5
    <2>2. PICK ho : ho = [g.home EXCEPT ![m] = s]
      OBVIOUS
    <2>3. PICK ac : ac = [g.active EXCEPT ![s] = m]
      OBVIOUS
    <2>4. ho \in [Messages -> {None} \cup Sessions] /\ ac \in [Sessions -> {None} \cup Turns]
      BY <2>1, <2>2, <2>3 DEF Gateways
    <2>5. h = [g EXCEPT !.home = ho, !.active = ac, !.outbox = p]
      BY <1>6, <2>1, <2>2, <2>3 DEF Gateways
    <2> QED
      BY <2>1, <2>4, <2>5 DEF Gateways
  <1>8. /\ \A n \in Messages : h.home[n] = IF n = m THEN s ELSE g.home[n]
        /\ \A v \in Sessions : h.active[v] = IF v = s THEN m ELSE g.active[v]
    BY <1>1, <1>6 DEF Gateways
  <1>9. \A u : IsTurn(h, u) <=> IsTurn(g, u) \/ u = m
    BY <1>1, <1>2, <1>7, <1>8 DEF IsTurn
  <1>10. \A u \in Turns : Queued(h, u) <=> Queued(g, u) \/ u = m
    <2> SUFFICES ASSUME NEW u \in Turns PROVE Queued(h, u) <=> Queued(g, u) \/ u = m
      OBVIOUS
    <2>1. Queued(h, u) <=> Has(p, Command("turn", u, u))
      BY <1>7, QueuedIsHas
    <2>2. Queued(g, u) <=> Has(o, Command("turn", u, u))
      BY <1>1, QueuedIsHas
    <2>3. Command("turn", u, u) = d <=> u = m
      BY <1>3, CommandFields DEF d
    <2> QED
      BY <1>5, <2>1, <2>2, <2>3
  <1>11. \A u \in Turns : Carried(h, u) <=> Carried(g, u) \/ u = m
    BY <1>7, <1>10 DEF Carried
  <1>12. TurnsOK(h)
    <2>1. \A v \in Sessions : h.active[v] # None =>
            IsTurn(h, h.active[v]) /\ h.home[h.active[v]] = v /\ h.terminal[h.active[v]] = "none"
      <3> SUFFICES ASSUME NEW v \in Sessions, h.active[v] # None
                   PROVE  IsTurn(h, h.active[v]) /\ h.home[h.active[v]] = v /\ h.terminal[h.active[v]] = "none"
        OBVIOUS
      <3>1. CASE v = s
        BY <1>2, <1>7, <1>8, <1>9, <3>1
      <3>2. CASE v # s
        <4>1. h.active[v] = g.active[v] /\ IsTurn(g, g.active[v]) /\ g.home[g.active[v]] = v
              /\ g.terminal[g.active[v]] = "none"
          BY <1>1, <1>8, <3>2 DEF TurnsOK
        <4>2. g.active[v] # m /\ g.active[v] \in Messages
          BY <1>1, <1>2, <4>1 DEF IsTurn
        <4> QED
          BY <1>7, <1>8, <1>9, <4>1, <4>2
      <3> QED
        BY <3>1, <3>2
    <2>2. \A u \in Turns : h.terminal[u] # "none" => IsTurn(h, u)
      BY <1>1, <1>7, <1>9 DEF TurnsOK
    <2>3. \A u \in Turns : Carried(h, u) =>
            IsTurn(h, u) /\ (h.terminal[u] = "none" => h.active[h.home[u]] = u)
      <3> SUFFICES ASSUME NEW u \in Turns, Carried(h, u)
                   PROVE  IsTurn(h, u) /\ (h.terminal[u] = "none" => h.active[h.home[u]] = u)
        OBVIOUS
      <3>1. CASE u = m
        BY <1>8, <1>9, <3>1
      <3>2. CASE u # m
        <4>1. IsTurn(g, u) /\ (g.terminal[u] = "none" => g.active[g.home[u]] = u)
          BY <1>1, <1>11, <3>2 DEF TurnsOK
        <4>2. h.home[u] = g.home[u] /\ g.home[u] \in Sessions /\ u # None
          BY <1>1, <1>8, <3>2, <4>1, Constants DEF IsTurn, Gateways
        <4>3. g.terminal[u] = "none" => g.home[u] # s
          BY <4>1, <4>2
        <4> QED
          BY <1>7, <1>8, <1>9, <4>1, <4>2, <4>3
      <3> QED
        BY <3>1, <3>2
    <2>4. \A u \in Turns : Queued(h, u) => u \notin h.acked /\ h.terminal[u] # "failed"
      BY <1>1, <1>2, <1>7, <1>10 DEF TurnsOK
    <2> QED
      BY <2>1, <2>2, <2>3, <2>4 DEF TurnsOK
  <1>13. SteersOK(h)
    <2>1. \A n \in h.steers : h.home[n] # None
      BY <1>1, <1>7, <1>8 DEF SteersOK, Gateways
    <2>2. h.promoted \cup h.noted \subseteq h.steers /\ h.promoted \cap h.noted = {}
      BY <1>1, <1>7 DEF SteersOK
    <2>3. ASSUME NEW n \in Messages, h.pending[n] # None
          PROVE  /\ n \in h.steers /\ n \notin h.promoted /\ n \notin h.noted
                 /\ IsTurn(h, h.pending[n]) /\ h.home[h.pending[n]] = h.home[n]
      <3>1. /\ n \in g.steers /\ n \notin g.promoted /\ n \notin g.noted
            /\ IsTurn(g, g.pending[n]) /\ g.home[g.pending[n]] = g.home[n] /\ h.pending[n] = g.pending[n]
        BY <1>1, <1>7, <2>3 DEF SteersOK
      <3>2. n # m /\ g.pending[n] # m /\ g.pending[n] \in Messages
        BY <1>1, <1>2, <3>1 DEF IsTurn
      <3> QED
        BY <1>7, <1>8, <1>9, <3>1, <3>2
    <2> QED
      BY <2>1, <2>2, <2>3 DEF SteersOK
  <1>14. OutboxOK(h)
    <2>1. ASSUME NEW c \in CommandSet, Has(h.outbox, c) PROVE CommandOK(h, c)
      <3>1. CASE Has(o, c)
        BY <1>2, <1>7, <1>9, <3>1 DEF CommandOK
      <3>2. CASE c = d
        BY <1>3, <1>9, <3>2 DEF CommandOK
      <3> QED
        BY <1>5, <1>7, <2>1, <3>1, <3>2
    <2> QED
      BY <1>5, <1>7, <2>1 DEF OutboxOK
  <1>15. Grows(g, h)
    BY <1>2, <1>7, <1>9, <1>10 DEF Grows
  <1> QED
    BY <1>7, <1>8, <1>12, <1>13, <1>14, <1>15 DEF Sane

\* A message steers the turn of its conversation.
LEMMA SteerSane ==
    ASSUME NEW g, Sane(g), NEW m \in Messages, g.home[m] = None,
           NEW s \in Sessions, NEW t, t = g.active[s], t # None,
           NEW h, h = Steered(g, m, s, t)
    PROVE  /\ Sane(h) /\ Grows(g, h)
           /\ \A n \in Messages : n # m => h.home[n] = g.home[n]
           /\ h.selected = g.selected /\ h.sessions = g.sessions
           /\ h.acked = g.acked /\ h.terminal = g.terminal
  <1> DEFINE d == Command("steer", t, m)
             o == g.outbox
  <1>1. /\ g \in Gateways /\ TurnsOK(g) /\ SteersOK(g) /\ OutboxOK(g)
        /\ Turns = Messages /\ m # None /\ s # None /\ o \in Seq(CommandSet) /\ InOrder(o)
    BY Constants DEF Sane, Gateways, OutboxOK
  <1>2. /\ ~IsTurn(g, m) /\ m \notin g.steers /\ m \notin g.promoted /\ m \notin g.noted
        /\ \A c : Has(o, c) => c \in CommandSet /\ CommandOK(g, c) /\ c.msg # m /\ c.turn # m
    BY FreshIsUnknown
  <1>3. IsTurn(g, t) /\ t \in Turns /\ g.home[t] = s /\ t # m
    BY <1>1, <1>2 DEF TurnsOK, IsTurn
  <1>4. d \in CommandSet /\ d.kind = "steer" /\ d.msg = m /\ d.turn = t
    BY <1>3 DEF Command, CommandSet
  <1> HIDE DEF d
  <1>5. PICK p : p = Append(o, d)
    OBVIOUS
  <1>6. p \in Seq(CommandSet) /\ InOrder(p) /\ \A c : Has(p, c) <=> Has(o, c) \/ c = d
    BY <1>1, <1>2, <1>4, <1>5, AppendKeepsOrder
  <1>7. h = [g EXCEPT !.home[m] = s, !.pending[m] = t, !.steers = @ \cup {m}, !.outbox = p]
    BY <1>1, <1>5 DEF d, Gateways, Steered
  <1>8. /\ h \in Gateways /\ h.selected = g.selected /\ h.sessions = g.sessions /\ h.active = g.active
        /\ h.acked = g.acked /\ h.terminal = g.terminal /\ h.outbox = p
        /\ h.steers = g.steers \cup {m} /\ h.noted = g.noted /\ h.promoted = g.promoted
    <2>1. g \in Gateways /\ t \in Turns /\ p \in Seq(CommandSet)
      BY <1>1, <1>3, <1>6
    <2>2. PICK ho : ho = [g.home EXCEPT ![m] = s]
      OBVIOUS
    <2>3. PICK pe : pe = [g.pending EXCEPT ![m] = t]
      OBVIOUS
    <2>4. PICK st : st = g.steers \cup {m}
      OBVIOUS
    <2>5. ho \in [Messages -> {None} \cup Sessions] /\ pe \in [Messages -> {None} \cup Turns]
      BY <2>1, <2>2, <2>3 DEF Gateways
    <2>6. st \in SUBSET Messages
      BY <2>1, <2>4 DEF Gateways
    <2>7. h = [g EXCEPT !.home = ho, !.pending = pe, !.steers = st, !.outbox = p]
      BY <1>7, <2>1, <2>2, <2>3, <2>4 DEF Gateways
    <2>8. h \in Gateways /\ h.steers = st
      BY <2>1, <2>5, <2>6, <2>7 DEF Gateways
    <2>9. /\ h.selected = g.selected /\ h.sessions = g.sessions /\ h.active = g.active
          /\ h.acked = g.acked /\ h.terminal = g.terminal /\ h.outbox = p
          /\ h.noted = g.noted /\ h.promoted = g.promoted
      BY <2>1, <2>7 DEF Gateways
    <2> QED
      BY <2>4, <2>8, <2>9
  <1>9. /\ \A n \in Messages : h.home[n] = IF n = m THEN s ELSE g.home[n]
        /\ \A n \in Messages : h.pending[n] = IF n = m THEN t ELSE g.pending[n]
    BY <1>1, <1>7 DEF Gateways
  <1>10. \A u : IsTurn(h, u) <=> IsTurn(g, u)
    BY <1>1, <1>2, <1>8, <1>9 DEF IsTurn
  <1>11. \A u : IsTurn(g, u) => h.home[u] = g.home[u]
    BY <1>1, <1>2, <1>9 DEF IsTurn
  <1>12. \A u \in Turns : Queued(h, u) <=> Queued(g, u)
    <2> SUFFICES ASSUME NEW u \in Turns PROVE Queued(h, u) <=> Queued(g, u)
      OBVIOUS
    <2>1. Queued(h, u) <=> Has(p, Command("turn", u, u))
      BY <1>8, QueuedIsHas
    <2>2. Queued(g, u) <=> Has(o, Command("turn", u, u))
      BY <1>1, QueuedIsHas
    <2>3. Command("turn", u, u) # d
      BY <1>4, CommandFields
    <2> QED
      BY <1>6, <2>1, <2>2, <2>3
  <1>13. \A u \in Turns : Carried(h, u) <=> Carried(g, u)
    BY <1>8, <1>12 DEF Carried
  <1>14. TurnsOK(h)
    BY <1>1, <1>8, <1>10, <1>11, <1>12, <1>13 DEF TurnsOK
  <1>15. SteersOK(h)
    <2>1. \A n \in h.steers : h.home[n] # None
      BY <1>1, <1>8, <1>9 DEF SteersOK, Gateways
    <2>2. h.promoted \cup h.noted \subseteq h.steers /\ h.promoted \cap h.noted = {}
      BY <1>1, <1>8 DEF SteersOK
    <2>3. ASSUME NEW n \in Messages, h.pending[n] # None
          PROVE  /\ n \in h.steers /\ n \notin h.promoted /\ n \notin h.noted
                 /\ IsTurn(h, h.pending[n]) /\ h.home[h.pending[n]] = h.home[n]
      <3>1. CASE n = m
        BY <1>2, <1>3, <1>8, <1>9, <1>10, <1>11, <3>1
      <3>2. CASE n # m
        <4>1. /\ n \in g.steers /\ n \notin g.promoted /\ n \notin g.noted
              /\ IsTurn(g, g.pending[n]) /\ g.home[g.pending[n]] = g.home[n] /\ h.pending[n] = g.pending[n]
          BY <1>1, <1>9, <2>3, <3>2 DEF SteersOK
        <4> QED
          BY <1>8, <1>9, <1>10, <1>11, <3>2, <4>1
      <3> QED
        BY <3>1, <3>2
    <2> QED
      BY <2>1, <2>2, <2>3 DEF SteersOK
  <1>16. OutboxOK(h)
    <2>1. ASSUME NEW c \in CommandSet, Has(h.outbox, c) PROVE CommandOK(h, c)
      <3>1. CASE Has(o, c)
        BY <1>2, <1>8, <1>10, <3>1 DEF CommandOK
      <3>2. CASE c = d
        BY <1>2, <1>3, <1>4, <1>8, <1>10, <3>2 DEF CommandOK
      <3> QED
        BY <1>6, <1>8, <2>1, <3>1, <3>2
    <2> QED
      BY <1>6, <1>8, <2>1 DEF OutboxOK
  <1>17. Grows(g, h)
    BY <1>8, <1>10, <1>12 DEF Grows
  <1> QED
    BY <1>8, <1>9, <1>14, <1>15, <1>16, <1>17 DEF Sane

------------------------------------------------------------------------------
(* Every step keeps the invariant, and no queued turn fails.                   *)

Waits(g, h) == \A t \in Turns : Queued(g, t) => h.terminal[t] # "failed"

LEMMA WaitsWhenSafe ==
    ASSUME NEW g, NEW h, Sane(g), Safe(g, h) \/ h.terminal = g.terminal
    PROVE  Waits(g, h)
  <1>1. \A t \in Turns : Queued(g, t) => IsTurn(g, t) /\ g.terminal[t] # "failed"
    BY DEF Sane, TurnsOK, Carried
  <1>2. CASE Safe(g, h)
    <2>1. \A t \in Turns : Queued(g, t) => Queued(h, t)
      BY <1>1, <1>2 DEF Safe
    <2> QED
      BY <1>2, <2>1 DEF Safe, Sane, TurnsOK, Waits
  <1>3. CASE h.terminal = g.terminal
    BY <1>1, <1>3 DEF Waits
  <1> QED
    BY <1>2, <1>3

LEMMA SafeGrows ==
    ASSUME NEW g, NEW h, Safe(g, h)
    PROVE  Grows(g, h)
  BY DEF Safe, Grows

\* Events and runs of turns that were turns before are still.
LEMMA StillSpokenOf ==
    ASSUME NEW g, NEW h, Grows(g, h)
    PROVE  /\ \A up : UplinkOK(g, up) => UplinkOK(h, up)
           /\ \A ho : HoldsOK(g, ho) => HoldsOK(h, ho)
  <1>1. \A e \in EventSet : EventOK(g, e) => EventOK(h, e)
    BY DEF EventOK, Grows, EventSet
  <1>2. ASSUME NEW up, UplinkOK(g, up) PROVE UplinkOK(h, up)
    <2>1. \A i \in 1..Len(up) : up[i] \in EventSet
      BY <1>2, ElementOfSeq DEF UplinkOK
    <2> QED
      BY <1>1, <1>2, <2>1 DEF UplinkOK
  <1>3. \A ho : HoldsOK(g, ho) => HoldsOK(h, ho)
    BY DEF HoldsOK, Grows
  <1> QED
    BY <1>2, <1>3

LEMMA EmittedOK ==
    ASSUME NEW g, NEW up, UplinkOK(g, up), NEW e \in EventSet, EventOK(g, e)
    PROVE  UplinkOK(g, Append(up, e))
  <1>1. up \in Seq(EventSet) /\ \A i \in 1..Len(up) : EventOK(g, up[i])
    BY DEF UplinkOK
  <1>2. /\ Append(up, e) \in Seq(EventSet) /\ Len(Append(up, e)) = Len(up) + 1
        /\ \A i \in 1..Len(up) : Append(up, e)[i] = up[i]
        /\ Append(up, e)[Len(up) + 1] = e
    BY <1>1, AppendProperties
  <1>3. \A i \in 1..Len(Append(up, e)) : i \in 1..Len(up) \/ i = Len(up) + 1
    BY <1>1, <1>2, LenProperties
  <1> QED
    BY <1>1, <1>2, <1>3 DEF UplinkOK

LEMMA DeliveredOK ==
    ASSUME NEW g, NEW up, UplinkOK(g, up), up # <<>>
    PROVE  UplinkOK(g, Tail(up)) /\ Head(up) \in EventSet /\ EventOK(g, Head(up))
  <1>1. up \in Seq(EventSet) /\ \A i \in 1..Len(up) : EventOK(g, up[i])
    BY DEF UplinkOK
  <1>2. Len(up) \in Nat \ {0}
    BY <1>1, EmptySeq
  <1>3. /\ Tail(up) \in Seq(EventSet) /\ Len(Tail(up)) = Len(up) - 1
        /\ \A i \in 1..Len(Tail(up)) : Tail(up)[i] = up[i + 1]
        /\ Head(up) \in EventSet
    BY <1>1, HeadTailProperties
  <1>4. Head(up) = up[1] /\ 1 \in 1..Len(up)
    BY <1>1, <1>2
  <1>5. \A i \in 1..Len(Tail(up)) : i + 1 \in 1..Len(up)
    BY <1>2, <1>3
  <1> QED
    BY <1>1, <1>3, <1>4, <1>5 DEF UplinkOK

LEMMA Counts ==
    ASSUME used \in UsedSet, NEW bound
    PROVE  /\ \A what \in {"losses", "absences", "restarts", "acts", "frames"} :
                Use(what, bound) => used' \in UsedSet /\ used'.sends = used.sends
           /\ Use("sends", bound) => used' \in UsedSet /\ used'.sends = used.sends + 1 /\ used.sends < bound
  BY DEF Use, UsedSet

LEMMA IInvParts ==
    ASSUME IInv
    PROVE  /\ Sane(gw) /\ gw \in Gateways /\ gw.selected \in Sessions /\ gw.sessions \in Sessions
           /\ gw.selected <= gw.sessions /\ gw.acked \subseteq Turns
           /\ TurnsOK(gw) /\ SteersOK(gw) /\ OutboxOK(gw) /\ Safe(gw, gw)
  BY SafeReflexive DEF IInv, Sane, Gateways

LEMMA PrepareKeeps ==
    ASSUME IInv, Prepare
    PROVE  IInv' /\ Waits(gw, gw')
  <1>1. used \in UsedSet /\ FreshOK(gw, used, preparing) /\ gw.selected \in Sessions
    BY IInvParts DEF IInv
  <1>2. /\ used' \in UsedSet /\ used'.sends = used.sends + 1 /\ used.sends < MaxMessages
        /\ preparing' = preparing \cup {<<used.sends + 1, gw.selected>>}
        /\ UNCHANGED <<gw, lost, stopping, live, media, agent, uplink>>
    BY <1>1, Counts DEF Prepare
  <1>3. FreshOK(gw, used', preparing')
    <2> DEFINE new == <<used.sends + 1, gw.selected>>
               m == used.sends + 1
    <2>1. used.sends \in Nat /\ m \in Messages /\ m > used.sends /\ m <= MaxMessages
      BY <1>1, <1>2, Constants DEF FreshOK
    <2>2. gw.home[m] = None
      BY <1>1, <2>1 DEF FreshOK
    <2>3. new \in Messages \X Sessions /\ new[1] = m
      BY <1>1, <2>1
    <2> HIDE DEF new
    <2>4. \A p \in preparing : p[1] <= used.sends /\ p[1] \in Nat /\ p[1] # m
      BY <1>1, <2>1, Constants DEF FreshOK
    <2>5. preparing' = preparing \cup {new}
      BY <1>2 DEF new
    <2>6. /\ used'.sends \in 0..MaxMessages
          /\ \A n \in Messages : n > used'.sends => gw.home[n] = None
      BY <1>1, <1>2, <2>1, Constants DEF FreshOK
    <2>7. \A p \in preparing' : p[1] <= used'.sends /\ gw.home[p[1]] = None
      BY <1>1, <1>2, <2>1, <2>2, <2>3, <2>4, <2>5 DEF FreshOK
    <2>8. preparing' \subseteq Messages \X Sessions /\ \A p, q \in preparing' : p[1] = q[1] => p = q
      BY <1>1, <2>3, <2>4, <2>5 DEF FreshOK
    <2> QED
      BY <2>6, <2>7, <2>8 DEF FreshOK
  <1>4. IInv'
    BY <1>2, <1>3 DEF IInv, AgentOK, agent
  <1> QED
    BY <1>2, <1>4, IInvParts, WaitsWhenSafe

LEMMA OpenTurnKeeps ==
    ASSUME IInv, OpenTurn
    PROVE  IInv' /\ Waits(gw, gw')
  <1>1. PICK p \in preparing :
          /\ preparing' = preparing \ {p}
          /\ gw' = IF Unchanged(p[2]) /\ Reachable(p[1])
                   THEN [gw EXCEPT !.home[p[1]] = p[2], !.active[p[2]] = p[1],
                                   !.outbox = Append(@, Command("turn", p[1], p[1]))]
                   ELSE gw
          /\ UNCHANGED <<lost, stopping, live, media, agent, uplink, used>>
    BY DEF OpenTurn
  <1>2. PICK m, s : m = p[1] /\ s = p[2]
    OBVIOUS
  <1>3. /\ m \in Messages /\ s \in Sessions /\ gw.home[m] = None /\ m <= used.sends /\ used.sends \in Nat
        /\ \A q \in preparing' : q \in preparing /\ q[1] # m /\ q[1] \in Messages
    BY <1>1, <1>2, Constants DEF IInv, FreshOK
  <1>4. CASE ~(Unchanged(s) /\ Reachable(m))
    <2>1. gw' = gw
      BY <1>1, <1>2, <1>4
    <2>2. FreshOK(gw, used', preparing')
      BY <1>1, <1>3 DEF IInv, FreshOK
    <2>3. IInv'
      BY <1>1, <2>1, <2>2 DEF IInv, AgentOK, agent
    <2> QED
      BY <2>1, <2>3, IInvParts, WaitsWhenSafe
  <1>5. CASE Unchanged(s) /\ Reachable(m)
    <2>1. gw.active[s] = None
      BY <1>5 DEF Unchanged
    <2>2. gw' = Opened(gw, m, s)
      BY <1>1, <1>2, <1>5 DEF Opened
    <2>3. /\ Sane(gw') /\ Grows(gw, gw')
          /\ \A n \in Messages : n # m => gw'.home[n] = gw.home[n]
          /\ gw'.selected = gw.selected /\ gw'.sessions = gw.sessions
          /\ gw'.acked = gw.acked /\ gw'.terminal = gw.terminal
      BY <1>3, <2>1, <2>2, IInvParts, OpenTurnSane
    <2>4. FreshOK(gw', used', preparing')
      <3>1. \A n \in Messages : n > used.sends => n # m /\ gw.home[n] = None
        BY <1>3, Constants DEF IInv, FreshOK
      <3> QED
        BY <1>1, <1>3, <2>3, <3>1 DEF IInv, FreshOK
    <2>5. UplinkOK(gw', uplink) /\ HoldsOK(gw', holds)
      BY <2>3, StillSpokenOf DEF IInv
    <2>6. IInv'
      BY <1>1, <2>3, <2>4, <2>5 DEF IInv, AgentOK, agent
    <2> QED
      BY <2>3, <2>6, IInvParts, WaitsWhenSafe
  <1> QED
    BY <1>4, <1>5

LEMMA SteerKeeps ==
    ASSUME IInv, Steer
    PROVE  IInv' /\ Waits(gw, gw')
  <1>1. PICK m, s, t : m = used.sends + 1 /\ s = gw.selected /\ t = gw.active[s]
    OBVIOUS
  <1>2. /\ t # None /\ Use("sends", MaxMessages)
        /\ gw' = Steered(gw, m, s, t)
        /\ UNCHANGED <<memory, live, media, agent, uplink>>
    BY <1>1 DEF Steer, Steered
  <1>3. used' \in UsedSet /\ used'.sends = used.sends + 1 /\ used.sends < MaxMessages /\ used.sends \in Nat
    BY <1>2, Counts DEF IInv, UsedSet
  <1>4. m \in Messages /\ gw.home[m] = None /\ s \in Sessions
    BY <1>1, <1>3, IInvParts, Constants DEF IInv, FreshOK
  <1>5. /\ Sane(gw') /\ Grows(gw, gw')
        /\ \A n \in Messages : n # m => gw'.home[n] = gw.home[n]
        /\ gw'.selected = gw.selected /\ gw'.sessions = gw.sessions
        /\ gw'.acked = gw.acked /\ gw'.terminal = gw.terminal
    BY <1>1, <1>2, <1>4, IInvParts, SteerSane
  <1>6. FreshOK(gw', used', preparing')
    <2>1. FreshOK(gw, used, preparing) /\ preparing' = preparing
      BY <1>2 DEF IInv, memory
    <2>2. \A n \in Messages : n > used'.sends => n # m /\ gw.home[n] = None
      BY <1>1, <1>3, <2>1, Constants DEF FreshOK
    <2>3. \A p \in preparing : p[1] \in Messages /\ p[1] # m /\ p[1] <= used'.sends /\ gw.home[p[1]] = None
      BY <1>1, <1>3, <2>1, Constants DEF FreshOK
    <2>4. \A n \in Messages : n > used'.sends => gw'.home[n] = None
      BY <1>5, <2>2
    <2>5. \A p \in preparing' : p[1] <= used'.sends /\ gw'.home[p[1]] = None
      BY <1>5, <2>1, <2>3
    <2>6. used'.sends \in 0..MaxMessages
      BY <1>3, Constants
    <2> QED
      BY <2>1, <2>4, <2>5, <2>6 DEF FreshOK
  <1>7. UplinkOK(gw', uplink) /\ HoldsOK(gw', holds)
    BY <1>5, StillSpokenOf DEF IInv
  <1>8. IInv'
    BY <1>2, <1>3, <1>5, <1>6, <1>7 DEF IInv, AgentOK, agent, memory
  <1> QED
    BY <1>5, <1>8, IInvParts, WaitsWhenSafe

LEMMA FreshStays ==
    ASSUME NEW g, NEW h, NEW us, NEW us2, NEW pre, FreshOK(g, us, pre),
           h.home = g.home, us2.sends = us.sends
    PROVE  FreshOK(h, us2, pre) /\ FreshOK(h, us2, {})
  BY DEF FreshOK

LEMMA StopKeeps ==
    ASSUME IInv, Stop
    PROVE  IInv' /\ Waits(gw, gw')
  <1>1. PICK t : t = gw.active[gw.selected]
    OBVIOUS
  <1>2. /\ t # None /\ Use("acts", MaxActs) /\ gw' = Interrupted(gw, t)
        /\ stopping' = stopping \cup {t}
        /\ UNCHANGED <<lost, preparing, live, media, agent, uplink>>
    BY <1>1 DEF Stop
  <1>3. used' \in UsedSet /\ used'.sends = used.sends
    BY <1>2, Counts DEF IInv
  <1>4. IsTurn(gw, t) /\ t \in Turns
    BY <1>1, <1>2, IInvParts DEF TurnsOK, IsTurn
  <1>5. Safe(gw, gw')
    BY <1>2, <1>4, IInvParts, InterruptedSafe
  <1>6. UplinkOK(gw', uplink) /\ HoldsOK(gw', holds)
    BY <1>5, SafeGrows, StillSpokenOf DEF IInv
  <1>7. FreshOK(gw', used', preparing)
    BY <1>3, <1>5, FreshStays DEF IInv, Safe
  <1>8. IInv'
    BY <1>2, <1>3, <1>4, <1>5, <1>6, <1>7 DEF IInv, AgentOK, agent, Safe
  <1> QED
    BY <1>5, <1>8, IInvParts, WaitsWhenSafe

Selecting(g, s, n) == [g EXCEPT !.sessions = n, !.selected = s]

\* The person turns to another conversation: every turn stays where it is.
LEMMA SelectingSane ==
    ASSUME NEW g, Sane(g), NEW s \in Sessions, NEW n \in Sessions, NEW h, h = Selecting(g, s, n)
    PROVE  /\ Sane(h) /\ Grows(g, h) /\ h.home = g.home /\ h.acked = g.acked /\ h.terminal = g.terminal
           /\ h.selected = s /\ h.sessions = n
  <1>1. g \in Gateways /\ TurnsOK(g) /\ SteersOK(g) /\ OutboxOK(g)
    BY DEF Sane
  <1>2. /\ h \in Gateways /\ h.home = g.home /\ h.selected = s /\ h.sessions = n
        /\ h.acked = g.acked /\ h.active = g.active /\ h.outbox = g.outbox /\ h.terminal = g.terminal
        /\ h.steers = g.steers /\ h.promoted = g.promoted /\ h.noted = g.noted /\ h.pending = g.pending
    BY <1>1 DEF Selecting, Gateways
  <1>3. \A u : (IsTurn(h, u) <=> IsTurn(g, u)) /\ (Queued(h, u) <=> Queued(g, u)) /\ (Carried(h, u) <=> Carried(g, u))
    BY <1>2 DEF IsTurn, Queued, Carried
  <1>4. TurnsOK(h) /\ SteersOK(h)
    BY <1>1, <1>2, <1>3 DEF TurnsOK, SteersOK
  <1>5. OutboxOK(h)
    BY <1>1, <1>2, <1>3 DEF OutboxOK, CommandOK
  <1> QED
    BY <1>2, <1>3, <1>4, <1>5 DEF Sane, Grows

LEMMA NewSessionKeeps ==
    ASSUME IInv, NEW clear \in BOOLEAN, NewSession(clear)
    PROVE  IInv' /\ Waits(gw, gw')
  <1>1. PICK t, n : t = gw.active[gw.selected] /\ n = gw.sessions + 1
    OBVIOUS
  <1>2. PICK left : left = IF clear /\ t # None THEN Interrupted(gw, t) ELSE gw
    OBVIOUS
  <1>3. /\ gw.sessions < MaxSessions /\ Use("acts", MaxActs)
        /\ gw' = [left EXCEPT !.sessions = @ + 1, !.selected = n]
        /\ UNCHANGED <<memory, live, media, agent, uplink>>
    BY <1>1, <1>2 DEF NewSession
  <1>4. used' \in UsedSet /\ used'.sends = used.sends
    BY <1>3, Counts DEF IInv
  <1>5. t # None => IsTurn(gw, t)
    BY <1>1, IInvParts DEF TurnsOK
  <1>6. Safe(gw, left) /\ left.terminal = gw.terminal
    BY <1>2, <1>5, IInvParts, InterruptedSafe DEF SameRows
  <1>7. n \in Sessions /\ n <= n
    BY <1>1, <1>3, IInvParts, Constants
  <1>8. gw' = Selecting(left, n, n)
    BY <1>1, <1>3, <1>6 DEF Selecting, Safe, Sane, Gateways
  <1>9. /\ Sane(gw') /\ Grows(left, gw') /\ gw'.home = left.home /\ gw'.acked = left.acked
        /\ gw'.terminal = left.terminal /\ gw'.selected = n /\ gw'.sessions = n
    BY <1>6, <1>7, <1>8, SelectingSane DEF Safe
  <1>10. gw'.home = gw.home /\ gw'.acked = gw.acked /\ gw'.terminal = gw.terminal
    BY <1>6, <1>9 DEF Safe
  <1>11. Grows(gw, left)
    BY <1>6, SafeGrows
  <1>12. UplinkOK(gw', uplink) /\ HoldsOK(gw', holds)
    <2>1. UplinkOK(left, uplink) /\ HoldsOK(left, holds)
      BY <1>11, StillSpokenOf DEF IInv
    <2> QED
      BY <1>9, <2>1, StillSpokenOf
  <1>13. FreshOK(gw', used', preparing)
    BY <1>4, <1>10, FreshStays DEF IInv
  <1>14. IInv'
    BY <1>3, <1>4, <1>7, <1>9, <1>10, <1>12, <1>13 DEF IInv, AgentOK, agent, memory
  <1> QED
    BY <1>10, <1>14, IInvParts, WaitsWhenSafe

LEMMA AdoptSessionKeeps ==
    ASSUME IInv, AdoptSession
    PROVE  IInv' /\ Waits(gw, gw')
  <1>1. PICK s \in 1..gw.sessions :
          /\ Use("acts", MaxActs) /\ gw' = [gw EXCEPT !.selected = s]
          /\ UNCHANGED <<memory, live, media, agent, uplink>>
    BY DEF AdoptSession
  <1>2. used' \in UsedSet /\ used'.sends = used.sends
    BY <1>1, Counts DEF IInv
  <1>3. s \in Sessions /\ gw.sessions \in Sessions /\ s <= gw.sessions
    BY IInvParts, Constants
  <1>4. PICK n : n = gw.sessions
    OBVIOUS
  <1>5. gw' = Selecting(gw, s, n)
    BY <1>1, <1>4, IInvParts DEF Selecting, Gateways
  <1>6. /\ Sane(gw') /\ Grows(gw, gw') /\ gw'.home = gw.home /\ gw'.acked = gw.acked
        /\ gw'.terminal = gw.terminal /\ gw'.selected = s /\ gw'.sessions = n
    <2>1. Sane(gw) /\ s \in Sessions /\ n \in Sessions
      BY <1>3, <1>4, IInvParts
    <2> QED
      BY <1>5, <2>1, SelectingSane
  <1>7. UplinkOK(gw', uplink) /\ HoldsOK(gw', holds)
    BY <1>6, StillSpokenOf DEF IInv
  <1>8. FreshOK(gw', used', preparing)
    BY <1>2, <1>6, FreshStays DEF IInv
  <1>9. IInv'
    BY <1>1, <1>2, <1>3, <1>4, <1>6, <1>7, <1>8 DEF IInv, AgentOK, agent, memory
  <1> QED
    BY <1>6, <1>9, IInvParts, WaitsWhenSafe

Acking(g, t) == [g EXCEPT !.acked = @ \cup {t}]

\* The agent took a turn whose command is no longer queued.
LEMMA AckingSane ==
    ASSUME NEW g, Sane(g), NEW t, IsTurn(g, t), ~Queued(g, t),
           g.terminal[t] = "none" => g.active[g.home[t]] = t,
           NEW h, h = Acking(g, t)
    PROVE  /\ Sane(h) /\ Grows(g, h) /\ h.home = g.home /\ h.selected = g.selected
           /\ h.sessions = g.sessions /\ h.terminal = g.terminal /\ h.acked = g.acked \cup {t}
  <1>1. g \in Gateways /\ TurnsOK(g) /\ SteersOK(g) /\ OutboxOK(g) /\ t \in Turns
    BY DEF Sane, IsTurn
  <1>2. /\ h \in Gateways /\ h.home = g.home /\ h.selected = g.selected /\ h.sessions = g.sessions
        /\ h.acked = g.acked \cup {t} /\ h.active = g.active /\ h.outbox = g.outbox /\ h.terminal = g.terminal
        /\ h.steers = g.steers /\ h.promoted = g.promoted /\ h.noted = g.noted /\ h.pending = g.pending
    BY <1>1 DEF Acking, Gateways
  <1>3. \A u : /\ IsTurn(h, u) <=> IsTurn(g, u)
               /\ Queued(h, u) <=> Queued(g, u)
               /\ Carried(h, u) <=> Carried(g, u) \/ u = t
    BY <1>2 DEF IsTurn, Queued, Carried
  <1>4. TurnsOK(h)
    BY <1>1, <1>2, <1>3 DEF TurnsOK
  <1>5. SteersOK(h)
    BY <1>1, <1>2, <1>3 DEF SteersOK
  <1>6. OutboxOK(h)
    BY <1>1, <1>2, <1>3 DEF OutboxOK, CommandOK
  <1> QED
    BY <1>2, <1>3, <1>4, <1>5, <1>6 DEF Sane, Grows

\* What the next command is, and what is left when it is taken.
LEMMA NextTaken ==
    ASSUME IInv, gw.outbox # <<>>
    PROVE  /\ Sane(Taken(gw)) /\ Grows(gw, Taken(gw)) /\ SameRows(gw, Taken(gw))
           /\ UplinkOK(Taken(gw), uplink) /\ HoldsOK(Taken(gw), holds)
           /\ Next1 \in CommandSet /\ CommandOK(gw, Next1) /\ IsTurn(gw, Next1.turn)
           /\ Next1.turn \in Turns /\ Next1.turn # None /\ gw.home[Next1.turn] \in Sessions
           /\ Next1.kind # "turn" => ~Queued(Taken(gw), Next1.turn) /\ ~Queued(gw, Next1.turn)
           /\ Next1.kind = "turn" => /\ Next1 = Command("turn", Next1.turn, Next1.turn)
                                     /\ Queued(gw, Next1.turn) /\ ~Queued(Taken(gw), Next1.turn)
           /\ Next1.kind = "steer" => Next1.msg \in Messages /\ gw.home[Next1.msg] \in Sessions
  <1>1. /\ Sane(Taken(gw)) /\ Grows(gw, Taken(gw)) /\ SameRows(gw, Taken(gw))
        /\ Taken(gw).outbox = Tail(gw.outbox) /\ Next1 \in CommandSet /\ CommandOK(gw, Next1)
        /\ \A t \in Turns : /\ Queued(gw, t) => Queued(Taken(gw), t) \/ Next1 = Command("turn", t, t)
                            /\ Queued(Taken(gw), t) => Next1.turn # t
    BY IInvParts, TakenSane DEF Next1
  <1>2. UplinkOK(Taken(gw), uplink) /\ HoldsOK(Taken(gw), holds)
    BY <1>1, StillSpokenOf DEF IInv
  <1>3. IsTurn(gw, Next1.turn) /\ Next1.turn \in Turns /\ Next1.turn # None /\ gw.home[Next1.turn] \in Sessions
    BY <1>1, IInvParts, Constants DEF CommandOK, IsTurn, Gateways
  <1>4. ~Queued(Taken(gw), Next1.turn)
    BY <1>1, <1>3
  <1>5. ASSUME Next1.kind # "turn" PROVE ~Queued(gw, Next1.turn)
    BY <1>1, <1>3, <1>4, <1>5, CommandFields
  <1>6. ASSUME Next1.kind = "turn"
        PROVE  Next1 = Command("turn", Next1.turn, Next1.turn) /\ Queued(gw, Next1.turn)
    <2>1. Next1.msg = Next1.turn
      BY <1>1, <1>6 DEF CommandOK
    <2>2. Next1 = Command("turn", Next1.turn, Next1.turn)
      BY <1>1, <1>6, <2>1 DEF CommandSet, Command
    <2>3. Has(gw.outbox, Next1)
      BY IInvParts, TailKeepsOrder DEF Gateways, OutboxOK, Next1
    <2> QED
      BY <2>2, <2>3, IInvParts, QueuedIsHas
  <1>7. Next1.kind = "steer" => Next1.msg \in Messages /\ gw.home[Next1.msg] \in Sessions
    BY <1>1, IInvParts, Constants DEF CommandOK, SteersOK, Gateways
  <1> QED
    BY <1>1, <1>2, <1>3, <1>4, <1>5, <1>6, <1>7

LEMMA TakeTurnKeeps ==
    ASSUME IInv, TakeTurn
    PROVE  IInv' /\ Waits(gw, gw')
  <1>1. PICK t, s : t = Next1.turn /\ s = gw.home[t]
    OBVIOUS
  <1>2. /\ gw.outbox # <<>> /\ Next1.kind = "turn"
        /\ gw' = Acking(Taken(gw), t)
        /\ holds' = [holds EXCEPT ![s] = t]
        /\ context' = [context EXCEPT ![s] = @ \cup {t}]
        /\ heard' = heard \cup {t}
        /\ UNCHANGED <<memory, live, media, declares, sealed, uplink, used>>
    BY <1>1 DEF TakeTurn, Acking
  <1>3. /\ Sane(Taken(gw)) /\ Grows(gw, Taken(gw)) /\ SameRows(gw, Taken(gw))
        /\ UplinkOK(Taken(gw), uplink) /\ HoldsOK(Taken(gw), holds)
        /\ IsTurn(gw, t) /\ t \in Turns /\ s \in Sessions
        /\ Queued(gw, t) /\ ~Queued(Taken(gw), t)
    BY <1>1, <1>2, NextTaken
  <1>4. PICK g : g = Taken(gw)
    OBVIOUS
  <1>5. gw.terminal[t] = "none" => gw.active[gw.home[t]] = t
    BY <1>3, IInvParts DEF TurnsOK, Carried
  <1>6. IsTurn(g, t) /\ (g.terminal[t] = "none" => g.active[g.home[t]] = t)
    BY <1>3, <1>4, <1>5 DEF SameRows, Grows
  <1>7. /\ Sane(gw') /\ Grows(g, gw') /\ gw'.home = g.home /\ gw'.selected = g.selected
        /\ gw'.sessions = g.sessions /\ gw'.terminal = g.terminal /\ gw'.acked = g.acked \cup {t}
    BY <1>2, <1>3, <1>4, <1>6, AckingSane
  <1>8. /\ gw'.home = gw.home /\ gw'.selected = gw.selected /\ gw'.sessions = gw.sessions
        /\ gw'.terminal = gw.terminal /\ gw'.acked = gw.acked \cup {t}
    BY <1>3, <1>4, <1>7 DEF SameRows
  <1>9. UplinkOK(gw', uplink)
    BY <1>3, <1>4, <1>7, StillSpokenOf
  <1>10. HoldsOK(gw', holds')
    BY <1>2, <1>3, <1>8 DEF IInv, HoldsOK
  <1>11. FreshOK(gw', used, preparing)
    BY <1>8, FreshStays DEF IInv
  <1>12. context' \in [Sessions -> SUBSET Messages] /\ heard' \subseteq Messages
    BY <1>2, <1>3, Constants DEF IInv, AgentOK
  <1>13. IInv'
    BY <1>2, <1>7, <1>8, <1>9, <1>10, <1>11, <1>12 DEF IInv, AgentOK, memory
  <1> QED
    BY <1>8, <1>13, IInvParts, WaitsWhenSafe

LEMMA DiscardTurnKeeps ==
    ASSUME IInv, DiscardTurn
    PROVE  IInv' /\ Waits(gw, gw')
  <1>1. /\ gw.outbox # <<>> /\ gw' = Taken(gw)
        /\ UNCHANGED <<memory, live, media, agent, uplink, used>>
    BY DEF DiscardTurn
  <1>2. /\ Sane(gw') /\ SameRows(gw, gw') /\ UplinkOK(gw', uplink) /\ HoldsOK(gw', holds)
    BY <1>1, NextTaken
  <1>3. FreshOK(gw', used, preparing)
    BY <1>2, FreshStays DEF IInv, SameRows
  <1>4. IInv'
    BY <1>1, <1>2, <1>3 DEF IInv, AgentOK, memory, agent, SameRows
  <1> QED
    BY <1>2, <1>4, IInvParts, WaitsWhenSafe DEF SameRows

LEMMA EventIs ==
    ASSUME NEW kind \in {"draft", "interim", "commit", "failed", "interrupted", "unknown_turn", "orphan"},
           NEW s \in Sessions, NEW t \in {None} \cup Turns, NEW ms \in SUBSET Messages
    PROVE  /\ Event(kind, s, t, ms) \in EventSet
           /\ Event(kind, s, t, ms).kind = kind /\ Event(kind, s, t, ms).turn = t
  BY DEF Event, EventSet

LEMMA TakeSteerKeeps ==
    ASSUME IInv, TakeSteer
    PROVE  IInv' /\ Waits(gw, gw')
  <1>1. PICK t, m, s : t = Next1.turn /\ m = Next1.msg /\ s = gw.home[m]
    OBVIOUS
  <1>2. /\ gw.outbox # <<>> /\ Next1.kind = "steer" /\ gw' = Taken(gw)
        /\ \/ /\ context' = [context EXCEPT ![s] = @ \cup {m}]
              /\ heard' = heard \cup {m}
              /\ UNCHANGED uplink
           \/ /\ Emit(Event("unknown_turn", s, t, {}))
              /\ UNCHANGED <<context, heard>>
           \/ /\ heard' = heard \cup {m}
              /\ Emit(Event("orphan", s, None, {m}))
              /\ UNCHANGED context
        /\ UNCHANGED <<memory, live, media, declares, holds, sealed, used>>
    BY <1>1 DEF TakeSteer
  <1>3. /\ Sane(gw') /\ SameRows(gw, gw') /\ UplinkOK(gw', uplink) /\ HoldsOK(gw', holds)
        /\ Grows(gw, gw') /\ IsTurn(gw, t) /\ t \in Turns /\ t # None /\ ~Queued(gw', t)
        /\ m \in Messages /\ s \in Sessions
    BY <1>1, <1>2, NextTaken
  <1>4. UplinkOK(gw', uplink')
    <2>1. IsTurn(gw', t)
      BY <1>3 DEF Grows
    <2>2. CASE uplink' = Append(uplink, Event("unknown_turn", s, t, {}))
      <3>1. PICK e : e = Event("unknown_turn", s, t, {})
        OBVIOUS
      <3>2. e \in EventSet /\ e.turn = t /\ e.kind = "unknown_turn"
        BY <1>3, <3>1, EventIs
      <3>3. EventOK(gw', e)
        BY <1>3, <2>1, <3>2 DEF EventOK
      <3> QED
        BY <1>3, <2>2, <3>1, <3>2, <3>3, EmittedOK
    <2>3. CASE uplink' = Append(uplink, Event("orphan", s, None, {m}))
      <3>1. PICK e : e = Event("orphan", s, None, {m})
        OBVIOUS
      <3>2. e \in EventSet /\ e.turn = None /\ e.kind = "orphan"
        BY <1>3, <3>1, EventIs
      <3>3. EventOK(gw', e)
        BY <3>2 DEF EventOK
      <3> QED
        BY <1>3, <2>3, <3>1, <3>2, <3>3, EmittedOK
    <2> QED
      BY <1>2, <1>3, <2>2, <2>3 DEF Emit
  <1>5. FreshOK(gw', used, preparing)
    BY <1>3, FreshStays DEF IInv, SameRows
  <1>6. context' \in [Sessions -> SUBSET Messages] /\ heard' \subseteq Messages
    BY <1>2, <1>3 DEF IInv, AgentOK
  <1>7. IInv'
    BY <1>2, <1>3, <1>4, <1>5, <1>6 DEF IInv, AgentOK, memory, SameRows
  <1> QED
    BY <1>3, <1>7, IInvParts, WaitsWhenSafe DEF SameRows

LEMMA TakeInterruptKeeps ==
    ASSUME IInv, TakeInterrupt
    PROVE  IInv' /\ Waits(gw, gw')
  <1>1. PICK t, s : t = Next1.turn /\ s = gw.home[t]
    OBVIOUS
  <1>2. /\ gw.outbox # <<>> /\ Next1.kind = "interrupt" /\ gw' = Taken(gw)
        /\ \/ /\ holds[s] = t
              /\ Over(s)
              /\ Emit(Event("interrupted", s, t, {}))
           \/ /\ Emit(Event("unknown_turn", s, t, {})) \/ UNCHANGED uplink
              /\ UNCHANGED <<holds, context, sealed>>
        /\ UNCHANGED <<memory, live, media, declares, heard, used>>
    BY <1>1 DEF TakeInterrupt
  <1>3. /\ Sane(gw') /\ SameRows(gw, gw') /\ UplinkOK(gw', uplink) /\ HoldsOK(gw', holds)
        /\ Grows(gw, gw') /\ IsTurn(gw, t) /\ t \in Turns /\ t # None /\ ~Queued(gw', t)
        /\ s \in Sessions
    BY <1>1, <1>2, NextTaken
  <1>4. UplinkOK(gw', uplink')
    <2>1. IsTurn(gw', t)
      BY <1>3 DEF Grows
    <2>2. ASSUME NEW kind \in {"interrupted", "unknown_turn"}, Emit(Event(kind, s, t, {}))
          PROVE  UplinkOK(gw', uplink')
      <3>1. PICK e : e = Event(kind, s, t, {})
        OBVIOUS
      <3>2. e \in EventSet /\ e.turn = t
        BY <1>3, <3>1, EventIs
      <3>3. EventOK(gw', e)
        BY <1>3, <2>1, <3>2 DEF EventOK
      <3> QED
        BY <1>3, <2>2, <3>1, <3>2, <3>3, EmittedOK DEF Emit
    <2> QED
      BY <1>2, <1>3, <2>2
  <1>5. FreshOK(gw', used, preparing)
    BY <1>3, FreshStays DEF IInv, SameRows
  <1>6. /\ context' \in [Sessions -> SUBSET Messages] /\ sealed' \subseteq Turns /\ HoldsOK(gw', holds')
    <2>1. CASE holds[s] = t /\ Over(s)
      BY <1>3, <2>1 DEF IInv, AgentOK, HoldsOK, Over
    <2>2. CASE UNCHANGED <<holds, context, sealed>>
      BY <1>3, <2>2 DEF IInv, AgentOK
    <2> QED
      BY <1>2, <2>1, <2>2
  <1>7. IInv'
    BY <1>2, <1>3, <1>4, <1>5, <1>6 DEF IInv, AgentOK, memory, SameRows
  <1> QED
    BY <1>3, <1>7, IInvParts, WaitsWhenSafe DEF SameRows

LEMMA ProgressKeeps ==
    ASSUME IInv, Progress
    PROVE  IInv' /\ Waits(gw, gw')
  <1>1. PICK s \in Sessions, kind \in {"draft", "interim"} :
          /\ holds[s] # None /\ Use("frames", MaxFrames)
          /\ Emit(Event(kind, s, holds[s], IF kind = "interim" THEN context[s] ELSE {}))
          /\ UNCHANGED <<gw, memory, live, media, agent>>
    BY DEF Progress
  <1>2. PICK t, ms : t = holds[s] /\ ms = IF kind = "interim" THEN context[s] ELSE {}
    OBVIOUS
  <1>3. used' \in UsedSet /\ used'.sends = used.sends
    BY <1>1, Counts DEF IInv
  <1>4. t \in gw.acked /\ t \in Turns /\ IsTurn(gw, t) /\ ~Queued(gw, t)
    BY <1>1, <1>2, IInvParts, AckedIsTurn DEF IInv, HoldsOK
  <1>5. ms \in SUBSET Messages
    BY <1>2 DEF IInv, AgentOK
  <1>6. UplinkOK(gw, uplink')
    <2>1. PICK e : e = Event(kind, s, t, ms)
      OBVIOUS
    <2>2. e \in EventSet /\ e.turn = t /\ e.kind = kind
      BY <1>4, <1>5, <2>1, EventIs
    <2>3. EventOK(gw, e)
      BY <1>4, <2>2 DEF EventOK
    <2>4. uplink' = Append(uplink, e)
      BY <1>1, <1>2, <2>1 DEF Emit
    <2> QED
      BY <2>2, <2>3, <2>4, EmittedOK DEF IInv
  <1>7. FreshOK(gw, used', preparing)
    BY <1>3, FreshStays DEF IInv
  <1>8. IInv'
    BY <1>1, <1>3, <1>6, <1>7 DEF IInv, AgentOK, memory, agent
  <1> QED
    BY <1>1, <1>8, IInvParts, WaitsWhenSafe

LEMMA EndRunKeeps ==
    ASSUME IInv, EndRun
    PROVE  IInv' /\ Waits(gw, gw')
  <1>1. PICK s \in Sessions, kind \in {"commit", "failed"} :
          /\ holds[s] # None /\ Over(s)
          /\ Emit(Event(kind, s, holds[s], IF kind = "commit" THEN context[s] ELSE {}))
          /\ UNCHANGED <<gw, memory, live, media, declares, heard, used>>
    BY DEF EndRun
  <1>2. PICK t, ms : t = holds[s] /\ ms = IF kind = "commit" THEN context[s] ELSE {}
    OBVIOUS
  <1>3. t \in gw.acked /\ t \in Turns /\ IsTurn(gw, t) /\ ~Queued(gw, t)
    BY <1>1, <1>2, IInvParts, AckedIsTurn DEF IInv, HoldsOK
  <1>4. ms \in SUBSET Messages
    BY <1>2 DEF IInv, AgentOK
  <1>5. UplinkOK(gw, uplink')
    <2>1. PICK e : e = Event(kind, s, t, ms)
      OBVIOUS
    <2>2. e \in EventSet /\ e.turn = t /\ e.kind = kind
      BY <1>3, <1>4, <2>1, EventIs
    <2>3. EventOK(gw, e)
      BY <1>3, <2>2 DEF EventOK
    <2>4. uplink' = Append(uplink, e)
      BY <1>1, <1>2, <2>1 DEF Emit
    <2> QED
      BY <2>2, <2>3, <2>4, EmittedOK DEF IInv
  <1>6. context' \in [Sessions -> SUBSET Messages] /\ sealed' \subseteq Turns /\ HoldsOK(gw, holds')
    BY <1>1, <1>2, <1>3 DEF IInv, AgentOK, HoldsOK, Over
  <1>7. IInv'
    BY <1>1, <1>5, <1>6 DEF IInv, AgentOK, memory
  <1> QED
    BY <1>1, <1>7, IInvParts, WaitsWhenSafe

\* A step of the gateway that is safe for its rows and leaves the agent alone.
LEMMA SafeStepKeeps ==
    ASSUME IInv, Safe(gw, gw'), lost' \subseteq gw.acked, stopping' \subseteq Turns,
           UplinkOK(gw, uplink'), live' \in BOOLEAN, media' \in BOOLEAN,
           UNCHANGED <<preparing, agent, used>>
    PROVE  IInv' /\ Waits(gw, gw')
  <1>1. UplinkOK(gw', uplink') /\ HoldsOK(gw', holds)
    BY SafeGrows, StillSpokenOf DEF IInv
  <1>2. FreshOK(gw', used, preparing)
    BY FreshStays DEF IInv, Safe
  <1>3. IInv'
    BY <1>1, <1>2 DEF IInv, AgentOK, agent, Safe
  <1> QED
    BY <1>3, IInvParts, WaitsWhenSafe

LEMMA DeliverKeeps ==
    ASSUME IInv, Deliver
    PROVE  IInv' /\ Waits(gw, gw')
  <1>1. PICK e : e = Head(uplink)
    OBVIOUS
  <1>2. /\ uplink # <<>> /\ gw' = Handled(gw, e) /\ lost' \subseteq lost /\ stopping' \subseteq stopping
        /\ uplink' = Tail(uplink) /\ UNCHANGED <<preparing, live, media, agent, used>>
    BY <1>1 DEF Deliver
  <1>3. UplinkOK(gw, uplink') /\ e \in EventSet /\ EventOK(gw, e)
    BY <1>1, <1>2, DeliveredOK DEF IInv
  <1>4. Safe(gw, gw')
    BY <1>2, <1>3, IInvParts, HandledSafe
  <1>5. lost' \subseteq gw.acked /\ stopping' \subseteq Turns /\ live' \in BOOLEAN /\ media' \in BOOLEAN
    BY <1>2 DEF IInv, AgentOK
  <1> QED
    BY <1>2, <1>3, <1>4, <1>5, SafeStepKeeps

LEMMA DisconnectKeeps ==
    ASSUME IInv, Disconnect
    PROVE  IInv' /\ Waits(gw, gw')
  <1>1. /\ Use("absences", MaxAbsences) /\ live' = FALSE /\ lost' = lost \cup Reconcilable
        /\ UNCHANGED <<gw, stopping, preparing, media, agent, uplink>>
    BY DEF Disconnect
  <1>2. used' \in UsedSet /\ used'.sends = used.sends
    BY <1>1, Counts DEF IInv
  <1>3. FreshOK(gw, used', preparing)
    BY <1>2, FreshStays DEF IInv
  <1>4. lost' \subseteq gw.acked
    BY <1>1 DEF IInv, Reconcilable
  <1>5. IInv'
    BY <1>1, <1>2, <1>3, <1>4 DEF IInv, AgentOK, agent
  <1> QED
    BY <1>1, <1>5, IInvParts, WaitsWhenSafe

LEMMA HelloKeeps ==
    ASSUME IInv, Hello
    PROVE  IInv' /\ Waits(gw, gw')
  <1>1. PICK gone : gone = Reconcilable \ {holds[s] : s \in Sessions}
    OBVIOUS
  <1>2. /\ live' = TRUE /\ media' \in BOOLEAN
        /\ UNCHANGED <<preparing, agent, uplink, used>>
    BY DEF Hello
  <1>3. gone \subseteq gw.acked /\ Reconcilable \subseteq gw.acked
    BY <1>1 DEF Reconcilable
  <1>4. /\ gw' = gw \/ gw' = OwnersLost(gw, gone)
        /\ lost' \subseteq lost \cup Reconcilable /\ stopping' \subseteq stopping
    BY <1>1 DEF Hello
  <1>5. Safe(gw, gw')
    BY <1>3, <1>4, IInvParts, OwnersLostSafe
  <1>6. lost' \subseteq gw.acked /\ stopping' \subseteq Turns /\ UplinkOK(gw, uplink')
    BY <1>2, <1>3, <1>4 DEF IInv
  <1> QED
    BY <1>2, <1>5, <1>6, SafeStepKeeps

LEMMA AgentRestartKeeps ==
    ASSUME IInv, AgentRestart
    PROVE  IInv' /\ Waits(gw, gw')
  <1>1. /\ Use("losses", MaxLosses) /\ live' = FALSE /\ sealed' = {}
        /\ holds' = [s \in Sessions |-> None] /\ context' = [s \in Sessions |-> {}]
        /\ lost' \subseteq lost \cup Reconcilable
        /\ UNCHANGED <<gw, stopping, preparing, media, declares, heard, uplink>>
    BY DEF AgentRestart
  <1>2. used' \in UsedSet /\ used'.sends = used.sends
    BY <1>1, Counts DEF IInv
  <1>3. FreshOK(gw, used', preparing)
    BY <1>2, FreshStays DEF IInv
  <1>4. lost' \subseteq gw.acked
    BY <1>1 DEF IInv, Reconcilable
  <1>5. HoldsOK(gw, holds') /\ context' \in [Sessions -> SUBSET Messages]
    BY <1>1 DEF HoldsOK
  <1>6. IInv'
    BY <1>1, <1>2, <1>3, <1>4, <1>5 DEF IInv, AgentOK
  <1> QED
    BY <1>1, <1>6, IInvParts, WaitsWhenSafe

LEMMA GatewayRestartKeeps ==
    ASSUME IInv, GatewayRestart
    PROVE  IInv' /\ Waits(gw, gw')
  <1>1. /\ Use("restarts", MaxRestarts) /\ lost' = {} /\ stopping' = {} /\ preparing' = {}
        /\ live' = FALSE /\ UNCHANGED <<gw, media, agent, uplink>>
    BY DEF GatewayRestart
  <1>2. used' \in UsedSet /\ used'.sends = used.sends
    BY <1>1, Counts DEF IInv
  <1>3. FreshOK(gw, used', {})
    BY <1>2, FreshStays DEF IInv
  <1>4. IInv'
    BY <1>1, <1>2, <1>3 DEF IInv, AgentOK, agent
  <1> QED
    BY <1>1, <1>4, IInvParts, WaitsWhenSafe

\* The sweep looks at the turn of the selected conversation.
LEMMA SweptTurn ==
    ASSUME IInv, gw.active[gw.selected] # None
    PROVE  IsTurn(gw, gw.active[gw.selected])
  BY IInvParts DEF TurnsOK

LEMMA SweepKeeps ==
    ASSUME IInv, ReapUnowned \/ ReapStopped \/ ForgetOthers
    PROVE  IInv' /\ Waits(gw, gw')
  <1>1. PICK t : t = gw.active[gw.selected]
    OBVIOUS
  <1>2. /\ lost' \subseteq lost /\ stopping' \subseteq stopping
        /\ UNCHANGED <<preparing, live, media, agent, uplink, used>>
    BY DEF ReapUnowned, ReapStopped, ForgetOthers, Forget
  <1>3. /\ lost' \subseteq gw.acked /\ stopping' \subseteq Turns /\ live' \in BOOLEAN /\ media' \in BOOLEAN
        /\ UplinkOK(gw, uplink') /\ UNCHANGED <<preparing, agent, used>>
    BY <1>2 DEF IInv, AgentOK
  <1>4. CASE ReapUnowned
    <2>1. t \in gw.acked /\ gw' = OwnerLost(gw, t)
      BY <1>1, <1>4 DEF ReapUnowned, IInv
    <2>2. Safe(gw, gw')
      BY <2>1, IInvParts, AckedIsTurn, OwnerLostSafe
    <2> QED
      BY <1>3, <2>2, SafeStepKeeps
  <1>5. CASE ReapStopped
    <2>1. t \in Turns /\ gw' = Finished(gw, t, "interrupted")
      BY <1>1, <1>5 DEF ReapStopped, IInv
    <2>2. t # None
      BY <2>1, Constants
    <2>3. IsTurn(gw, t)
      BY <1>1, <2>2, SweptTurn
    <2>4. Safe(gw, gw')
      BY <2>1, <2>3, IInvParts, FinishedSafe DEF Ends
    <2> QED
      BY <1>3, <2>4, SafeStepKeeps
  <1>6. CASE ForgetOthers
    <2>1. gw' = gw
      BY <1>6 DEF ForgetOthers
    <2> QED
      BY <1>3, <2>1, IInvParts, SafeStepKeeps
  <1> QED
    BY <1>4, <1>5, <1>6

LEMMA ReapSilentKeeps ==
    ASSUME IInv, ReapSilent
    PROVE  IInv' /\ Waits(gw, gw')
  <1>1. PICK t : t = gw.active[gw.selected]
    OBVIOUS
  <1>2. /\ t # None /\ gw' = TimedOut(gw, t) /\ lost' \subseteq lost /\ stopping' \subseteq stopping
        /\ UNCHANGED <<preparing, live, media, agent, uplink, used>>
    BY <1>1 DEF ReapSilent, Forget
  <1>3. IsTurn(gw, t)
    BY <1>1, <1>2, SweptTurn
  <1>4. /\ Sane(gw') /\ Grows(gw, gw') /\ gw'.home = gw.home
        /\ gw'.selected = gw.selected /\ gw'.sessions = gw.sessions
        /\ \A u \in Turns : gw'.terminal[u] \in {gw.terminal[u], "timed_out"}
    BY <1>2, <1>3, IInvParts, TimedOutSane
  <1>5. UplinkOK(gw', uplink) /\ HoldsOK(gw', holds)
    BY <1>4, StillSpokenOf DEF IInv
  <1>6. FreshOK(gw', used, preparing)
    BY <1>4, FreshStays DEF IInv
  <1>7. lost' \subseteq gw'.acked /\ stopping' \subseteq Turns
    BY <1>2, <1>4 DEF IInv, Grows
  <1>8. IInv'
    BY <1>2, <1>4, <1>5, <1>6, <1>7 DEF IInv, AgentOK, agent
  <1>9. Waits(gw, gw')
    BY <1>4, IInvParts DEF Waits, TurnsOK
  <1> QED
    BY <1>8, <1>9

LEMMA NextKeeps ==
    ASSUME IInv, [Next]_vars
    PROVE  IInv' /\ Waits(gw, gw')
  <1>1. CASE UNCHANGED vars
    <2>1. IInv'
      BY <1>1 DEF IInv, AgentOK, vars, memory, agent
    <2>2. gw' = gw
      BY <1>1 DEF vars
    <2> QED
      BY <2>1, <2>2, IInvParts, WaitsWhenSafe
  <1>2. CASE Prepare \/ OpenTurn \/ Steer \/ Stop
    BY <1>2, PrepareKeeps, OpenTurnKeeps, SteerKeeps, StopKeeps
  <1>3. CASE AdoptSession \/ \E clear \in BOOLEAN : NewSession(clear)
    BY <1>3, AdoptSessionKeeps, NewSessionKeeps
  <1>4. CASE TakeTurn \/ DiscardTurn \/ TakeSteer \/ TakeInterrupt
    BY <1>4, TakeTurnKeeps, DiscardTurnKeeps, TakeSteerKeeps, TakeInterruptKeeps
  <1>5. CASE Progress \/ EndRun \/ Deliver
    BY <1>5, ProgressKeeps, EndRunKeeps, DeliverKeeps
  <1>6. CASE Disconnect \/ Hello \/ AgentRestart \/ GatewayRestart
    BY <1>6, DisconnectKeeps, HelloKeeps, AgentRestartKeeps, GatewayRestartKeeps
  <1>7. CASE ReapUnowned \/ ReapStopped \/ ReapSilent \/ ForgetOthers
    BY <1>7, SweepKeeps, ReapSilentKeeps
  <1> QED
    BY <1>1, <1>2, <1>3, <1>4, <1>5, <1>6, <1>7 DEF Next

LEMMA InitHolds ==
    ASSUME Init
    PROVE  IInv
  <1>1. /\ gw \in Gateways /\ gw.outbox = <<>> /\ gw.acked = {} /\ gw.steers = {} /\ gw.promoted = {}
        /\ gw.noted = {} /\ gw.selected = 1 /\ gw.sessions = 1
        /\ \A m \in Messages : gw.home[m] = None /\ gw.pending[m] = None
        /\ \A s \in Sessions : gw.active[s] = None
        /\ \A t \in Turns : gw.terminal[t] = "none"
    BY Constants DEF Init, Gateways
  <1>2. \A c : ~Has(gw.outbox, c)
    BY <1>1 DEF Has
  <1>3. \A t : ~Queued(gw, t) /\ ~Carried(gw, t)
    BY <1>1, <1>2, QueuedIsHas DEF Carried
  <1>4. TurnsOK(gw)
    BY <1>1, <1>3 DEF TurnsOK
  <1>5. SteersOK(gw)
    BY <1>1 DEF SteersOK
  <1>6. InOrder(gw.outbox)
    BY <1>1 DEF InOrder
  <1>7. OutboxOK(gw)
    BY <1>2, <1>6 DEF OutboxOK
  <1>8. used \in UsedSet /\ used.sends = 0
    BY DEF Init, UsedSet
  <1>9. FreshOK(gw, used, preparing)
    BY <1>1, <1>8, Constants DEF Init, FreshOK
  <1>10. HoldsOK(gw, holds) /\ AgentOK
    BY DEF Init, HoldsOK, AgentOK
  <1>11. UplinkOK(gw, uplink)
    BY DEF Init, UplinkOK
  <1> QED
    BY <1>1, <1>4, <1>5, <1>7, <1>8, <1>9, <1>10, <1>11 DEF IInv, Sane, Init

\* The inductive invariant holds in every state of every behaviour.
THEOREM InvariantHolds == Spec => []IInv
  <1>1. Init => IInv
    BY InitHolds
  <1>2. IInv /\ [Next]_vars => IInv'
    BY NextKeeps
  <1> QED
    BY <1>1, <1>2, PTL DEF Spec

\* TypeOK: every variable of NativeTurns keeps its type.
THEOREM TypeCorrect == Spec => []TypeOK
  <1>1. ASSUME IInv PROVE TypeOK
    <2>1. gw \in Gateways /\ gw.selected <= gw.sessions
      BY <1>1 DEF IInv, Sane
    <2>2. gw.selected \in 1..gw.sessions /\ gw.sessions \in Sessions
      BY <2>1, Constants DEF Gateways
    <2>3. preparing \subseteq Messages \X Sessions
      BY <1>1 DEF IInv, FreshOK
    <2>4. lost \subseteq Turns /\ stopping \subseteq Turns /\ sealed \subseteq Turns
      BY <1>1, <2>1 DEF IInv, AgentOK, Gateways
    <2>5. /\ live \in BOOLEAN /\ media \in BOOLEAN /\ declares \in BOOLEAN
          /\ context \in [Sessions -> SUBSET Messages] /\ heard \subseteq Messages
          /\ holds \in [Sessions -> {None} \cup Turns] /\ uplink \in Seq(EventSet)
      BY <1>1 DEF IInv, AgentOK, HoldsOK, UplinkOK
    <2>6. /\ gw.home \in [Messages -> {None} \cup Sessions] /\ gw.active \in [Sessions -> {None} \cup Turns]
          /\ gw.outbox \in Seq(CommandSet) /\ gw.acked \subseteq Turns
          /\ gw.pending \in [Messages -> {None} \cup Turns]
          /\ gw.terminal \in [Turns -> {"none", "completed", "failed", "interrupted", "timed_out"}]
          /\ gw.steers \subseteq Messages /\ gw.promoted \subseteq Messages
          /\ gw.noted \subseteq Messages /\ gw.answered \subseteq Messages
      BY <2>1 DEF Gateways
    <2> QED
      BY <2>2, <2>3, <2>4, <2>5, <2>6 DEF TypeOK, CommandSet, EventSet
  <1> QED
    BY <1>1, InvariantHolds, PTL

\* NoTurnIsDropped: a turn the gateway carries is its conversation's active turn
\* until it has a terminal.
THEOREM TurnsAreKept == Spec => []NoTurnIsDropped
  <1>1. IInv => NoTurnIsDropped
    BY IInvParts DEF TurnsOK, NoTurnIsDropped
  <1> QED
    BY <1>1, InvariantHolds, PTL

\* SteersCountOnce: no message is asked twice at a time, and a steer that was made
\* a turn or noted has no row left that would promote it again.
THEOREM SteersAreCountedOnce == Spec => []SteersCountOnce
  <1>1. ASSUME IInv PROVE SteersCountOnce
    <2>1. gw \in Gateways /\ SteersOK(gw) /\ InOrder(gw.outbox) /\ gw.outbox \in Seq(CommandSet)
      BY <1>1, IInvParts DEF OutboxOK, Gateways
    <2>2. DOMAIN gw.outbox = 1..Len(gw.outbox)
      BY <2>1, LenProperties
    <2>3. \A i, j \in DOMAIN gw.outbox :
            gw.outbox[i].msg # None /\ gw.outbox[i].msg = gw.outbox[j].msg => i = j
      BY <2>1, <2>2 DEF InOrder
    <2>4. gw.promoted \cap gw.noted = {} /\ \A m \in gw.promoted \cup gw.noted : gw.pending[m] = None
      BY <2>1 DEF SteersOK, Gateways
    <2> QED
      BY <2>3, <2>4 DEF SteersCountOnce
  <1> QED
    BY <1>1, InvariantHolds, PTL

\* QueuedTurnsWait: no step seals a turn whose command is still queued as failed.
THEOREM QueuedTurnsAreKept == Spec => QueuedTurnsWait
  <1>1. IInv /\ [Next]_vars => [\A t \in Turns : Queued(gw, t) => gw'.terminal[t] # "failed"]_vars
    BY NextKeeps DEF Waits
  <1> QED
    BY <1>1, InvariantHolds, PTL DEF Spec, QueuedTurnsWait
=============================================================================
