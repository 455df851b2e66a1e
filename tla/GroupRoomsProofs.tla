-------------------------- MODULE GroupRoomsProofs --------------------------
(***************************************************************************)
(* Proofs about GroupRooms for any number of members, rounds, posts,       *)
(* messages, lives and restarts.                                           *)
(***************************************************************************)
EXTENDS GroupRooms, TLAPS, FiniteSetTheorems, SequenceTheorems

EntrySet == [by : Member \cup {User}, thread : Thread, names : SUBSET Member, turn : Nat]
RoomSet == [exists : {TRUE}, epoch : Nat, log : Seq(EntrySet), watermark : [Member -> Nat],
            marks : [Thread -> [Member -> Nat]], holds : SUBSET Member,
            held : [Member -> SUBSET Nat], queue : Seq(Thread)]
MetaSet == [marks : [Thread -> [Member -> Nat]], holds : SUBSET Member,
            held : [Member -> SUBSET Nat]]
TurnSet == [member : Member, epoch : Nat, cause : Nat, purpose : {"group", "compress"},
            watermark : Nat, life : Nat \ {0}, state : {"pending", "spoke", "quiet"},
            answered : BOOLEAN, consumed : BOOLEAN, resettled : BOOLEAN]
DriveSet == [life : Nat \ {0}, epoch : Nat, thread : Thread,
             at : {"waiting", "member", "checking", "turn", "over"},
             round : 0..(MaxRounds - 1), posted : 0..MaxPosts, spoke : Nat,
             left : Seq(Member), turn : Nat, upto : Nat, replay : SUBSET Nat,
             seen : {NoRoom} \cup MetaSet]
UsedSet == [sends : Nat, replies : Nat, acts : Nat]

\* The turn had a further event before its reply was claimed.
Again(row) == row.resettled = TRUE

\* The posts of turns in a log: each of a turn that spoke, and unless the turn was settled
\* again, of this life and once.
PostsOK(log, ts, l) ==
  \A s \in 1..Len(log) : log[s].turn # 0 =>
    /\ log[s].turn \in 1..Len(ts) /\ ts[log[s].turn].state = "spoke"
    /\ ts[log[s].turn].purpose = "group"
    /\ \/ Again(ts[log[s].turn])
       \/ /\ ts[log[s].turn].life = l
          /\ \A q \in 1..Len(log) : log[q].turn = log[s].turn => q = s

RoomOK(r, ts, l) ==
  \/ r = NoRoom
  \/ r \in RoomSet /\ IsInjective(r.queue) /\ PostsOK(r.log, ts, l)

\* A pending turn is one of the room that is there, and nobody has answered it.
TurnOK(row, r, l) ==
  /\ row.life <= l
  /\ row.state = "pending" => r.exists /\ row.life = l /\ ~row.answered /\ ~row.consumed
  /\ row.state = "spoke" => row.answered
TurnsOK(ts, r, l) == ts \in Seq(TurnSet) /\ \A t \in 1..Len(ts) : TurnOK(ts[t], r, l)

Unposted(r, t) == \A s \in 1..Len(r.log) : r.log[s].turn # t
\* A reply to t may be appended without a second post that has no excuse.
MayPost(r, ts, t) == Unposted(r, t) \/ Again(ts[t])

\* A drive that waits: its room is there and its turn may be posted, or the room it was
\* begun in is gone and nobody replied.
Hopes(d, ts, r, l) ==
  IF d.life = l THEN r.exists /\ MayPost(r, ts, d.turn) ELSE ts[d.turn].state # "spoke"

DriveOK(d, ts, r, l) ==
  /\ d.life <= l /\ d.spoke + Len(d.left) <= NumMembers
  /\ d.at \in {"checking", "turn"} => d.left # <<>> /\ d.posted < MaxPosts
  /\ d.at = "checking" => d.seen \in MetaSet
  /\ d.at # "checking" => d.seen = NoRoom
  /\ d.at # "turn" => d.turn = 0
  /\ d.at = "turn" =>
       /\ d.turn \in 1..Len(ts) /\ ts[d.turn].life = d.life /\ ts[d.turn].purpose = "group"
       /\ Hopes(d, ts, r, l)
ChainOK(ch, ts, r, l) ==
  /\ ch \in Seq(DriveSet)
  /\ \A i \in 1..Len(ch) : DriveOK(ch[i], ts, r, l) /\ (i > 1 => ch[i].at = "waiting")

CompressOK(c, ts) ==
  \/ c = NoCompress
  \/ /\ c \in [turn : Nat \ {0}, life : Nat \ {0}] /\ c.turn <= Len(ts)
     /\ ts[c.turn].purpose = "compress" /\ ts[c.turn].life = c.life

DraftsOK(ds, ts, l) ==
  /\ ds \subseteq 1..Len(ts)
  /\ \A t \in ds : ts[t].purpose = "group" /\ (ts[t].state = "pending" \/ ts[t].life # l)

\* Somebody waits for t.
Waits(ch, c, t) == (ch # <<>> /\ ch[1].at = "turn" /\ ch[1].turn = t) \/ c.turn = t
\* A turn of which something is still to come: its answer, or the post of its reply.
Open(row) ==
  row.state = "pending" \/ (row.state = "spoke" /\ row.purpose = "group" /\ row.consumed = FALSE)
LoopsOK(ts, ds, inh, ch, c) ==
  \A t \in 1..Len(ts) : Open(ts[t]) \/ t \in ds => t <= inh \/ Waits(ch, c, t)

QueueOK(q) == q = Unset \/ (q \in Seq(Thread) /\ IsInjective(q))

\* Threads of the room are queued only while a loop is there.
IdleOK(q, r, ch, c) ==
  r.exists /\ ch = <<>> /\ c = NoCompress =>
    \A s \in 1..Len(r.log) : r.log[s].thread # 0 => ~Contains(q, r.log[s].thread)

CountsOK == used \in UsedSet /\ used.acts <= MaxActs /\ life \in Nat \ {0} /\ life <= used.acts + 1

IInv ==
  /\ CountsOK /\ RoomOK(room, turns, life) /\ TurnsOK(turns, room, life)
  /\ ChainOK(chain, turns, room, life) /\ CompressOK(compress, turns)
  /\ DraftsOK(drafts, turns, life) /\ LoopsOK(turns, drafts, inherited, chain, compress)
  /\ inherited \in 0..Len(turns) /\ QueueOK(queue) /\ IdleOK(queue, room, chain, compress)

------------------------------------------------------------------------------
(* Data.                                                                       *)

LEMMA Constants ==
    /\ NumMembers \in Nat \ {0} /\ MaxRounds \in Nat \ {0} /\ MaxPosts \in Nat \ {0}
    /\ MaxSends \in Nat /\ MaxReplies \in Nat /\ MaxActs \in Nat
    /\ Member = 1..NumMembers /\ Thread = 0..MaxSends /\ User = 0
    /\ 0 \in Thread /\ Member \subseteq Nat /\ Thread \subseteq Nat
    /\ \A msg \in UserMessages : msg.names \subseteq Member
  BY RoomAssumption DEF Member, Thread, User

\* Ascending lists a finite set of numbers, smallest first: counting the numbers
\* up to n is an injection into 1..Cardinality(ns), and so onto.
LEMMA AscendingLists ==
    ASSUME NEW ns \in SUBSET Nat, IsFiniteSet(ns)
    PROVE  /\ Cardinality(ns) \in Nat /\ Ascending(ns) \in Seq(ns)
           /\ Len(Ascending(ns)) = Cardinality(ns) /\ DOMAIN Ascending(ns) = 1..Cardinality(ns)
           /\ \A i, j \in 1..Len(Ascending(ns)) : i < j => Ascending(ns)[i] < Ascending(ns)[j]
           /\ \A n \in ns : \E i \in 1..Len(Ascending(ns)) : Ascending(ns)[i] = n
  <1> DEFINE UpTo(n) == {k \in ns : k <= n}
             rank == [n \in ns |-> Cardinality(UpTo(n))]
             size == Cardinality(ns)
  <1>1. size \in Nat
    BY FS_CardinalityType
  <1>2. \A n \in ns : IsFiniteSet(UpTo(n)) /\ Cardinality(UpTo(n)) \in 1..size
    <2> SUFFICES ASSUME NEW n \in ns PROVE IsFiniteSet(UpTo(n)) /\ Cardinality(UpTo(n)) \in 1..size
      OBVIOUS
    <2>1. UpTo(n) \in SUBSET ns /\ n \in UpTo(n)
      OBVIOUS
    <2>2. IsFiniteSet(UpTo(n)) /\ Cardinality(UpTo(n)) <= size
      BY <2>1, FS_Subset
    <2>3. Cardinality(UpTo(n)) \in Nat /\ Cardinality(UpTo(n)) # 0
      BY <2>1, <2>2, FS_CardinalityType, FS_EmptySet
    <2> QED
      BY <1>1, <2>2, <2>3
  <1>3. \A m, n \in ns : m < n => rank[m] < rank[n]
    <2> SUFFICES ASSUME NEW m \in ns, NEW n \in ns, m < n PROVE rank[m] < rank[n]
      OBVIOUS
    <2>1. m \in Nat /\ n \in Nat /\ \A k \in ns : k \in Nat
      OBVIOUS
    <2>2. \A k \in ns : k <= m => k <= n
      BY <2>1
    <2>3. UpTo(m) \in SUBSET UpTo(n)
      BY <2>2
    <2>4. n \in UpTo(n) /\ n \notin UpTo(m)
      BY <2>1
    <2>6. Cardinality(UpTo(m)) <= Cardinality(UpTo(n)) /\ Cardinality(UpTo(m)) # Cardinality(UpTo(n))
      BY <1>2, <2>3, <2>4, FS_Subset
    <2>5. Cardinality(UpTo(m)) \in Nat /\ Cardinality(UpTo(n)) \in Nat
      BY <1>1, <1>2
    <2> QED
      BY <2>6, <2>5
  <1>4. rank \in [ns -> 1..size]
    BY <1>2
  <1>5. \A m, n \in ns : rank[m] <= rank[n] => m <= n
    <2> HIDE DEF rank
    <2> SUFFICES ASSUME NEW m \in ns, NEW n \in ns, rank[m] <= rank[n], ~(m <= n) PROVE FALSE
      OBVIOUS
    <2>1. n < m
      OBVIOUS
    <2>2. rank[n] < rank[m] /\ rank[n] \in Nat /\ rank[m] \in Nat
      BY <1>1, <1>3, <1>4, <2>1
    <2> QED
      BY <2>2
  <1>6. rank \in Surjection(ns, 1..size)
    <2> HIDE DEF rank
    <2>1. \A m, n \in ns : rank[m] = rank[n] => m = n
      BY <1>1, <1>4, <1>5
    <2>2. rank \in Injection(ns, 1..size)
      BY <1>4, <2>1 DEF Injection, IsInjective
    <2>3. IsFiniteSet(1..size) /\ Cardinality(1..size) = size
      BY <1>1, FS_Interval
    <2> HIDE DEF size
    <2> QED
      BY <2>2, <2>3, FS_Injection DEF size
  <1>7. \A i \in 1..size : \E n \in ns : rank[n] = i
    BY <1>6 DEF Surjection
  <1>8. Ascending(ns) = [i \in 1..size |-> CHOOSE n \in ns : Cardinality(UpTo(n)) = i]
    BY DEF Ascending
  <1>9. \A i \in 1..size : Ascending(ns)[i] \in ns /\ rank[Ascending(ns)[i]] = i
    <2> SUFFICES ASSUME NEW i \in 1..size
                 PROVE  Ascending(ns)[i] \in ns /\ rank[Ascending(ns)[i]] = i
      OBVIOUS
    <2>1. \E n \in ns : Cardinality(UpTo(n)) = i
      BY <1>7
    <2>2. Ascending(ns)[i] = CHOOSE n \in ns : Cardinality(UpTo(n)) = i
      BY <1>8
    <2>3. Ascending(ns)[i] \in ns /\ Cardinality(UpTo(Ascending(ns)[i])) = i
      BY <2>1, <2>2
    <2> QED
      BY <2>3
  <1> HIDE DEF rank, size
  <1>10. Ascending(ns) \in [1..size -> ns]
    BY <1>8, <1>9
  <1>11. Ascending(ns) \in Seq(ns) /\ Len(Ascending(ns)) = size /\ DOMAIN Ascending(ns) = 1..size
    BY <1>1, <1>10
  <1>12. \A i, j \in 1..size : i < j => Ascending(ns)[i] < Ascending(ns)[j]
    <2> SUFFICES ASSUME NEW i \in 1..size, NEW j \in 1..size, i < j
                 PROVE  Ascending(ns)[i] < Ascending(ns)[j]
      OBVIOUS
    <2> DEFINE a == Ascending(ns)[i]
               b == Ascending(ns)[j]
    <2>1. a \in ns /\ b \in ns /\ rank[a] = i /\ rank[b] = j
      BY <1>9
    <2> HIDE DEF a, b
    <2>2. ~(b <= a) \/ a = b
      BY <1>3, <1>1, <2>1
    <2>3. a # b
      BY <1>1, <2>1
    <2>4. a < b
      BY <2>1, <2>2, <2>3
    <2> QED
      BY <2>4 DEF a, b
  <1>13. \A n \in ns : \E i \in 1..size : Ascending(ns)[i] = n
    <2> SUFFICES ASSUME NEW n \in ns PROVE Ascending(ns)[rank[n]] = n /\ rank[n] \in 1..size
      OBVIOUS
    <2>1. rank[n] \in 1..size
      BY <1>4
    <2>2. Ascending(ns)[rank[n]] \in ns /\ rank[Ascending(ns)[rank[n]]] = rank[n]
      BY <1>9, <2>1
    <2> DEFINE a == Ascending(ns)[rank[n]]
    <2>3. a \in ns /\ rank[a] = rank[n]
      BY <2>2
    <2> HIDE DEF a
    <2>4. rank[n] <= rank[a] /\ rank[a] <= rank[n]
      BY <1>1, <2>1, <2>3
    <2>5. n <= a /\ a <= n /\ a \in Nat /\ n \in Nat
      BY <1>5, <2>3, <2>4
    <2>6. a = n
      BY <2>5
    <2> QED
      BY <2>1, <2>6 DEF a
  <1> QED
    BY <1>1, <1>11, <1>12, <1>13 DEF size

LEMMA LargestIs ==
    ASSUME NEW S \in SUBSET Nat, IsFiniteSet(S), NEW floor \in Nat
    PROVE  /\ Largest(S, floor) \in S \cup {floor} /\ Largest(S, floor) \in Nat
           /\ \A x \in S \cup {floor} : x <= Largest(S, floor)
  <1> DEFINE T == S \cup {floor}
             a == Ascending(T)
             n == Cardinality(T)
  <1>1. T \in SUBSET Nat /\ IsFiniteSet(T) /\ T # {}
    BY FS_AddElement
  <1>2. n \in Nat /\ a \in Seq(T) /\ Len(a) = n
    BY <1>1, AscendingLists
  <1>3. \A i, j \in 1..n : i < j => a[i] < a[j]
    BY <1>1, <1>2, AscendingLists
  <1>4. \A x \in T : \E i \in 1..n : a[i] = x
    BY <1>1, <1>2, AscendingLists
  <1> HIDE DEF a, n, T
  <1>5. n \in 1..n
    <2>1. PICK x \in T : TRUE
      BY <1>1
    <2>2. PICK i \in 1..n : a[i] = x
      BY <1>4
    <2> QED
      BY <1>2, <2>2
  <1>6. a[n] \in T /\ a[n] \in Nat
    <2>1. a[n] \in T
      BY <1>2, <1>5
    <2>2. \A x \in T : x \in Nat
      BY <1>1
    <2> QED
      BY <2>1, <2>2
  <1>7. \A x \in T : x <= a[n]
    <2> SUFFICES ASSUME NEW x \in T PROVE x <= a[n]
      OBVIOUS
    <2>1. PICK i \in 1..n : a[i] = x
      BY <1>4
    <2>2. CASE i = n
      BY <1>6, <2>1, <2>2
    <2>3. CASE i # n
      <3>1. i < n
        BY <1>2, <2>3
      <3>2. a[i] < a[n] /\ x \in Nat
        BY <1>1, <1>3, <1>5, <3>1
      <3> QED
        BY <1>6, <2>1, <3>2
    <2> QED
      BY <2>2, <2>3
  <1>8. \A x \in T : a[n] >= x
    BY <1>1, <1>6, <1>7
  <1>9. Max(T) \in T /\ \A x \in T : Max(T) >= x
    BY <1>6, <1>8 DEF Max
  <1>10. Largest(S, floor) = Max(T)
    BY DEF Largest, T
  <1>11. \A x \in T : x \in Nat
    BY <1>1
  <1> QED
    BY <1>9, <1>10, <1>11 DEF T

\* A round gives every responder one place.
LEMMA RotatedIs ==
    ASSUME NEW S \in SUBSET Member, NEW round \in Nat
    PROVE  Rotated(S, round) \in Seq(Member) /\ Len(Rotated(S, round)) <= NumMembers
  <1> DEFINE order == Ascending(S)
             k == IF order = <<>> THEN 0 ELSE round % Len(order)
  <1>1. S \in SUBSET Nat /\ IsFiniteSet(S) /\ Cardinality(S) <= NumMembers
    <2>1. IsFiniteSet(Member) /\ Cardinality(Member) = NumMembers
      BY Constants, FS_Interval
    <2> QED
      BY <2>1, Constants, FS_Subset
  <1>2. order \in Seq(S) /\ Len(order) = Cardinality(S) /\ Cardinality(S) \in Nat
    BY <1>1, AscendingLists
  <1>3. Rotated(S, round) = SubSeq(order, k + 1, Len(order)) \o SubSeq(order, 1, k)
    BY DEF Rotated
  <1> HIDE DEF order
  <1>4. k \in 0..Len(order)
    <2>1. CASE order = <<>>
      BY <1>2, <2>1
    <2>2. CASE order # <<>>
      <3>1. Len(order) \in Nat /\ Len(order) > 0
        BY <1>2, <2>2
      <3>2. round % Len(order) \in 0..(Len(order) - 1)
        BY <3>1
      <3> QED
        BY <2>2, <3>1, <3>2
    <2> QED
      BY <2>1, <2>2
  <1> HIDE DEF k
  <1>5. order \in Seq(Member)
    BY <1>2
  <1> DEFINE u == SubSeq(order, k + 1, Len(order))
             v == SubSeq(order, 1, k)
  <1>6. u \in Seq(Member) /\ Len(u) = Len(order) - k
    BY <1>4, <1>5
  <1>7. v \in Seq(Member) /\ Len(v) = k
    BY <1>4, <1>5
  <1> HIDE DEF u, v
  <1>8. u \o v \in Seq(Member) /\ Len(u \o v) = Len(order)
    BY <1>4, <1>6, <1>7
  <1> QED
    BY <1>1, <1>2, <1>3, <1>8 DEF u, v

LEMMA EntriesIs ==
    ASSUME NEW r \in RoomSet, NEW thread
    PROVE  /\ Entries(r, thread) \in SUBSET Nat /\ IsFiniteSet(Entries(r, thread))
           /\ Entries(r, thread) \subseteq 1..Len(r.log)
  <1>1. r.log \in Seq(EntrySet)
    BY DEF RoomSet
  <1>2. Entries(r, thread) \subseteq 1..Len(r.log)
    BY <1>1 DEF Entries
  <1>3. Len(r.log) \in Nat /\ IsFiniteSet(1..Len(r.log))
    BY <1>1, FS_Interval
  <1> QED
    BY <1>2, <1>3, FS_Subset

LEMMA RespondersIs ==
    ASSUME NEW r \in RoomSet, NEW thread
    PROVE  Responders(r, thread) \in SUBSET Member
  <1>1. r.log \in Seq(EntrySet)
    BY DEF RoomSet
  <1>2. \A s \in Entries(r, thread) : r.log[s].names \subseteq Member
    <2> SUFFICES ASSUME NEW s \in Entries(r, thread) PROVE r.log[s].names \subseteq Member
      OBVIOUS
    <2>1. r.log[s] \in EntrySet
      BY <1>1 DEF Entries
    <2> QED
      BY <2>1 DEF EntrySet
  <1> QED
    BY <1>2 DEF Responders

LEMMA MetaIs ==
    ASSUME NEW r \in RoomSet
    PROVE  Meta(r) \in MetaSet
  BY DEF Meta, MetaSet, RoomSet

LEMMA MarkIs ==
    ASSUME NEW meta \in MetaSet, NEW r \in RoomSet, NEW thread \in Thread, NEW m \in Member
    PROVE  Mark(meta, r, thread, m) \in Nat
  BY DEF Mark, MetaSet, RoomSet

\* What a change of the room that leaves its log and queue alone may touch.
Same(r, h) == /\ h \in RoomSet /\ h.log = r.log /\ h.queue = r.queue /\ h.epoch = r.epoch

LEMMA SetMarkIs ==
    ASSUME NEW r \in RoomSet, NEW thread \in Thread, NEW m \in Member, NEW seq \in Nat
    PROVE  Same(r, SetMark(r, thread, m, seq))
  <1> DEFINE w == IF thread = 0 \/ seq > r.watermark[m]
                  THEN [r EXCEPT !.watermark[m] = seq] ELSE r
  <1>1. w \in RoomSet /\ w.log = r.log /\ w.queue = r.queue /\ w.epoch = r.epoch
    <2>1. CASE thread = 0 \/ seq > r.watermark[m]
      <3> DEFINE wm == [r.watermark EXCEPT ![m] = seq]
      <3>1. w = [r EXCEPT !.watermark = wm]
        BY <2>1 DEF RoomSet
      <3>2. wm \in [Member -> Nat]
        BY DEF RoomSet
      <3> HIDE DEF w, wm
      <3> QED
        BY <3>1, <3>2 DEF RoomSet
    <2>2. CASE ~(thread = 0 \/ seq > r.watermark[m])
      BY <2>2
    <2> QED
      BY <2>1, <2>2
  <1> HIDE DEF w
  <1>2. CASE thread = 0
    BY <1>1, <1>2 DEF SetMark, Same, w
  <1>3. CASE thread # 0
    <2> DEFINE old == w.marks[thread][m]
               new == Largest({seq}, old)
               mk == [w.marks EXCEPT ![thread] = [@ EXCEPT ![m] = new]]
    <2>1. old \in Nat /\ w.marks \in [Thread -> [Member -> Nat]]
      BY <1>1 DEF RoomSet
    <2>2. IsFiniteSet({seq}) /\ {seq} \in SUBSET Nat
      BY FS_Singleton
    <2>3. new \in Nat
      BY <2>1, <2>2, LargestIs
    <2>4. SetMark(r, thread, m, seq) = [w EXCEPT !.marks = mk]
      BY <1>3 DEF SetMark, w
    <2> HIDE DEF new
    <2>5. mk \in [Thread -> [Member -> Nat]]
      BY <2>1, <2>3
    <2> HIDE DEF mk
    <2> QED
      BY <1>1, <2>4, <2>5 DEF RoomSet, Same
  <1> QED
    BY <1>2, <1>3

\* h is r with the entry e.
Grown(r, h, e) ==
  /\ h \in RoomSet /\ h.queue = r.queue /\ h.epoch = r.epoch /\ Len(h.log) = Len(r.log) + 1
  /\ Len(h.log) \in Nat /\ h.log[Len(h.log)] = e /\ \A s \in 1..Len(r.log) : h.log[s] = r.log[s]
Entry(by, thread, names, turn) == [by |-> by, thread |-> thread, names |-> names, turn |-> turn]

LEMMA AppendEntryIs ==
    ASSUME NEW r \in RoomSet, NEW by \in Member \cup {User}, NEW thread \in Thread,
           NEW names \in SUBSET Member, NEW turn \in Nat,
           NEW h, h = AppendEntry(r, by, thread, names, turn)
    PROVE  /\ Grown(r, h, Entry(by, thread, names, turn))
           /\ Entry(by, thread, names, turn) \in EntrySet /\ Entry(by, thread, names, turn).turn = turn
           /\ Entry(by, thread, names, turn).thread = thread
  <1>1. Entry(by, thread, names, turn) \in EntrySet
    BY DEF Entry, EntrySet
  <1>2. PICK e : e = Entry(by, thread, names, turn)
    OBVIOUS
  <1>3. h = [r EXCEPT !.log = Append(r.log, e)]
    BY <1>2 DEF AppendEntry, Entry
  <1>4. PICK lg : lg = Append(r.log, e)
    OBVIOUS
  <1>5. r.log \in Seq(EntrySet)
    BY DEF RoomSet
  <1>6. /\ lg \in Seq(EntrySet) /\ Len(lg) = Len(r.log) + 1 /\ Len(lg) \in Nat /\ lg[Len(lg)] = e
        /\ \A s \in 1..Len(r.log) : lg[s] = r.log[s]
    BY <1>1, <1>2, <1>4, <1>5
  <1>7. h = [r EXCEPT !.log = lg]
    BY <1>3, <1>4
  <1>8. h \in RoomSet /\ h.log = lg /\ h.queue = r.queue /\ h.epoch = r.epoch
    BY <1>6, <1>7 DEF RoomSet
  <1> QED
    BY <1>1, <1>2, <1>4, <1>6, <1>8 DEF Grown, Entry

------------------------------------------------------------------------------
(* Posts and turns.                                                            *)

\* What every step keeps of the turns.
TurnsKept(ts, us) ==
  /\ Len(ts) <= Len(us)
  /\ \A t \in 1..Len(ts) : /\ us[t].life = ts[t].life /\ us[t].purpose = ts[t].purpose
                           /\ ts[t].state # "pending" => us[t].state = ts[t].state
                           /\ Again(ts[t]) => Again(us[t])

LEMMA KeptReflexive ==
    ASSUME NEW ts \in Seq(TurnSet)
    PROVE  TurnsKept(ts, ts)
  BY DEF TurnsKept

\* What PostsOK says of the post at s.
PostOK(log, ts, l, s) ==
  /\ log[s].turn \in 1..Len(ts) /\ ts[log[s].turn].state = "spoke"
  /\ ts[log[s].turn].purpose = "group"
  /\ \/ Again(ts[log[s].turn])
     \/ /\ ts[log[s].turn].life = l
        /\ \A q \in 1..Len(log) : log[q].turn = log[s].turn => q = s

LEMMA PostsStay ==
    ASSUME NEW log \in Seq(EntrySet), NEW ts \in Seq(TurnSet), NEW us \in Seq(TurnSet), NEW l,
           PostsOK(log, ts, l), TurnsKept(ts, us)
    PROVE  PostsOK(log, us, l)
  <1> SUFFICES ASSUME NEW s \in 1..Len(log), log[s].turn # 0
               PROVE  PostOK(log, us, l, s)
    BY DEF PostsOK, PostOK
  <1>1. PostOK(log, ts, l, s)
    BY DEF PostsOK, PostOK
  <1>2. Len(ts) \in Nat /\ Len(us) \in Nat /\ Len(ts) <= Len(us)
    BY DEF TurnsKept
  <1>3. PICK t : t = log[s].turn
    OBVIOUS
  <1>4. t \in 1..Len(ts) /\ t \in 1..Len(us)
    BY <1>1, <1>2, <1>3 DEF PostOK
  <1>5. /\ us[t].state = "spoke" /\ us[t].life = ts[t].life /\ us[t].purpose = "group"
        /\ Again(ts[t]) => Again(us[t])
    BY <1>1, <1>3, <1>4 DEF TurnsKept, PostOK
  <1> QED
    BY <1>1, <1>3, <1>4, <1>5 DEF PostOK

\* An entry that is no turn's reply, or the reply of a turn that has none.
LEMMA PostsGrow ==
    ASSUME NEW r \in RoomSet, NEW h, NEW e, Grown(r, h, e), NEW ts \in Seq(TurnSet), NEW l,
           PostsOK(r.log, ts, l), NEW t, e.turn = t,
           t # 0 => /\ t \in 1..Len(ts) /\ ts[t].state = "spoke" /\ ts[t].purpose = "group"
                    /\ Again(ts[t]) \/ (ts[t].life = l /\ Unposted(r, t))
    PROVE  /\ PostsOK(h.log, ts, l)
           /\ \A u : Unposted(r, u) /\ u # t => Unposted(h, u)
  <1>0. /\ h \in RoomSet /\ Len(h.log) = Len(r.log) + 1 /\ \A s \in 1..Len(r.log) : h.log[s] = r.log[s]
        /\ h.log[Len(h.log)].turn = t
    BY DEF Grown
  <1>1. r.log \in Seq(EntrySet) /\ h.log \in Seq(EntrySet) /\ Len(r.log) \in Nat
    BY <1>0 DEF RoomSet
  <1>2. \A s \in 1..Len(h.log) : s \in 1..Len(r.log) \/ s = Len(h.log)
    BY <1>0, <1>1
  <1>3. \A u : Unposted(r, u) /\ u # t => Unposted(h, u)
    BY <1>0, <1>1, <1>2 DEF Unposted
  <1>4. ASSUME NEW s \in 1..Len(h.log), h.log[s].turn # 0
        PROVE  PostOK(h.log, ts, l, s)
    <2>1. PICK u : u = h.log[s].turn
      OBVIOUS
    <2>2. CASE s \in 1..Len(r.log)
      <3>1. r.log[s].turn = u /\ PostOK(r.log, ts, l, s)
        BY <1>0, <1>4, <2>1, <2>2 DEF PostsOK, PostOK
      <3>2. CASE Again(ts[u])
        BY <2>1, <3>1, <3>2 DEF PostOK
      <3>3. CASE ~Again(ts[u])
        <4>1. /\ ts[u].life = l
              /\ \A q \in 1..Len(r.log) : r.log[q].turn = u => q = s
          BY <3>1, <3>3 DEF PostOK
        <4>2. ~Unposted(r, u)
          BY <2>2, <3>1 DEF Unposted
        <4>3. u # t
          BY <1>4, <2>1, <3>3, <4>2
        <4>4. \A q \in 1..Len(h.log) : h.log[q].turn = u => q = s
          BY <1>0, <1>2, <4>1, <4>3
        <4> QED
          BY <2>1, <3>1, <4>1, <4>4 DEF PostOK
      <3> QED
        BY <3>2, <3>3
    <2>3. CASE s = Len(h.log)
      <3>1. u = t /\ t # 0
        BY <1>0, <1>4, <2>1, <2>3
      <3>2. CASE Again(ts[t])
        BY <2>1, <3>1, <3>2 DEF PostOK
      <3>3. CASE ~Again(ts[t])
        <4>1. ts[t].life = l /\ \A q \in 1..Len(r.log) : h.log[q].turn # t
          BY <1>0, <3>1, <3>3 DEF Unposted
        <4>2. \A q \in 1..Len(h.log) : h.log[q].turn = u => q = s
          BY <1>2, <2>3, <3>1, <4>1
        <4> QED
          BY <2>1, <3>1, <4>1, <4>2 DEF PostOK
      <3> QED
        BY <3>2, <3>3
    <2> QED
      BY <1>2, <2>2, <2>3
  <1> QED
    BY <1>3, <1>4 DEF PostsOK, PostOK

Changed(ts, t, row) == [ts EXCEPT ![t] = row]
Begun(ts, row) == Append(ts, row)

LEMMA TurnChanges ==
    ASSUME NEW ts, NEW r, NEW l \in Nat, TurnsOK(ts, r, l), NEW t \in 1..Len(ts),
           NEW row \in TurnSet, TurnOK(row, r, l), row.life = ts[t].life, row.purpose = ts[t].purpose,
           ts[t].state # "pending" => row.state = ts[t].state,
           Again(ts[t]) => Again(row),
           NEW us, us = Changed(ts, t, row)
    PROVE  /\ TurnsOK(us, r, l) /\ TurnsKept(ts, us) /\ Len(us) = Len(ts) /\ us[t] = row
           /\ \A u \in 1..Len(ts) : u # t => us[u] = ts[u]
  <1>1. ts \in Seq(TurnSet)
    BY DEF TurnsOK
  <1>2. /\ us \in Seq(TurnSet) /\ Len(us) = Len(ts) /\ us[t] = row
        /\ \A u \in 1..Len(ts) : u # t => us[u] = ts[u]
    BY <1>1 DEF Changed
  <1>3. TurnsKept(ts, us)
    <2>1. Len(ts) \in Nat
      BY <1>1
    <2>2. ASSUME NEW u \in 1..Len(ts)
          PROVE  /\ us[u].life = ts[u].life /\ us[u].purpose = ts[u].purpose
                 /\ ts[u].state # "pending" => us[u].state = ts[u].state
                 /\ Again(ts[u]) => Again(us[u])
      BY <1>2
    <2> QED
      BY <1>2, <2>1, <2>2 DEF TurnsKept
  <1>4. \A u \in 1..Len(us) : TurnOK(us[u], r, l)
    <2> SUFFICES ASSUME NEW u \in 1..Len(ts) PROVE TurnOK(us[u], r, l)
      BY <1>2
    <2>1. CASE u = t
      BY <1>2, <2>1
    <2>2. CASE u # t
      BY <1>2, <2>2 DEF TurnsOK
    <2> QED
      BY <2>1, <2>2
  <1> QED
    BY <1>2, <1>3, <1>4 DEF TurnsOK

\* A consumed row, of which the state may be the passing "timeout".
LEMMA ClaimedIs ==
    ASSUME NEW old \in TurnSet, NEW state \in {"pending", "spoke", "quiet", "timeout"}
    PROVE  LET row == Claimed([old EXCEPT !.state = state])
           IN /\ row \in TurnSet /\ row.life = old.life /\ row.purpose = old.purpose
              /\ row.state = IF state = "spoke" THEN "spoke" ELSE "quiet"
              /\ row.answered = TRUE /\ row.consumed = TRUE /\ (Again(old) => Again(row))
  BY DEF Claimed, TurnSet, Again

LEMMA ClaimedSettled ==
    ASSUME NEW old \in TurnSet, NEW row, row = Claimed(old)
    PROVE  /\ row \in TurnSet /\ row.life = old.life /\ row.purpose = old.purpose
           /\ row.state = IF old.state = "spoke" THEN "spoke" ELSE "quiet"
           /\ row.answered = TRUE /\ row.consumed = TRUE /\ (Again(old) => Again(row))
  BY DEF Claimed, TurnSet, Again

LEMMA SettledOK ==
    ASSUME NEW row \in TurnSet, NEW r, NEW l \in Nat, row.life <= l, row.state # "pending",
           row.state = "spoke" => row.answered = TRUE
    PROVE  TurnOK(row, r, l)
  BY DEF TurnOK, TurnSet

LEMMA CancelIs ==
    ASSUME NEW ts, NEW r, NEW l \in Nat, TurnsOK(ts, r, l), NEW r2, NEW l2 \in Nat, l <= l2,
           NEW us, us = CancelPending(ts)
    PROVE  /\ TurnsOK(us, r2, l2) /\ TurnsKept(ts, us) /\ Len(us) = Len(ts)
           /\ \A t \in 1..Len(us) : us[t].state # "pending" /\ (us[t] = ts[t] \/ us[t].state = "quiet")
  <1>1. ts \in Seq(TurnSet) /\ Len(ts) \in Nat /\ DOMAIN ts = 1..Len(ts)
    BY DEF TurnsOK
  <1>2. us = [t \in 1..Len(ts) |-> IF ts[t].state = "pending" THEN [ts[t] EXCEPT !.state = "quiet"]
                                   ELSE ts[t]]
    BY <1>1 DEF CancelPending
  <1>3. ASSUME NEW t \in 1..Len(ts)
        PROVE  /\ us[t] \in TurnSet /\ us[t].life = ts[t].life /\ us[t].purpose = ts[t].purpose
               /\ ts[t].state # "pending" => us[t].state = ts[t].state
               /\ Again(ts[t]) => Again(us[t])
               /\ (us[t] = ts[t] \/ us[t].state = "quiet")
               /\ us[t].state # "pending" /\ TurnOK(us[t], r2, l2)
    <2>1. ts[t] \in TurnSet /\ TurnOK(ts[t], r, l)
      BY <1>1 DEF TurnsOK
    <2>2. ts[t].life \in Nat /\ ts[t].life <= l2
      BY <2>1 DEF TurnOK, TurnSet
    <2>3. CASE ts[t].state = "pending"
      <3>1. us[t] = [ts[t] EXCEPT !.state = "quiet"]
        BY <1>2, <2>3
      <3> QED
        BY <2>1, <2>2, <2>3, <3>1 DEF TurnOK, TurnSet, Again
    <2>4. CASE ts[t].state # "pending"
      <3>1. us[t] = ts[t]
        BY <1>2, <2>4
      <3> QED
        BY <2>1, <2>2, <2>4, <3>1 DEF TurnOK
    <2> QED
      BY <2>3, <2>4
  <1>4. us \in [1..Len(ts) -> TurnSet]
    BY <1>2, <1>3
  <1>5. us \in Seq(TurnSet) /\ Len(us) = Len(ts)
    BY <1>1, <1>4
  <1>6. TurnsKept(ts, us)
    BY <1>1, <1>3, <1>5 DEF TurnsKept
  <1>7. TurnsOK(us, r2, l2)
    BY <1>3, <1>5 DEF TurnsOK
  <1>8. \A t \in 1..Len(us) : us[t].state # "pending" /\ (us[t] = ts[t] \/ us[t].state = "quiet")
    BY <1>3, <1>5
  <1> QED
    BY <1>5, <1>6, <1>7, <1>8

LEMMA TurnBegins ==
    ASSUME NEW ts, NEW r, NEW l \in Nat, TurnsOK(ts, r, l), NEW row \in TurnSet, TurnOK(row, r, l),
           NEW us, us = Begun(ts, row)
    PROVE  /\ TurnsOK(us, r, l) /\ TurnsKept(ts, us) /\ Len(us) = Len(ts) + 1 /\ Len(ts) \in Nat
           /\ us[Len(ts) + 1] = row /\ \A t \in 1..Len(ts) : us[t] = ts[t]
  <1>1. ts \in Seq(TurnSet) /\ Len(ts) \in Nat
    BY DEF TurnsOK
  <1>2. /\ us \in Seq(TurnSet) /\ Len(us) = Len(ts) + 1 /\ us[Len(ts) + 1] = row
        /\ \A t \in 1..Len(ts) : us[t] = ts[t]
    BY <1>1 DEF Begun
  <1>3. \A t \in 1..Len(us) : t \in 1..Len(ts) \/ t = Len(ts) + 1
    BY <1>1, <1>2
  <1>4. \A t \in 1..Len(us) : TurnOK(us[t], r, l)
    BY <1>2, <1>3 DEF TurnsOK
  <1>5. Len(ts) <= Len(us)
    BY <1>1, <1>2
  <1> QED
    BY <1>1, <1>2, <1>4, <1>5 DEF TurnsOK, TurnsKept

LEMMA TurnRowIs ==
    ASSUME CountsOK, room \in RoomSet, NEW m \in Member, NEW epoch \in Nat, NEW cause \in Nat,
           NEW purpose \in {"group", "compress"}, NEW row, row = TurnRow(m, epoch, cause, purpose)
    PROVE  /\ row \in TurnSet /\ TurnOK(row, room, life) /\ row.purpose = purpose
           /\ row.life = life /\ row.state = "pending"
  <1>1. room.watermark[m] \in Nat /\ room.exists = TRUE /\ life \in Nat \ {0}
    BY DEF RoomSet, CountsOK
  <1>2. /\ row \in TurnSet /\ row.purpose = purpose /\ row.life = life /\ row.state = "pending"
        /\ row.answered = FALSE /\ row.consumed = FALSE
    BY <1>1 DEF TurnRow, TurnSet
  <1> QED
    BY <1>1, <1>2 DEF TurnOK

------------------------------------------------------------------------------
(* The chain of drives.                                                        *)

LEMMA DriveCarries ==
    ASSUME NEW d \in DriveSet, NEW ts \in Seq(TurnSet), NEW us \in Seq(TurnSet), NEW r, NEW r2,
           NEW l \in Nat, NEW l2 \in Nat, DriveOK(d, ts, r, l), TurnsKept(ts, us), l <= l2,
           d.at = "turn" => Hopes(d, us, r2, l2)
    PROVE  DriveOK(d, us, r2, l2)
  <1>1. d.life \in Nat /\ d.life <= l2
    BY DEF DriveOK, DriveSet
  <1>2. Len(ts) \in Nat /\ Len(us) \in Nat /\ Len(ts) <= Len(us)
    BY DEF TurnsKept
  <1>3. d.at = "turn" => /\ d.turn \in 1..Len(us) /\ us[d.turn].life = d.life
                         /\ us[d.turn].purpose = "group"
    <2> SUFFICES ASSUME d.at = "turn"
                 PROVE  d.turn \in 1..Len(us) /\ us[d.turn].life = d.life /\ us[d.turn].purpose = "group"
      OBVIOUS
    <2>1. d.turn \in 1..Len(ts) /\ ts[d.turn].life = d.life /\ ts[d.turn].purpose = "group"
      BY DEF DriveOK
    <2>2. us[d.turn].life = ts[d.turn].life /\ us[d.turn].purpose = ts[d.turn].purpose
      BY <2>1 DEF TurnsKept
    <2> QED
      BY <1>2, <2>1, <2>2
  <1> QED
    BY <1>1, <1>3 DEF DriveOK

LEMMA ChainCarries ==
    ASSUME NEW ch, NEW ts \in Seq(TurnSet), NEW us \in Seq(TurnSet), NEW r, NEW r2,
           NEW l \in Nat, NEW l2 \in Nat, ChainOK(ch, ts, r, l), TurnsKept(ts, us), l <= l2,
           ch # <<>> /\ ch[1].at = "turn" => Hopes(ch[1], us, r2, l2)
    PROVE  ChainOK(ch, us, r2, l2)
  <1>1. ch \in Seq(DriveSet) /\ Len(ch) \in Nat
    BY DEF ChainOK
  <1> SUFFICES ASSUME NEW i \in 1..Len(ch)
               PROVE  DriveOK(ch[i], us, r2, l2) /\ (i > 1 => ch[i].at = "waiting")
    BY <1>1 DEF ChainOK
  <1>2. ch[i] \in DriveSet /\ DriveOK(ch[i], ts, r, l) /\ (i > 1 => ch[i].at = "waiting")
    BY <1>1 DEF ChainOK
  <1>3. ch[i].at = "turn" => Hopes(ch[i], us, r2, l2)
    <2>1. CASE i = 1
      BY <1>1, <2>1
    <2>2. CASE i # 1
      BY <1>1, <1>2, <2>2
    <2> QED
      BY <2>1, <2>2
  <1> QED
    BY <1>2, <1>3, DriveCarries

\* A drive is chained for the room that is there.
LEMMA ChainedIs ==
    ASSUME CountsOK, NEW ch, NEW ts, NEW r, ChainOK(ch, ts, r, life), NEW epoch \in Nat,
           NEW thread \in Thread
    PROVE  /\ ChainOK(Chained(ch, epoch, thread), ts, r, life) /\ Chained(ch, epoch, thread) # <<>>
           /\ ch # <<>> => Chained(ch, epoch, thread)[1] = ch[1]
           /\ ch = <<>> => Chained(ch, epoch, thread)[1].at = "waiting"
  <1> DEFINE d == [life |-> life, epoch |-> epoch, thread |-> thread, at |-> "waiting",
                   round |-> 0, posted |-> 0, spoke |-> 0, left |-> <<>>,
                   turn |-> 0, upto |-> 0, replay |-> {}, seen |-> NoRoom]
  <1>1. d \in DriveSet /\ d.at = "waiting"
    BY Constants DEF DriveSet, CountsOK
  <1>2. DriveOK(d, ts, r, life)
    BY Constants DEF DriveOK, CountsOK
  <1>3. Chained(ch, epoch, thread) = Append(ch, d)
    BY DEF Chained
  <1> HIDE DEF d
  <1>4. ch \in Seq(DriveSet) /\ Len(ch) \in Nat
    BY DEF ChainOK
  <1>5. PICK co : co = Append(ch, d)
    OBVIOUS
  <1>6. /\ co \in Seq(DriveSet) /\ Len(co) = Len(ch) + 1 /\ co[Len(ch) + 1] = d
        /\ \A i \in 1..Len(ch) : co[i] = ch[i]
    BY <1>1, <1>4, <1>5
  <1>7. ASSUME NEW i \in 1..Len(co)
        PROVE  DriveOK(co[i], ts, r, life) /\ (i > 1 => co[i].at = "waiting")
    <2>1. i \in 1..Len(ch) \/ i = Len(ch) + 1
      BY <1>4, <1>6
    <2>2. CASE i \in 1..Len(ch)
      BY <1>6, <2>2 DEF ChainOK
    <2>3. CASE i = Len(ch) + 1
      BY <1>1, <1>2, <1>6, <2>3
    <2> QED
      BY <2>1, <2>2, <2>3
  <1>8. ChainOK(co, ts, r, life)
    BY <1>6, <1>7 DEF ChainOK
  <1>9. co # <<>>
    BY <1>4, <1>6
  <1>10. ch # <<>> => co[1] = ch[1]
    BY <1>4, <1>6
  <1>11. ch = <<>> => co[1].at = "waiting"
    BY <1>1, <1>4, <1>6
  <1> QED
    BY <1>3, <1>5, <1>8, <1>9, <1>10, <1>11

Headed(ch, d) == [ch EXCEPT ![1] = d]

LEMMA HeadChanges ==
    ASSUME NEW ch, ch # <<>>, NEW ts \in Seq(TurnSet), NEW us \in Seq(TurnSet), NEW r, NEW r2,
           NEW l \in Nat, ChainOK(ch, ts, r, l), TurnsKept(ts, us),
           NEW d \in DriveSet, DriveOK(d, us, r2, l), NEW co, co = Headed(ch, d)
    PROVE  ChainOK(co, us, r2, l) /\ co # <<>> /\ co[1] = d
  <1>1. ch \in Seq(DriveSet) /\ Len(ch) \in Nat /\ 1 \in 1..Len(ch)
    BY DEF ChainOK
  <1>2. /\ co \in Seq(DriveSet) /\ Len(co) = Len(ch) /\ co[1] = d
        /\ \A i \in 1..Len(ch) : i # 1 => co[i] = ch[i]
    BY <1>1 DEF Headed
  <1>3. ASSUME NEW i \in 1..Len(co)
        PROVE  DriveOK(co[i], us, r2, l) /\ (i > 1 => co[i].at = "waiting")
    <2>1. CASE i = 1
      BY <1>2, <2>1
    <2>2. CASE i # 1
      <3>1. co[i] = ch[i] /\ ch[i] \in DriveSet /\ i > 1
        BY <1>1, <1>2, <2>2
      <3>2. DriveOK(ch[i], ts, r, l) /\ ch[i].at = "waiting"
        BY <1>1, <1>2, <3>1 DEF ChainOK
      <3>3. ch[i].at # "turn" /\ l <= l
        BY <3>2
      <3>4. DriveOK(ch[i], us, r2, l)
        BY <3>1, <3>2, <3>3, DriveCarries
      <3> QED
        BY <3>1, <3>2, <3>4
    <2> QED
      BY <2>1, <2>2
  <1>4. co # <<>>
    BY <1>1, <1>2
  <1> QED
    BY <1>2, <1>3, <1>4 DEF ChainOK

------------------------------------------------------------------------------
(* The running drive.                                                          *)

LEMMA RoomIs ==
    ASSUME IInv
    PROVE  /\ NoRoom.exists = FALSE /\ room.exists \in BOOLEAN /\ (~room.exists => room = NoRoom)
           /\ room.exists => /\ room \in RoomSet /\ IsInjective(room.queue)
                             /\ PostsOK(room.log, turns, life)
  <1>1. NoRoom.exists = FALSE
    BY DEF NoRoom
  <1>2. RoomOK(room, turns, life)
    BY DEF IInv
  <1>3. room \in RoomSet => room.exists = TRUE
    BY DEF RoomSet
  <1> QED
    BY <1>1, <1>2, <1>3 DEF RoomOK

LEMMA DriveIs ==
    ASSUME IInv, chain # <<>>
    PROVE  /\ Drive \in DriveSet /\ DriveOK(Drive, turns, room, life) /\ chain[1] = Drive
           /\ Drive.life \in Nat /\ Drive.life <= life /\ life \in Nat
  <1>1. ChainOK(chain, turns, room, life) /\ life \in Nat
    BY DEF IInv, CountsOK
  <1>2. chain \in Seq(DriveSet) /\ 1 \in 1..Len(chain)
    BY <1>1 DEF ChainOK
  <1>3. Drive \in DriveSet /\ DriveOK(Drive, turns, room, life)
    BY <1>1, <1>2 DEF ChainOK, Drive
  <1> QED
    BY <1>1, <1>3 DEF DriveOK, DriveSet, Drive

\* The running drive waits for its turn.
LEMMA WaitIs ==
    ASSUME IInv, chain # <<>>, chain[1].at = "turn"
    PROVE  /\ chain[1].turn \in 1..Len(turns) /\ turns[chain[1].turn].life = chain[1].life
           /\ Hopes(chain[1], turns, room, life)
           /\ chain[1].life # life => turns[chain[1].turn].state \notin {"pending", "spoke"}
  <1>1. DriveOK(chain[1], turns, room, life)
    BY DriveIs DEF Drive
  <1>2. PICK t : t = chain[1].turn
    OBVIOUS
  <1>3. t \in 1..Len(turns) /\ turns[t].life = chain[1].life /\ Hopes(chain[1], turns, room, life)
    BY <1>1, <1>2 DEF DriveOK
  <1>4. TurnOK(turns[t], room, life)
    BY <1>3 DEF IInv, TurnsOK
  <1>5. chain[1].life # life => turns[t].state \notin {"pending", "spoke"}
    BY <1>2, <1>3, <1>4 DEF Hopes, TurnOK
  <1> QED
    BY <1>2, <1>3, <1>5

\* It goes on waiting while its room keeps what it had and gets no other post of the turn.
LEMMA HopesStay ==
    ASSUME IInv, chain # <<>>, chain[1].at = "turn", NEW us, TurnsKept(turns, us), NEW r2,
           chain[1].life = life =>
             r2.exists /\ (Unposted(room, chain[1].turn) => MayPost(r2, us, chain[1].turn))
    PROVE  Hopes(chain[1], us, r2, life)
  <1>1. /\ chain[1].turn \in 1..Len(turns) /\ Hopes(chain[1], turns, room, life)
        /\ chain[1].life # life => turns[chain[1].turn].state \notin {"pending", "spoke"}
    BY WaitIs
  <1>2. PICK d, t : d = chain[1] /\ t = d.turn
    OBVIOUS
  <1>3. /\ turns[t].state # "pending" => us[t].state = turns[t].state
        /\ Again(turns[t]) => Again(us[t])
    BY <1>1, <1>2 DEF TurnsKept
  <1>4. CASE d.life = life
    <2>1. r2.exists /\ (Unposted(room, t) => MayPost(r2, us, t)) /\ MayPost(room, turns, t)
      BY <1>1, <1>2, <1>4 DEF Hopes
    <2>2. MayPost(r2, us, t)
      BY <1>3, <2>1 DEF MayPost
    <2> QED
      BY <1>2, <1>4, <2>1, <2>2 DEF Hopes
  <1>5. CASE d.life # life
    <2>1. turns[t].state # "pending" /\ turns[t].state # "spoke"
      BY <1>1, <1>2, <1>5
    <2> QED
      BY <1>2, <1>3, <1>5, <2>1 DEF Hopes
  <1> QED
    BY <1>4, <1>5

LEMMA CompressStays ==
    ASSUME NEW c, NEW ts \in Seq(TurnSet), NEW us \in Seq(TurnSet), CompressOK(c, ts),
           TurnsKept(ts, us)
    PROVE  CompressOK(c, us)
  <1>1. CASE c = NoCompress
    BY <1>1 DEF CompressOK
  <1>2. CASE c # NoCompress
    <2>1. /\ c \in [turn : Nat \ {0}, life : Nat \ {0}] /\ c.turn <= Len(ts)
          /\ ts[c.turn].purpose = "compress" /\ ts[c.turn].life = c.life
      BY <1>2 DEF CompressOK
    <2>2. PICK t : t = c.turn
      OBVIOUS
    <2>3. t \in 1..Len(ts) /\ Len(ts) \in Nat /\ Len(us) \in Nat /\ Len(ts) <= Len(us)
      BY <2>1, <2>2 DEF TurnsKept
    <2>4. us[t].purpose = "compress" /\ us[t].life = c.life /\ t <= Len(us)
      BY <2>1, <2>2, <2>3 DEF TurnsKept
    <2> QED
      BY <2>1, <2>2, <2>4 DEF CompressOK
  <1> QED
    BY <1>1, <1>2

\* A step of the running drive.
LEMMA LoopStep ==
    ASSUME IInv, chain # <<>>, NEW d \in DriveSet, SetDrive(d), TurnsKept(turns, turns'),
           TurnsOK(turns', room', life), DriveOK(d, turns', room', life), RoomOK(room', turns', life),
           UNCHANGED <<life, queue, compress, inherited, used>>,
           DraftsOK(drafts', turns', life), LoopsOK(turns', drafts', inherited, chain', compress)
    PROVE  IInv'
  <1>1. turns \in Seq(TurnSet) /\ turns' \in Seq(TurnSet) /\ life \in Nat
    BY DEF IInv, TurnsOK, CountsOK
  <1>2. chain' = [chain EXCEPT ![1] = d] /\ ChainOK(chain, turns, room, life)
    BY DEF SetDrive, IInv
  <1>3. PICK co : co = Headed(chain, d)
    OBVIOUS
  <1>4. ChainOK(co, turns', room', life) /\ co # <<>>
    <2>1. PICK us, r2 : us = turns' /\ r2 = room'
      OBVIOUS
    <2>2. ChainOK(co, us, r2, life) /\ co # <<>>
      <3>1. us \in Seq(TurnSet) /\ TurnsKept(turns, us) /\ DriveOK(d, us, r2, life)
        BY <1>1, <2>1
      <3> QED
        BY <1>1, <1>2, <1>3, <3>1, HeadChanges
    <2> QED
      BY <2>1, <2>2
  <1>5. CompressOK(compress, turns')
    BY <1>1, CompressStays DEF IInv
  <1>6. inherited \in 0..Len(turns')
    <2>1. Len(turns) \in Nat /\ Len(turns') \in Nat /\ Len(turns) <= Len(turns')
      BY <1>1 DEF TurnsKept
    <2> QED
      BY <2>1 DEF IInv
  <1>7. ChainOK(chain', turns', room', life) /\ chain' # <<>>
    BY <1>2, <1>3, <1>4 DEF Headed
  <1>8. IdleOK(queue, room', chain', compress)
    BY <1>7 DEF IdleOK
  <1>9. CountsOK' /\ QueueOK(queue)
    BY DEF IInv, CountsOK
  <1> QED
    BY <1>5, <1>6, <1>7, <1>8, <1>9 DEF IInv

\* One that begins no turn and waited for none.
LEMMA QuietStep ==
    ASSUME IInv, chain # <<>>, Drive.at # "turn", NEW d \in DriveSet, d.at # "turn", SetDrive(d),
           DriveOK(d, turns, room', life), RoomOK(room', turns, life), room'.exists = room.exists,
           UNCHANGED <<turns, drafts, life, queue, compress, inherited, used>>
    PROVE  IInv'
  <1>1. turns \in Seq(TurnSet) /\ TurnsOK(turns, room, life)
    BY DEF IInv, TurnsOK
  <1>2. TurnsKept(turns, turns') /\ turns' = turns
    BY <1>1, KeptReflexive
  <1>3. TurnsOK(turns', room', life)
    BY <1>1 DEF TurnsOK, TurnOK
  <1>4. chain'[1] = d
    <2>1. chain \in Seq(DriveSet)
      BY DEF IInv, ChainOK
    <2> QED
      BY <2>1 DEF SetDrive
  <1>5. LoopsOK(turns', drafts', inherited, chain', compress)
    <2>1. LoopsOK(turns, drafts, inherited, chain, compress)
      BY DEF IInv
    <2>2. chain[1].at # "turn"
      BY DEF Drive
    <2> QED
      BY <1>4, <2>1, <2>2 DEF LoopsOK, Waits
  <1>6. DraftsOK(drafts', turns', life)
    BY DEF IInv
  <1> QED
    BY <1>2, <1>3, <1>5, <1>6, LoopStep

LEMMA EndedIs ==
    ASSUME NEW d \in DriveSet, NEW ts, NEW r, NEW l \in Nat, d.life <= l
    PROVE  Ended(d) \in DriveSet /\ DriveOK(Ended(d), ts, r, l) /\ Ended(d).at = "over"
  <1>1. 0 \in 0..(MaxRounds - 1) /\ 0 \in 0..MaxPosts /\ <<>> \in Seq(Member) /\ NumMembers \in Nat
    BY Constants
  <1>2. PICK e : e = Ended(d)
    OBVIOUS
  <1>3. /\ e \in DriveSet /\ e.at = "over" /\ e.life = d.life /\ e.left = <<>> /\ e.spoke = 0
        /\ e.turn = 0 /\ e.seen = NoRoom
    BY <1>1, <1>2 DEF Ended, DriveSet
  <1>4. e.spoke + Len(e.left) <= NumMembers
    BY <1>1, <1>3
  <1> QED
    BY <1>2, <1>3, <1>4 DEF DriveOK

LEMMA SkippedIs ==
    ASSUME NEW d \in DriveSet, NEW ts, NEW r, NEW l \in Nat, d.life <= l, d.left # <<>>, d.turn = 0,
           d.spoke + Len(d.left) <= NumMembers
    PROVE  /\ Skipped(d) \in DriveSet /\ DriveOK(Skipped(d), ts, r, l) /\ Skipped(d).at = "member"
           /\ Len(Skipped(d).left) = Len(d.left) - 1 /\ Skipped(d).spoke = d.spoke
           /\ Skipped(d).posted = d.posted
  <1>1. PICK tl : tl = Tail(d.left)
    OBVIOUS
  <1>2. d.left \in Seq(Member) /\ Len(d.left) \in Nat /\ d.spoke \in Nat
    BY DEF DriveSet
  <1>3. tl \in Seq(Member) /\ Len(tl) = Len(d.left) - 1
    BY <1>1, <1>2
  <1>4. PICK e : e = [d EXCEPT !.at = "member", !.left = tl, !.seen = NoRoom]
    OBVIOUS
  <1>5. Skipped(d) = e
    BY <1>1, <1>4 DEF Skipped
  <1>6. /\ e \in DriveSet /\ e.at = "member" /\ e.left = tl /\ e.spoke = d.spoke /\ e.turn = 0
        /\ e.seen = NoRoom /\ e.life = d.life /\ e.posted = d.posted
    BY <1>3, <1>4 DEF DriveSet
  <1>7. e.spoke + Len(e.left) <= NumMembers
    BY <1>2, <1>3, <1>6, Constants
  <1> QED
    BY <1>3, <1>5, <1>6, <1>7 DEF DriveOK

LEMMA RoundOfIs ==
    ASSUME IInv, NEW d \in DriveSet, NEW round \in 0..(MaxRounds - 1), d.life <= life,
           d.turn = 0, d.seen = NoRoom, chain # <<>>
    PROVE  /\ RoundOf(d, round) \in DriveSet /\ DriveOK(RoundOf(d, round), turns, room, life)
           /\ RoundOf(d, round).at # "turn"
  <1>1. life \in Nat
    BY DEF IInv, CountsOK
  <1>2. CASE Superseded
    BY <1>1, <1>2, EndedIs DEF RoundOf
  <1>3. CASE ~Superseded
    <2>1. room \in RoomSet
      BY <1>3, RoomIs DEF Superseded, Current
    <2>2. PICK lf : lf = Rotated(Responders(room, d.thread), round)
      OBVIOUS
    <2>3. lf \in Seq(Member) /\ Len(lf) <= NumMembers /\ Len(lf) \in Nat
      <3>1. Responders(room, d.thread) \in SUBSET Member /\ round \in Nat
        BY <2>1, RespondersIs, Constants
      <3> QED
        BY <2>2, <3>1, RotatedIs
    <2>4. PICK e : e = [d EXCEPT !.at = "member", !.round = round, !.spoke = 0, !.left = lf]
      OBVIOUS
    <2>5. RoundOf(d, round) = e
      BY <1>3, <2>2, <2>4 DEF RoundOf
    <2>6. /\ e \in DriveSet /\ e.at = "member" /\ e.left = lf /\ e.spoke = 0 /\ e.turn = 0
          /\ e.seen = NoRoom /\ e.life = d.life
      BY <2>3, <2>4 DEF DriveSet
    <2>7. e.spoke + Len(e.left) <= NumMembers
      BY <2>3, <2>6
    <2> QED
      BY <2>5, <2>6, <2>7 DEF DriveOK
  <1> QED
    BY <1>2, <1>3

\* A drive between two waits.
Between(d, l) ==
  /\ d \in DriveSet /\ d.at = "member" /\ d.life <= l /\ d.spoke + Len(d.left) <= NumMembers
  /\ d.seen = NoRoom /\ d.turn = 0

\* What a member's turn leaves.
LEMMA SettledIs ==
    ASSUME NEW r \in RoomSet, NEW d \in DriveSet, NEW m \in Member, NEW outcome, NEW t \in Nat,
           NEW l \in Nat, d.life <= l, d.left # <<>>, d.posted < MaxPosts,
           d.spoke + Len(d.left) <= NumMembers, NEW out, out = Settled(r, d, m, outcome, t)
    PROVE  /\ out.room \in RoomSet /\ out.room.queue = r.queue
           /\ Between(out.drive, l)
           /\ outcome # "spoke" => out.room.log = r.log
           /\ outcome = "spoke" => \E e : Grown(r, out.room, e) /\ e.turn = t
  <1>1. d.thread \in Thread /\ d.upto \in Nat /\ d.spoke \in Nat /\ d.posted + 1 \in 0..MaxPosts
    <2>1. d.thread \in Thread /\ d.upto \in Nat /\ d.spoke \in Nat /\ d.posted \in 0..MaxPosts
      BY DEF DriveSet
    <2>2. PICK p : p = d.posted
      OBVIOUS
    <2>3. p + 1 \in 0..MaxPosts
      BY <2>1, <2>2, Constants
    <2> QED
      BY <2>1, <2>2, <2>3
  <1>2. PICK marked : marked = SetMark(r, d.thread, m, d.upto)
    OBVIOUS
  <1>3. Same(r, marked)
    BY <1>1, <1>2, SetMarkIs
  <1>4. PICK given : given = IF d.replay = {} THEN marked ELSE [marked EXCEPT !.held[m] = {}]
    OBVIOUS
  <1>5. Same(r, given)
    <2>1. CASE d.replay = {}
      BY <1>3, <1>4, <2>1
    <2>2. CASE d.replay # {}
      <3>1. PICK h : h = [marked.held EXCEPT ![m] = {}]
        OBVIOUS
      <3>2. given = [marked EXCEPT !.held = h]
        BY <1>3, <1>4, <2>2, <3>1 DEF Same, RoomSet
      <3>3. h \in [Member -> SUBSET Nat]
        BY <1>3, <3>1 DEF Same, RoomSet
      <3> QED
        BY <1>3, <3>2, <3>3 DEF Same, RoomSet
    <2> QED
      BY <2>1, <2>2
  <1>6. PICK d0 : d0 = [d EXCEPT !.turn = 0]
    OBVIOUS
  <1>7. /\ d0 \in DriveSet /\ d0.turn = 0 /\ d0.left = d.left /\ d0.spoke = d.spoke
        /\ d0.posted = d.posted /\ d0.life = d.life
    BY <1>6 DEF DriveSet
  <1>8. PICK sk : sk = Skipped(d0)
    OBVIOUS
  <1>9. /\ Between(sk, l) /\ sk.spoke = d.spoke
        /\ sk.posted = d.posted /\ Len(sk.left) = Len(d.left) - 1
    <2>1. PICK ts, r2 : ts = 0 /\ r2 = 0
      OBVIOUS
    <2>2. /\ sk \in DriveSet /\ DriveOK(sk, ts, r2, l) /\ sk.at = "member" /\ sk.spoke = d.spoke
          /\ sk.posted = d.posted /\ Len(sk.left) = Len(d.left) - 1
      BY <1>7, <1>8, SkippedIs
    <2> QED
      BY <2>2 DEF DriveOK, Between
  <1>10. CASE outcome # "spoke"
    <2>1. out.room = given /\ out.drive = [Skipped(d) EXCEPT !.turn = 0, !.upto = 0, !.replay = {}]
      BY <1>2, <1>4, <1>10 DEF Settled
    <2>2. out.drive = [sk EXCEPT !.upto = 0, !.replay = {}]
      BY <1>6, <1>8, <2>1 DEF Skipped, DriveSet
    <2>3. Between(out.drive, l)
      BY <1>9, <2>2 DEF Between, DriveSet
    <2> QED
      BY <1>5, <1>10, <2>1, <2>3 DEF Same
  <1>11. CASE outcome = "spoke"
    <2>1. PICK posted : posted = AppendEntry(given, m, d.thread, {}, t)
      OBVIOUS
    <2>2. PICK e : Grown(r, posted, e) /\ e.turn = t
      <3>1. m \in Member \cup {User} /\ {} \in SUBSET Member /\ given \in RoomSet
        BY <1>5 DEF Same
      <3>2. Grown(given, posted, Entry(m, d.thread, {}, t)) /\ Entry(m, d.thread, {}, t).turn = t
        BY <1>1, <2>1, <3>1, AppendEntryIs
      <3>3. PICK e : e = Entry(m, d.thread, {}, t)
        OBVIOUS
      <3>4. Grown(r, posted, e) /\ e.turn = t
        BY <1>5, <3>2, <3>3 DEF Grown, Same
      <3> QED
        BY <3>4
    <2>3. PICK fin : fin = SetMark(posted, d.thread, m, Len(posted.log))
      OBVIOUS
    <2>4. Same(posted, fin)
      BY <1>1, <2>2, <2>3, SetMarkIs DEF Grown
    <2>11. Grown(r, fin, e)
      BY <2>2, <2>4 DEF Grown, Same
    <2>5. /\ out.room = fin
          /\ out.drive = [Skipped(d) EXCEPT !.posted = @ + 1, !.spoke = @ + 1, !.turn = 0, !.upto = 0,
                                            !.replay = {}]
      BY <1>2, <1>4, <1>11, <2>1, <2>3 DEF Settled
    <2>6. out.drive = [sk EXCEPT !.posted = d.posted + 1, !.spoke = d.spoke + 1, !.upto = 0, !.replay = {}]
      BY <1>6, <1>8, <2>5 DEF Skipped, DriveSet
    <2>7. d.spoke + 1 + Len(sk.left) <= NumMembers /\ d.spoke + 1 \in Nat
      <3>1. Len(d.left) \in Nat
        BY DEF DriveSet
      <3>2. PICK a, b, c : a = d.spoke /\ b = Len(d.left) /\ c = Len(sk.left)
        OBVIOUS
      <3>3. a \in Nat /\ b \in Nat /\ c = b - 1 /\ a + b <= NumMembers
        BY <1>1, <1>9, <3>1, <3>2
      <3>4. a + 1 + c <= NumMembers /\ a + 1 \in Nat
        BY <3>3, Constants
      <3> QED
        BY <3>2, <3>4
    <2>8. PICK dr : dr = out.drive
      OBVIOUS
    <2>9. /\ dr \in DriveSet /\ dr.life = sk.life /\ dr.at = "member" /\ dr.left = sk.left
          /\ dr.spoke = d.spoke + 1 /\ dr.turn = sk.turn /\ dr.seen = sk.seen
      <3>1. PICK a, b : a = d.posted + 1 /\ b = d.spoke + 1
        OBVIOUS
      <3>2. a \in 0..MaxPosts /\ b \in Nat
        BY <1>1, <2>7, <3>1
      <3>3. dr = [sk EXCEPT !.posted = a, !.spoke = b, !.upto = 0, !.replay = {}]
        BY <2>6, <2>8, <3>1
      <3>4. /\ dr \in DriveSet /\ dr.life = sk.life /\ dr.at = "member" /\ dr.left = sk.left
            /\ dr.spoke = b /\ dr.turn = sk.turn /\ dr.seen = sk.seen
        BY <1>9, <3>2, <3>3 DEF Between, DriveSet
      <3> QED
        BY <3>1, <3>4
    <2>10. Between(dr, l)
      BY <1>9, <2>7, <2>9 DEF Between
    <2> QED
      <3>1. out.room \in RoomSet /\ out.room.queue = r.queue /\ Grown(r, out.room, e)
        BY <2>5, <2>11 DEF Grown
      <3>2. outcome = "spoke" => \E e2 : Grown(r, out.room, e2) /\ e2.turn = t
        BY <2>2, <3>1
      <3> QED
        BY <1>11, <2>8, <2>9, <2>10, <3>1, <3>2
  <1> QED
    BY <1>10, <1>11

------------------------------------------------------------------------------
(* The loop's steps.                                                           *)

LEMMA SameRoom ==
    ASSUME NEW r \in RoomSet, IsInjective(r.queue), NEW ts, NEW l, PostsOK(r.log, ts, l), NEW h,
           Same(r, h)
    PROVE  RoomOK(h, ts, l) /\ h.exists = TRUE /\ r.exists = TRUE
  BY DEF Same, RoomOK, RoomSet

LEMMA TurnsInRoom ==
    ASSUME NEW ts, NEW r, NEW l, TurnsOK(ts, r, l), NEW r2, r2.exists = r.exists
    PROVE  TurnsOK(ts, r2, l)
  BY DEF TurnsOK, TurnOK

\* A drive may always be left.
LEMMA LeaveKeeps ==
    ASSUME IInv, chain # <<>>, Drive.at # "turn", SetDrive(Left),
           UNCHANGED <<room, turns, drafts, life, queue, compress, inherited, used>>
    PROVE  IInv'
  <1>1. Drive \in DriveSet /\ Drive.life <= life /\ life \in Nat
    BY DriveIs
  <1>2. PICK d : d = Ended(Drive)
    OBVIOUS
  <1>3. d \in DriveSet /\ d.at # "turn" /\ DriveOK(d, turns, room, life)
    BY <1>1, <1>2, EndedIs
  <1>4. RoomOK(room', turns, life)
    BY DEF IInv
  <1> QED
    BY <1>2, <1>3, <1>4, QuietStep DEF Left

LEMMA SkipKeeps ==
    ASSUME IInv, chain # <<>>, Drive.at # "turn", Drive.left # <<>>, SetDrive(Skipped(Drive)),
           UNCHANGED <<room, turns, drafts, life, queue, compress, inherited, used>>
    PROVE  IInv'
  <1>1. Drive \in DriveSet /\ Drive.life <= life /\ life \in Nat /\ DriveOK(Drive, turns, room, life)
    BY DriveIs
  <1>2. Drive.turn = 0 /\ Drive.spoke + Len(Drive.left) <= NumMembers
    BY <1>1 DEF DriveOK
  <1>3. PICK d : d = Skipped(Drive)
    OBVIOUS
  <1>4. d \in DriveSet /\ d.at # "turn" /\ DriveOK(d, turns, room, life)
    BY <1>1, <1>2, <1>3, SkippedIs
  <1>5. RoomOK(room', turns, life)
    BY DEF IInv
  <1> QED
    BY <1>3, <1>4, <1>5, QuietStep

LEMMA RoundKeeps ==
    ASSUME IInv, chain # <<>>, Drive.at # "turn", Drive.at # "checking",
           NEW round \in 0..(MaxRounds - 1), SetDrive(RoundOf(Drive, round)),
           UNCHANGED <<room, turns, drafts, life, queue, compress, inherited, used>>
    PROVE  IInv'
  <1>1. Drive \in DriveSet /\ Drive.life <= life /\ DriveOK(Drive, turns, room, life)
    BY DriveIs
  <1>2. Drive.turn = 0 /\ Drive.seen = NoRoom
    BY <1>1 DEF DriveOK
  <1>3. PICK d : d = RoundOf(Drive, round)
    OBVIOUS
  <1>4. d \in DriveSet /\ d.at # "turn" /\ DriveOK(d, turns, room, life)
    BY <1>1, <1>2, <1>3, RoundOfIs
  <1>5. RoomOK(room', turns, life)
    BY DEF IInv
  <1> QED
    BY <1>3, <1>4, <1>5, QuietStep

LEMMA BeginKeeps ==
    ASSUME IInv, Begin
    PROVE  IInv'
  <1>1. 0 \in 0..(MaxRounds - 1)
    BY Constants
  <1> QED
    BY <1>1, RoundKeeps DEF Begin

LEMMA RoundEndsKeeps ==
    ASSUME IInv, RoundEnds
    PROVE  IInv'
  <1>1. chain # <<>> /\ Drive.at = "member"
    BY DEF RoundEnds
  <1>2. Drive.round \in 0..(MaxRounds - 1)
    BY <1>1, DriveIs DEF DriveSet
  <1>3. CASE Drive.spoke = 0 \/ Drive.round + 1 = MaxRounds
    BY <1>1, <1>3, LeaveKeeps DEF RoundEnds
  <1>4. CASE ~(Drive.spoke = 0 \/ Drive.round + 1 = MaxRounds)
    <2>1. PICK n : n = Drive.round
      OBVIOUS
    <2>2. n + 1 \in 0..(MaxRounds - 1)
      BY <1>2, <1>4, <2>1, Constants
    <2>3. Drive.round + 1 \in 0..(MaxRounds - 1)
      BY <2>1, <2>2
    <2>4. SetDrive(RoundOf(Drive, Drive.round + 1))
      BY <1>4 DEF RoundEnds
    <2> QED
      BY <1>1, <2>3, <2>4, RoundKeeps DEF RoundEnds
  <1> QED
    BY <1>3, <1>4

LEMMA TakeTurnKeeps ==
    ASSUME IInv, chain # <<>>, Drive.at \in {"member", "checking"}, Drive.left # <<>>,
           Drive.posted < MaxPosts, NEW m, m = Head(Drive.left), NEW meta \in MetaSet, TakeTurn(m, meta),
           UNCHANGED <<life, queue, compress, drafts, inherited, used>>
    PROVE  IInv'
  <1>1. /\ Drive \in DriveSet /\ Drive.life <= life /\ life \in Nat /\ DriveOK(Drive, turns, room, life)
        /\ chain[1] = Drive
    BY DriveIs
  <1>2. Drive.turn = 0 /\ Drive.spoke + Len(Drive.left) <= NumMembers
    BY <1>1 DEF DriveOK
  <1>3. m \in Member /\ Drive.thread \in Thread /\ Drive.epoch \in Nat
    BY <1>1 DEF DriveSet
  <1>4. turns \in Seq(TurnSet) /\ TurnsOK(turns, room, life) /\ Len(turns) \in Nat
    BY DEF IInv, TurnsOK
  <1> DEFINE mark == Mark(meta, room, Drive.thread, m)
             delta == {s \in Entries(room, Drive.thread) : s > mark}
             upto == Largest(Entries(room, Drive.thread), mark)
             replay == meta.held[m] \cap DOMAIN room.log
             d == [Drive EXCEPT !.upto = upto, !.replay = meta.held[m], !.seen = NoRoom]
             cause == Largest(replay \cup delta, 0)
             row == TurnRow(m, Drive.epoch, cause, "group")
             begun == [d EXCEPT !.at = "turn", !.turn = Len(turns) + 1]
  <1>5. CASE ~room.exists
    BY <1>5, LeaveKeeps DEF TakeTurn
  <1>6. CASE room.exists /\ delta = {}
    BY <1>6, SkipKeeps DEF TakeTurn
  <1>7. ASSUME room.exists
        PROVE  /\ room \in RoomSet /\ IsInjective(room.queue) /\ PostsOK(room.log, turns, life)
               /\ mark \in Nat /\ upto \in Nat /\ delta \in SUBSET Nat /\ cause \in Nat
               /\ d \in DriveSet /\ d.left = Drive.left /\ d.posted = Drive.posted
               /\ d.spoke = Drive.spoke /\ d.life = Drive.life /\ d.seen = NoRoom /\ d.turn = 0
    <2>1. room \in RoomSet /\ IsInjective(room.queue) /\ PostsOK(room.log, turns, life)
      BY <1>7, RoomIs
    <2>2. mark \in Nat
      BY <1>3, <2>1, MarkIs
    <2>3. /\ Entries(room, Drive.thread) \in SUBSET Nat /\ IsFiniteSet(Entries(room, Drive.thread))
          /\ Entries(room, Drive.thread) \subseteq 1..Len(room.log)
      BY <2>1, EntriesIs
    <2>4. upto \in Nat
      BY <2>2, <2>3, LargestIs
    <2>5. delta \in SUBSET Nat /\ delta \subseteq 1..Len(room.log)
      BY <2>3
    <2>6. replay \in SUBSET Nat /\ replay \subseteq 1..Len(room.log) /\ meta.held[m] \in SUBSET Nat
      BY <1>3, <2>1 DEF MetaSet, RoomSet
    <2>7. Len(room.log) \in Nat
      BY <2>1 DEF RoomSet
    <2> HIDE DEF delta, replay, mark, upto
    <2>8. replay \cup delta \in SUBSET Nat /\ IsFiniteSet(replay \cup delta)
      <3>1. IsFiniteSet(1..Len(room.log)) /\ replay \cup delta \subseteq 1..Len(room.log)
        BY <2>5, <2>6, <2>7, FS_Interval
      <3> QED
        BY <2>5, <2>6, <3>1, FS_Subset
    <2>9. cause \in Nat
      BY <2>8, LargestIs
    <2>10. /\ d \in DriveSet /\ d.left = Drive.left /\ d.posted = Drive.posted
           /\ d.spoke = Drive.spoke /\ d.life = Drive.life /\ d.seen = NoRoom /\ d.turn = 0
      <3>1. PICK h : h = meta.held[m]
        OBVIOUS
      <3>2. d = [Drive EXCEPT !.upto = upto, !.replay = h, !.seen = NoRoom] /\ h \in SUBSET Nat
        BY <2>6, <3>1
      <3> HIDE DEF d
      <3> QED
        BY <1>1, <1>2, <2>4, <3>2 DEF DriveSet
    <2> QED
      BY <2>1, <2>2, <2>4, <2>5, <2>9, <2>10
  <1>8. CASE room.exists /\ delta # {} /\ m \in meta.holds
    <2>1. /\ SetDrive(Skipped(Drive)) /\ turns' = turns
          /\ room' = [SetMark(room, Drive.thread, m, upto) EXCEPT
                        !.held[m] = @ \cup delta, !.holds = @ \cup {m}]
      BY <1>8 DEF TakeTurn
    <2>2. PICK r : r = SetMark(room, Drive.thread, m, upto)
      OBVIOUS
    <2>3. room \in RoomSet /\ delta \in SUBSET Nat /\ upto \in Nat
      BY <1>7, <1>8
    <2>4. Same(room, r)
      BY <1>3, <2>2, <2>3, SetMarkIs
    <2>5. PICK h, ho : h = [r.held EXCEPT ![m] = @ \cup delta] /\ ho = r.holds \cup {m}
      OBVIOUS
    <2>6. r \in RoomSet
      BY <2>4 DEF Same
    <2> HIDE DEF delta, upto
    <2>7. h \in [Member -> SUBSET Nat] /\ ho \in SUBSET Member
      BY <1>3, <2>3, <2>5, <2>6 DEF RoomSet
    <2>8. room' = [r EXCEPT !.held = h, !.holds = ho]
      BY <2>1, <2>2, <2>5, <2>6 DEF RoomSet
    <2>9. Same(room, room')
      BY <2>4, <2>7, <2>8 DEF Same, RoomSet
    <2>10. RoomOK(room', turns, life) /\ room'.exists = room.exists
      BY <1>7, <1>8, <2>9, SameRoom
    <2>11. PICK sk : sk = Skipped(Drive)
      OBVIOUS
    <2>12. sk \in DriveSet /\ DriveOK(sk, turns, room', life) /\ sk.at # "turn"
      BY <1>1, <1>2, <2>11, SkippedIs
    <2> QED
      BY <2>1, <2>10, <2>11, <2>12, QuietStep
  <1>9. CASE room.exists /\ delta # {} /\ m \notin meta.holds /\ ~Current
    BY <1>9, LeaveKeeps DEF TakeTurn
  <1>10. CASE room.exists /\ delta # {} /\ m \notin meta.holds /\ Current /\ Pending # {}
    <2>1. turns' = turns /\ IF room.epoch # Drive.epoch
                            THEN SetDrive(Left) /\ room' = room
                            ELSE /\ SetDrive(Settled(room, d, m, "quiet", 0).drive)
                                 /\ room' = Settled(room, d, m, "quiet", 0).room
      BY <1>10 DEF TakeTurn
    <2>2. CASE room.epoch # Drive.epoch
      BY <2>1, <2>2, LeaveKeeps
    <2>3. CASE room.epoch = Drive.epoch
      <3>1. PICK dd : dd = d
        OBVIOUS
      <3>2. PICK out : out = Settled(room, dd, m, "quiet", 0)
        OBVIOUS
      <3>3. SetDrive(out.drive) /\ room' = out.room
        BY <2>1, <2>3, <3>1, <3>2
      <3>4. /\ room \in RoomSet /\ IsInjective(room.queue) /\ PostsOK(room.log, turns, life)
            /\ dd \in DriveSet /\ dd.left # <<>> /\ dd.posted < MaxPosts /\ dd.life <= life
            /\ dd.spoke + Len(dd.left) <= NumMembers
        BY <1>1, <1>2, <1>7, <1>10, <3>1
      <3>5. /\ out.room \in RoomSet /\ out.room.queue = room.queue /\ out.drive \in DriveSet
            /\ DriveOK(out.drive, turns, room', life) /\ out.drive.at = "member"
            /\ out.room.log = room.log
        <4> HIDE DEF d, delta
        <4>1. PICK oc, z : oc = "quiet" /\ z = 0
          OBVIOUS
        <4>2. out = Settled(room, dd, m, oc, z) /\ z \in Nat /\ oc # "spoke"
          BY <3>2, <4>1
        <4>3. /\ out.room \in RoomSet /\ out.room.queue = room.queue /\ Between(out.drive, life)
              /\ out.room.log = room.log
          BY <1>1, <1>3, <3>4, <4>2, SettledIs
        <4> QED
          BY <4>3 DEF Between, DriveOK
      <3>6. RoomOK(room', turns, life) /\ room'.exists = room.exists
        BY <3>3, <3>4, <3>5 DEF RoomOK, RoomSet
      <3> QED
        BY <2>1, <3>3, <3>5, <3>6, QuietStep
    <2> QED
      BY <2>2, <2>3
  <1>11. CASE room.exists /\ delta # {} /\ m \notin meta.holds /\ Current /\ Pending = {}
    <2>1. turns' = Append(turns, row) /\ room' = room /\ SetDrive(begun)
      BY <1>11 DEF TakeTurn
    <2>2. /\ room \in RoomSet /\ cause \in Nat /\ d \in DriveSet /\ d.left # <<>> /\ d.posted < MaxPosts
          /\ d.life = life /\ d.seen = NoRoom /\ d.spoke + Len(d.left) <= NumMembers
          /\ PostsOK(room.log, turns, life)
      BY <1>2, <1>7, <1>11 DEF Current
    <2>3. PICK dd : dd = d
      OBVIOUS
    <2>4. PICK rw : rw = row
      OBVIOUS
    <2>5. /\ rw \in TurnSet /\ TurnOK(rw, room, life) /\ rw.purpose = "group" /\ rw.life = life
          /\ rw.state = "pending"
      <3>1. CountsOK
        BY DEF IInv
      <3> HIDE DEF cause
      <3> QED
        BY <1>3, <2>2, <2>4, <3>1, TurnRowIs
    <2>6. PICK us : us = turns'
      OBVIOUS
    <2>7. /\ TurnsOK(us, room, life) /\ TurnsKept(turns, us) /\ Len(us) = Len(turns) + 1
          /\ us[Len(turns) + 1] = rw /\ \A t \in 1..Len(turns) : us[t] = turns[t]
      <3> HIDE DEF row, d, begun, delta
      <3>1. us = Begun(turns, rw)
        BY <2>1, <2>4, <2>6 DEF Begun
      <3> QED
        BY <1>1, <1>4, <2>5, <3>1, TurnBegins
    <2>8. PICK n : n = Len(turns) + 1
      OBVIOUS
    <2>9. n \in 1..Len(us) /\ n \in Nat /\ us[n] = rw /\ n \notin 1..Len(turns)
      BY <1>4, <2>7, <2>8
    <2>10. PICK b : b = [dd EXCEPT !.at = "turn", !.turn = n]
      OBVIOUS
    <2>11. b \in DriveSet /\ SetDrive(b) /\ b.at = "turn" /\ b.turn = n
      BY <2>1, <2>2, <2>3, <2>8, <2>9, <2>10 DEF DriveSet
    <2>12. Unposted(room, n)
      BY <2>2, <2>9 DEF Unposted, PostsOK
    <2>13. DriveOK(b, us, room, life)
      <3>1. /\ b.life = life /\ b.left = dd.left /\ b.posted = dd.posted /\ b.seen = NoRoom
            /\ b.spoke = dd.spoke
        BY <2>2, <2>3, <2>10 DEF DriveSet
      <3> QED
        BY <1>1, <1>11, <2>2, <2>3, <2>5, <2>9, <2>11, <2>12, <3>1 DEF DriveOK, Hopes, MayPost
    <2>14. us \in Seq(TurnSet)
      BY <2>7 DEF TurnsOK
    <2>15. RoomOK(room, us, life)
      <3>1. room.log \in Seq(EntrySet)
        BY <2>2 DEF RoomSet
      <3>2. PostsOK(room.log, us, life)
        BY <1>4, <2>2, <2>7, <2>14, <3>1, PostsStay
      <3> QED
        BY <1>7, <1>11, <3>2 DEF RoomOK
    <2>16. DraftsOK(drafts, us, life)
      <3>1. DraftsOK(drafts, turns, life)
        BY DEF IInv
      <3>2. drafts \subseteq 1..Len(us)
        BY <1>4, <2>7, <3>1 DEF DraftsOK
      <3> QED
        BY <2>7, <3>1, <3>2 DEF DraftsOK
    <2>17. LoopsOK(us, drafts, inherited, chain', compress)
      <3>1. chain'[1] = b /\ chain' # <<>>
        <4>1. chain \in Seq(DriveSet)
          BY DEF IInv, ChainOK
        <4> QED
          BY <2>11, <4>1 DEF SetDrive
      <3>2. LoopsOK(turns, drafts, inherited, chain, compress) /\ chain[1].at # "turn"
        BY <1>1 DEF IInv
      <3>3. \A t \in 1..Len(us) : t \in 1..Len(turns) \/ t = n
        BY <1>4, <2>7, <2>8
      <3>4. ASSUME NEW t \in 1..Len(turns), Open(us[t]) \/ t \in drafts
            PROVE  t <= inherited \/ Waits(chain', compress, t)
        <4>1. Open(turns[t]) \/ t \in drafts
          BY <2>7, <3>4
        <4> QED
          BY <3>2, <4>1 DEF LoopsOK, Waits
      <3>5. Waits(chain', compress, n)
        BY <2>11, <3>1 DEF Waits
      <3> QED
        BY <3>3, <3>4, <3>5 DEF LoopsOK
    <2> HIDE DEF row, d, begun, delta
    <2> QED
      BY <2>1, <2>6, <2>7, <2>11, <2>13, <2>15, <2>16, <2>17, LoopStep
  <1> QED
    BY <1>5, <1>6, <1>8, <1>9, <1>10, <1>11

LEMMA NextMemberKeeps ==
    ASSUME IInv, NextMember
    PROVE  IInv'
  <1>1. /\ chain # <<>> /\ Drive.at = "member" /\ Drive.left # <<>>
        /\ UNCHANGED <<life, queue, compress, drafts, inherited, used>>
    BY DEF NextMember
  <1>2. Drive \in DriveSet /\ Drive.life <= life /\ life \in Nat /\ DriveOK(Drive, turns, room, life)
    BY <1>1, DriveIs
  <1>3. CASE Superseded \/ Drive.posted >= MaxPosts
    BY <1>1, <1>3, LeaveKeeps DEF NextMember
  <1>4. CASE ~(Superseded \/ Drive.posted >= MaxPosts)
    <2>1. room \in RoomSet /\ Meta(room) \in MetaSet
      BY <1>4, RoomIs, MetaIs DEF Superseded, Current
    <2>2. Drive.posted < MaxPosts
      <3>1. Drive.posted \in 0..MaxPosts
        BY <1>2 DEF DriveSet
      <3>2. PICK p : p = Drive.posted
        OBVIOUS
      <3> QED
        BY <1>4, <3>1, <3>2, Constants
    <2>3. CASE Head(Drive.left) \in Hidden
      <3>1. SetDrive([Drive EXCEPT !.at = "checking", !.seen = Meta(room)]) /\ UNCHANGED <<room, turns>>
        BY <1>4, <2>3 DEF NextMember
      <3>2. PICK mt : mt = Meta(room)
        OBVIOUS
      <3>3. PICK d : d = [Drive EXCEPT !.at = "checking", !.seen = mt]
        OBVIOUS
      <3>4. /\ d \in DriveSet /\ d.at = "checking" /\ d.seen = mt /\ d.turn = Drive.turn
            /\ d.left = Drive.left /\ d.posted = Drive.posted /\ d.spoke = Drive.spoke /\ d.life = Drive.life
        BY <1>2, <2>1, <3>2, <3>3 DEF DriveSet
      <3>5. DriveOK(d, turns, room, life)
        BY <1>1, <1>2, <2>1, <2>2, <3>2, <3>4 DEF DriveOK
      <3>6. RoomOK(room', turns, life) /\ room'.exists = room.exists /\ DriveOK(d, turns, room', life)
        BY <3>1, <3>5 DEF IInv
      <3> QED
        BY <1>1, <3>1, <3>2, <3>3, <3>4, <3>6, QuietStep
    <2>4. CASE Head(Drive.left) \notin Hidden
      <3>1. TakeTurn(Head(Drive.left), Meta(room))
        BY <1>4, <2>4 DEF NextMember
      <3> QED
        BY <1>1, <2>1, <2>2, <3>1, TakeTurnKeeps
    <2> QED
      BY <2>3, <2>4
  <1> QED
    BY <1>3, <1>4

LEMMA MemberCheckedKeeps ==
    ASSUME IInv, NEW exists \in BOOLEAN, MemberChecked(exists)
    PROVE  IInv'
  <1>1. /\ chain # <<>> /\ Drive.at = "checking"
        /\ UNCHANGED <<life, queue, compress, drafts, inherited, used>>
    BY DEF MemberChecked
  <1>2. DriveOK(Drive, turns, room, life)
    BY <1>1, DriveIs
  <1>3. Drive.left # <<>> /\ Drive.posted < MaxPosts /\ Drive.seen \in MetaSet
    BY <1>1, <1>2 DEF DriveOK
  <1>4. CASE exists
    <2>1. TakeTurn(Head(Drive.left), Drive.seen)
      BY <1>4 DEF MemberChecked
    <2> QED
      BY <1>1, <1>3, <2>1, TakeTurnKeeps
  <1>5. CASE ~exists
    <2>1. SetDrive(IF Superseded THEN Left ELSE Skipped(Drive)) /\ UNCHANGED <<room, turns>>
      BY <1>5 DEF MemberChecked
    <2>2. CASE Superseded
      BY <1>1, <2>1, <2>2, LeaveKeeps
    <2>3. CASE ~Superseded
      BY <1>1, <1>3, <2>1, <2>3, SkipKeeps
    <2> QED
      BY <2>2, <2>3
  <1> QED
    BY <1>4, <1>5

\* The running drive lets go of its turn, which is settled.
LEMMA TurnLetGo ==
    ASSUME IInv, chain # <<>>, Drive.at = "turn", NEW us, Len(us) = Len(turns),
           \A u \in 1..Len(turns) : u # Drive.turn => us[u] = turns[u],
           ~Open(us[Drive.turn]), NEW ds, ds = drafts \ {Drive.turn}, NEW co
    PROVE  LoopsOK(us, ds, inherited, co, compress) /\ DraftsOK(ds, us, life)
  <1>1. LoopsOK(turns, drafts, inherited, chain, compress) /\ DraftsOK(drafts, turns, life)
    BY DEF IInv
  <1>2. LoopsOK(us, ds, inherited, co, compress)
    <2> SUFFICES ASSUME NEW u \in 1..Len(us), Open(us[u]) \/ u \in ds
                 PROVE  u <= inherited \/ Waits(co, compress, u)
      BY DEF LoopsOK
    <2>1. u # Drive.turn
      OBVIOUS
    <2>2. Open(turns[u]) \/ u \in drafts
      BY <2>1
    <2>3. u <= inherited \/ Waits(chain, compress, u)
      BY <1>1, <2>2 DEF LoopsOK
    <2> QED
      BY <2>1, <2>3 DEF Waits, Drive
  <1>3. DraftsOK(ds, us, life)
    <2>1. ds \subseteq 1..Len(us)
      BY <1>1 DEF DraftsOK
    <2>2. \A u \in ds : us[u] = turns[u] /\ u \in drafts
      BY <1>1 DEF DraftsOK
    <2> QED
      BY <1>1, <2>1, <2>2 DEF DraftsOK
  <1> QED
    BY <1>2, <1>3

\* The drive leaves its turn and its thread.
LEMMA LeavesTurn ==
    ASSUME IInv, chain # <<>>, Drive.at = "turn", NEW us, TurnsOK(us, room, life), TurnsKept(turns, us),
           Len(us) = Len(turns), \A u \in 1..Len(turns) : u # Drive.turn => us[u] = turns[u],
           ~Open(us[Drive.turn]), turns' = us, drafts' = drafts \ {Drive.turn},
           SetDrive(Left), UNCHANGED <<room, life, queue, compress, inherited, used>>
    PROVE  IInv'
  <1>1. Drive \in DriveSet /\ Drive.life <= life /\ life \in Nat
    BY DriveIs
  <1>2. PICK d : d = Ended(Drive)
    OBVIOUS
  <1>3. d \in DriveSet /\ DriveOK(d, us, room, life)
    BY <1>1, <1>2, EndedIs
  <1>4. RoomOK(room, us, life)
    <2>1. CASE room = NoRoom
      BY <2>1 DEF RoomOK
    <2>2. CASE room # NoRoom
      <3>1. room \in RoomSet /\ IsInjective(room.queue) /\ PostsOK(room.log, turns, life)
        BY <2>2 DEF IInv, RoomOK
      <3>2. turns \in Seq(TurnSet) /\ us \in Seq(TurnSet) /\ room.log \in Seq(EntrySet)
        BY <3>1 DEF IInv, TurnsOK, RoomSet
      <3>3. PostsOK(room.log, us, life)
        BY <3>1, <3>2, PostsStay
      <3> QED
        BY <3>1, <3>3 DEF RoomOK
    <2> QED
      BY <2>1, <2>2
  <1>5. PICK ds, co : ds = drafts' /\ co = chain'
    OBVIOUS
  <1>6. LoopsOK(us, ds, inherited, co, compress) /\ DraftsOK(ds, us, life)
    BY <1>5, TurnLetGo
  <1>7. /\ TurnsKept(turns, turns') /\ TurnsOK(turns', room', life) /\ DriveOK(d, turns', room', life)
        /\ RoomOK(room', turns', life)
    BY <1>3, <1>4
  <1>8. DraftsOK(drafts', turns', life) /\ LoopsOK(turns', drafts', inherited, chain', compress)
    BY <1>5, <1>6
  <1>9. SetDrive(d)
    BY <1>2 DEF Left
  <1> QED
    BY <1>3, <1>7, <1>8, <1>9, LoopStep

\* The turn is the room's, and leaves a reply or a mark.
LEMMA TurnSettles ==
    ASSUME IInv, chain # <<>>, Drive.at = "turn", Drive.life = life, NEW us, TurnsOK(us, room, life),
           TurnsKept(turns, us), Len(us) = Len(turns),
           \A u \in 1..Len(turns) : u # Drive.turn => us[u] = turns[u],
           ~Open(us[Drive.turn]), turns' = us, drafts' = drafts \ {Drive.turn},
           NEW outcome, NEW z \in Nat, NEW m \in Member,
           outcome = "spoke" => z = Drive.turn /\ us[Drive.turn].state = "spoke",
           NEW out, out = Settled(room, Drive, m, outcome, z), SetDrive(out.drive), room' = out.room,
           UNCHANGED <<life, queue, compress, inherited, used>>
    PROVE  IInv'
  <1>1. /\ Drive \in DriveSet /\ Drive.life <= life /\ life \in Nat
        /\ DriveOK(Drive, turns, room, life)
    BY DriveIs
  <1>2. /\ room.exists /\ MayPost(room, turns, Drive.turn) /\ Drive.left # <<>> /\ Drive.posted < MaxPosts
        /\ Drive.turn \in 1..Len(turns) /\ turns[Drive.turn].life = life
        /\ turns[Drive.turn].purpose = "group" /\ Drive.spoke + Len(Drive.left) <= NumMembers
    BY <1>1 DEF DriveOK, Hopes
  <1>3. room \in RoomSet /\ IsInjective(room.queue) /\ PostsOK(room.log, turns, life)
    BY <1>2, RoomIs
  <1>4. turns \in Seq(TurnSet) /\ us \in Seq(TurnSet) /\ room.log \in Seq(EntrySet)
    BY <1>3 DEF IInv, TurnsOK, RoomSet
  <1>5. PostsOK(room.log, us, life)
    BY <1>3, <1>4, PostsStay
  <1>6. /\ out.room \in RoomSet /\ out.room.queue = room.queue /\ Between(out.drive, life)
        /\ outcome # "spoke" => out.room.log = room.log
        /\ outcome = "spoke" => \E e : Grown(room, out.room, e) /\ e.turn = z
    BY <1>1, <1>2, <1>3, SettledIs
  <1>7. PICK h, d : h = out.room /\ d = out.drive
    OBVIOUS
  <1>8. /\ us[Drive.turn].life = life /\ us[Drive.turn].purpose = "group"
        /\ Again(us[Drive.turn]) \/ Unposted(room, Drive.turn)
    BY <1>2 DEF TurnsKept, MayPost
  <1>9. PostsOK(h.log, us, life)
    <2>1. CASE outcome # "spoke"
      BY <1>5, <1>6, <1>7, <2>1
    <2>2. CASE outcome = "spoke"
      <3>1. PICK e : Grown(room, h, e) /\ e.turn = z
        BY <1>6, <1>7, <2>2
      <3>2. z \in 1..Len(us) /\ us[z].state = "spoke" /\ us[z].life = life /\ us[z].purpose = "group"
        BY <1>2, <1>8, <2>2
      <3>3. Again(us[z]) \/ (us[z].life = life /\ Unposted(room, z))
        BY <1>8, <2>2
      <3> QED
        BY <1>3, <1>4, <1>5, <3>1, <3>2, <3>3, PostsGrow
    <2> QED
      BY <2>1, <2>2
  <1>10. RoomOK(h, us, life) /\ h.exists = room.exists
    BY <1>3, <1>6, <1>7, <1>9 DEF RoomOK, RoomSet
  <1>11. d \in DriveSet /\ DriveOK(d, us, h, life)
    BY <1>6, <1>7 DEF Between, DriveOK
  <1>12. TurnsOK(us, h, life)
    BY <1>10, TurnsInRoom
  <1>13. PICK ds, co : ds = drafts' /\ co = chain'
    OBVIOUS
  <1>14. LoopsOK(us, ds, inherited, co, compress) /\ DraftsOK(ds, us, life)
    BY <1>13, TurnLetGo
  <1>15. /\ TurnsKept(turns, turns') /\ TurnsOK(turns', room', life) /\ DriveOK(d, turns', room', life)
         /\ RoomOK(room', turns', life) /\ SetDrive(d)
    BY <1>7, <1>10, <1>11, <1>12
  <1>16. DraftsOK(drafts', turns', life) /\ LoopsOK(turns', drafts', inherited, chain', compress)
    BY <1>13, <1>14
  <1> QED
    BY <1>11, <1>15, <1>16, LoopStep

LEMMA TurnEndsKeeps ==
    ASSUME IInv, TurnEnds
    PROVE  IInv'
  <1>1. /\ chain # <<>> /\ Drive.at = "turn" /\ UNCHANGED <<life, queue, compress, inherited, used>>
        /\ Drive.life # life \/ turns[Drive.turn].state # "pending"
    BY DEF TurnEnds
  <1>2. /\ Drive \in DriveSet /\ Drive.life <= life /\ life \in Nat
        /\ DriveOK(Drive, turns, room, life)
    BY <1>1, DriveIs
  <1>3. PICK t : t = Drive.turn
    OBVIOUS
  <1>4. /\ t \in 1..Len(turns) /\ turns[t].life = Drive.life /\ t \in Nat
        /\ Drive.left # <<>>
    BY <1>1, <1>2, <1>3 DEF DriveOK, DriveSet
  <1>5. TurnsOK(turns, room, life) /\ turns \in Seq(TurnSet) /\ turns[t] \in TurnSet /\ DraftsOK(drafts, turns, life)
    BY <1>4 DEF IInv, TurnsOK
  <1>6. TurnOK(turns[t], room, life)
    BY <1>4, <1>5 DEF TurnsOK
  <1>7. turns[t].state # "pending"
    BY <1>1, <1>3, <1>4, <1>6 DEF TurnOK
  <1>8. CASE Drive.life # life
    <2>1. turns' = turns /\ drafts' = drafts \ {t} /\ SetDrive(Left) /\ room' = room
      BY <1>3, <1>8 DEF TurnEnds, Current
    <2>2. TurnsKept(turns, turns)
      BY <1>5, KeptReflexive
    <2>3. ~Open(turns[Drive.turn])
      BY <1>1, <1>7, <1>3, <1>8, WaitIs DEF Open, Drive
    <2> QED
      BY <1>1, <1>3, <1>5, <2>1, <2>2, <2>3, LeavesTurn
  <1>9. CASE Drive.life = life
    <2>1. PICK rw : rw = Claimed(turns[t])
      OBVIOUS
    <2>2. /\ rw \in TurnSet /\ rw.life = turns[t].life /\ rw.purpose = turns[t].purpose
          /\ rw.state = (IF turns[t].state = "spoke" THEN "spoke" ELSE "quiet")
          /\ rw.answered = TRUE /\ rw.consumed = TRUE /\ (Again(turns[t]) => Again(rw))
      BY <1>5, <2>1, ClaimedSettled
    <2>3. rw.state = turns[t].state
      BY <1>5, <1>7, <2>2 DEF TurnSet
    <2>4. TurnOK(rw, room, life)
      <3>1. rw.life <= life /\ rw.state # "pending" /\ (rw.state = "spoke" => rw.answered = TRUE)
        BY <1>6, <2>2 DEF TurnOK
      <3> QED
        BY <1>2, <2>2, <3>1, SettledOK
    <2>5. PICK us : us = Changed(turns, t, rw)
      OBVIOUS
    <2>6. turns' = us
      BY <1>3, <1>9, <2>1, <2>5 DEF TurnEnds, Changed
    <2>7. /\ TurnsOK(us, room, life) /\ TurnsKept(turns, us) /\ Len(us) = Len(turns) /\ us[t] = rw
          /\ \A u \in 1..Len(turns) : u # t => us[u] = turns[u]
      BY <1>2, <1>4, <1>5, <2>2, <2>3, <2>4, <2>5, TurnChanges
    <2>8. drafts' = drafts \ {t}
      <3>1. drafts' = drafts
        BY <1>9 DEF TurnEnds
      <3>2. t \notin drafts
        BY <1>4, <1>5, <1>7, <1>9 DEF DraftsOK
      <3> QED
        BY <3>1, <3>2
    <2>9. ~Open(us[t])
      BY <1>7, <2>2, <2>3, <2>7 DEF Open
    <2>10. CASE ~Current \/ (room.epoch # Drive.epoch /\ turns[t].state # "spoke")
      <3>1. SetDrive(Left) /\ room' = room
        BY <1>3, <2>10 DEF TurnEnds
      <3> QED
        BY <1>1, <1>3, <2>6, <2>7, <2>8, <2>9, <3>1, LeavesTurn
    <2>11. CASE ~(~Current \/ (room.epoch # Drive.epoch /\ turns[t].state # "spoke"))
      <3>1. PICK out, m, oc : /\ m = Head(Drive.left) /\ oc = turns[t].state
                              /\ out = Settled(room, Drive, m, oc, t)
        OBVIOUS
      <3>2. SetDrive(out.drive) /\ room' = out.room
        BY <1>3, <2>11, <3>1 DEF TurnEnds
      <3>3. m \in Member
        BY <1>2, <1>4, <3>1 DEF DriveSet
      <3>4. oc = "spoke" => t = Drive.turn /\ us[Drive.turn].state = "spoke"
        BY <1>3, <2>3, <2>7, <3>1
      <3> QED
        BY <1>1, <1>3, <1>4, <1>9, <2>6, <2>7, <2>8, <2>9, <3>1, <3>2, <3>3, <3>4, TurnSettles
    <2> QED
      BY <2>10, <2>11
  <1> QED
    BY <1>8, <1>9

LEMMA TurnTimesOutKeeps ==
    ASSUME IInv, TurnTimesOut
    PROVE  IInv'
  <1>1. /\ chain # <<>> /\ Drive.at = "turn" /\ UNCHANGED <<life, queue, compress, inherited, used>>
        /\ Drive.life = life /\ turns[Drive.turn].state = "pending"
    BY DEF TurnTimesOut
  <1>2. /\ Drive \in DriveSet /\ Drive.life <= life /\ life \in Nat
        /\ DriveOK(Drive, turns, room, life)
    BY <1>1, DriveIs
  <1>3. PICK t : t = Drive.turn
    OBVIOUS
  <1>4. t \in 1..Len(turns) /\ Drive.left # <<>>
    BY <1>1, <1>2, <1>3 DEF DriveOK
  <1>5. TurnsOK(turns, room, life) /\ turns \in Seq(TurnSet) /\ turns[t] \in TurnSet
    BY <1>4 DEF IInv, TurnsOK
  <1>6. TurnOK(turns[t], room, life)
    BY <1>4, <1>5 DEF TurnsOK
  <1>7. PICK out1 : out1 = "timeout"
    OBVIOUS
  <1>8. PICK rw : rw = Claimed([turns[t] EXCEPT !.state = out1])
    OBVIOUS
  <1>9. /\ rw \in TurnSet /\ rw.life = turns[t].life /\ rw.purpose = turns[t].purpose
        /\ rw.state = "quiet" /\ rw.answered = TRUE /\ (Again(turns[t]) => Again(rw))
    <2>1. PICK old : old = turns[t]
      OBVIOUS
    <2>2. old \in TurnSet /\ rw = Claimed([old EXCEPT !.state = "timeout"])
      BY <1>5, <1>7, <1>8, <2>1
    <2>3. /\ rw \in TurnSet /\ rw.life = old.life /\ rw.purpose = old.purpose
          /\ rw.state = "quiet" /\ rw.answered = TRUE /\ (Again(old) => Again(rw))
      BY <2>2, ClaimedIs
    <2> QED
      BY <2>1, <2>3
  <1>10. TurnOK(rw, room, life)
    <2>1. rw.life <= life /\ rw.state # "pending" /\ (rw.state = "spoke" => rw.answered = TRUE)
      BY <1>6, <1>9 DEF TurnOK
    <2> QED
      BY <1>2, <1>9, <2>1, SettledOK
  <1>11. PICK us : us = Changed(turns, t, rw)
    OBVIOUS
  <1>12. turns' = us
    BY <1>3, <1>4, <1>5, <1>7, <1>8, <1>11 DEF TurnTimesOut, Changed
  <1>13. turns[t].state # "pending" => rw.state = turns[t].state
    BY <1>1, <1>3
  <1>14. /\ TurnsOK(us, room, life) /\ TurnsKept(turns, us) /\ Len(us) = Len(turns) /\ us[t] = rw
         /\ \A u \in 1..Len(turns) : u # t => us[u] = turns[u]
    BY <1>2, <1>4, <1>5, <1>9, <1>10, <1>11, <1>13, TurnChanges
  <1>15. ~Open(us[t]) /\ drafts' = drafts \ {t}
    BY <1>3, <1>9, <1>14 DEF TurnTimesOut, Open
  <1>16. CASE Superseded
    <2>1. SetDrive(Left) /\ room' = room
      BY <1>16 DEF TurnTimesOut
    <2> QED
      BY <1>1, <1>3, <1>12, <1>14, <1>15, <2>1, LeavesTurn
  <1>17. CASE ~Superseded
    <2>1. PICK oc, z : oc = "quiet" /\ z = 0
      OBVIOUS
    <2>2. PICK out, m : m = Head(Drive.left) /\ out = Settled(room, Drive, m, oc, z)
      OBVIOUS
    <2>3. SetDrive(out.drive) /\ room' = out.room
      BY <1>17, <2>1, <2>2 DEF TurnTimesOut
    <2>4. m \in Member /\ z \in Nat /\ oc # "spoke"
      BY <1>2, <1>4, <2>1, <2>2 DEF DriveSet
    <2> QED
      BY <1>1, <1>3, <1>12, <1>14, <1>15, <2>2, <2>3, <2>4, TurnSettles
  <1> QED
    BY <1>16, <1>17

------------------------------------------------------------------------------
(* Threads and the queue.                                                      *)

LEMMA RoomCarries ==
    ASSUME NEW r, NEW ts \in Seq(TurnSet), NEW us \in Seq(TurnSet), NEW l, RoomOK(r, ts, l),
           TurnsKept(ts, us)
    PROVE  RoomOK(r, us, l)
  <1>1. CASE r = NoRoom
    BY <1>1 DEF RoomOK
  <1>2. CASE r # NoRoom
    <2>1. r \in RoomSet /\ IsInjective(r.queue) /\ PostsOK(r.log, ts, l)
      BY <1>2 DEF RoomOK
    <2>2. r.log \in Seq(EntrySet)
      BY <2>1 DEF RoomSet
    <2>3. PostsOK(r.log, us, l)
      BY <2>1, <2>2, PostsStay
    <2> QED
      BY <2>1, <2>3 DEF RoomOK
  <1> QED
    BY <1>1, <1>2

LEMMA LiveQueueIs ==
    ASSUME IInv
    PROVE  /\ LiveQueue \in Seq(Thread) /\ IsInjective(LiveQueue)
           /\ LiveQueue # <<>> => /\ Head(LiveQueue) \in Thread /\ Tail(LiveQueue) \in Seq(Thread)
                                  /\ IsInjective(Tail(LiveQueue))
  <1>1. LiveQueue \in Seq(Thread) /\ IsInjective(LiveQueue)
    <2>1. CASE queue # Unset
      BY <2>1 DEF LiveQueue, IInv, QueueOK
    <2>2. CASE queue = Unset /\ room.exists
      BY <2>2, RoomIs DEF LiveQueue, RoomSet
    <2>3. CASE queue = Unset /\ ~room.exists
      <3>1. LiveQueue = <<>> /\ <<>> \in Seq(Thread)
        BY <2>3 DEF LiveQueue
      <3>2. IsInjective(<<>>)
        BY DEF IsInjective
      <3> QED
        BY <3>1, <3>2
    <2> QED
      BY <2>1, <2>2, <2>3
  <1>2. ASSUME LiveQueue # <<>>
        PROVE  /\ Head(LiveQueue) \in Thread /\ Tail(LiveQueue) \in Seq(Thread)
               /\ IsInjective(Tail(LiveQueue))
    <2>1. PICK q, s : q = LiveQueue /\ s = Tail(LiveQueue)
      OBVIOUS
    <2>2. q \in Seq(Thread) /\ q # <<>> /\ IsInjective(q) /\ Len(q) \in Nat
      BY <1>1, <1>2, <2>1
    <2>3. s \in Seq(Thread) /\ Len(s) = Len(q) - 1 /\ \A i \in 1..Len(s) : s[i] = q[i + 1]
      BY <2>1, <2>2
    <2>4. IsInjective(s)
      <3> SUFFICES ASSUME NEW i \in 1..Len(s), NEW j \in 1..Len(s), s[i] = s[j] PROVE i = j
        BY <2>3 DEF IsInjective
      <3>1. q[i + 1] = q[j + 1] /\ i + 1 \in 1..Len(q) /\ j + 1 \in 1..Len(q)
        BY <2>2, <2>3
      <3>2. i + 1 = j + 1
        BY <2>2, <3>1 DEF IsInjective
      <3> QED
        BY <3>2
    <2>5. Head(q) \in Thread
      BY <2>2
    <2> QED
      BY <2>1, <2>3, <2>4, <2>5
  <1> QED
    BY <1>1, <1>2

\* What touches neither the log nor whether there is a room.
LEMMA RoomSwaps ==
    ASSUME IInv, NEW r2, RoomOK(r2, turns, life), r2.exists = room.exists,
           room.exists => r2.log = room.log
    PROVE  ChainOK(chain, turns, r2, life) /\ TurnsOK(turns, r2, life)
  <1>1. turns \in Seq(TurnSet) /\ TurnsOK(turns, room, life) /\ life \in Nat
    BY DEF IInv, TurnsOK, CountsOK
  <1>2. TurnsKept(turns, turns) /\ ChainOK(chain, turns, room, life) /\ life <= life
    BY <1>1, KeptReflexive DEF IInv
  <1>3. ASSUME chain # <<>>, chain[1].at = "turn"
        PROVE  Hopes(chain[1], turns, r2, life)
    <2>1. chain[1].life = life => room.exists
      BY <1>3, WaitIs DEF Hopes
    <2>2. room.exists /\ Unposted(room, chain[1].turn) => Unposted(r2, chain[1].turn)
      BY DEF Unposted
    <2> QED
      BY <1>2, <1>3, <2>1, <2>2, HopesStay DEF MayPost
  <1>4. ChainOK(chain, turns, r2, life)
    BY <1>1, <1>2, <1>3, ChainCarries
  <1> QED
    BY <1>1, <1>4, TurnsInRoom

Queued(r, q, epoch) == [r EXCEPT !.queue = q, !.epoch = epoch]

LEMMA QueueSaved ==
    ASSUME IInv, room.exists, NEW q \in Seq(Thread), IsInjective(q), NEW epoch \in Nat, NEW h,
           h = Queued(room, q, epoch)
    PROVE  RoomOK(h, turns, life) /\ h.exists = room.exists /\ h.log = room.log /\ h.epoch = epoch
  BY RoomIs DEF RoomOK, RoomSet, Queued

\* A drive that does not wait lets go of nothing.
LEMMA NothingLetGo ==
    ASSUME IInv, chain # <<>> => chain[1].at # "turn", NEW co
    PROVE  LoopsOK(turns, drafts, inherited, co, compress)
  BY DEF IInv, LoopsOK, Waits

LEMMA ThreadEndsKeeps ==
    ASSUME IInv, ThreadEnds
    PROVE  IInv'
  <1> DEFINE popped == IF LiveQueue = <<>> THEN LiveQueue ELSE Tail(LiveQueue)
             saved == IF room.exists /\ LiveQueue # <<>> THEN [room EXCEPT !.queue = popped] ELSE room
  <1>1. /\ chain # <<>> /\ Drive.at = "over"
        /\ UNCHANGED <<life, turns, compress, drafts, inherited, used>>
    BY DEF ThreadEnds
  <1>2. /\ Drive \in DriveSet /\ Drive.life <= life /\ life \in Nat /\ chain[1] = Drive
        /\ DriveOK(Drive, turns, room, life)
    BY <1>1, DriveIs
  <1>3. PICK q, p, r2 : q = LiveQueue /\ p = popped /\ r2 = saved
    OBVIOUS
  <1>4. p \in Seq(Thread) /\ IsInjective(p) /\ (q # <<>> => Head(q) \in Thread)
    BY <1>3, LiveQueueIs
  <1>5. RoomOK(r2, turns, life) /\ r2.exists = room.exists /\ (room.exists => r2.log = room.log)
    <2>1. CASE room.exists /\ q # <<>>
      <3>1. room \in RoomSet
        BY <2>1, RoomIs
      <3>2. PICK e : e = room.epoch
        OBVIOUS
      <3>3. e \in Nat /\ r2 = Queued(room, p, e)
        BY <1>3, <2>1, <3>1, <3>2 DEF RoomSet, Queued
      <3> QED
        BY <1>4, <2>1, <3>3, QueueSaved
    <2>2. CASE ~(room.exists /\ q # <<>>)
      <3>1. r2 = room
        BY <1>3, <2>2
      <3> QED
        BY <3>1 DEF IInv
    <2> QED
      BY <2>1, <2>2
  <1>6. ChainOK(chain, turns, r2, life) /\ TurnsOK(turns, r2, life)
    BY <1>5, RoomSwaps
  <1>7. turns \in Seq(TurnSet) /\ TurnsKept(turns, turns) /\ chain \in Seq(DriveSet)
    BY <1>6, KeptReflexive DEF TurnsOK, ChainOK
  <1>8. PICK co : co = chain'
    OBVIOUS
  <1>9. LoopsOK(turns, drafts, inherited, co, compress)
    BY <1>1, <1>2, NothingLetGo
  <1>10. /\ CountsOK' /\ CompressOK(compress, turns) /\ DraftsOK(drafts, turns, life)
         /\ inherited \in 0..Len(turns)
    BY <1>1 DEF IInv, CountsOK
  <1>11. CASE ~Superseded /\ q # <<>>
    <2>1. /\ SetDrive(RoundOf([Drive EXCEPT !.thread = Head(q), !.posted = 0], 0))
          /\ queue' = p /\ room' = r2
      BY <1>3, <1>11 DEF ThreadEnds
    <2>2. PICK th : th = Head(q)
      OBVIOUS
    <2>3. PICK d0 : d0 = [Drive EXCEPT !.thread = th, !.posted = 0]
      OBVIOUS
    <2>4. th \in Thread /\ 0 \in 0..MaxPosts /\ 0 \in 0..(MaxRounds - 1)
      BY <1>4, <1>11, <2>2, Constants
    <2>5. d0 \in DriveSet /\ d0.life = Drive.life /\ d0.turn = Drive.turn /\ d0.seen = Drive.seen
      BY <1>2, <2>3, <2>4 DEF DriveSet
    <2>6. d0.turn = 0 /\ d0.seen = NoRoom
      BY <1>1, <1>2, <2>5 DEF DriveOK
    <2>7. PICK d : d = RoundOf(d0, 0)
      OBVIOUS
    <2>8. d \in DriveSet /\ DriveOK(d, turns, room, life) /\ d.at # "turn"
      BY <1>1, <1>2, <2>4, <2>5, <2>6, <2>7, RoundOfIs
    <2>9. DriveOK(d, turns, r2, life)
      BY <2>8 DEF DriveOK
    <2>10. co = Headed(chain, d)
      BY <1>8, <2>1, <2>2, <2>3, <2>7 DEF SetDrive, Headed
    <2>11. ChainOK(co, turns, r2, life) /\ co # <<>>
      BY <1>1, <1>2, <1>6, <1>7, <2>8, <2>9, <2>10, HeadChanges
    <2>12. QueueOK(p) /\ IdleOK(p, r2, co, compress)
      BY <1>4, <2>11 DEF QueueOK, IdleOK
    <2> QED
      BY <1>1, <1>5, <1>6, <1>8, <1>9, <1>10, <2>1, <2>11, <2>12 DEF IInv
  <1>12. CASE Len(chain) > 1 /\ (Superseded \/ q = <<>>)
    <2>1. co = Tail(chain) /\ UNCHANGED <<queue, room>>
      <3>1. ~(~Superseded /\ LiveQueue # <<>>) /\ Len(chain) > 1 /\ (Superseded \/ LiveQueue = <<>>)
            /\ ~(Len(chain) = 1 /\ (Superseded \/ LiveQueue = <<>>))
        <4>1. ~(~Superseded /\ LiveQueue # <<>>) /\ Len(chain) > 1 /\ (Superseded \/ LiveQueue = <<>>)
          BY <1>3, <1>12
        <4>2. Len(chain) # 1
          <5>1. PICK n : n = Len(chain)
            OBVIOUS
          <5>2. n > 1 /\ n \in Nat
            BY <1>7, <1>12, <5>1
          <5>3. n # 1
            BY <5>2
          <5> QED
            BY <5>1, <5>3
        <4> QED
          BY <4>1, <4>2
      <3>2. chain' = Tail(chain) /\ UNCHANGED <<queue, room>>
        BY <3>1, Zenon DEF ThreadEnds
      <3> QED
        BY <1>8, <3>2
    <2>2. co \in Seq(DriveSet) /\ Len(co) = Len(chain) - 1 /\ \A i \in 1..Len(co) : co[i] = chain[i + 1]
      BY <1>7, <1>12, <2>1
    <2>3. ChainOK(chain, turns, room, life)
      BY DEF IInv
    <2>4. ASSUME NEW i \in 1..Len(co)
          PROVE  DriveOK(co[i], turns, room, life) /\ (i > 1 => co[i].at = "waiting")
      <3>1. i + 1 \in 1..Len(chain) /\ i + 1 > 1 /\ co[i] = chain[i + 1]
        BY <1>7, <2>2
      <3> QED
        BY <2>3, <3>1 DEF ChainOK
    <2>5. ChainOK(co, turns, room, life) /\ co # <<>>
      <3>1. co # <<>>
        BY <1>7, <1>12, <2>2
      <3> QED
        BY <2>2, <2>4, <3>1 DEF ChainOK
    <2>6. IdleOK(queue, room, co, compress)
      BY <2>5 DEF IdleOK
    <2>7. RoomOK(room, turns, life) /\ TurnsOK(turns, room, life) /\ QueueOK(queue)
      BY DEF IInv
    <2> QED
      BY <1>1, <1>8, <1>9, <1>10, <2>1, <2>5, <2>6, <2>7 DEF IInv
  <1>13. CASE Len(chain) = 1 /\ (Superseded \/ q = <<>>)
    <2>1. /\ queue' = p /\ room' = r2
          /\ co = IF q # <<>> /\ room.exists THEN Chained(<<>>, room.epoch, Head(q)) ELSE <<>>
      <3>1. ~(~Superseded /\ LiveQueue # <<>>) /\ Len(chain) = 1 /\ (Superseded \/ LiveQueue = <<>>)
            /\ ~(Len(chain) > 1 /\ (Superseded \/ LiveQueue = <<>>))
        BY <1>3, <1>7, <1>13
      <3>2. /\ queue' = popped /\ room' = saved
            /\ chain' = IF LiveQueue # <<>> /\ room.exists
                        THEN Chained(<<>>, room.epoch, Head(LiveQueue)) ELSE <<>>
        BY <3>1, Zenon DEF ThreadEnds
      <3> QED
        BY <1>3, <1>8, <3>2
    <2>2. PICK none : none = <<>>
      OBVIOUS
    <2>3. ChainOK(none, turns, r2, life)
      <3>1. none \in Seq(DriveSet) /\ Len(none) = 0
        BY <2>2
      <3> QED
        BY <3>1 DEF ChainOK
    <2>4. ChainOK(co, turns, r2, life) /\ (q # <<>> /\ room.exists => co # <<>>)
      <3>1. CASE q # <<>> /\ room.exists
        <4>1. PICK e, th : e = room.epoch /\ th = Head(q)
          OBVIOUS
        <4>2. e \in Nat /\ th \in Thread /\ CountsOK
          BY <1>4, <3>1, <4>1, RoomIs DEF RoomSet, IInv
        <4>3. ChainOK(Chained(none, e, th), turns, r2, life) /\ Chained(none, e, th) # <<>>
          BY <2>3, <4>2, ChainedIs
        <4> QED
          BY <2>1, <2>2, <3>1, <4>1, <4>3
      <3>2. CASE ~(q # <<>> /\ room.exists)
        BY <2>1, <2>2, <2>3, <3>2
      <3> QED
        BY <3>1, <3>2
    <2>5. IdleOK(p, r2, co, compress)
      <3> SUFFICES ASSUME r2.exists, co = <<>> PROVE p = <<>>
        BY DEF IdleOK, Contains
      <3>1. q = <<>>
        BY <1>5, <2>4
      <3> QED
        BY <1>3, <3>1
    <2>6. QueueOK(p)
      BY <1>4 DEF QueueOK
    <2> QED
      BY <1>1, <1>5, <1>6, <1>8, <1>9, <1>10, <2>1, <2>4, <2>5, <2>6 DEF IInv
  <1> QED
    <2>1. Len(chain) \in Nat /\ Len(chain) # 0
      BY <1>1, <1>7
    <2>2. Len(chain) > 1 \/ Len(chain) = 1
      BY <2>1
    <2> QED
      BY <1>11, <1>12, <1>13, <2>2

------------------------------------------------------------------------------
(* The requests.                                                               *)

LEMMA TurnsCarry ==
    ASSUME IInv, NEW us \in Seq(TurnSet), TurnsKept(turns, us)
    PROVE  /\ RoomOK(room, us, life) /\ ChainOK(chain, us, room, life) /\ CompressOK(compress, us)
           /\ inherited \in 0..Len(us)
  <1>1. turns \in Seq(TurnSet) /\ life \in Nat /\ life <= life
    BY DEF IInv, TurnsOK, CountsOK
  <1>2. RoomOK(room, us, life)
    BY <1>1, RoomCarries DEF IInv
  <1>3. ASSUME chain # <<>>, chain[1].at = "turn"
        PROVE  Hopes(chain[1], us, room, life)
    <2>1. chain[1].life = life => room.exists
      BY <1>3, WaitIs DEF Hopes
    <2> QED
      BY <1>3, <2>1, HopesStay DEF MayPost
  <1>4. ChainOK(chain, us, room, life)
    BY <1>1, <1>3, ChainCarries DEF IInv
  <1>5. inherited \in 0..Len(us)
    <2>1. Len(turns) \in Nat /\ Len(us) \in Nat /\ Len(turns) <= Len(us)
      BY <1>1 DEF TurnsKept
    <2> QED
      BY <2>1 DEF IInv
  <1> QED
    BY <1>1, <1>2, <1>4, <1>5, CompressStays DEF IInv

LEMMA ActCounts ==
    ASSUME CountsOK, Act, life' = life \/ life' = life + 1
    PROVE  CountsOK'
  <1>1. PICK a, b : a = used.acts /\ b = life
    OBVIOUS
  <1>2. a \in Nat /\ b \in Nat \ {0} /\ a < MaxActs /\ b <= a + 1
    BY <1>1 DEF CountsOK, UsedSet, Act
  <1>3. used' \in UsedSet /\ used'.acts = a + 1
    BY <1>1, <1>2 DEF CountsOK, UsedSet, Act
  <1>4. a + 1 <= MaxActs /\ b <= (a + 1) + 1 /\ b + 1 <= (a + 1) + 1 /\ b + 1 \in Nat \ {0}
    BY <1>2, Constants
  <1> QED
    BY <1>1, <1>2, <1>3, <1>4 DEF CountsOK

LEMMA FreshRoomIs ==
    ASSUME NEW ts, NEW l, NEW r, r = FreshRoom
    PROVE  RoomOK(r, ts, l) /\ r \in RoomSet /\ r.exists = TRUE /\ Len(r.log) = 0
  <1>1. /\ <<>> \in Seq(EntrySet) /\ <<>> \in Seq(Thread) /\ {} \in SUBSET Member /\ {} \in SUBSET Nat
        /\ Len(<<>>) = 0
    OBVIOUS
  <1>2. r \in RoomSet
    BY <1>1 DEF FreshRoom, RoomSet
  <1>3. r.log = <<>> /\ r.queue = <<>> /\ r.exists = TRUE
    BY DEF FreshRoom
  <1>4. IsInjective(r.queue)
    BY <1>3 DEF IsInjective
  <1>5. PostsOK(r.log, ts, l)
    BY <1>3 DEF PostsOK
  <1> QED
    BY <1>1, <1>2, <1>3, <1>4, <1>5 DEF RoomOK

LEMMA CreateRoomKeeps ==
    ASSUME IInv, CreateRoom
    PROVE  IInv'
  <1>1. ~room.exists /\ UNCHANGED <<life, turns, chain, queue, compress, drafts, inherited, used>>
    BY DEF CreateRoom
  <1>2. PICK r : r = FreshRoom
    OBVIOUS
  <1>3. RoomOK(r, turns, life) /\ r \in RoomSet /\ r.exists = TRUE /\ Len(r.log) = 0
    BY <1>2, FreshRoomIs
  <1>4. turns \in Seq(TurnSet) /\ TurnsOK(turns, room, life) /\ life \in Nat /\ life <= life
    BY DEF IInv, TurnsOK, CountsOK
  <1>5. TurnsOK(turns, r, life)
    BY <1>1, <1>4 DEF TurnsOK, TurnOK
  <1>6. ChainOK(chain, turns, r, life)
    <2>1. TurnsKept(turns, turns) /\ ChainOK(chain, turns, room, life)
      BY <1>4, KeptReflexive DEF IInv
    <2>2. \A t : Unposted(r, t)
      BY <1>3 DEF Unposted
    <2>3. chain # <<>> /\ chain[1].at = "turn" => Hopes(chain[1], turns, r, life)
      BY <1>3, <2>1, <2>2, HopesStay DEF MayPost
    <2> QED
      BY <1>4, <2>1, <2>3, ChainCarries
  <1>7. IdleOK(queue, r, chain, compress)
    BY <1>3 DEF IdleOK
  <1>8. CountsOK'
    BY <1>1 DEF IInv, CountsOK
  <1>9. room' = r
    BY <1>2 DEF CreateRoom
  <1> QED
    BY <1>1, <1>3, <1>5, <1>6, <1>7, <1>8, <1>9 DEF IInv

LEMMA DeleteRoomKeeps ==
    ASSUME IInv, DeleteRoom, ~Due
    PROVE  IInv'
  <1>1. /\ room.exists /\ Act /\ UNCHANGED <<chain, queue, compress, drafts, inherited>>
        /\ room' = NoRoom
    BY DEF DeleteRoom
  <1>2. PICK us, l : us = CancelPending(turns) /\ l = life + 1
    OBVIOUS
  <1>3. turns' = us /\ life' = l
    BY <1>2 DEF DeleteRoom
  <1>4. CountsOK' /\ life \in Nat
    BY <1>1, <1>2, <1>3, ActCounts DEF IInv, CountsOK
  <1>5. l \in Nat /\ life <= l /\ life < l
    BY <1>2, <1>4
  <1>6. turns \in Seq(TurnSet) /\ TurnsOK(turns, room, life)
    BY DEF IInv, TurnsOK
  <1>7. PICK gone : gone = NoRoom
    OBVIOUS
  <1>8. /\ TurnsOK(us, gone, l) /\ TurnsKept(turns, us) /\ Len(us) = Len(turns)
        /\ \A t \in 1..Len(us) : us[t].state # "pending" /\ (us[t] = turns[t] \/ us[t].state = "quiet")
    BY <1>2, <1>4, <1>5, <1>6, CancelIs
  <1>9. us \in Seq(TurnSet)
    BY <1>8 DEF TurnsOK
  <1>10. RoomOK(gone, us, l)
    BY <1>7 DEF RoomOK
  <1>11. ChainOK(chain, us, gone, l)
    <2>1. chain # <<>> => chain[1].life # l
      <3>1. chain # <<>> => Drive.life \in Nat /\ Drive.life <= life
        BY DriveIs
      <3> QED
        BY <1>4, <1>5, <3>1 DEF Drive
    <2>2. ChainOK(chain, turns, room, life)
      BY DEF IInv
    <2>3. ASSUME chain # <<>>, chain[1].at = "turn" PROVE Hopes(chain[1], us, gone, l)
      <3>1. PICK t : t = chain[1].turn
        OBVIOUS
      <3>2. t \in 1..Len(us)
        BY <1>8, <2>3, <3>1, WaitIs
      <3>3. turns[t].state # "spoke"
        <4>1. CASE chain[1].life # life
          BY <2>3, <3>1, <4>1, WaitIs
        <4>2. CASE chain[1].life = life
          BY <2>3, <3>1, <4>2 DEF Due, Woken, Drive, Pending
        <4> QED
          BY <4>1, <4>2
      <3>4. us[t].state # "spoke"
        BY <1>8, <3>2, <3>3
      <3> QED
        BY <2>1, <2>3, <3>1, <3>4 DEF Hopes
    <2> QED
      BY <1>4, <1>5, <1>6, <1>8, <1>9, <2>2, <2>3, ChainCarries
  <1>12. CompressOK(compress, us) /\ inherited \in 0..Len(us)
    BY <1>8, <1>9, TurnsCarry
  <1>13. DraftsOK(drafts, us, l)
    <2>1. DraftsOK(drafts, turns, life)
      BY DEF IInv
    <2>2. ASSUME NEW t \in drafts PROVE us[t].purpose = "group" /\ us[t].life # l
      <3>1. t \in 1..Len(turns) /\ turns[t].purpose = "group"
        BY <2>1, <2>2 DEF DraftsOK
      <3>2. us[t].purpose = "group" /\ us[t].life = turns[t].life
        BY <1>8, <3>1 DEF TurnsKept
      <3>3. turns[t].life <= life /\ turns[t].life \in Nat
        <4>1. turns[t] \in TurnSet
          BY <1>6, <3>1
        <4>2. TurnOK(turns[t], room, life)
          BY <1>6, <3>1 DEF TurnsOK
        <4> QED
          BY <4>1, <4>2 DEF TurnOK, TurnSet
      <3> QED
        BY <1>4, <1>5, <3>2, <3>3
    <2>3. drafts \subseteq 1..Len(us)
      BY <1>8, <2>1 DEF DraftsOK
    <2> QED
      BY <2>2, <2>3 DEF DraftsOK
  <1>14. LoopsOK(us, drafts, inherited, chain, compress)
    <2>1. \A t \in 1..Len(us) : Open(us[t]) => Open(turns[t])
      BY <1>8 DEF Open
    <2> QED
      BY <1>8, <2>1 DEF IInv, LoopsOK
  <1>15. IdleOK(queue, gone, chain, compress) /\ QueueOK(queue)
    BY <1>7 DEF IdleOK, NoRoom, IInv
  <1> QED
    BY <1>1, <1>3, <1>4, <1>7, <1>8, <1>10, <1>11, <1>12, <1>13, <1>14, <1>15 DEF IInv

LEMMA StopKeeps ==
    ASSUME IInv, Stop
    PROVE  IInv'
  <1>1. /\ room.exists /\ Act /\ UNCHANGED <<life, chain, compress, inherited>>
        /\ queue' = <<>> /\ drafts' = drafts \ Pending
    BY DEF Stop
  <1>2. PICK us, ds, q : us = CancelPending(turns) /\ ds = drafts' /\ q = queue'
    OBVIOUS
  <1>3. CountsOK' /\ life \in Nat /\ life <= life
    BY <1>1, ActCounts DEF IInv, CountsOK
  <1>4. turns \in Seq(TurnSet) /\ TurnsOK(turns, room, life)
    BY DEF IInv, TurnsOK
  <1>5. room \in RoomSet /\ IsInjective(room.queue) /\ PostsOK(room.log, turns, life)
    BY <1>1, RoomIs
  <1>6. PICK r, e : r = room' /\ e = room.epoch + 1
    OBVIOUS
  <1>7. e \in Nat /\ Member \in SUBSET Member /\ <<>> \in Seq(Thread)
    BY <1>5, <1>6 DEF RoomSet
  <1>8. r = [room EXCEPT !.epoch = e, !.holds = Member, !.queue = <<>>]
    BY <1>5, <1>6 DEF Stop, RoomSet
  <1>9. r \in RoomSet /\ r.log = room.log /\ r.queue = <<>> /\ r.exists = TRUE /\ room.exists = TRUE
    BY <1>5, <1>7, <1>8 DEF RoomSet
  <1>10. /\ TurnsOK(us, r, life) /\ TurnsKept(turns, us) /\ Len(us) = Len(turns)
         /\ \A t \in 1..Len(us) : us[t].state # "pending" /\ (us[t] = turns[t] \/ us[t].state = "quiet")
    BY <1>2, <1>3, <1>4, CancelIs
  <1>11. us \in Seq(TurnSet)
    BY <1>10 DEF TurnsOK
  <1>12. /\ RoomOK(room, us, life) /\ ChainOK(chain, us, room, life) /\ CompressOK(compress, us)
         /\ inherited \in 0..Len(us)
    BY <1>10, <1>11, TurnsCarry
  <1>13. RoomOK(r, us, life)
    <2>1. PostsOK(room.log, us, life)
      BY <1>9, <1>12, RoomIs DEF RoomOK
    <2>2. IsInjective(<<>>)
      BY DEF IsInjective
    <2> QED
      BY <1>9, <2>1, <2>2 DEF RoomOK
  <1>14. ChainOK(chain, us, r, life)
    <2>1. ASSUME chain # <<>>, chain[1].at = "turn"
          PROVE  Hopes(chain[1], us, r, life)
      <3>1. Unposted(room, chain[1].turn) => Unposted(r, chain[1].turn)
        BY <1>9 DEF Unposted
      <3> QED
        BY <1>9, <1>10, <2>1, <3>1, HopesStay DEF MayPost
    <2>2. ChainOK(chain, turns, room, life)
      BY DEF IInv
    <2> QED
      BY <1>3, <1>4, <1>10, <1>11, <2>1, <2>2, ChainCarries
  <1>15. DraftsOK(ds, us, life)
    <2>1. DraftsOK(drafts, turns, life)
      BY DEF IInv
    <2>2. ASSUME NEW t \in ds PROVE us[t].purpose = "group" /\ us[t].life # life
      <3>1. t \in 1..Len(turns) /\ turns[t].purpose = "group" /\ turns[t].life # life
        <4>1. t \in drafts /\ t \notin Pending
          BY <1>1, <1>2, <2>2
        <4>2. t \in 1..Len(turns) /\ DOMAIN turns = 1..Len(turns)
          BY <1>4, <2>1, <4>1 DEF DraftsOK
        <4> QED
          BY <2>1, <4>1, <4>2 DEF DraftsOK, Pending
      <3> QED
        BY <1>10, <3>1 DEF TurnsKept
    <2>3. ds \subseteq 1..Len(us)
      BY <1>1, <1>2, <1>10, <2>1 DEF DraftsOK
    <2> QED
      BY <2>2, <2>3 DEF DraftsOK
  <1>16. LoopsOK(us, ds, inherited, chain, compress)
    <2>1. \A t \in 1..Len(us) : Open(us[t]) => Open(turns[t])
      BY <1>10 DEF Open
    <2> QED
      BY <1>1, <1>2, <1>10, <2>1 DEF IInv, LoopsOK
  <1>17. IdleOK(q, r, chain, compress) /\ QueueOK(q)
    <2>1. q = <<>>
      BY <1>1, <1>2
    <2>2. IsInjective(<<>>)
      BY DEF IsInjective
    <2> QED
      BY <1>7, <2>1, <2>2 DEF IdleOK, QueueOK, Contains
  <1>18. turns' = us
    BY <1>2 DEF Stop
  <1> QED
    BY <1>1, <1>2, <1>3, <1>6, <1>10, <1>12, <1>13, <1>14, <1>15, <1>16, <1>17, <1>18 DEF IInv

LEMMA AppliedHoldsIs ==
    ASSUME NEW holds \in SUBSET Member, NEW msg \in UserMessages
    PROVE  AppliedHolds(holds, msg) \in SUBSET Member
  <1>1. msg.names \subseteq Member
    BY Constants
  <1> QED
    BY <1>1 DEF AppliedHolds

\* A thread is queued once.
LEMMA QueuedOnce ==
    ASSUME NEW q \in Seq(Thread), IsInjective(q), NEW thread \in Thread, NEW p,
           p = IF Contains(q, thread) THEN q ELSE Append(q, thread)
    PROVE  p \in Seq(Thread) /\ IsInjective(p)
  <1>1. CASE Contains(q, thread)
    BY <1>1
  <1>2. CASE ~Contains(q, thread)
    <2>1. Len(q) \in Nat /\ \A i \in 1..Len(q) : q[i] # thread
      BY <1>2 DEF Contains
    <2>2. /\ p \in Seq(Thread) /\ Len(p) = Len(q) + 1 /\ p[Len(p)] = thread
          /\ \A i \in 1..Len(q) : p[i] = q[i]
      BY <1>2
    <2>3. IsInjective(p)
      <3> SUFFICES ASSUME NEW i \in 1..Len(p), NEW j \in 1..Len(p), p[i] = p[j] PROVE i = j
        BY <2>2 DEF IsInjective
      <3>1. (i \in 1..Len(q) \/ i = Len(p)) /\ (j \in 1..Len(q) \/ j = Len(p))
        BY <2>1, <2>2
      <3> QED
        BY <2>1, <2>2, <3>1 DEF IsInjective
    <2> QED
      BY <2>2, <2>3
  <1> QED
    BY <1>1, <1>2

\* An entry that is no turn's reply, whatever becomes of the epoch and the marks.
LEMMA EntryAdded ==
    ASSUME IInv, room.exists, NEW h, NEW e, Grown(room, h, e), NEW t, e.turn = t,
           t = 0
    PROVE  /\ RoomOK(h, turns, life) /\ h.exists = TRUE /\ room.exists = TRUE /\ ChainOK(chain, turns, h, life)
           /\ TurnsOK(turns, h, life)
  <1>1. turns \in Seq(TurnSet) /\ TurnsOK(turns, room, life) /\ life \in Nat /\ life <= life
    BY DEF IInv, TurnsOK, CountsOK
  <1>2. room \in RoomSet /\ IsInjective(room.queue) /\ PostsOK(room.log, turns, life)
    BY RoomIs
  <1>3. PostsOK(h.log, turns, life) /\ \A u : Unposted(room, u) /\ u # t => Unposted(h, u)
    BY <1>1, <1>2, PostsGrow
  <1>4. h \in RoomSet /\ h.queue = room.queue
    BY DEF Grown
  <1>5. RoomOK(h, turns, life) /\ h.exists = TRUE /\ room.exists = TRUE
    BY <1>2, <1>3, <1>4 DEF RoomOK, RoomSet
  <1>6. ChainOK(chain, turns, h, life)
    <2>2. ChainOK(chain, turns, room, life) /\ TurnsKept(turns, turns)
      BY <1>1, KeptReflexive DEF IInv
    <2>1. ASSUME chain # <<>>, chain[1].at = "turn"
          PROVE  Hopes(chain[1], turns, h, life)
      <3>1. chain[1].turn # t
        BY <2>1, WaitIs
      <3> QED
        BY <1>3, <1>5, <2>1, <2>2, <3>1, HopesStay DEF MayPost
    <2> QED
      BY <1>1, <2>1, <2>2, ChainCarries
  <1> QED
    BY <1>1, <1>5, <1>6, TurnsInRoom

LEMMA SendKeeps ==
    ASSUME IInv, NEW msg \in UserMessages, NEW thread \in Thread, Send(msg, thread)
    PROVE  IInv'
  <1> DEFINE live == Driving \/ compress # NoCompress
             epoch == IF live THEN room.epoch ELSE room.epoch + 1
             held == AppliedHolds(room.holds, msg)
             names == IF msg.everyone THEN Member ELSE msg.names
             base == [room EXCEPT !.epoch = epoch, !.holds = held]
             said == AppendEntry(base, User, thread, names, 0)
             q == IF Contains(LiveQueue, thread) THEN LiveQueue ELSE Append(LiveQueue, thread)
  <1>1. /\ room.exists /\ used' = [used EXCEPT !.sends = @ + 1]
        /\ UNCHANGED <<life, turns, compress, drafts, inherited>>
        /\ IF live THEN queue' = q /\ room' = [said EXCEPT !.queue = q] /\ chain' = chain
                   ELSE queue' = queue /\ room' = said /\ chain' = Chained(chain, epoch, thread)
    BY DEF Send
  <1>2. room \in RoomSet /\ IsInjective(room.queue) /\ PostsOK(room.log, turns, life)
    BY <1>1, RoomIs
  <1>3. epoch \in Nat /\ held \in SUBSET Member /\ names \in SUBSET Member
    <2>1. room.epoch \in Nat /\ room.holds \in SUBSET Member
      BY <1>2 DEF RoomSet
    <2>2. held \in SUBSET Member
      BY <2>1, AppliedHoldsIs
    <2>3. names \in SUBSET Member
      BY Constants
    <2>4. epoch \in Nat
      BY <2>1
    <2> QED
      BY <2>2, <2>3, <2>4
  <1>4. q \in Seq(Thread) /\ IsInjective(q)
    BY LiveQueueIs, QueuedOnce
  <1>5. CountsOK'
    BY <1>1 DEF IInv, CountsOK, UsedSet
  <1>6. PICK b, s, ep, nm, p, r, co, lv : /\ b = base /\ s = said /\ ep = epoch /\ nm = names /\ p = q
                                          /\ r = room' /\ co = chain' /\ lv = live
    OBVIOUS
  <1>7. b \in RoomSet /\ b.log = room.log /\ b.queue = room.queue /\ b.epoch = ep
    <2>1. PICK h : h = held
      OBVIOUS
    <2>2. b = [room EXCEPT !.epoch = ep, !.holds = h] /\ ep \in Nat /\ h \in SUBSET Member
      BY <1>3, <1>6, <2>1
    <2> QED
      BY <1>2, <2>2 DEF RoomSet
  <1>8. /\ nm \in SUBSET Member /\ p \in Seq(Thread) /\ IsInjective(p) /\ ep \in Nat
        /\ s = AppendEntry(b, User, thread, nm, 0) /\ (~lv => room' = s) /\ (lv => room' = [s EXCEPT !.queue = p])
    BY <1>1, <1>3, <1>4, <1>6
  <1>9. (lv => queue' = p /\ chain' = chain) /\ (~lv => queue' = queue /\ chain' = Chained(chain, ep, thread))
    BY <1>1, <1>6
  <1>10. lv => chain # <<>> \/ compress # NoCompress
    BY <1>6 DEF Driving
  <1> HIDE DEF live, epoch, held, names, base, said, q
  <1>11. PICK e : Grown(b, s, e) /\ e.turn = 0
    <2>1. User \in Member \cup {User} /\ 0 \in Nat
      OBVIOUS
    <2>2. PICK zero, us : zero = 0 /\ us = User
      OBVIOUS
    <2>3. /\ s = AppendEntry(b, us, thread, nm, zero) /\ us \in Member \cup {User} /\ zero \in Nat
          /\ b \in RoomSet /\ nm \in SUBSET Member
      BY <1>7, <1>8, <2>2
    <2>4. Grown(b, s, Entry(us, thread, nm, zero)) /\ Entry(us, thread, nm, zero).turn = zero
      BY <2>3, AppendEntryIs
    <2> QED
      BY <2>2, <2>4
  <1>12. PICK g : g = [s EXCEPT !.queue = room.queue, !.epoch = room.epoch]
    OBVIOUS
  <1>13. Grown(room, g, e) /\ g \in RoomSet /\ s \in RoomSet /\ g.log = s.log /\ s.queue = room.queue
    BY <1>2, <1>7, <1>11, <1>12 DEF Grown, RoomSet
  <1>14. /\ RoomOK(g, turns, life) /\ g.exists = TRUE /\ room.exists = TRUE /\ ChainOK(chain, turns, g, life)
         /\ TurnsOK(turns, g, life)
    <2>1. PICK z : z = 0
      OBVIOUS
    <2>2. e.turn = z /\ z = 0
      BY <1>11, <2>1
    <2> QED
      BY <1>1, <1>13, <2>2, EntryAdded
  <1>15. r \in RoomSet /\ r.log = g.log /\ r.exists = TRUE /\ IsInjective(r.queue)
    <2>1. CASE lv
      <3>1. r = [s EXCEPT !.queue = p]
        BY <1>6, <1>8, <2>1
      <3> QED
        BY <1>8, <1>13, <3>1 DEF RoomSet
    <2>2. CASE ~lv
      BY <1>2, <1>6, <1>8, <1>13, <2>2 DEF RoomSet
    <2> QED
      BY <2>1, <2>2
  <1>16. RoomOK(r, turns, life)
    <2>1. PostsOK(g.log, turns, life)
      BY <1>14 DEF RoomOK, NoRoom
    <2> QED
      BY <1>15, <2>1 DEF RoomOK
  <1>17. TurnsOK(turns, r, life) /\ ChainOK(chain, turns, r, life)
    <2>1. turns \in Seq(TurnSet) /\ life \in Nat /\ life <= life /\ ChainOK(chain, turns, g, life)
      BY <1>14 DEF IInv, CountsOK, TurnsOK
    <2>2. TurnsKept(turns, turns)
      BY <2>1, KeptReflexive
    <2>3. ASSUME chain # <<>>, chain[1].at = "turn"
          PROVE  Hopes(chain[1], turns, r, life)
      <3>1. DriveOK(chain[1], turns, g, life)
        <4>1. 1 \in 1..Len(chain)
          BY <2>1, <2>3 DEF ChainOK
        <4> QED
          BY <2>1, <4>1 DEF ChainOK
      <3> QED
        BY <1>15, <2>3, <3>1 DEF DriveOK, Hopes, MayPost, Unposted
    <2>4. ChainOK(chain, turns, r, life)
      BY <2>1, <2>2, <2>3, ChainCarries
    <2>5. TurnsOK(turns, r, life)
      BY <1>14, <1>15, TurnsInRoom
    <2> QED
      BY <2>4, <2>5
  <1>18. /\ ChainOK(co, turns, r, life) /\ (co = <<>> => chain = <<>> /\ lv)
         /\ (chain # <<>> => co[1] = chain[1])
    <2>1. CASE lv
      BY <1>6, <1>9, <1>17, <2>1
    <2>2. CASE ~lv
      <3>1. co = Chained(chain, ep, thread)
        BY <1>6, <1>9, <2>2
      <3>2. CountsOK
        BY DEF IInv
      <3>3. /\ ChainOK(Chained(chain, ep, thread), turns, r, life) /\ Chained(chain, ep, thread) # <<>>
            /\ chain # <<>> => Chained(chain, ep, thread)[1] = chain[1]
        BY <1>8, <1>17, <3>2, ChainedIs
      <3> QED
        BY <3>1, <3>3
    <2> QED
      BY <2>1, <2>2
  <1>19. PICK q2 : q2 = queue'
    OBVIOUS
  <1>20. QueueOK(q2) /\ IdleOK(q2, r, co, compress)
    <2>1. QueueOK(q2)
      <3>1. CASE lv
        BY <1>8, <1>9, <1>19, <3>1 DEF QueueOK
      <3>2. CASE ~lv
        BY <1>9, <1>19, <3>2 DEF IInv
      <3> QED
        BY <3>1, <3>2
    <2>2. co # <<>> \/ compress # NoCompress
      BY <1>10, <1>18
    <2> QED
      BY <2>1, <2>2 DEF IdleOK
  <1>21. LoopsOK(turns, drafts, inherited, co, compress)
    <2>1. \A t \in 1..Len(turns) : Waits(chain, compress, t) => Waits(co, compress, t)
      <3> SUFFICES ASSUME NEW t \in 1..Len(turns), Waits(chain, compress, t) PROVE Waits(co, compress, t)
        OBVIOUS
      <3>1. ChainOK(co, turns, r, life)
        BY <1>18
      <3> QED
        BY <1>18 DEF Waits
    <2> QED
      BY <2>1 DEF IInv, LoopsOK
  <1> QED
    BY <1>1, <1>5, <1>6, <1>16, <1>17, <1>18, <1>19, <1>20, <1>21 DEF IInv

LEMMA CompressKeeps ==
    ASSUME IInv, NEW m \in Member, Compress(m)
    PROVE  IInv'
  <1>1. /\ room.exists /\ compress = NoCompress /\ Act
        /\ UNCHANGED <<room, life, chain, queue, drafts, inherited>>
    BY DEF Compress
  <1>2. CountsOK' /\ life \in Nat /\ life # 0 /\ CountsOK
    BY <1>1, ActCounts DEF IInv, CountsOK
  <1>3. turns \in Seq(TurnSet) /\ TurnsOK(turns, room, life) /\ Len(turns) \in Nat
    BY DEF IInv, TurnsOK
  <1>4. room \in RoomSet /\ room.epoch \in Nat
    BY <1>1, RoomIs DEF RoomSet
  <1>5. PICK rw, ep, z, pu : /\ ep = room.epoch /\ z = 0 /\ pu = "compress"
                             /\ rw = TurnRow(m, ep, z, pu)
    OBVIOUS
  <1>6. /\ rw \in TurnSet /\ TurnOK(rw, room, life) /\ rw.purpose = "compress" /\ rw.life = life
        /\ rw.state = "pending"
    <2>1. ep \in Nat /\ z \in Nat /\ pu \in {"group", "compress"}
      BY <1>4, <1>5
    <2>2. /\ rw \in TurnSet /\ TurnOK(rw, room, life) /\ rw.purpose = pu /\ rw.life = life
          /\ rw.state = "pending"
      BY <1>2, <1>4, <1>5, <2>1, TurnRowIs
    <2> QED
      BY <1>5, <2>2
  <1>7. PICK us : us = Begun(turns, rw)
    OBVIOUS
  <1>8. turns' = us
    BY <1>5, <1>7 DEF Compress, Begun
  <1>9. /\ TurnsOK(us, room, life) /\ TurnsKept(turns, us) /\ Len(us) = Len(turns) + 1
        /\ us[Len(turns) + 1] = rw /\ \A t \in 1..Len(turns) : us[t] = turns[t]
    BY <1>2, <1>3, <1>6, <1>7, TurnBegins
  <1>10. PICK n, c : n = Len(turns) + 1 /\ c = compress'
    OBVIOUS
  <1>11. /\ n \in Nat \ {0} /\ n \in 1..Len(us) /\ us[n] = rw /\ c = [turn |-> n, life |-> life]
         /\ \A t \in 1..Len(us) : t \in 1..Len(turns) \/ t = n
    BY <1>3, <1>9, <1>10 DEF Compress
  <1>12. us \in Seq(TurnSet) /\ Len(us) \in Nat
    BY <1>9 DEF TurnsOK
  <1>13. /\ RoomOK(room, us, life) /\ ChainOK(chain, us, room, life) /\ inherited \in 0..Len(us)
    BY <1>9, <1>12, TurnsCarry
  <1>14. CompressOK(c, us) /\ c # NoCompress /\ c.turn = n
    <2>1. c.turn = n /\ c.life = life /\ c \in [turn : Nat \ {0}, life : Nat \ {0}]
      BY <1>2, <1>11
    <2>2. c # NoCompress
      BY <1>11, <2>1 DEF NoCompress
    <2>3. c.turn <= Len(us) /\ us[c.turn].purpose = "compress" /\ us[c.turn].life = c.life
      BY <1>6, <1>11, <1>12, <2>1
    <2> QED
      BY <2>1, <2>2, <2>3 DEF CompressOK
  <1>15. DraftsOK(drafts, us, life)
    <2>1. DraftsOK(drafts, turns, life)
      BY DEF IInv
    <2>2. drafts \subseteq 1..Len(us)
      BY <1>3, <1>9, <2>1 DEF DraftsOK
    <2> QED
      BY <1>9, <2>1, <2>2 DEF DraftsOK
  <1>16. LoopsOK(us, drafts, inherited, chain, c)
    <2> SUFFICES ASSUME NEW t \in 1..Len(us), Open(us[t]) \/ t \in drafts
                 PROVE  t <= inherited \/ Waits(chain, c, t)
      BY DEF LoopsOK
    <2>1. CASE t = n
      BY <1>14, <2>1 DEF Waits
    <2>2. CASE t \in 1..Len(turns)
      <3>1. t <= inherited \/ Waits(chain, compress, t)
        BY <1>9, <2>2 DEF IInv, LoopsOK
      <3>2. compress.turn # t
        BY <1>1, <2>2 DEF NoCompress
      <3> QED
        BY <3>1, <3>2 DEF Waits
    <2> QED
      BY <1>11, <2>1, <2>2
  <1>17. IdleOK(queue, room, chain, c)
    BY <1>14 DEF IdleOK
  <1> QED
    BY <1>1, <1>2, <1>8, <1>9, <1>10, <1>13, <1>14, <1>15, <1>16, <1>17 DEF IInv

\* The compress request lets go of the room, its turn settled.
LEMMA ReleaseKeeps ==
    ASSUME IInv, compress # NoCompress, NEW us, TurnsOK(us, room, life), TurnsKept(turns, us),
           Len(us) = Len(turns), \A u \in 1..Len(turns) : u # compress.turn => us[u] = turns[u],
           ~Open(us[compress.turn]), ReleaseRoom(us)
    PROVE  IInv'
  <1> DEFINE popped == IF LiveQueue = <<>> THEN LiveQueue ELSE Tail(LiveQueue)
             epoch == IF LiveQueue = <<>> THEN room.epoch ELSE room.epoch + 1
             saved == [room EXCEPT !.queue = IF LiveQueue = <<>> THEN LiveQueue ELSE Tail(LiveQueue),
                                   !.epoch = IF LiveQueue = <<>> THEN @ ELSE @ + 1]
  <1>1. /\ compress' = NoCompress /\ turns' = us /\ drafts' = drafts \ {compress.turn}
        /\ UNCHANGED <<life, inherited, used>>
        /\ IF ~Driving /\ room.exists
           THEN /\ room' = saved /\ queue' = saved.queue
                /\ chain' = IF LiveQueue = <<>> THEN chain ELSE Chained(chain, saved.epoch, Head(LiveQueue))
           ELSE UNCHANGED <<room, queue, chain>>
    BY DEF ReleaseRoom
  <1>2. turns \in Seq(TurnSet) /\ us \in Seq(TurnSet) /\ life \in Nat /\ Len(us) \in Nat
    BY DEF IInv, TurnsOK, CountsOK
  <1>3. /\ RoomOK(room, us, life) /\ ChainOK(chain, us, room, life) /\ inherited \in 0..Len(us)
    BY <1>2, TurnsCarry
  <1>4. PICK q, p, e, ds, co, r2, q2 : /\ q = LiveQueue /\ p = popped /\ e = epoch /\ ds = drafts'
                                       /\ co = chain' /\ r2 = room' /\ q2 = queue'
    OBVIOUS
  <1>5. p \in Seq(Thread) /\ IsInjective(p) /\ (q # <<>> => Head(q) \in Thread)
    BY <1>4, LiveQueueIs
  <1>6. CountsOK' /\ CountsOK
    BY <1>1 DEF IInv, CountsOK
  <1>7. DraftsOK(ds, us, life)
    <2>1. DraftsOK(drafts, turns, life)
      BY DEF IInv
    <2>2. \A u \in ds : u \in 1..Len(us) /\ us[u] = turns[u] /\ u \in drafts
      BY <1>1, <1>4, <2>1 DEF DraftsOK
    <2> QED
      BY <2>1, <2>2 DEF DraftsOK
  <1>8. ASSUME chain # <<>> => co # <<>> /\ co[1] = chain[1]
        PROVE  LoopsOK(us, ds, inherited, co, NoCompress)
    <2> SUFFICES ASSUME NEW u \in 1..Len(us), Open(us[u]) \/ u \in ds
                 PROVE  u <= inherited \/ Waits(co, NoCompress, u)
      BY DEF LoopsOK
    <2>1. u # compress.turn
      BY <1>1, <1>4
    <2>2. Open(turns[u]) \/ u \in drafts
      BY <1>1, <1>4, <2>1
    <2>3. u <= inherited \/ Waits(chain, compress, u)
      BY <2>2 DEF IInv, LoopsOK
    <2> QED
      BY <1>8, <2>1, <2>3 DEF Waits
  <1>9. CompressOK(NoCompress, us)
    BY DEF CompressOK
  <1>10. CASE ~Driving /\ room.exists
    <2>1. room \in RoomSet
      BY <1>10, RoomIs
    <2>2. e \in Nat
      <3>1. room.epoch \in Nat
        BY <2>1 DEF RoomSet
      <3> QED
        BY <1>4, <3>1
    <2>3. saved = Queued(room, p, e)
      <3> HIDE DEF Driving
      <3> QED
        BY <1>4, <2>1 DEF Queued, RoomSet
    <2>4. saved.queue = p /\ saved.epoch = e
      BY <2>1, <2>3 DEF Queued, RoomSet
    <2>5. r2 = Queued(room, p, e) /\ q2 = p /\ co = IF q = <<>> THEN chain ELSE Chained(chain, e, Head(q))
      <3> HIDE DEF saved
      <3> QED
        BY <1>1, <1>4, <1>10, <2>3, <2>4
    <2>6. RoomOK(r2, turns, life) /\ r2.exists = room.exists /\ r2.log = room.log
      BY <1>5, <1>10, <2>2, <2>5, QueueSaved
    <2>7. RoomOK(r2, us, life)
      BY <1>2, <2>6, RoomCarries
    <2>8. TurnsOK(us, r2, life) /\ ChainOK(chain, turns, r2, life)
      BY <2>6, TurnsInRoom, RoomSwaps
    <2>9. ChainOK(chain, us, r2, life)
      <3>1. ASSUME chain # <<>>, chain[1].at = "turn" PROVE Hopes(chain[1], us, r2, life)
        <4>1. Unposted(room, chain[1].turn) => Unposted(r2, chain[1].turn)
          BY <2>6 DEF Unposted
        <4> QED
          BY <1>10, <2>6, <3>1, <4>1, HopesStay DEF MayPost
      <3>2. life <= life /\ ChainOK(chain, turns, room, life)
        BY <1>2 DEF IInv
      <3> QED
        BY <1>2, <3>1, <3>2, ChainCarries
    <2>10. /\ ChainOK(co, us, r2, life) /\ (chain # <<>> => co # <<>> /\ co[1] = chain[1])
           /\ (co = <<>> => q = <<>>)
      <3>1. CASE q = <<>>
        BY <2>5, <2>9, <3>1
      <3>2. CASE q # <<>>
        <4>1. PICK th : th = Head(q)
          OBVIOUS
        <4>2. th \in Thread /\ co = Chained(chain, e, th)
          BY <1>5, <2>5, <3>2, <4>1
        <4>3. /\ ChainOK(Chained(chain, e, th), us, r2, life) /\ Chained(chain, e, th) # <<>>
              /\ chain # <<>> => Chained(chain, e, th)[1] = chain[1]
          BY <1>6, <2>2, <2>9, <4>2, ChainedIs
        <4> QED
          BY <4>2, <4>3
      <3> QED
        BY <3>1, <3>2
    <2>11. LoopsOK(us, ds, inherited, co, NoCompress)
      BY <1>8, <2>10
    <2>12. IdleOK(q2, r2, co, NoCompress) /\ QueueOK(q2)
      <3>1. co = <<>> => q2 = <<>>
        BY <1>4, <2>5, <2>10
      <3> QED
        BY <1>5, <2>5, <3>1 DEF IdleOK, QueueOK, Contains
    <2> QED
      BY <1>1, <1>3, <1>4, <1>6, <1>7, <1>9, <2>7, <2>8, <2>10, <2>11, <2>12 DEF IInv
  <1>11. CASE Driving \/ ~room.exists
    <2>1. UNCHANGED <<room, queue, chain>>
      BY <1>1, <1>11
    <2>2. LoopsOK(us, ds, inherited, co, NoCompress)
      BY <1>4, <1>8, <2>1
    <2>3. IdleOK(queue, room, chain, NoCompress)
      BY <1>11 DEF IdleOK, Driving
    <2>4. QueueOK(queue)
      BY DEF IInv
    <2> QED
      BY <1>1, <1>3, <1>4, <1>6, <1>7, <1>9, <2>1, <2>2, <2>3, <2>4 DEF IInv
  <1> QED
    BY <1>10, <1>11

LEMMA CompressEndsKeeps ==
    ASSUME IInv, CompressEnds
    PROVE  IInv'
  <1>1. compress # NoCompress
    BY DEF CompressEnds
  <1>2. /\ compress \in [turn : Nat \ {0}, life : Nat \ {0}] /\ compress.turn <= Len(turns)
        /\ turns[compress.turn].life = compress.life /\ turns[compress.turn].purpose = "compress"
    BY <1>1 DEF IInv, CompressOK
  <1>3. PICK t : t = compress.turn
    OBVIOUS
  <1>4. turns \in Seq(TurnSet) /\ TurnsOK(turns, room, life) /\ life \in Nat /\ Len(turns) \in Nat
    BY DEF IInv, TurnsOK, CountsOK
  <1>5. /\ t \in 1..Len(turns) /\ t # 0 /\ turns[t].life = compress.life
        /\ turns[t].purpose = "compress"
    BY <1>2, <1>3, <1>4
  <1>6. turns[t] \in TurnSet /\ TurnOK(turns[t], room, life)
    BY <1>4, <1>5 DEF TurnsOK
  <1>7. CASE compress.life # life
    <2>1. ReleaseRoom(turns)
      BY <1>7 DEF CompressEnds
    <2>2. ~Open(turns[t])
      BY <1>5, <1>6, <1>7 DEF TurnOK, Open
    <2>3. TurnsKept(turns, turns)
      BY <1>4, KeptReflexive
    <2> QED
      BY <1>1, <1>3, <1>4, <2>1, <2>2, <2>3, ReleaseKeeps
  <1>8. CASE compress.life = life
    <2>1. PICK old, state : /\ old = turns[t]
                            /\ state = IF turns[t].state = "pending" THEN "timeout" ELSE turns[t].state
      OBVIOUS
    <2>2. PICK rw : rw = Claimed([old EXCEPT !.state = state])
      OBVIOUS
    <2>3. old \in TurnSet /\ state \in {"pending", "spoke", "quiet", "timeout"} /\ state # "pending"
      BY <1>6, <2>1 DEF TurnSet
    <2>4. /\ rw \in TurnSet /\ rw.life = old.life /\ rw.purpose = old.purpose
          /\ rw.state = (IF state = "spoke" THEN "spoke" ELSE "quiet") /\ rw.answered = TRUE
          /\ (Again(old) => Again(rw))
      BY <2>2, <2>3, ClaimedIs
    <2>5. turns[t].state # "pending" => rw.state = turns[t].state
      BY <1>6, <2>1, <2>4 DEF TurnSet
    <2>6. TurnOK(rw, room, life)
      <3>1. rw.life <= life /\ rw.state # "pending" /\ (rw.state = "spoke" => rw.answered = TRUE)
        BY <1>6, <2>1, <2>4 DEF TurnOK
      <3> QED
        BY <1>4, <2>4, <3>1, SettledOK
    <2>7. PICK us : us = Changed(turns, t, rw)
      OBVIOUS
    <2>8. /\ TurnsOK(us, room, life) /\ TurnsKept(turns, us) /\ Len(us) = Len(turns) /\ us[t] = rw
          /\ \A u \in 1..Len(turns) : u # t => us[u] = turns[u]
      <3>1. /\ rw.life = turns[t].life /\ rw.purpose = turns[t].purpose
            /\ (Again(turns[t]) => Again(rw))
        BY <2>1, <2>4
      <3> QED
        BY <1>4, <1>5, <2>4, <2>5, <2>6, <2>7, <3>1, TurnChanges
    <2>9. ReleaseRoom(us)
      <3>1. ReleaseRoom([turns EXCEPT ![t] = Claimed([@ EXCEPT !.state = state])])
        BY <1>3, <1>5, <1>8, <2>1 DEF CompressEnds
      <3>2. [turns EXCEPT ![t] = Claimed([@ EXCEPT !.state = state])] = us
        BY <1>4, <1>5, <2>1, <2>2, <2>7 DEF Changed
      <3> QED
        BY <3>1, <3>2
    <2>10. ~Open(us[t])
      BY <1>5, <2>1, <2>4, <2>8 DEF Open
    <2> QED
      BY <1>1, <1>3, <2>8, <2>9, <2>10, ReleaseKeeps
  <1> QED
    BY <1>7, <1>8

------------------------------------------------------------------------------
(* The events.                                                                 *)

LEMMA DraftKeeps ==
    ASSUME IInv, NEW t \in DOMAIN turns, Draft(t)
    PROVE  IInv'
  <1>1. /\ turns[t].state = "pending" /\ turns[t].purpose # "compress" /\ drafts' = drafts \cup {t}
        /\ UNCHANGED <<room, life, turns, chain, queue, compress, inherited, used>>
    BY DEF Draft
  <1>2. turns \in Seq(TurnSet) /\ DraftsOK(drafts, turns, life) /\ DOMAIN turns = 1..Len(turns)
    BY DEF IInv, TurnsOK
  <1>3. t \in 1..Len(turns) /\ turns[t].purpose = "group"
    <2>1. t \in 1..Len(turns)
      BY <1>2
    <2>2. turns[t] \in TurnSet
      BY <1>2, <2>1
    <2> QED
      BY <1>1, <2>1, <2>2 DEF TurnSet
  <1>4. PICK ds : ds = drafts'
    OBVIOUS
  <1>5. DraftsOK(ds, turns, life)
    BY <1>1, <1>2, <1>3, <1>4 DEF DraftsOK
  <1>6. LoopsOK(turns, ds, inherited, chain, compress)
    BY <1>1, <1>4 DEF IInv, LoopsOK, Open
  <1>7. CountsOK'
    BY <1>1 DEF IInv, CountsOK
  <1> QED
    BY <1>1, <1>4, <1>5, <1>6, <1>7 DEF IInv

LEMMA MirrorKeeps ==
    ASSUME IInv, NEW m \in Member, Mirror(m)
    PROVE  IInv'
  <1> DEFINE own == {s \in DOMAIN room.log : room.log[s].by = m}
             last == Largest(IF own # {} THEN own ELSE DOMAIN room.log, 0)
             thread == IF last = 0 THEN 0 ELSE room.log[last].thread
             said == AppendEntry(room, m, thread, {}, 0)
  <1>1. /\ room.exists /\ Act /\ room' = SetMark(said, thread, m, Len(said.log))
        /\ UNCHANGED <<life, turns, chain, queue, compress, drafts, inherited>>
    BY DEF Mirror
  <1>2. room \in RoomSet /\ room.log \in Seq(EntrySet) /\ Len(room.log) \in Nat
        /\ DOMAIN room.log = 1..Len(room.log)
    <2>1. room \in RoomSet
      BY <1>1, RoomIs
    <2>2. room.log \in Seq(EntrySet)
      BY <2>1 DEF RoomSet
    <2> QED
      BY <2>1, <2>2
  <1>3. CountsOK'
    BY <1>1, ActCounts DEF IInv
  <1>4. last = 0 \/ last \in 1..Len(room.log)
    <2>1. own \in SUBSET (1..Len(room.log)) /\ IsFiniteSet(1..Len(room.log))
      BY <1>2, FS_Interval
    <2>2. PICK S : S = IF own # {} THEN own ELSE DOMAIN room.log
      OBVIOUS
    <2>3. S \in SUBSET (1..Len(room.log))
      BY <1>2, <2>1, <2>2
    <2>4. S \in SUBSET Nat /\ IsFiniteSet(S) /\ 0 \in Nat
      <3>1. IsFiniteSet(S)
        BY <2>1, <2>3, FS_Subset
      <3>2. S \in SUBSET Nat
        BY <1>2, <2>3
      <3> QED
        BY <3>1, <3>2
    <2>5. PICK z : z = 0 /\ z \in Nat
      OBVIOUS
    <2>6. Largest(S, z) \in S \cup {z}
      BY <2>4, <2>5, LargestIs
    <2> QED
      BY <2>2, <2>3, <2>5, <2>6
  <1> HIDE DEF last
  <1>5. thread \in Thread /\ (thread = 0 \/ \E s \in 1..Len(room.log) : room.log[s].thread = thread)
    <2>1. CASE last = 0
      BY <2>1, Constants
    <2>2. CASE last # 0
      <3>1. room.log[last] \in EntrySet
        BY <1>2, <1>4, <2>2
      <3> QED
        BY <1>4, <2>2, <3>1 DEF EntrySet
    <2> QED
      BY <2>1, <2>2
  <1>6. PICK th, s, h : th = thread /\ s = said /\ h = room'
    OBVIOUS
  <1>7. /\ th \in Thread /\ (th = 0 \/ \E i \in 1..Len(room.log) : room.log[i].thread = th)
        /\ s = AppendEntry(room, m, th, {}, 0) /\ h = SetMark(s, th, m, Len(s.log))
    BY <1>1, <1>5, <1>6
  <1> HIDE DEF thread, said
  <1>8. PICK e : Grown(room, s, e) /\ e.turn = 0 /\ e.thread = th
    <2>1. PICK z, no : z = 0 /\ no = {}
      OBVIOUS
    <2>2. /\ s = AppendEntry(room, m, th, no, z) /\ m \in Member \cup {User} /\ th \in Thread
          /\ room \in RoomSet /\ no \in SUBSET Member /\ z \in Nat
      BY <1>2, <1>7, <2>1
    <2>3. /\ Grown(room, s, Entry(m, th, no, z)) /\ Entry(m, th, no, z).turn = z
          /\ Entry(m, th, no, z).thread = th
      BY <2>2, AppendEntryIs
    <2> QED
      BY <2>1, <2>3
  <1>9. Same(s, h)
    BY <1>7, <1>8, SetMarkIs DEF Grown
  <1>10. Grown(room, h, e)
    BY <1>8, <1>9 DEF Grown, Same
  <1>11. PICK z : z = 0
    OBVIOUS
  <1>12. /\ RoomOK(h, turns, life) /\ h.exists = TRUE /\ room.exists = TRUE /\ ChainOK(chain, turns, h, life)
         /\ TurnsOK(turns, h, life)
    <2>1. e.turn = z /\ z = 0
      BY <1>8, <1>11
    <2> QED
      BY <1>1, <1>10, <2>1, EntryAdded
  <1>13. IdleOK(queue, h, chain, compress)
    <2> SUFFICES ASSUME chain = <<>>, compress = NoCompress, NEW i \in 1..Len(h.log), h.log[i].thread # 0
                 PROVE  ~Contains(queue, h.log[i].thread)
      BY DEF IdleOK
    <2>1. \A j \in 1..Len(room.log) : room.log[j].thread # 0 => ~Contains(queue, room.log[j].thread)
      BY <1>1 DEF IInv, IdleOK
    <2>2. /\ i \in 1..Len(room.log) \/ (i = Len(h.log) /\ h.log[i] = e)
          /\ i \in 1..Len(room.log) => h.log[i] = room.log[i]
      BY <1>2, <1>10 DEF Grown
    <2> QED
      BY <1>7, <1>8, <2>1, <2>2
  <1> QED
    BY <1>1, <1>3, <1>6, <1>12, <1>13 DEF IInv

LEMMA CauseThreadIs ==
    ASSUME IInv, room.exists, NEW t
    PROVE  CauseThread(t) \in Thread
  <1>1. room \in RoomSet
    BY RoomIs
  <1>2. room.log \in Seq(EntrySet)
    BY <1>1 DEF RoomSet
  <1>3. CASE turns[t].cause \in DOMAIN room.log
    <2>1. room.log[turns[t].cause] \in EntrySet
      BY <1>2, <1>3
    <2> QED
      BY <1>3, <2>1 DEF CauseThread, EntrySet
  <1>4. CASE turns[t].cause \notin DOMAIN room.log
    BY <1>4, Constants DEF CauseThread
  <1> QED
    BY <1>3, <1>4

\* No other turn has a post in h than had one in r, but t if it spoke.
NoneBut(r, h, t, state) ==
  \A u : Unposted(r, u) /\ (state = "spoke" => u # t) => Unposted(h, u)

\* The recovery posts the reply of a turn that has none or was settled again, or marks.
LEMMA RecoveredKeeps ==
    ASSUME IInv, room.exists, NEW t \in 1..Len(turns), NEW state, NEW us \in Seq(TurnSet),
           TurnsKept(turns, us), TurnsOK(us, room, life),
           state = "spoke" =>
             /\ t \in 1..Len(us) /\ us[t].state = "spoke" /\ us[t].purpose = "group"
             /\ Again(us[t]) \/ (us[t].life = life /\ Unposted(room, t)),
           NEW h, h = Recovered(t, state)
    PROVE  /\ RoomOK(h, us, life) /\ h.exists = TRUE /\ TurnsOK(us, h, life)
           /\ NoneBut(room, h, t, state)
  <1> DEFINE m == turns[t].member
             posted == AppendEntry(room, m, CauseThread(t), {}, t)
  <1>1. /\ room \in RoomSet /\ IsInjective(room.queue) /\ PostsOK(room.log, turns, life) /\ room.exists = TRUE
        /\ room.log \in Seq(EntrySet)
    BY RoomIs DEF RoomSet
  <1>2. turns \in Seq(TurnSet) /\ life \in Nat /\ life <= life /\ Len(turns) \in Nat
    BY DEF IInv, TurnsOK, CountsOK
  <1>3. turns[t] \in TurnSet
    BY <1>2
  <1>4. PICK mb, th, s : mb = m /\ th = CauseThread(t) /\ s = posted
    OBVIOUS
  <1>5. mb \in Member /\ th \in Thread /\ turns[t].watermark \in Nat /\ t \in Nat
    BY <1>2, <1>3, <1>4, CauseThreadIs DEF TurnSet
  <1>6. PostsOK(room.log, us, life)
    BY <1>1, <1>2, PostsStay
  <1>7. CASE state # "spoke"
    <2>1. PICK w, lg : w = turns[t].watermark /\ lg = Largest(Entries(room, th), w)
      OBVIOUS
    <2>2. h = SetMark(room, th, mb, lg)
      BY <1>4, <1>7, <2>1 DEF Recovered
    <2>3. Entries(room, th) \in SUBSET Nat /\ IsFiniteSet(Entries(room, th)) /\ w \in Nat
      BY <1>1, <1>5, <2>1, EntriesIs
    <2>4. lg \in Nat
      BY <2>1, <2>3, LargestIs
    <2>5. Same(room, h)
      BY <1>1, <1>5, <2>2, <2>4, SetMarkIs
    <2>6. RoomOK(h, us, life) /\ h.exists = TRUE
      BY <1>1, <1>6, <2>5, SameRoom
    <2>7. \A u : Unposted(room, u) => Unposted(h, u)
      BY <2>5 DEF Same, Unposted
    <2>8. h.exists = room.exists
      BY <1>1, <2>6
    <2> QED
      BY <2>6, <2>7, <2>8, TurnsInRoom DEF NoneBut
  <1>8. CASE state = "spoke"
    <2>1. PICK e : Grown(room, s, e) /\ e.turn = t
      <3>1. PICK no : no = {}
        OBVIOUS
      <3>2. /\ s = AppendEntry(room, mb, th, no, t) /\ mb \in Member \cup {User} /\ th \in Thread
            /\ room \in RoomSet /\ no \in SUBSET Member /\ t \in Nat
        BY <1>1, <1>4, <1>5, <3>1
      <3>3. Grown(room, s, Entry(mb, th, no, t)) /\ Entry(mb, th, no, t).turn = t
        BY <3>2, AppendEntryIs
      <3> QED
        BY <3>3
    <2>2. h = SetMark(s, th, mb, Len(s.log))
      BY <1>4, <1>8 DEF Recovered
    <2>3. Same(s, h)
      BY <1>5, <2>1, <2>2, SetMarkIs DEF Grown
    <2>4. Grown(room, h, e)
      BY <2>1, <2>3 DEF Grown, Same
    <2>7. t \in 1..Len(us) /\ us[t].state = "spoke" /\ us[t].purpose = "group"
      BY <1>8
    <2>9. Again(us[t]) \/ (us[t].life = life /\ Unposted(room, t))
      BY <1>8
    <2>5. PostsOK(h.log, us, life) /\ \A u : Unposted(room, u) /\ u # t => Unposted(h, u)
      BY <1>1, <1>6, <2>1, <2>4, <2>7, <2>9, PostsGrow
    <2>6. RoomOK(h, us, life) /\ h.exists = TRUE
      BY <1>1, <2>4, <2>5 DEF RoomOK, RoomSet, Grown
    <2>8. h.exists = room.exists
      BY <1>1, <2>6
    <2> QED
      BY <1>8, <2>5, <2>6, <2>8, TurnsInRoom DEF NoneBut
  <1> QED
    BY <1>7, <1>8

\* A turn with a reply in the log is one that spoke.
LEMMA NotYetPosted ==
    ASSUME IInv, room.exists, NEW t \in 1..Len(turns), turns[t].state # "spoke"
    PROVE  Unposted(room, t)
  <1>1. PostsOK(room.log, turns, life) /\ t # 0
    BY RoomIs
  <1> QED
    BY <1>1 DEF PostsOK, Unposted

LEMMA AnswerKeeps ==
    ASSUME IInv, NEW t \in DOMAIN turns, NEW said \in {"spoke", "quiet"}, Answer(t, said)
    PROVE  IInv'
  <1>1. /\ ~turns[t].consumed /\ (said = "spoke" => turns[t].state = "pending")
        /\ drafts' = drafts \ {t} /\ UNCHANGED <<life, queue, compress, inherited>>
        /\ IF turns[t].answered THEN Act
           ELSE used' = IF said = "spoke" THEN [used EXCEPT !.replies = @ + 1] ELSE used
    BY DEF Answer
  <1>2. /\ turns \in Seq(TurnSet) /\ TurnsOK(turns, room, life) /\ life \in Nat
        /\ DOMAIN turns = 1..Len(turns)
    BY DEF IInv, TurnsOK, CountsOK
  <1>3. t \in 1..Len(turns)
    BY <1>2
  <1>4. turns[t] \in TurnSet /\ TurnOK(turns[t], room, life)
    BY <1>2, <1>3 DEF TurnsOK
  <1>5. PICK old, state : old = turns[t] /\ state = IF turns[t].state = "pending" THEN said ELSE turns[t].state
    OBVIOUS
  <1>6. /\ state \in {"spoke", "quiet"} /\ old \in TurnSet
        /\ old.state # "pending" => state = old.state
        /\ old.state = "pending" => old.life = life /\ ~old.answered
        /\ old.state = "spoke" => old.answered
        /\ old.life <= life
    BY <1>1, <1>4, <1>5 DEF TurnSet, TurnOK
  <1>30. PICK again, waits : /\ again = (turns[t].answered /\ (Awaited(t) \/ t <= inherited))
                             /\ waits = (Awaited(t) /\ ~turns[t].answered)
    OBVIOUS
  <1>7. PICK row : row = [old EXCEPT !.state = state, !.answered = TRUE, !.resettled = @ \/ again]
    OBVIOUS
  <1>8. /\ row \in TurnSet /\ row.state = state /\ row.answered = TRUE /\ row.life = old.life
        /\ row.purpose = old.purpose /\ row.resettled = (old.resettled \/ again)
    <2>1. PICK res : res = (old.resettled \/ again)
      OBVIOUS
    <2>2. res \in BOOLEAN
      BY <2>1
    <2>3. row = [old EXCEPT !.state = state, !.answered = TRUE, !.resettled = res]
      BY <1>6, <1>7, <2>1 DEF TurnSet
    <2> QED
      BY <1>6, <2>1, <2>2, <2>3 DEF TurnSet
  <1>9. PICK rw : rw = IF waits \/ state = "timeout" THEN row ELSE Claimed(row)
    OBVIOUS
  <1>10. /\ rw \in TurnSet /\ rw.state = state /\ rw.answered = TRUE /\ rw.life = turns[t].life
         /\ rw.purpose = turns[t].purpose /\ (Again(turns[t]) => Again(rw))
         /\ (again => Again(rw)) /\ (waits \/ rw.consumed = TRUE)
    <2>1. PICK cl : cl = Claimed(row)
      OBVIOUS
    <2>2. /\ cl \in TurnSet /\ cl.life = row.life /\ cl.purpose = row.purpose
          /\ cl.state = (IF row.state = "spoke" THEN "spoke" ELSE "quiet") /\ cl.answered = TRUE
          /\ cl.consumed = TRUE /\ (Again(row) => Again(cl))
      BY <1>8, <2>1, ClaimedSettled
    <2>3. (rw = row /\ waits) \/ rw = cl
      BY <1>6, <1>9, <2>1
    <2>4. /\ Again(turns[t]) => Again(row)
          /\ again => Again(row)
      BY <1>5, <1>8 DEF Again
    <2> QED
      BY <1>5, <1>6, <1>8, <2>2, <2>3, <2>4
  <1>11. TurnOK(rw, room, life)
    <2>1. rw.life <= life /\ rw.state # "pending" /\ (rw.state = "spoke" => rw.answered = TRUE)
      BY <1>5, <1>6, <1>10
    <2> QED
      BY <1>2, <1>10, <2>1, SettledOK
  <1>12. PICK us : us = Changed(turns, t, rw)
    OBVIOUS
  <1>13. turns' = us
    BY <1>5, <1>7, <1>9, <1>12, <1>30 DEF Answer, Changed
  <1>14. turns[t].state # "pending" => rw.state = turns[t].state
    BY <1>5, <1>6, <1>10
  <1>15. /\ TurnsOK(us, room, life) /\ TurnsKept(turns, us) /\ Len(us) = Len(turns) /\ us[t] = rw
         /\ \A u \in 1..Len(turns) : u # t => us[u] = turns[u]
    BY <1>2, <1>3, <1>10, <1>11, <1>12, <1>14, TurnChanges
  <1>16. us \in Seq(TurnSet)
    BY <1>15 DEF TurnsOK
  <1>17. /\ RoomOK(room, us, life) /\ ChainOK(chain, us, room, life) /\ CompressOK(compress, us)
         /\ inherited \in 0..Len(us)
    BY <1>15, <1>16, TurnsCarry
  <1>18. PICK ds, co, r2 : ds = drafts' /\ co = chain' /\ r2 = room'
    OBVIOUS
  <1>19. DraftsOK(ds, us, life)
    <2>1. DraftsOK(drafts, turns, life)
      BY DEF IInv
    <2>2. \A u \in ds : u \in 1..Len(us) /\ us[u] = turns[u] /\ u \in drafts
      BY <1>1, <1>15, <1>18, <2>1 DEF DraftsOK
    <2> QED
      BY <2>1, <2>2 DEF DraftsOK
  <1>20. ASSUME chain # <<>> => co # <<>> /\ co[1] = chain[1]
         PROVE  LoopsOK(us, ds, inherited, co, compress)
    <2> SUFFICES ASSUME NEW u \in 1..Len(us), Open(us[u]) \/ u \in ds
                 PROVE  u <= inherited \/ Waits(co, compress, u)
      BY DEF LoopsOK
    <2>1. u <= inherited \/ Waits(chain, compress, u)
      <3>1. CASE u = t
        <4>1. rw.state = "spoke" /\ rw.consumed = FALSE
          BY <1>1, <1>6, <1>10, <1>15, <1>18, <3>1 DEF Open
        <4>2. Awaited(t)
          BY <1>10, <1>30, <4>1
        <4> QED
          BY <3>1, <4>2 DEF Waits, Awaited
      <3>2. CASE u # t
        <4>1. Open(turns[u]) \/ u \in drafts
          BY <1>1, <1>15, <1>18, <3>2
        <4> QED
          BY <1>15, <4>1 DEF IInv, LoopsOK
      <3> QED
        BY <3>1, <3>2
    <2> QED
      BY <1>20, <2>1 DEF Waits
  <1>21. CountsOK'
    <2>1. CASE turns[t].answered
      BY <1>1, <2>1, ActCounts DEF IInv
    <2>2. CASE ~turns[t].answered
      BY <1>1, <2>2 DEF IInv, CountsOK, UsedSet
    <2> QED
      BY <2>1, <2>2
  <1>22. CountsOK /\ QueueOK(queue)
    BY DEF IInv
  <1>23. CASE ~(~waits /\ Recoverable(t, state))
    <2>1. UNCHANGED <<room, chain>>
      BY <1>5, <1>23, <1>30 DEF Answer
    <2>2. LoopsOK(us, ds, inherited, co, compress)
      BY <1>18, <1>20, <2>1
    <2>3. IdleOK(queue, room, chain, compress)
      BY DEF IInv
    <2> QED
      BY <1>1, <1>13, <1>15, <1>17, <1>18, <1>19, <1>21, <1>22, <2>1, <2>2, <2>3 DEF IInv
  <1>24. CASE ~waits /\ Recoverable(t, state)
    <2>1. r2 = Recovered(t, state) /\ co = Chained(chain, room.epoch, CauseThread(t))
      BY <1>5, <1>18, <1>24, <1>30 DEF Answer
    <2>2. room.exists /\ turns[t].purpose = "group"
      BY <1>4, <1>24 DEF Recoverable, TurnSet
    <2>3. state = "spoke" => Again(us[t]) \/ (us[t].life = life /\ Unposted(room, t))
      <3> SUFFICES ASSUME state = "spoke"
                   PROVE  Again(us[t]) \/ (us[t].life = life /\ Unposted(room, t))
        OBVIOUS
      <3>1. CASE turns[t].state = "pending"
        <4>1. Unposted(room, t) /\ turns[t].life = life
          BY <1>3, <1>5, <1>6, <2>2, <3>1, NotYetPosted
        <4> QED
          BY <1>10, <1>15, <4>1
      <3>2. CASE turns[t].state # "pending"
        <4>1. turns[t].state = "spoke" /\ turns[t].answered
          BY <1>5, <1>6, <3>2
        <4>2. Open(turns[t])
          BY <1>1, <1>4, <2>2, <4>1 DEF Open, TurnSet
        <4>3. t <= inherited \/ Awaited(t)
          BY <1>3, <4>2 DEF IInv, LoopsOK, Waits, Awaited
        <4> QED
          BY <1>10, <1>15, <1>30, <4>1, <4>3
      <3> QED
        BY <3>1, <3>2
    <2>14. state = "spoke" => t \in 1..Len(us) /\ us[t].state = "spoke" /\ us[t].purpose = "group"
      BY <1>3, <1>10, <1>15, <2>2
    <2>4. chain # <<>> /\ chain[1].at = "turn" /\ chain[1].turn = t => Again(us[t])
      BY <1>10, <1>15, <1>24, <1>30 DEF Awaited
    <2>12. /\ RoomOK(r2, us, life) /\ r2.exists = TRUE /\ TurnsOK(us, r2, life)
           /\ NoneBut(room, r2, t, state)
      BY <1>3, <1>15, <1>16, <2>1, <2>2, <2>3, <2>14, RecoveredKeeps
    <2>13. ChainOK(chain, us, r2, life)
      <3>1. ASSUME chain # <<>>, chain[1].at = "turn" PROVE Hopes(chain[1], us, r2, life)
        <4>1. PICK u : u = chain[1].turn
          OBVIOUS
        <4>2. Unposted(room, u) => MayPost(r2, us, u)
          BY <2>4, <2>12, <3>1, <4>1 DEF NoneBut, MayPost
        <4> QED
          BY <1>15, <2>12, <3>1, <4>1, <4>2, HopesStay
      <3>2. ChainOK(chain, turns, room, life) /\ life <= life
        BY <1>2 DEF IInv
      <3> QED
        BY <1>2, <1>15, <1>16, <3>1, <3>2, ChainCarries
    <2>5. RoomOK(r2, us, life) /\ ChainOK(chain, us, r2, life) /\ TurnsOK(us, r2, life)
      BY <2>12, <2>13
    <2>6. PICK ep, th : ep = room.epoch /\ th = CauseThread(t)
      OBVIOUS
    <2>7. ep \in Nat /\ th \in Thread /\ co = Chained(chain, ep, th)
      BY <2>1, <2>2, <2>6, CauseThreadIs, RoomIs DEF RoomSet
    <2>8. /\ ChainOK(Chained(chain, ep, th), us, r2, life) /\ Chained(chain, ep, th) # <<>>
          /\ chain # <<>> => Chained(chain, ep, th)[1] = chain[1]
      BY <1>22, <2>5, <2>7, ChainedIs
    <2>9. ChainOK(co, us, r2, life) /\ co # <<>> /\ (chain # <<>> => co[1] = chain[1])
      BY <2>7, <2>8
    <2>10. LoopsOK(us, ds, inherited, co, compress)
      BY <1>20, <2>9
    <2>11. IdleOK(queue, r2, co, compress)
      BY <2>9 DEF IdleOK
    <2> QED
      BY <1>1, <1>13, <1>17, <1>18, <1>19, <1>21, <1>22, <2>5, <2>9, <2>10, <2>11 DEF IInv
  <1> QED
    BY <1>23, <1>24

------------------------------------------------------------------------------
(* A restart.                                                                  *)

LEMMA RestartKeeps ==
    ASSUME IInv, NEW again \in BOOLEAN, Restart(again)
    PROVE  IInv'
  <1>1. /\ Act /\ life' = life /\ queue' = Unset /\ compress' = NoCompress /\ drafts' = {}
        /\ inherited' = Len(turns) /\ (again => Woken /\ turns[Drive.turn].answered)
    BY DEF Restart
  <1>2. CountsOK' /\ CountsOK
    BY <1>1, ActCounts DEF IInv
  <1>3. turns \in Seq(TurnSet) /\ TurnsOK(turns, room, life) /\ life \in Nat /\ Len(turns) \in Nat
    BY DEF IInv, TurnsOK, CountsOK
  <1>4. PICK us, r2, co, none : us = turns' /\ r2 = room' /\ co = chain' /\ none = <<>>
    OBVIOUS
  <1>5. \A r : ChainOK(none, us, r, life)
    <2>1. none \in Seq(DriveSet) /\ Len(none) = 0
      BY <1>4
    <2> QED
      BY <2>1 DEF ChainOK
  <1>6. /\ TurnsOK(us, r2, life) /\ Len(us) = Len(turns) /\ RoomOK(r2, us, life)
        /\ ChainOK(co, us, r2, life)
    <2>1. CASE ~again
      <3>1. us = turns /\ r2 = room /\ co = none
        BY <1>4, <2>1 DEF Restart
      <3>2. RoomOK(room, turns, life)
        BY DEF IInv
      <3> QED
        BY <1>3, <1>5, <3>1, <3>2
    <2>2. CASE again
      <3>1. PICK t : t = Drive.turn
        OBVIOUS
      <3>2. chain # <<>> /\ Drive.at = "turn" /\ Drive.life = life /\ t \notin Pending
        BY <1>1, <2>2, <3>1 DEF Woken
      <3>3. DriveOK(Drive, turns, room, life)
        BY <3>2, DriveIs
      <3>4. /\ t \in 1..Len(turns) /\ turns[t].life = life /\ turns[t].purpose = "group"
            /\ MayPost(room, turns, t)
        BY <3>1, <3>2, <3>3 DEF DriveOK, Hopes
      <3>5. turns[t] \in TurnSet /\ TurnOK(turns[t], room, life) /\ turns[t].state # "pending"
        BY <1>3, <3>2, <3>4 DEF TurnsOK, Pending
      <3>6. PICK rw : rw = Claimed(turns[t])
        OBVIOUS
      <3>7. /\ rw \in TurnSet /\ rw.life = turns[t].life /\ rw.purpose = turns[t].purpose
            /\ rw.state = (IF turns[t].state = "spoke" THEN "spoke" ELSE "quiet")
            /\ rw.answered = TRUE /\ (Again(turns[t]) => Again(rw))
        BY <3>5, <3>6, ClaimedSettled
      <3>8. rw.state = turns[t].state
        BY <3>5, <3>7 DEF TurnSet
      <3>9. TurnOK(rw, room, life)
        <4>1. rw.life <= life /\ rw.state # "pending" /\ (rw.state = "spoke" => rw.answered = TRUE)
          BY <3>5, <3>7 DEF TurnOK
        <4> QED
          BY <1>3, <3>7, <4>1, SettledOK
      <3>10. us = Changed(turns, t, rw)
        BY <1>4, <2>2, <3>1, <3>6 DEF Restart, Changed
      <3>11. /\ TurnsOK(us, room, life) /\ TurnsKept(turns, us) /\ Len(us) = Len(turns) /\ us[t] = rw
        BY <1>3, <3>4, <3>7, <3>8, <3>9, <3>10, TurnChanges
      <3>12. us \in Seq(TurnSet)
        BY <3>11 DEF TurnsOK
      <3>13. RoomOK(room, us, life)
        BY <3>11, <3>12, TurnsCarry
      <3>14. CASE ~Recoverable(t, turns[t].state)
        <4>1. r2 = room /\ co = none
          BY <1>4, <3>1, <3>14 DEF Restart
        <4> QED
          BY <1>5, <3>11, <3>13, <4>1
      <3>15. CASE Recoverable(t, turns[t].state)
        <4>1. PICK state, ep, th : state = turns[t].state /\ ep = room.epoch /\ th = CauseThread(t)
          OBVIOUS
        <4>2. r2 = Recovered(t, state) /\ co = Chained(none, ep, th)
          BY <1>4, <2>2, <3>1, <3>15, <4>1 DEF Restart
        <4>3. room.exists
          BY <3>15 DEF Recoverable
        <4>4. state = "spoke" =>
                /\ t \in 1..Len(us) /\ us[t].state = "spoke" /\ us[t].purpose = "group"
                /\ Again(us[t]) \/ (us[t].life = life /\ Unposted(room, t))
          BY <3>4, <3>7, <3>8, <3>11, <4>1 DEF MayPost
        <4>5. RoomOK(r2, us, life) /\ TurnsOK(us, r2, life)
          <5>1. PostsOK(room.log, us, life)
            BY <3>13, <4>3, RoomIs DEF RoomOK
          <5> QED
            BY <1>3, <3>4, <3>11, <3>12, <4>2, <4>3, <4>4, <5>1, RecoveredKeeps
        <4>6. ep \in Nat /\ th \in Thread
          BY <4>1, <4>3, CauseThreadIs, RoomIs DEF RoomSet
        <4>7. ChainOK(none, us, r2, life)
          BY <1>5
        <4>8. ChainOK(co, us, r2, life)
          BY <1>2, <4>2, <4>6, <4>7, ChainedIs
        <4> QED
          BY <3>11, <4>5, <4>8
      <3> QED
        BY <3>14, <3>15
    <2> QED
      BY <2>1, <2>2
  <1>7. CompressOK(NoCompress, us) /\ QueueOK(Unset)
    BY DEF CompressOK, QueueOK
  <1>8. DraftsOK({}, us, life) /\ LoopsOK(us, {}, Len(turns), co, NoCompress)
    BY <1>3, <1>6 DEF DraftsOK, LoopsOK
  <1>9. IdleOK(Unset, r2, co, NoCompress)
    <2> SUFFICES ASSUME r2.exists, NEW s \in 1..Len(r2.log) PROVE ~Contains(Unset, r2.log[s].thread)
      BY DEF IdleOK
    <2>1. r2 \in RoomSet
      BY <1>6 DEF RoomOK, NoRoom
    <2>2. r2.log \in Seq(EntrySet)
      BY <2>1 DEF RoomSet
    <2>3. r2.log[s].thread \in Thread
      <3>1. r2.log[s] \in EntrySet
        BY <2>2
      <3> QED
        BY <3>1 DEF EntrySet
    <2>4. r2.log[s].thread # -1
      BY <2>3, Constants
    <2> QED
      BY <2>4 DEF Contains, Unset
  <1> QED
    BY <1>1, <1>2, <1>3, <1>4, <1>6, <1>7, <1>8, <1>9 DEF IInv

------------------------------------------------------------------------------
(* The invariant.                                                              *)

LEMMA InitHolds ==
    Init => IInv
  <1> SUFFICES ASSUME Init PROVE IInv
    OBVIOUS
  <1>1. /\ room = FreshRoom /\ life = 1 /\ turns = <<>> /\ chain = <<>> /\ queue = <<>>
        /\ compress = NoCompress /\ drafts = {} /\ inherited = 0
        /\ used = [sends |-> 0, replies |-> 0, acts |-> 0]
    BY DEF Init
  <1>2. CountsOK
    <2>1. used \in UsedSet /\ used.acts = 0
      BY <1>1 DEF UsedSet
    <2> QED
      BY <1>1, <2>1, Constants DEF CountsOK
  <1>3. RoomOK(room, turns, life) /\ Len(room.log) = 0
    BY <1>1, FreshRoomIs
  <1>4. turns \in Seq(TurnSet) /\ Len(turns) = 0 /\ chain \in Seq(DriveSet) /\ Len(chain) = 0
    BY <1>1
  <1>5. TurnsOK(turns, room, life) /\ ChainOK(chain, turns, room, life)
    BY <1>4 DEF TurnsOK, ChainOK
  <1>6. CompressOK(compress, turns) /\ DraftsOK(drafts, turns, life)
    BY <1>1 DEF CompressOK, DraftsOK
  <1>7. LoopsOK(turns, drafts, inherited, chain, compress) /\ inherited \in 0..Len(turns)
    BY <1>1, <1>4 DEF LoopsOK
  <1>8. QueueOK(queue)
    <2>1. <<>> \in Seq(Thread) /\ IsInjective(<<>>)
      BY DEF IsInjective
    <2> QED
      BY <1>1, <2>1 DEF QueueOK
  <1>9. IdleOK(queue, room, chain, compress)
    BY <1>3 DEF IdleOK
  <1> QED
    BY <1>2, <1>3, <1>5, <1>6, <1>7, <1>8, <1>9 DEF IInv

LEMMA NextKeeps ==
    ASSUME IInv, [Next]_vars
    PROVE  IInv'
  <1>1. CASE UNCHANGED vars
    BY <1>1 DEF vars, roomVars, IInv, CountsOK
  <1>2. CASE Loops
    BY <1>2, BeginKeeps, RoundEndsKeeps, NextMemberKeeps, MemberCheckedKeeps, TurnEndsKeeps,
       TurnTimesOutKeeps, ThreadEndsKeeps DEF Loops
  <1>3. CASE CompressEnds
    BY <1>3, CompressEndsKeeps
  <1>4. CASE ~Due /\ Requests
    BY <1>4, CreateRoomKeeps, DeleteRoomKeeps, SendKeeps, StopKeeps, CompressKeeps DEF Requests
  <1>5. CASE Events
    BY <1>5, MirrorKeeps, DraftKeeps, AnswerKeeps DEF Events
  <1>6. CASE \E again \in BOOLEAN : Restart(again)
    BY <1>6, RestartKeeps
  <1> QED
    BY <1>1, <1>2, <1>3, <1>4, <1>5, <1>6 DEF Next

\* The inductive invariant of the rooms: the posts in the log are replies of turns that
\* spoke, and unless the turn was settled again, of this life, each once, and never of the
\* turn the running loop waits for; a turn is pending only in the room that is there; what
\* is pending, has a reply nobody has claimed, or has an open bubble has its loop or comes
\* from an earlier process; and an idle room has nothing queued.
THEOREM InvariantHolds == Spec => []IInv
  <1>1. Init => IInv
    BY InitHolds
  <1>2. IInv /\ [Next]_vars => IInv'
    BY NextKeeps
  <1> QED
    BY <1>1, <1>2, PTL DEF Spec

\* Every variable keeps its type, no loop runs past GROUP_MAX_ROUNDS or posts past
\* GROUP_MAX_MESSAGES for a thread, no round has more replies than members, no thread is queued
\* twice, and only the first drive of a chain is past its wait.
THEOREM TypeCorrect == Spec => []TypeOK
  <1>1. IInv => TypeOK
    <2> SUFFICES ASSUME IInv PROVE TypeOK
      OBVIOUS
    <2>1. /\ turns \in Seq(TurnSet) /\ Len(turns) \in Nat /\ DOMAIN turns = 1..Len(turns)
          /\ chain \in Seq(DriveSet) /\ DOMAIN chain = 1..Len(chain)
          /\ ChainOK(chain, turns, room, life)
      BY DEF IInv, TurnsOK, ChainOK
    <2>2. room.exists => /\ room.epoch \in Nat /\ room.holds \subseteq Member
                         /\ \A s \in DOMAIN room.log : room.log[s].by \in Member \cup {User}
      <3> SUFFICES ASSUME room.exists
                   PROVE  /\ room.epoch \in Nat /\ room.holds \subseteq Member
                          /\ \A s \in DOMAIN room.log : room.log[s].by \in Member \cup {User}
        OBVIOUS
      <3>1. room \in RoomSet
        BY RoomIs
      <3>2. room.epoch \in Nat /\ room.holds \subseteq Member /\ room.log \in Seq(EntrySet)
        BY <3>1 DEF RoomSet
      <3>3. \A s \in DOMAIN room.log : room.log[s] \in EntrySet
        BY <3>2
      <3> QED
        BY <3>2, <3>3 DEF EntrySet
    <2>3. life \in 1..(MaxActs + 1)
      <3>1. used.acts \in Nat /\ used.acts <= MaxActs /\ life \in Nat \ {0} /\ life <= used.acts + 1
        BY DEF IInv, CountsOK, UsedSet
      <3>2. PICK a : a = used.acts
        OBVIOUS
      <3> QED
        BY <3>1, <3>2, Constants
    <2>4. compress.turn \in 0..Len(turns)
      <3>1. CompressOK(compress, turns)
        BY DEF IInv
      <3>2. CASE compress = NoCompress
        BY <2>1, <3>2 DEF NoCompress
      <3>3. CASE compress # NoCompress
        <4>1. compress.turn \in Nat /\ compress.turn <= Len(turns)
          BY <3>1, <3>3 DEF CompressOK
        <4> QED
          BY <2>1, <4>1
      <3> QED
        BY <3>2, <3>3
    <2>5. drafts \subseteq DOMAIN turns /\ inherited \in 0..Len(turns)
      BY <2>1 DEF IInv, DraftsOK
    <2>6. queue = Unset \/ (queue \in Seq(Thread) /\ IsInjective(queue))
      BY DEF IInv, QueueOK
    <2>7. ASSUME NEW i \in DOMAIN chain
          PROVE  chain[i] \in DriveRecord /\ (i > 1 => chain[i].at = "waiting")
      <3>1. PICK d : d = chain[i]
        OBVIOUS
      <3>2. /\ i \in 1..Len(chain) /\ d \in DriveSet /\ DriveOK(d, turns, room, life)
            /\ (i > 1 => d.at = "waiting")
        BY <2>1, <2>7, <3>1 DEF ChainOK
      <3>3. d.life \in 1..life
        <4>1. d.life \in Nat \ {0} /\ d.life <= life /\ life \in Nat
          BY <3>2 DEF DriveSet, DriveOK, IInv, CountsOK
        <4> QED
          BY <4>1
      <3>4. d.spoke \in 0..NumMembers
        <4>1. PICK a, b : a = d.spoke /\ b = Len(d.left)
          OBVIOUS
        <4>2. a \in Nat /\ b \in Nat /\ a + b <= NumMembers
          BY <3>2, <4>1 DEF DriveSet, DriveOK
        <4>3. a \in 0..NumMembers
          BY <4>2, Constants
        <4> QED
          BY <4>1, <4>3
      <3>5. d.turn \in 0..Len(turns)
        <4>1. CASE d.at = "turn"
          BY <2>1, <3>2, <4>1 DEF DriveOK
        <4>2. CASE d.at # "turn"
          BY <2>1, <3>2, <4>2 DEF DriveOK
        <4> QED
          BY <4>1, <4>2
      <3>6. d.seen \in {NoRoom} \cup {Drive.seen}
        <4>1. CASE i = 1
          BY <3>1, <4>1 DEF Drive
        <4>2. CASE i # 1
          <5>1. i > 1
            BY <3>2, <4>2
          <5> QED
            BY <3>2, <5>1 DEF DriveOK
        <4> QED
          BY <4>1, <4>2
      <3>7. d \in DriveRecord
        BY <3>2, <3>3, <3>4, <3>5, <3>6 DEF DriveSet, DriveRecord
      <3> QED
        BY <3>1, <3>2, <3>7
    <2> QED
      BY <2>2, <2>3, <2>4, <2>5, <2>6, <2>7 DEF TypeOK
  <1> QED
    BY <1>1, InvariantHolds, PTL

\* A turn's reply is in the transcript at most once, only if it came before the deadline,
\* and only in the room it was asked for, whatever is stopped, deleted, recreated or
\* restarted, but for a turn that had a further event handled between its first one and
\* the loop's return (or the loss of that loop): that one may be posted twice.
THEOREM RepliesPostedOnce == Spec => []RepliesPostOnce
  <1>1. IInv => RepliesPostOnce
    <2> SUFFICES ASSUME IInv, room.exists, NEW s \in DOMAIN room.log, room.log[s].turn # 0
                 PROVE  /\ turns[room.log[s].turn].state = "spoke"
                        /\ turns[room.log[s].turn].purpose = "group"
                        /\ \/ turns[room.log[s].turn].resettled
                           \/ /\ turns[room.log[s].turn].life = life
                              /\ \A r \in DOMAIN room.log :
                                   room.log[r].turn = room.log[s].turn => r = s
      BY DEF RepliesPostOnce
    <2>1. room \in RoomSet /\ PostsOK(room.log, turns, life)
      BY RoomIs
    <2>2. DOMAIN room.log = 1..Len(room.log)
      <3>1. room.log \in Seq(EntrySet)
        BY <2>1 DEF RoomSet
      <3> QED
        BY <3>1
    <2>3. PostOK(room.log, turns, life, s)
      BY <2>1, <2>2 DEF PostsOK, PostOK
    <2> QED
      BY <2>2, <2>3 DEF PostOK, Again
  <1> QED
    BY <1>1, InvariantHolds, PTL

\* No turn stays pending and no live bubble stays open without the loop that will settle
\* it, and no thread of the room stays queued without a loop that takes it on, whatever
\* is stopped, compressed, deleted or recreated meanwhile.
THEOREM WorkIsTakenOn == Spec => []WorkHasALoop
  <1>1. IInv => WorkHasALoop
    <2> SUFFICES ASSUME IInv PROVE WorkHasALoop
      OBVIOUS
    <2>1. \A t \in Pending \cup drafts : t <= inherited \/ Awaited(t)
      <3> SUFFICES ASSUME NEW t \in Pending \cup drafts PROVE t <= inherited \/ Awaited(t)
        OBVIOUS
      <3>1. turns \in Seq(TurnSet) /\ drafts \subseteq 1..Len(turns)
        BY DEF IInv, TurnsOK, DraftsOK
      <3>2. t \in 1..Len(turns) /\ (turns[t].state = "pending" \/ t \in drafts)
        BY <3>1 DEF Pending
      <3>4. Open(turns[t]) \/ t \in drafts
        BY <3>2 DEF Open
      <3>3. t <= inherited \/ Waits(chain, compress, t)
        BY <3>2, <3>4 DEF IInv, LoopsOK
      <3> QED
        BY <3>3 DEF Waits, Awaited
    <2>2. ASSUME room.exists, NEW thread \in Thread \ {0}, Contains(queue, thread),
                 Entries(room, thread) # {}
          PROVE  chain # <<>> \/ compress # NoCompress
      <3>1. room \in RoomSet
        BY <2>2, RoomIs
      <3>2. PICK s \in Entries(room, thread) : TRUE
        BY <2>2
      <3>3. s \in 1..Len(room.log)
        BY <3>1, <3>2, EntriesIs
      <3>4. room.log[s].thread = thread
        BY <3>2 DEF Entries
      <3>5. IdleOK(queue, room, chain, compress)
        BY DEF IInv
      <3> QED
        BY <2>2, <3>3, <3>4, <3>5 DEF IdleOK
    <2> QED
      BY <2>1, <2>2 DEF WorkHasALoop
  <1> QED
    BY <1>1, InvariantHolds, PTL

=============================================================================
