------------------------ MODULE ChatExecutionsProofs ------------------------
(***************************************************************************)
(* Proofs about ChatExecutions for any workspaces, sends, executions and   *)
(* bounds.                                                                 *)
(*                                                                         *)
(* The invariant rests on the order of #preparations: only the head of the *)
(* line changes which execution the chat has, so what it found out about   *)
(* the execution before an await is still true after it, unless the        *)
(* conversation is gone.  The lane's part says that a delete is never      *)
(* followed by a create of the same execution, on the stream or in the     *)
(* program that reads it.                                                  *)
(***************************************************************************)
EXTENDS ChatExecutions, TLAPS, FiniteSetTheorems, SequenceTheorems

Call == [at : {"new", "over"} \cup Pending \cup Taken, ws : Choice,
         row : Execs \cup {None}, peer : Execs \cup {Home, None}]
Row == [stage : {"starting", "ready", "failed"} \cup Dead, ws : Choice]
Peers == [Execs -> {"none", "dialing", "attached"}]
Processes == [Execs -> {"none", "booting", "up"}]
Frames == [kind : {"create", "delete"}, execution : Execs]
Created == [op : {"create"}, execution : Execs, stage : {"starting", "ready", "failed"}]
Deleted == [op : {"delete"}, execution : Execs, stage : {"deleted"}]

Alive(rows) == {e \in Execs : rows[e].stage \notin Dead}

SessionOK(ses, ch, to, lk, ac) ==
  /\ ses \in {"open", "left", "deleted"} /\ to \in BOOLEAN /\ lk \in BOOLEAN
  /\ ch \in Seq(Choice) /\ ch # <<>> /\ ch[1] = Home
  /\ ac \in Sends \cup {None} /\ (ac # None => lk)

\* The line holds the sends in preparation, once each, and only its head has begun.
CallsOK(cl, ln) ==
  /\ cl \in [Sends -> Call] /\ ln \in Seq(Sends)
  /\ \A i, j \in 1..Len(ln) : ln[i] = ln[j] => i = j
  /\ \A i \in 1..Len(ln) : cl[ln[i]].at \in Pending /\ (i > 1 => cl[ln[i]].at = "line")
  /\ \A c \in Sends : cl[c].at \in Pending => \E i \in 1..Len(ln) : ln[i] = c

\* One execution lives, it alone may attach, and its workspace was once the chat's choice.
RowsOK(rows, ch, tk, pe) ==
  /\ rows \in [Execs -> Row] /\ pe \in Peers
  /\ \A e \in Execs : rows[e].stage = "none" => rows[e].ws = Home
  /\ \A e \in Execs : rows[e].stage # "none" =>
       rows[e].ws \in Workspaces /\ \E i \in 1..Len(ch) : ch[i] = rows[e].ws
  /\ \A e, f \in Alive(rows) : e = f
  /\ tk \subseteq Alive(rows)
  /\ \A e \in Execs : pe[e] = "attached" => e \in Alive(rows)

\* What the send that is being prepared knows of the chat's execution.
Knows(call_, rows) ==
  /\ \A e \in Alive(rows) : rows[e].ws = call_.ws
  /\ call_.at # "local" => call_.ws # Home
  /\ call_.at = "profile" => Alive(rows) = {}
  /\ call_.at \in {"waiting", "configuring"} => call_.row \in Alive(rows)
HeadOK(ses, cl, ln, rows) ==
  ln # <<>> /\ ses # "deleted" => cl[Head(ln)].at = "line" \/ Knows(cl[Head(ln)], rows)

\* A locked workspace of a computer has its execution as long as the conversation is there.
LockOK(ses, ch, lk, rows) ==
  lk /\ ses # "deleted" /\ Last(ch) # Home =>
    \E e \in Alive(rows) : rows[e].ws = Last(ch)

\* Where the words of a chat went.  A steer of a chat on its own profile is HomeOK's.
RunsOK(ch, lk, cl, rows) ==
  \A c \in Sends : cl[c].at \in Taken =>
    /\ lk /\ cl[c].ws = Last(ch)
    /\ Last(ch) = Home /\ cl[c].at = "turn" => cl[c].peer = Home
    /\ Last(ch) # Home => cl[c].peer \in Execs /\ rows[cl[c].peer].ws = Last(ch)

\* An execution whose end the computer has reported, or was ordered and read.
Discharged(e, rows, rc, st) ==
  \/ rows[e].stage = "gone"
  \/ \E i \in 1..Len(rc) : rc[i] = Receipt("delete", e, "deleted")
  \/ \E i \in 1..Len(st) : st[i] = Receipt("delete", e, "deleted")

LaneOK(rows, cm, rc, st, pr) ==
  /\ cm \in Seq(Frames) /\ rc \in Seq(Created \cup Deleted) /\ st \in Seq(Created \cup Deleted)
  /\ pr \in Processes
  /\ \A e \in Execs : rows[e].stage \notin {"deleted", "gone"} =>
       /\ ~Discharged(e, rows, rc, st)
       /\ \A i \in 1..Len(cm) : cm[i] # Command("delete", e)
  /\ \A e \in Execs : Discharged(e, rows, rc, st) =>
       /\ pr[e] = "none"
       /\ \A i \in 1..Len(cm) : cm[i] # Command("create", e)
  /\ \A e \in Execs : \A i, j \in 1..Len(cm) :
       i < j /\ cm[i] = Command("delete", e) => cm[j] # Command("create", e)

ChatOK(ses, ch, lk, cl, ln, rows) ==
  /\ CallsOK(cl, ln)
  /\ \A c \in Sends : \E i \in 1..Len(ch) : ch[i] = cl[c].ws
  /\ HeadOK(ses, cl, ln, rows) /\ LockOK(ses, ch, lk, rows) /\ RunsOK(ch, lk, cl, rows)

IInv ==
  /\ SessionOK(session, chosen, touched, locked, active)
  /\ ChatOK(session, chosen, locked, call, line, row)
  /\ RowsOK(row, chosen, tokens, peer)
  /\ LaneOK(row, commands, receipts, stale, proc)
  /\ link \in BOOLEAN

----------------------------------------------------------------------------
(* The execution of the chat                                               *)

LEMMA NamesApart ==
    /\ Home \notin Workspaces /\ None \notin Workspaces /\ None # Home
    /\ Home \notin Execs /\ None \notin Execs /\ None \notin Sends /\ Execs \subseteq Nat /\ Sends \subseteq Nat
    /\ Home \in Choice /\ Workspaces \subseteq Choice /\ \A ws \in Choice : ws = Home \/ ws \in Workspaces
  BY ExecutionAssumption DEF Execs, Sends, Choice

LEMMA CurrentFacts ==
    ASSUME NEW rows, \A e, f \in Alive(rows) : e = f
    PROVE  /\ Alive(rows) = {} => Current(rows) = None
           /\ \A e \in Alive(rows) : Current(rows) = e
  <1>1. PICK live : live = {e \in Execs : rows[e].stage \notin Dead}
    OBVIOUS
  <1>2. live = Alive(rows)
    BY <1>1 DEF Alive
  <1>3. Current(rows) = IF live = {} THEN None ELSE CHOOSE e \in live : \A f \in live : f <= e
    BY <1>1 DEF Current
  <1>4. ASSUME NEW e \in live PROVE (CHOOSE x \in live : \A f \in live : f <= x) = e
    <2>1. e \in Nat
      BY <1>1, NamesApart
    <2>2. \A f \in live : f = e
      BY <1>2
    <2>3. \E x \in live : \A f \in live : f <= x
      BY <2>1, <2>2
    <2>4. (CHOOSE x \in live : \A f \in live : f <= x) \in live
      BY <2>3
    <2> QED
      BY <2>2, <2>4
  <1> QED
    BY <1>2, <1>3, <1>4

\* Where the words of a chat go: to its own profile, or to the execution that lives.
LEMMA PeerFacts ==
    ASSUME NEW rows, \A e, f \in Alive(rows) : e = f, NEW tk \in SUBSET Execs
    PROVE  /\ Alive(rows) = {} => ExecutionPeer(rows) = Home
           /\ \A e \in Alive(rows) : ExecutionPeer(rows) \in {e, None}
           /\ ExecutionPeer(rows) \in Execs \cup {Home, None}
           /\ None \notin tk
  <1>1. Alive(rows) \subseteq Execs
    BY DEF Alive
  <1>2. None \notin Execs
    BY NamesApart
  <1>3. CASE Alive(rows) = {}
    BY <1>2, <1>3, CurrentFacts DEF ExecutionPeer
  <1>4. ASSUME NEW e \in Alive(rows) PROVE ExecutionPeer(rows) \in {e, None}
    <2>1. Current(rows) = e /\ e # None
      BY <1>1, <1>2, CurrentFacts
    <2> QED
      BY <2>1 DEF ExecutionPeer
  <1> QED
    BY <1>1, <1>2, <1>3, <1>4

----------------------------------------------------------------------------
(* The line                                                                *)

\* A send that is not in the line and does not join it.
LEMMA CallsAside ==
    ASSUME NEW cl, NEW ln, CallsOK(cl, ln), NEW c \in Sends, cl[c].at \notin Pending,
           NEW cl2 \in [Sends -> Call], cl2[c].at \notin Pending, \A d \in Sends \ {c} : cl2[d] = cl[d]
    PROVE  CallsOK(cl2, ln)
  <1>1. \A i \in 1..Len(ln) : ln[i] # c /\ ln[i] \in Sends
    BY DEF CallsOK
  <1> QED
    BY <1>1 DEF CallsOK

LEMMA CallsJoin ==
    ASSUME NEW cl, NEW ln, CallsOK(cl, ln), NEW c \in Sends, cl[c].at \notin Pending,
           NEW cl2 \in [Sends -> Call], cl2[c].at = "line", \A d \in Sends \ {c} : cl2[d] = cl[d]
    PROVE  /\ CallsOK(cl2, Append(ln, c))
           /\ ln # <<>> => Head(Append(ln, c)) = Head(ln) /\ Head(ln) # c
           /\ ln = <<>> => Head(Append(ln, c)) = c
  <1>1. PICK n : n = Len(ln)
    OBVIOUS
  <1>2. PICK new : new = Append(ln, c)
    OBVIOUS
  <1>3. n \in Nat /\ ln \in Seq(Sends)
    BY <1>1 DEF CallsOK
  <1>4. new \in Seq(Sends) /\ Len(new) = n + 1 /\ new[n + 1] = c /\ \A i \in 1..n : new[i] = ln[i]
    BY <1>1, <1>2, <1>3
  <1>5. \A i \in 1..n : ln[i] # c /\ ln[i] \in Sends
    BY <1>1, <1>3 DEF CallsOK
  <1>6. \A i \in 1..(n + 1) : i = n + 1 \/ i \in 1..n
    BY <1>3
  <1>7. \A i, j \in 1..Len(new) : new[i] = new[j] => i = j
    BY <1>1, <1>4, <1>5, <1>6 DEF CallsOK
  <1>8. \A i \in 1..Len(new) : cl2[new[i]].at \in Pending /\ (i > 1 => cl2[new[i]].at = "line")
    <2> SUFFICES ASSUME NEW i \in 1..Len(new)
                 PROVE  cl2[new[i]].at \in Pending /\ (i > 1 => cl2[new[i]].at = "line")
      OBVIOUS
    <2>1. CASE i = n + 1
      BY <1>4, <2>1 DEF Pending
    <2>2. CASE i \in 1..n
      BY <1>1, <1>4, <1>5, <2>2 DEF CallsOK
    <2> QED
      BY <1>4, <1>6, <2>1, <2>2
  <1>9. \A d \in Sends : cl2[d].at \in Pending => \E i \in 1..Len(new) : new[i] = d
    <2> SUFFICES ASSUME NEW d \in Sends, cl2[d].at \in Pending PROVE \E i \in 1..Len(new) : new[i] = d
      OBVIOUS
    <2>1. CASE d = c
      BY <1>3, <1>4, <2>1
    <2>2. CASE d # c
      <3>1. PICK i \in 1..n : ln[i] = d
        BY <1>1, <2>2 DEF CallsOK
      <3> QED
        BY <1>3, <1>4, <3>1, SMTT(30)
    <2> QED
      BY <2>1, <2>2
  <1>10. CallsOK(cl2, new)
    BY <1>4, <1>7, <1>8, <1>9 DEF CallsOK
  <1>11. ln # <<>> => Head(new) = ln[1] /\ Head(ln) = ln[1] /\ ln[1] # c
    BY <1>1, <1>3, <1>4, <1>5
  <1>12. ln = <<>> => Head(new) = c
    BY <1>2
  <1> QED
    BY <1>2, <1>10, <1>11, <1>12

LEMMA CallsMove ==
    ASSUME NEW cl, NEW ln, CallsOK(cl, ln), ln # <<>>, NEW c, c = Head(ln),
           NEW cl2 \in [Sends -> Call], cl2[c].at \in Pending, \A d \in Sends \ {c} : cl2[d] = cl[d]
    PROVE  CallsOK(cl2, ln)
  <1>1. ln \in Seq(Sends) /\ c = ln[1] /\ c \in Sends
    BY DEF CallsOK
  <1>2. \A i \in 1..Len(ln) : ln[i] \in Sends /\ (i > 1 => ln[i] # c)
    BY <1>1 DEF CallsOK
  <1>3. \A i \in 1..Len(ln) : cl2[ln[i]].at \in Pending /\ (i > 1 => cl2[ln[i]].at = "line")
    BY <1>1, <1>2 DEF CallsOK
  <1>4. \A d \in Sends : cl2[d].at \in Pending => \E i \in 1..Len(ln) : ln[i] = d
    <2> SUFFICES ASSUME NEW d \in Sends, cl2[d].at \in Pending PROVE \E i \in 1..Len(ln) : ln[i] = d
      OBVIOUS
    <2>1. CASE d = c
      BY <1>1, <2>1
    <2>2. CASE d # c
      BY <2>2 DEF CallsOK
    <2> QED
      BY <2>1, <2>2
  <1> QED
    BY <1>1, <1>3, <1>4 DEF CallsOK

LEMMA CallsLeave ==
    ASSUME NEW cl, NEW ln, CallsOK(cl, ln), ln # <<>>, NEW c, c = Head(ln),
           NEW cl2 \in [Sends -> Call], cl2[c].at \notin Pending, \A d \in Sends \ {c} : cl2[d] = cl[d]
    PROVE  /\ CallsOK(cl2, Tail(ln))
           /\ Tail(ln) # <<>> => cl2[Head(Tail(ln))].at = "line"
  <1>1. PICK new, n : new = Tail(ln) /\ n = Len(ln)
    OBVIOUS
  <1>2. ln \in Seq(Sends) /\ c = ln[1] /\ c \in Sends /\ n \in Nat \ {0}
    BY <1>1 DEF CallsOK
  <1>3. new \in Seq(Sends) /\ Len(new) = n - 1 /\ \A i \in 1..(n - 1) : new[i] = ln[i + 1] /\ i + 1 \in 1..n
    BY <1>1, <1>2
  <1>4. \A i \in 1..(n - 1) : new[i] \in Sends /\ new[i] # c /\ cl[new[i]].at = "line"
    BY <1>1, <1>2, <1>3 DEF CallsOK
  <1>5. \A i, j \in 1..(n - 1) : new[i] = new[j] => i = j
    <2> SUFFICES ASSUME NEW i \in 1..(n - 1), NEW j \in 1..(n - 1), new[i] = new[j] PROVE i = j
      OBVIOUS
    <2>1. i + 1 = j + 1
      BY <1>1, <1>3 DEF CallsOK
    <2> QED
      BY <2>1
  <1>6. \A d \in Sends : cl2[d].at \in Pending => \E i \in 1..(n - 1) : new[i] = d
    <2> SUFFICES ASSUME NEW d \in Sends, cl2[d].at \in Pending PROVE \E i \in 1..(n - 1) : new[i] = d
      OBVIOUS
    <2>1. d # c
      OBVIOUS
    <2>2. PICK i \in 1..n : ln[i] = d
      BY <1>1, <2>1 DEF CallsOK
    <2>3. i # 1
      BY <1>2, <2>1, <2>2
    <2>4. i - 1 \in 1..(n - 1) /\ (i - 1) + 1 = i
      BY <1>2, <2>2, <2>3
    <2> QED
      BY <1>3, <2>2, <2>4
  <1>7. CallsOK(cl2, new)
    BY <1>3, <1>4, <1>5, <1>6 DEF CallsOK, Pending
  <1>8. new # <<>> => cl2[Head(new)].at = "line"
    <2>1. new # <<>> => Head(new) = new[1] /\ 1 \in 1..(n - 1)
      BY <1>2, <1>3
    <2>2. \A i \in 1..(n - 1) : cl2[new[i]].at = "line"
      BY <1>4
    <2> QED
      BY <2>1, <2>2
  <1> QED
    BY <1>1, <1>7, <1>8

----------------------------------------------------------------------------
(* The executions                                                          *)

\* The rows keep their workspace, and as long as there is the conversation, their life.
Alike(ses, rows, rows2) ==
  /\ rows2 \in [Execs -> Row]
  /\ \A e \in Execs : rows2[e].ws = rows[e].ws /\ (rows2[e].stage = "none" <=> rows[e].stage = "none")
  /\ Alive(rows2) \subseteq Alive(rows)
  /\ ses # "deleted" => Alive(rows) \subseteq Alive(rows2)

LEMMA AlikeRows ==
    ASSUME NEW ses, NEW rows, NEW rows2, Alike(ses, rows, rows2), NEW ch, NEW tk, NEW pe, RowsOK(rows, ch, tk, pe),
           NEW tk2 \in SUBSET Alive(rows2), NEW pe2 \in Peers, \A e \in Execs : pe2[e] = "attached" => e \in Alive(rows2)
    PROVE  RowsOK(rows2, ch, tk2, pe2)
  BY DEF Alike, RowsOK

LEMMA AlikeChat ==
    ASSUME NEW ses, NEW ch, NEW lk, NEW cl, NEW ln, NEW rows, NEW rows2, Alike(ses, rows, rows2),
           ChatOK(ses, ch, lk, cl, ln, rows)
    PROVE  ChatOK(ses, ch, lk, cl, ln, rows2)
  <1>1. HeadOK(ses, cl, ln, rows2)
    <2> SUFFICES ASSUME ln # <<>>, ses # "deleted" PROVE cl[Head(ln)].at = "line" \/ Knows(cl[Head(ln)], rows2)
      BY DEF HeadOK
    <2>1. PICK h : h = cl[Head(ln)]
      OBVIOUS
    <2>2. h.at = "line" \/ Knows(h, rows)
      BY <2>1 DEF ChatOK, HeadOK
    <2>3. Alive(rows2) = Alive(rows) /\ \A e \in Alive(rows) : rows2[e].ws = rows[e].ws
      BY DEF Alike, Alive
    <2>4. h.at = "line" \/ Knows(h, rows2)
      BY <2>2, <2>3 DEF Knows
    <2> QED
      BY <2>1, <2>4
  <1>2. LockOK(ses, ch, lk, rows2)
    <2>1. ses # "deleted" => \A e \in Alive(rows) : e \in Alive(rows2) /\ rows2[e].ws = rows[e].ws
      BY DEF Alike, Alive
    <2> QED
      BY <2>1 DEF ChatOK, LockOK
  <1>3. RunsOK(ch, lk, cl, rows2)
    BY DEF ChatOK, RunsOK, Alike
  <1> QED
    BY <1>1, <1>2, <1>3 DEF ChatOK

\* #retire takes the executions of a set, their tokens and their sockets.
LEMMA RetiredFacts ==
    ASSUME NEW gone \in SUBSET Execs, RowsOK(row, chosen, tokens, peer), \A e \in gone : row[e].stage \notin {"none", "gone"},
           row' = Retired(row, gone), tokens' = tokens \ gone, peer' = Disconnected(gone)
    PROVE  /\ row' \in [Execs -> Row] /\ peer' \in Peers
           /\ \A e \in Execs : row'[e].ws = row[e].ws /\ (row'[e].stage = "none" <=> row[e].stage = "none")
           /\ \A e \in Execs : e \in gone => row'[e].stage = "deleted"
           /\ \A e \in Execs : e \notin gone => row'[e] = row[e]
           /\ \A e \in Execs : e \in Alive(row') <=> e \in Alive(row) /\ e \notin gone
           /\ tokens' \subseteq Alive(row')
           /\ \A e \in Execs : peer'[e] = "attached" => e \in Alive(row')
  <1>1. row \in [Execs -> Row] /\ peer \in Peers
    BY DEF RowsOK
  <1>2. \A e \in Execs : e \notin gone => row'[e] = row[e]
    BY DEF Retired
  <1>3. \A e \in Execs : e \in gone => row'[e] = [row[e] EXCEPT !.stage = "deleted"]
    BY DEF Retired
  <1>4. \A e \in Execs : e \in gone => row'[e] \in Row /\ row'[e].stage = "deleted" /\ row'[e].ws = row[e].ws
    <2> SUFFICES ASSUME NEW e \in Execs, e \in gone
                 PROVE  row'[e] \in Row /\ row'[e].stage = "deleted" /\ row'[e].ws = row[e].ws
      OBVIOUS
    <2>1. PICK r : r = row[e]
      OBVIOUS
    <2>2. r \in Row /\ row'[e] = [r EXCEPT !.stage = "deleted"]
      BY <1>1, <1>3, <2>1
    <2>3. [r EXCEPT !.stage = "deleted"] \in Row
      BY <2>2 DEF Row, Dead
    <2> QED
      BY <2>1, <2>2, <2>3 DEF Row
  <1>5. row' \in [Execs -> Row]
    <2>1. \A e \in Execs : row'[e] \in Row
      BY <1>1, <1>2, <1>4
    <2>2. row' = [e \in Execs |-> IF e \in gone THEN [row[e] EXCEPT !.stage = "deleted"] ELSE row[e]]
      BY DEF Retired
    <2> QED
      BY <2>1, <2>2
  <1>6. \A e \in Execs : e \in Alive(row') <=> e \in Alive(row) /\ e \notin gone
    BY <1>2, <1>4 DEF Alive, Dead
  <1>7. peer' \in Peers /\ \A e \in Execs : peer'[e] = "attached" => peer[e] = "attached" /\ e \notin gone
    BY <1>1 DEF Disconnected, Peers
  <1>8. tokens' \subseteq Alive(row')
    BY <1>6 DEF RowsOK, Alive
  <1> QED
    BY <1>2, <1>4, <1>5, <1>6, <1>7, <1>8 DEF RowsOK

----------------------------------------------------------------------------
(* The computer's stream                                                   *)

LEMMA FrameFacts ==
    /\ \A e \in Execs : Command("create", e) \in Frames /\ Command("delete", e) \in Frames
    /\ \A e, f : Command("create", e) # Command("delete", f)
    /\ \A k, e : Command(k, e).kind = k /\ Command(k, e).execution = e
    /\ \A f \in Frames : f.execution \in Execs /\ (f = Command("create", f.execution) \/ f = Command("delete", f.execution))
  BY DEF Command, Frames

\* Commands of executions that are to be started or ended are added at the end.
LEMMA OrdersKeep ==
    ASSUME NEW rows, NEW cm, NEW rc, NEW st, NEW pr, LaneOK(rows, cm, rc, st, pr), NEW new \in Seq(Frames),
           \A i \in 1..Len(new) : /\ new[i] = Command("create", new[i].execution) =>
                                       rows[new[i].execution].stage \notin {"deleted", "gone"}
                                  /\ new[i] = Command("delete", new[i].execution) =>
                                       rows[new[i].execution].stage = "deleted"
    PROVE  LaneOK(rows, cm \o new, rc, st, pr)
  <1>1. PICK all, n, m : all = cm \o new /\ n = Len(cm) /\ m = Len(new)
    OBVIOUS
  <1>2. cm \in Seq(Frames) /\ n \in Nat /\ m \in Nat
    BY <1>1 DEF LaneOK
  <1>3. /\ all \in Seq(Frames) /\ Len(all) = n + m
        /\ \A i \in 1..n : all[i] = cm[i]
        /\ \A i \in 1..(n + m) : i \notin 1..n => all[i] = new[i - n] /\ i - n \in 1..m
    BY <1>1, <1>2
  <1>4. \A i \in 1..(n + m), e \in Execs : i \notin 1..n =>
          /\ all[i] = Command("create", e) => rows[e].stage \notin {"deleted", "gone"}
          /\ all[i] = Command("delete", e) => rows[e].stage = "deleted"
    <2> SUFFICES ASSUME NEW i \in 1..(n + m), NEW e \in Execs, i \notin 1..n
                 PROVE  /\ all[i] = Command("create", e) => rows[e].stage \notin {"deleted", "gone"}
                        /\ all[i] = Command("delete", e) => rows[e].stage = "deleted"
      OBVIOUS
    <2>1. PICK k \in 1..Len(new) : all[i] = new[k]
      BY <1>1, <1>3
    <2>2. PICK f : f = new[k]
      OBVIOUS
    <2>3. \A kind : f = Command(kind, e) => f.execution = e
      BY FrameFacts
    <2> QED
      BY <2>1, <2>2, <2>3
  <1>5. ASSUME NEW e \in Execs, rows[e].stage \notin {"deleted", "gone"}
        PROVE  /\ ~Discharged(e, rows, rc, st)
               /\ \A i \in 1..Len(all) : all[i] # Command("delete", e)
    BY <1>1, <1>3, <1>4, <1>5 DEF LaneOK
  <1>6. ASSUME NEW e \in Execs, Discharged(e, rows, rc, st)
        PROVE  pr[e] = "none" /\ \A i \in 1..Len(all) : all[i] # Command("create", e)
    <2>1. rows[e].stage \in {"deleted", "gone"}
      BY <1>6 DEF LaneOK
    <2> QED
      BY <1>1, <1>3, <1>4, <1>6, <2>1 DEF LaneOK
  <1>7. ASSUME NEW e \in Execs, NEW i \in 1..Len(all), NEW j \in 1..Len(all), i < j, all[i] = Command("delete", e)
        PROVE  all[j] # Command("create", e)
    <2>1. i \in 1..(n + m) /\ j \in 1..(n + m)
      BY <1>3
    <2>2. CASE j \in 1..n
      <3>1. i \in 1..n
        BY <1>2, <1>7, <2>1, <2>2
      <3>2. cm[i] = Command("delete", e) /\ i \in 1..Len(cm) /\ j \in 1..Len(cm)
        BY <1>1, <1>3, <1>7, <2>2, <3>1
      <3> QED
        BY <1>3, <1>7, <2>2, <3>2 DEF LaneOK
    <2>3. CASE j \notin 1..n
      <3>1. rows[e].stage \in {"deleted", "gone"}
        <4>1. CASE i \in 1..n
          BY <1>1, <1>3, <1>7, <4>1 DEF LaneOK
        <4>2. CASE i \notin 1..n
          BY <1>4, <1>7, <2>1, <4>2
        <4> QED
          BY <4>1, <4>2
      <3> QED
        BY <1>4, <2>1, <2>3, <3>1
    <2> QED
      BY <2>2, <2>3
  <1>8. /\ rc \in Seq(Created \cup Deleted) /\ st \in Seq(Created \cup Deleted)
        /\ pr \in Processes
    BY DEF LaneOK
  <1>9. LaneOK(rows, all, rc, st, pr)
    BY <1>3, <1>5, <1>6, <1>7, <1>8 DEF LaneOK
  <1> QED
    BY <1>1, <1>9

LEMMA SentKeeps ==
    ASSUME NEW rows, NEW cm, NEW rc, NEW st, NEW pr, LaneOK(rows, cm, rc, st, pr), NEW there, NEW e \in Execs,
           NEW kind \in {"create", "delete"},
           kind = "create" => rows[e].stage \notin {"deleted", "gone"}, kind = "delete" => rows[e].stage = "deleted"
    PROVE  LaneOK(rows, Sent(there, cm, Command(kind, e)), rc, st, pr)
  <1>1. PICK frame : frame = Command(kind, e)
    OBVIOUS
  <1>2. frame \in Frames /\ frame.execution = e /\ frame.kind = kind /\ cm \in Seq(Frames)
    BY <1>1 DEF Command, Frames, LaneOK
  <1>3. PICK new : new = <<frame>>
    OBVIOUS
  <1>4. new \in Seq(Frames) /\ Len(new) = 1 /\ new[1] = frame /\ Append(cm, frame) = cm \o new
    BY <1>2, <1>3, AppendIsConcat
  <1>5. frame = Command("create", e) => kind = "create"
    BY <1>2, FrameFacts
  <1>6. frame = Command("delete", e) => kind = "delete"
    BY <1>2, FrameFacts
  <1>7. LaneOK(rows, cm \o new, rc, st, pr)
    BY <1>2, <1>4, <1>5, <1>6, OrdersKeep
  <1> QED
    BY <1>1, <1>4, <1>7 DEF Sent

\* Rows that end, and rows whose end was reported and that are forgotten.
LEMMA StagesKeep ==
    ASSUME NEW rows, NEW cm, NEW rc, NEW st, NEW pr, LaneOK(rows, cm, rc, st, pr), NEW rows2,
           \A e \in Execs : rows2[e].stage \notin {"deleted", "gone"} => rows[e].stage \notin {"deleted", "gone"},
           \A e \in Execs : rows2[e].stage = "gone" => Discharged(e, rows, rc, st)
    PROVE  LaneOK(rows2, cm, rc, st, pr)
  <1>1. \A e \in Execs : Discharged(e, rows2, rc, st) => Discharged(e, rows, rc, st)
    BY DEF Discharged
  <1>2. \A e \in Execs : rows2[e].stage \notin {"deleted", "gone"} => ~Discharged(e, rows2, rc, st)
    BY <1>1 DEF LaneOK
  <1> QED
    BY <1>1, <1>2 DEF LaneOK

----------------------------------------------------------------------------
(* A send leaves the line, or goes on in it                                *)

Chosen(ch, cl) == \A c \in Sends : \E i \in 1..Len(ch) : ch[i] = cl[c].ws

\* Only send c changes, and not what it read.
OnlyCall(cl, cl2, c) ==
  /\ cl2 \in [Sends -> Call] /\ cl2[c].ws = cl[c].ws /\ \A d \in Sends \ {c} : cl2[d] = cl[d]

LEMMA AtFacts ==
    /\ "over" \notin Pending \cup Taken /\ "new" \notin Pending \cup Taken /\ "turn" \notin Pending
    /\ "steer" \notin Pending /\ {"turn", "steer"} = Taken /\ "line" \in Pending /\ "line" \notin Taken
    /\ Pending = {"line", "local", "models", "profile", "waiting", "configuring"}
    /\ Pending \cap Taken = {}
  BY DEF Pending, Taken

LEMMA RunsAside ==
    ASSUME NEW ch, NEW lk, NEW cl, NEW rows, RunsOK(ch, lk, cl, rows), NEW c, NEW cl2, OnlyCall(cl, cl2, c),
           cl2[c].at \notin Taken
    PROVE  RunsOK(ch, lk, cl2, rows)
  BY DEF RunsOK, OnlyCall

LEMMA ChosenAside ==
    ASSUME NEW ch, NEW cl, Chosen(ch, cl), NEW c, NEW cl2, OnlyCall(cl, cl2, c)
    PROVE  Chosen(ch, cl2)
  BY DEF Chosen, OnlyCall

LEMMA HeadLeaves ==
    ASSUME NEW ch, NEW cl, NEW ln, CallsOK(cl, ln), Chosen(ch, cl), ln # <<>>, NEW c, c = Head(ln), NEW cl2,
           OnlyCall(cl, cl2, c), cl2[c].at \notin Pending, NEW ses, NEW rows
    PROVE  CallsOK(cl2, Tail(ln)) /\ Chosen(ch, cl2) /\ HeadOK(ses, cl2, Tail(ln), rows)
  <1>1. CallsOK(cl2, Tail(ln)) /\ (Tail(ln) # <<>> => cl2[Head(Tail(ln))].at = "line")
    BY CallsLeave DEF OnlyCall
  <1> QED
    BY <1>1, ChosenAside DEF HeadOK

LEMMA HeadMoves ==
    ASSUME NEW ch, NEW cl, NEW ln, CallsOK(cl, ln), Chosen(ch, cl), ln # <<>>, NEW c, c = Head(ln), NEW cl2,
           OnlyCall(cl, cl2, c), cl2[c].at \in Pending, NEW ses, NEW rows, ses # "deleted" => Knows(cl2[c], rows)
    PROVE  CallsOK(cl2, ln) /\ Chosen(ch, cl2) /\ HeadOK(ses, cl2, ln, rows)
  <1>1. CallsOK(cl2, ln)
    BY CallsMove DEF OnlyCall
  <1> QED
    BY <1>1, ChosenAside DEF HeadOK

\* The head of the line is a send, and it is in preparation.
LEMMA HeadFacts ==
    ASSUME IInv, line # <<>>
    PROVE  /\ Head(line) \in Sends /\ call[Head(line)].at \in Pending /\ call \in [Sends -> Call]
           /\ CallsOK(call, line) /\ Chosen(chosen, call)
           /\ call[Head(line)].ws \in Choice
  <1>1. line \in Seq(Sends) /\ CallsOK(call, line) /\ Chosen(chosen, call) /\ call \in [Sends -> Call]
    BY DEF IInv, ChatOK, CallsOK, Chosen
  <1>2. Head(line) = line[1] /\ 1 \in 1..Len(line)
    BY <1>1
  <1>3. line[1] \in Sends /\ call[line[1]].at \in Pending
    BY <1>1, <1>2 DEF CallsOK
  <1> QED
    BY <1>1, <1>2, <1>3 DEF Call

LEMMA ChosenFacts ==
    ASSUME IInv
    PROVE  /\ Workspace \in Choice /\ Len(chosen) \in Nat \ {0} /\ chosen \in Seq(Choice)
  <1>1. PICK n : n = Len(chosen)
    OBVIOUS
  <1>2. chosen \in Seq(Choice) /\ n \in Nat \ {0} /\ DOMAIN chosen = 1..n /\ Workspace = chosen[n] /\ chosen[1] = Home
    BY <1>1 DEF IInv, SessionOK, Workspace, Last
  <1> QED
    BY <1>1, <1>2

LEMMA RefuseKeeps ==
    ASSUME IInv, line # <<>>, NEW c, c = Head(line), Refuse(c), line' = Tail(line)
    PROVE  /\ SessionOK(session', chosen', touched', locked', active')
           /\ ChatOK(session', chosen', locked', call', line', row)
           /\ UNCHANGED <<session, chosen>>
  <1>1. call' = [call EXCEPT ![c].at = "over"] /\ UNCHANGED <<session, chosen, touched, locked, active>>
    BY DEF Refuse, Over, chatVars
  <1>2. OnlyCall(call, call', c) /\ call'[c].at = "over"
    BY <1>1, HeadFacts DEF OnlyCall, Call
  <1>3. CallsOK(call', line') /\ Chosen(chosen, call') /\ HeadOK(session, call', line', row)
    BY <1>2, HeadFacts, HeadLeaves, AtFacts
  <1>4. RunsOK(chosen, locked, call', row)
    BY <1>2, RunsAside, AtFacts DEF IInv, ChatOK
  <1> QED
    BY <1>1, <1>3, <1>4 DEF IInv, ChatOK, Chosen

\* The choice read again is the one the send was prepared for, so the words go where it said.
LEMMA AdmitKeeps ==
    ASSUME IInv, line # <<>>, NEW c, c = Head(line), NEW rows, RowsOK(rows, chosen, tokens, peer),
           LockOK(session, chosen, locked, rows), \A e \in Execs : rows[e].ws = row[e].ws,
           session # "deleted" => /\ \A e \in Alive(rows) : rows[e].ws = call[c].ws
                                  /\ call[c].ws # Home => Alive(rows) # {},
           Admit(c, rows), line' = Tail(line)
    PROVE  /\ SessionOK(session', chosen', touched', locked', active')
           /\ ChatOK(session', chosen', locked', call', line', rows)
           /\ UNCHANGED <<session, chosen>>
  <1>1. PICK to : to = ExecutionPeer(rows)
    OBVIOUS
  <1>2. PICK stands : stands = (session = "open" /\ Workspace = call[c].ws /\ active = None /\ Serves(to))
    OBVIOUS
  <1>3. RunsOK(chosen, locked, call, rows)
    BY DEF IInv, ChatOK, RunsOK
  <1>4. CASE ~(session = "open" /\ Workspace = call[c].ws /\ active = None /\ Serves(to))
    <2>1. Refuse(c)
      BY <1>1, <1>4 DEF Admit
    <2>2. call' = [call EXCEPT ![c].at = "over"] /\ UNCHANGED <<session, chosen, touched, locked, active>>
      BY <2>1 DEF Refuse, Over, chatVars
    <2>3. OnlyCall(call, call', c) /\ call'[c].at = "over"
      BY <2>2, HeadFacts, ZenonT(60) DEF OnlyCall, Call
    <2>4. CallsOK(call', line') /\ Chosen(chosen, call') /\ HeadOK(session, call', line', rows)
      BY <2>3, HeadFacts, HeadLeaves, AtFacts
    <2>5. RunsOK(chosen, locked, call', rows)
      BY <1>3, <2>3, RunsAside, AtFacts
    <2> QED
      BY <2>2, <2>4, <2>5 DEF IInv, ChatOK, Chosen
  <1>5. CASE session = "open" /\ Workspace = call[c].ws /\ active = None /\ Serves(to)
    <2>1. /\ call' = [call EXCEPT ![c].at = "turn", ![c].peer = to] /\ active' = c /\ locked' = TRUE
          /\ UNCHANGED <<session, chosen, touched>>
      BY <1>1, <1>5 DEF Admit
    <2>2. \A e, f \in Alive(rows) : e = f
      BY DEF RowsOK
    <2>3. tokens \subseteq Alive(rows) /\ tokens \in SUBSET Execs
      BY DEF RowsOK, Alive
    <2>4. to \in Execs \cup {Home, None} /\ (Alive(rows) = {} => to = Home) /\ \A e \in Alive(rows) : to \in {e, None}
      BY <1>1, <2>2, <2>3, PeerFacts
    <2>5. \A e \in Alive(rows) : to = e /\ rows[e].ws = Workspace /\ e \in Execs
      <3>1. None \notin tokens /\ None # Home
        BY <2>3, NamesApart
      <3> QED
        BY <1>5, <2>4, <3>1 DEF Serves, Alive
    <2>6. Workspace = Home => to = Home
      <3> SUFFICES ASSUME Workspace = Home, NEW e \in Alive(rows) PROVE FALSE
        BY <2>4
      <3>1. rows[e].ws \in Workspaces
        BY DEF RowsOK, Alive, Dead
      <3> QED
        BY <2>5, <3>1, NamesApart
    <2>7. Workspace # Home => \E e \in Alive(rows) : to = e /\ e \in Execs /\ rows[e].ws = Workspace
      BY <1>5, <2>5
    <2>8. OnlyCall(call, call', c) /\ call'[c].at = "turn" /\ call'[c].peer = to
      <3>1. "turn" \in Taken
        BY DEF Taken
      <3>2. c \in Sends /\ call \in [Sends -> Call]
        BY HeadFacts
      <3> QED
        BY <2>1, <2>4, <3>1, <3>2 DEF OnlyCall, Call
    <2>9. CallsOK(call', line') /\ Chosen(chosen, call') /\ HeadOK(session, call', line', rows)
      BY <2>8, HeadFacts, HeadLeaves, AtFacts
    <2>10. LockOK(session, chosen, TRUE, rows)
      BY <2>7 DEF LockOK, Workspace
    <2>11. RunsOK(chosen, TRUE, call', rows)
      <3> SUFFICES ASSUME NEW d \in Sends, call'[d].at \in Taken
                   PROVE  /\ call'[d].ws = Last(chosen)
                          /\ Last(chosen) = Home /\ call'[d].at = "turn" => call'[d].peer = Home
                          /\ Last(chosen) # Home => call'[d].peer \in Execs /\ rows[call'[d].peer].ws = Last(chosen)
        BY DEF RunsOK
      <3>1. CASE d = c
        BY <1>5, <2>6, <2>7, <2>8, <3>1 DEF OnlyCall, Workspace
      <3>2. CASE d # c
        BY <1>3, <2>8, <3>2 DEF OnlyCall, RunsOK
      <3> QED
        BY <3>1, <3>2
    <2>12. SessionOK(session', chosen', touched', locked', active')
      BY <2>1, HeadFacts DEF IInv, SessionOK
    <2> QED
      BY <2>1, <2>9, <2>10, <2>11, <2>12 DEF ChatOK, Chosen
  <1> QED
    BY <1>4, <1>5

----------------------------------------------------------------------------
(* The person                                                              *)

LEMMA ChoiceGrows ==
    ASSUME NEW ch \in Seq(Choice), ch # <<>>, NEW ws \in Choice, NEW ch2, ch2 = Append(ch, ws)
    PROVE  /\ ch2 \in Seq(Choice) /\ ch2 # <<>> /\ ch2[1] = ch[1] /\ Len(ch) \in Nat /\ Len(ch2) = Len(ch) + 1
           /\ \A i \in 1..Len(ch) : i \in 1..Len(ch2) /\ ch2[i] = ch[i]
  <1>1. PICK n : n = Len(ch)
    OBVIOUS
  <1>2. n \in Nat \ {0} /\ ch2 \in Seq(Choice) /\ Len(ch2) = n + 1 /\ (\A i \in 1..n : ch2[i] = ch[i])
    BY <1>1
  <1>3. \A i \in 1..n : i \in 1..(n + 1)
    BY <1>2
  <1>4. 1 \in 1..n /\ ch2 # <<>>
    BY <1>2
  <1> QED
    BY <1>1, <1>2, <1>3, <1>4

LEMMA ConfigureKeeps ==
    ASSUME IInv, NEW ws \in Choice, Configure(ws)
    PROVE  IInv'
  <1>1. UNCHANGED <<session, locked, active, call, line, row, tokens, peer, link, commands, receipts, stale, proc>>
        /\ touched' = TRUE /\ (locked => ws = Workspace)
        /\ chosen' = (IF ws = Workspace THEN chosen ELSE Append(chosen, ws))
    BY DEF Configure, gateVars, laneVars
  <1>2. CASE ws = Workspace
    BY <1>1, <1>2 DEF IInv, SessionOK
  <1>3. CASE ws # Workspace
    <2>1. chosen \in Seq(Choice) /\ chosen # <<>> /\ chosen[1] = Home /\ chosen' = Append(chosen, ws) /\ locked = FALSE
      BY <1>1, <1>3 DEF IInv, SessionOK
    <2>2. /\ chosen' \in Seq(Choice) /\ chosen' # <<>> /\ chosen'[1] = Home
          /\ \A i \in 1..Len(chosen) : i \in 1..Len(chosen') /\ chosen'[i] = chosen[i]
      BY <2>1, ChoiceGrows, ZenonT(60)
    <2>3. SessionOK(session', chosen', touched', locked', active')
      BY <1>1, <2>2 DEF IInv, SessionOK
    <2>4. RowsOK(row', chosen', tokens', peer')
      <3>1. \A e \in Execs : row[e].stage # "none" => \E i \in 1..Len(chosen') : chosen'[i] = row[e].ws
        BY <2>2 DEF IInv, RowsOK
      <3> QED
        BY <1>1, <3>1 DEF IInv, RowsOK
    <2>5. Chosen(chosen', call)
      BY <2>2 DEF IInv, ChatOK, Chosen
    <2>6. LockOK(session, chosen', locked, row)
      BY <2>1 DEF LockOK
    <2>7. RunsOK(chosen', locked, call, row)
      <3> SUFFICES ASSUME NEW c \in Sends, call[c].at \in Taken PROVE FALSE
        BY DEF RunsOK
      <3> QED
        BY <2>1, <2>2 DEF IInv, ChatOK, RunsOK
    <2> QED
      BY <1>1, <2>3, <2>4, <2>5, <2>6, <2>7 DEF IInv, ChatOK, Chosen
  <1> QED
    BY <1>2, <1>3

LEMMA VisitKeeps ==
    ASSUME IInv, Leave \/ Return \/ DeleteSession \/ TurnEnds
    PROVE  IInv'
  <1>1. /\ UNCHANGED <<chosen, touched, locked, call, line, row, tokens, peer, link, commands, receipts, stale, proc>>
        /\ session' \in {"open", "left", "deleted"} /\ (session' # "deleted" => session # "deleted")
        /\ active' \in {active, None}
    BY DEF Leave, Return, DeleteSession, TurnEnds, gateVars, laneVars, IInv, SessionOK
  <1>2. SessionOK(session', chosen', touched', locked', active')
    BY <1>1 DEF IInv, SessionOK
  <1>3. HeadOK(session', call, line, row) /\ LockOK(session', chosen, locked, row)
    BY <1>1 DEF IInv, ChatOK, HeadOK, LockOK
  <1> QED
    BY <1>1, <1>2, <1>3 DEF IInv, ChatOK

LEMMA FirstSendFacts ==
    ASSUME IInv, NEW c \in Sends, call[c].at = "new"
    PROVE  /\ CallsOK(call, line) /\ Chosen(chosen, call) /\ call \in [Sends -> Call] /\ call[c].at \notin Pending
           /\ RunsOK(chosen, locked, call, row) /\ HeadOK(session, call, line, row)
           /\ line # <<>> => Head(line) # c /\ Head(line) \in Sends
           /\ Workspace \in Choice /\ \E i \in 1..Len(chosen) : chosen[i] = Workspace
  <1>1. CallsOK(call, line) /\ Chosen(chosen, call) /\ call \in [Sends -> Call] /\ call[c].at \notin Pending
    BY AtFacts DEF IInv, ChatOK, Chosen, CallsOK
  <1>2. line # <<>> => Head(line) # c /\ Head(line) \in Sends
    BY <1>1, HeadFacts
  <1>3. Workspace = chosen[Len(chosen)] /\ Len(chosen) \in 1..Len(chosen)
    BY ChosenFacts DEF Workspace, Last
  <1> QED
    BY <1>1, <1>2, <1>3, ChosenFacts DEF IInv, ChatOK

LEMMA SendKeeps ==
    ASSUME IInv, NEW c \in Sends, Send(c)
    PROVE  IInv'
  <1>1. /\ session = "open" /\ active = None /\ call[c].at = "new"
        /\ UNCHANGED <<row, tokens, peer, link, commands, receipts, stale, proc>>
    BY DEF Send, gateVars, laneVars
  <1>2. CASE Workspace = Home /\ ~touched /\ Current(row) = None
    <2>1. /\ call' = [call EXCEPT ![c] = [@ EXCEPT !.at = "turn", !.ws = Home, !.peer = Home]]
          /\ active' = c /\ locked' = TRUE /\ UNCHANGED <<session, chosen, touched, line>>
      BY <1>2 DEF Send
    <2>2. /\ call' \in [Sends -> Call] /\ call'[c].at = "turn" /\ call'[c].ws = Home /\ call'[c].peer = Home
          /\ \A d \in Sends \ {c} : call'[d] = call[d]
      <3>1. "turn" \in Taken /\ Home \in Choice
        BY AtFacts, NamesApart
      <3> QED
        BY <1>1, <2>1, <3>1, FirstSendFacts DEF Call
    <2>3. CallsOK(call', line)
      BY <1>1, <2>2, FirstSendFacts, CallsAside, AtFacts
    <2>4. Chosen(chosen, call')
      BY <1>1, <1>2, <2>2, FirstSendFacts DEF Chosen
    <2>5. HeadOK(session, call', line, row)
      BY <1>1, <2>2, FirstSendFacts DEF HeadOK
    <2>6. LockOK(session, chosen, TRUE, row)
      BY <1>2 DEF LockOK, Workspace
    <2>7. RunsOK(chosen, TRUE, call', row)
      <3> SUFFICES ASSUME NEW d \in Sends, call'[d].at \in Taken
                   PROVE  call'[d].ws = Home /\ (call'[d].at = "turn" => call'[d].peer = Home)
        BY <1>2 DEF RunsOK, Workspace
      <3>1. CASE d = c
        BY <2>2, <3>1
      <3>2. CASE d # c
        BY <1>1, <1>2, <2>2, <3>2, FirstSendFacts DEF RunsOK, Workspace
      <3> QED
        BY <3>1, <3>2
    <2>8. SessionOK(session', chosen', touched', locked', active')
      BY <2>1 DEF IInv, SessionOK
    <2> QED
      BY <1>1, <2>1, <2>3, <2>4, <2>5, <2>6, <2>7, <2>8 DEF IInv, ChatOK, Chosen
  <1>3. CASE ~(Workspace = Home /\ ~touched /\ Current(row) = None)
    <2>1. /\ call' = [call EXCEPT ![c].at = "line", ![c].ws = Workspace] /\ line' = Append(line, c)
          /\ UNCHANGED <<session, chosen, touched, locked, active>>
      BY <1>3 DEF Send, chatVars
    <2>2. /\ call' \in [Sends -> Call] /\ call'[c].at = "line" /\ call'[c].ws = Workspace
          /\ \A d \in Sends \ {c} : call'[d] = call[d]
      <3>1. "line" \in Pending
        BY AtFacts
      <3> QED
        BY <1>1, <2>1, <3>1, FirstSendFacts DEF Call
    <2>3. /\ CallsOK(call', line')
          /\ line # <<>> => Head(line') = Head(line) /\ Head(line) # c
          /\ line = <<>> => Head(line') = c
      <3>1. CallsOK(call, line) /\ call[c].at \notin Pending
        BY <1>1, FirstSendFacts
      <3>2. PICK cl2 : cl2 = call'
        OBVIOUS
      <3>3. cl2 \in [Sends -> Call] /\ cl2[c].at = "line" /\ \A d \in Sends \ {c} : cl2[d] = call[d]
        BY <2>2, <3>2
      <3>4. /\ CallsOK(cl2, Append(line, c))
            /\ line # <<>> => Head(Append(line, c)) = Head(line) /\ Head(line) # c
            /\ line = <<>> => Head(Append(line, c)) = c
        BY <3>1, <3>3, CallsJoin
      <3> QED
        BY <2>1, <3>2, <3>4
    <2>4. Chosen(chosen, call')
      BY <1>1, <2>2, FirstSendFacts DEF Chosen
    <2>5. HeadOK(session, call', line', row)
      <3>1. CASE line = <<>>
        BY <2>2, <2>3, <3>1 DEF HeadOK
      <3>2. CASE line # <<>>
        <4>1. call'[Head(line')] = call[Head(line)]
          BY <1>1, <2>2, <2>3, <3>2, FirstSendFacts
        <4> QED
          BY <1>1, <3>2, <4>1, FirstSendFacts DEF HeadOK
      <3> QED
        BY <3>1, <3>2
    <2>6. RunsOK(chosen, locked, call', row)
      BY <1>1, <2>2, FirstSendFacts, AtFacts DEF RunsOK
    <2> QED
      BY <1>1, <2>1, <2>3, <2>4, <2>5, <2>6 DEF IInv, ChatOK, Chosen, SessionOK
  <1> QED
    BY <1>2, <1>3

\* Words that join a running turn go where the lock says.
LEMMA SteerKeeps ==
    ASSUME IInv, NEW c \in Sends, Steer(c)
    PROVE  IInv'
  <1>1. PICK to : to = ExecutionPeer(row)
    OBVIOUS
  <1>2. /\ session = "open" /\ active # None /\ call[c].at = "new" /\ locked
        /\ UNCHANGED <<session, chosen, touched, locked, active, line, row, tokens, peer, link, commands, receipts, stale, proc>>
    BY DEF Steer, chatVars, gateVars, laneVars, IInv, SessionOK
  <1>3. call' = [call EXCEPT ![c] = IF ~Serves(to) THEN [@ EXCEPT !.at = "over"]
                                   ELSE [@ EXCEPT !.at = "steer", !.ws = Workspace, !.peer = to]]
    BY <1>1 DEF Steer
  <1>4. (\A e, f \in Alive(row) : e = f) /\ tokens \subseteq Alive(row) /\ tokens \in SUBSET Execs
    BY DEF IInv, RowsOK, Alive
  <1>5. /\ Alive(row) = {} => to = Home
        /\ \A e \in Alive(row) : to \in {e, None}
        /\ to \in Execs \cup {Home, None} /\ None \notin tokens
    BY <1>1, <1>4, PeerFacts
  <1>6. /\ call' \in [Sends -> Call] /\ \A d \in Sends \ {c} : call'[d] = call[d]
        /\ ~Serves(to) => call'[c].at = "over" /\ call'[c].ws = call[c].ws
        /\ Serves(to) => call'[c].at = "steer" /\ call'[c].ws = Workspace /\ call'[c].peer = to
    <2>1. "steer" \in Taken
      BY AtFacts
    <2> QED
      BY <1>2, <1>3, <1>5, <2>1, FirstSendFacts DEF Call
  <1>7. CallsOK(call', line)
    BY <1>2, <1>6, FirstSendFacts, CallsAside, AtFacts
  <1>8. Chosen(chosen, call')
    BY <1>2, <1>6, FirstSendFacts DEF Chosen
  <1>9. HeadOK(session, call', line, row)
    BY <1>2, <1>6, FirstSendFacts DEF HeadOK
  <1>10. RunsOK(chosen, locked, call', row)
    <2> SUFFICES ASSUME NEW d \in Sends, call'[d].at \in Taken
                 PROVE  /\ call'[d].ws = Workspace
                        /\ Workspace = Home /\ call'[d].at = "turn" => call'[d].peer = Home
                        /\ Workspace # Home => call'[d].peer \in Execs /\ row[call'[d].peer].ws = Workspace
      BY <1>2 DEF RunsOK, Workspace
    <2>1. CASE d # c
      BY <1>2, <1>6, <2>1, FirstSendFacts DEF RunsOK, Workspace
    <2>2. CASE d = c
      <3>1. Serves(to) /\ call'[d].at = "steer" /\ call'[d].ws = Workspace /\ call'[d].peer = to
        BY <1>6, <2>2, AtFacts
      <3>2. CASE Workspace = Home
        BY <3>1, <3>2
      <3>3. CASE Workspace # Home
        <4>1. PICK e \in Alive(row) : row[e].ws = Workspace
          BY <1>2, <3>3 DEF IInv, ChatOK, LockOK, Workspace
        <4>2. to # None
          BY <1>5, <3>1, NamesApart DEF Serves
        <4>3. to = e /\ e \in Execs
          BY <1>5, <4>2 DEF Alive
        <4> QED
          BY <3>1, <3>3, <4>1, <4>3
      <3> QED
        BY <3>2, <3>3
    <2> QED
      BY <2>1, <2>2
  <1> QED
    BY <1>2, <1>7, <1>8, <1>9, <1>10 DEF IInv, ChatOK, Chosen

----------------------------------------------------------------------------
(* The preparation                                                         *)

\* Rows may end while the send at the head goes on or leaves.
LEMMA MovesKeep ==
    ASSUME IInv, line # <<>>, NEW c, c = Head(line), NEW rows, OnlyCall(call, call', c), call'[c].at \notin Taken,
           \/ call'[c].at \in Pending /\ line' = line /\ (session # "deleted" => Knows(call'[c], rows))
           \/ call'[c].at \notin Pending /\ line' = Tail(line),
           LockOK(session, chosen, locked, rows), RunsOK(chosen, locked, call, rows), UNCHANGED chatVars
    PROVE  /\ SessionOK(session', chosen', touched', locked', active')
           /\ ChatOK(session', chosen', locked', call', line', rows)
           /\ UNCHANGED <<session, chosen>>
  <1>1. UNCHANGED <<session, chosen, touched, locked, active>>
    BY DEF chatVars
  <1>2. CallsOK(call', line') /\ Chosen(chosen, call') /\ HeadOK(session, call', line', rows)
    <2>1. CallsOK(call, line) /\ Chosen(chosen, call)
      BY HeadFacts
    <2>2. CASE call'[c].at \in Pending /\ line' = line /\ (session # "deleted" => Knows(call'[c], rows))
      BY <2>1, <2>2, HeadMoves
    <2>3. CASE call'[c].at \notin Pending /\ line' = Tail(line)
      BY <2>1, <2>3, HeadLeaves
    <2> QED
      BY <2>2, <2>3
  <1>3. RunsOK(chosen, locked, call', rows)
    BY RunsAside
  <1> QED
    BY <1>1, <1>2, <1>3 DEF IInv, ChatOK, Chosen

\* What the head has found out holds as long as there is the conversation.
LEMMA HeadKnows ==
    ASSUME IInv, NEW c, NEW at, Heads(c, at), at # "line"
    PROVE  /\ line # <<>> /\ c = Head(line) /\ c \in Sends /\ call[c].at = at /\ call[c].ws \in Choice
           /\ call[c].row \in Execs \cup {None}
           /\ session # "deleted" => /\ \A e \in Alive(row) : row[e].ws = call[c].ws
                                     /\ at # "local" => call[c].ws # Home
                                     /\ at = "profile" => Alive(row) = {}
                                     /\ at \in {"waiting", "configuring"} => call[c].row \in Alive(row)
  <1>1. line # <<>> /\ c = Head(line) /\ call[c].at = at
    BY DEF Heads
  <1>2. c \in Sends /\ call \in [Sends -> Call]
    BY <1>1, HeadFacts
  <1>3. call[c].ws \in Choice /\ call[c].row \in Execs \cup {None}
    BY <1>2 DEF Call
  <1>4. session # "deleted" => Knows(call[c], row)
    BY <1>1 DEF IInv, ChatOK, HeadOK
  <1> QED
    BY <1>1, <1>2, <1>3, <1>4 DEF Knows

LEMMA GoesKeeps ==
    ASSUME IInv, line # <<>>, NEW c, c = Head(line), NEW rows, NEW e \in Execs \cup {None},
           NEW at \in {"configuring", "waiting", "over"}, Goes(c, e, at),
           session # "deleted" => /\ e \in Alive(rows) /\ call[c].ws # Home
                                  /\ \A f \in Alive(rows) : rows[f].ws = call[c].ws,
           LockOK(session, chosen, locked, rows), RunsOK(chosen, locked, call, rows)
    PROVE  /\ SessionOK(session', chosen', touched', locked', active')
           /\ ChatOK(session', chosen', locked', call', line', rows)
           /\ UNCHANGED <<session, chosen>>
  <1>1. /\ call' = [call EXCEPT ![c].at = at, ![c].row = e] /\ UNCHANGED chatVars
        /\ line' = (IF at = "over" THEN Tail(line) ELSE line)
    BY DEF Goes
  <1>2. OnlyCall(call, call', c) /\ call'[c].at = at /\ call'[c].row = e /\ call'[c].ws = call[c].ws
    <2>1. at \in {"new", "over"} \cup Pending \cup Taken
      BY DEF Pending
    <2> QED
      BY <1>1, <2>1, HeadFacts DEF OnlyCall, Call
  <1>3. CASE at = "over"
    <2>1. call'[c].at \notin Pending /\ call'[c].at \notin Taken /\ line' = Tail(line)
      BY <1>1, <1>2, <1>3, AtFacts
    <2> QED
      BY <1>1, <1>2, <2>1, MovesKeep
  <1>4. CASE at # "over"
    <2>1. call'[c].at \in Pending /\ call'[c].at \notin Taken /\ line' = line
      BY <1>1, <1>2, <1>4, AtFacts
    <2>2. session # "deleted" => Knows(call'[c], rows)
      BY <1>2, <1>4 DEF Knows
    <2> QED
      BY <1>1, <1>2, <2>1, <2>2, MovesKeep
  <1> QED
    BY <1>3, <1>4

LEMMA LookFacts ==
    ASSUME NEW c, NEW e
    PROVE  Look(c, e) \in {"configuring", "waiting", "over"}
  BY DEF Look

\* The execution of another workspace goes only while no turn has locked that workspace.
LEMMA BeginKeeps ==
    ASSUME IInv, NEW c \in Sends, Begin(c)
    PROVE  IInv'
  <1>1. PICK e : e = Current(row)
    OBVIOUS
  <1>2. /\ line # <<>> /\ c = Head(line) /\ call[c].at = "line" /\ UNCHANGED <<link, receipts, stale, proc>>
    BY DEF Begin, Heads
  <1>3. \A f, g \in Alive(row) : f = g
    BY DEF IInv, RowsOK
  <1>4. /\ \A f \in Alive(row) : f = e
        /\ e # None => e \in Alive(row) /\ e \in Execs /\ row[e].stage \notin {"none", "gone", "deleted"}
    <2>1. Alive(row) = {} => e = None
      BY <1>1, <1>3, CurrentFacts
    <2>2. \A f \in Alive(row) : f = e
      BY <1>1, <1>3, CurrentFacts
    <2> QED
      BY <2>1, <2>2 DEF Alive, Dead
  <1>5. CASE session = "deleted" \/ (e # None /\ row[e].ws # call[c].ws /\ locked)
    <2>1. Refuse(c) /\ line' = Tail(line) /\ UNCHANGED <<row, tokens, peer, commands>>
      BY <1>1, <1>5 DEF Begin, Leaves, gateVars
    <2>2. /\ SessionOK(session', chosen', touched', locked', active')
          /\ ChatOK(session', chosen', locked', call', line', row)
          /\ UNCHANGED <<session, chosen>>
      BY <1>2, <2>1, RefuseKeeps
    <2> QED
      BY <1>2, <2>1, <2>2 DEF IInv
  <1>6. CASE ~(session = "deleted" \/ (e # None /\ row[e].ws # call[c].ws /\ locked))
    <2>1. PICK gone : gone = IF e # None /\ row[e].ws # call[c].ws THEN {e} ELSE {}
      OBVIOUS
    <2>2. /\ row' = Retired(row, gone) /\ tokens' = tokens \ gone /\ peer' = Disconnected(gone)
          /\ commands' = (IF e # None /\ row[e].ws # call[c].ws
                          THEN Sent(link, commands, Command("delete", e)) ELSE commands)
          /\ \/ GoesOn(c, "local")
             \/ Refuse(c) /\ Leaves(c)
             \/ call[c].ws # Home /\ GoesOn(c, "models")
      BY <1>1, <1>6, <2>1 DEF Begin
    <2>3. gone \in SUBSET Execs /\ (\A f \in gone : row[f].stage \notin {"none", "gone"}) /\ (locked => gone = {})
      BY <1>4, <1>6, <2>1
    <2>4. /\ row' \in [Execs -> Row] /\ peer' \in Peers
          /\ \A f \in Execs : row'[f].ws = row[f].ws /\ (row'[f].stage = "none" <=> row[f].stage = "none")
          /\ \A f \in Execs : f \in gone => row'[f].stage = "deleted"
          /\ \A f \in Execs : f \notin gone => row'[f] = row[f]
          /\ \A f \in Execs : f \in Alive(row') <=> f \in Alive(row) /\ f \notin gone
          /\ tokens' \subseteq Alive(row')
          /\ \A f \in Execs : peer'[f] = "attached" => f \in Alive(row')
      <3>1. RowsOK(row, chosen, tokens, peer)
        BY DEF IInv
      <3>2. row' = Retired(row, gone) /\ tokens' = tokens \ gone /\ peer' = Disconnected(gone)
        BY <2>2
      <3> QED
        BY <2>3, <3>1, <3>2, RetiredFacts
    <2>5. RowsOK(row', chosen, tokens', peer')
      <3>1. Alive(row') \subseteq Alive(row)
        BY <2>4 DEF Alive
      <3> QED
        BY <2>4, <3>1 DEF IInv, RowsOK
    <2>6. LaneOK(row', commands, receipts, stale, proc)
      <3>1. LaneOK(row, commands, receipts, stale, proc)
        BY DEF IInv
      <3>2. \A f \in Execs : row'[f].stage \notin {"deleted", "gone"} => row[f].stage \notin {"deleted", "gone"}
        BY <2>4
      <3>3. \A f \in Execs : row'[f].stage = "gone" => Discharged(f, row, receipts, stale)
        BY <2>4 DEF Discharged
      <3> QED
        BY <3>1, <3>2, <3>3, StagesKeep
    <2>7. LaneOK(row', commands', receipts', stale', proc')
      <3>1. CASE e # None /\ row[e].ws # call[c].ws
        <4>1. e \in Execs /\ row'[e].stage = "deleted"
          BY <1>4, <2>1, <2>4, <3>1
        <4>2. LaneOK(row', Sent(link, commands, Command("delete", e)), receipts, stale, proc)
          BY <2>6, <4>1, SentKeeps
        <4> QED
          BY <1>2, <2>2, <3>1, <4>2
      <3>2. CASE ~(e # None /\ row[e].ws # call[c].ws)
        BY <1>2, <2>2, <2>6, <3>2
      <3> QED
        BY <3>1, <3>2
    <2>8. LockOK(session, chosen, locked, row')
      <3>1. locked => \A f \in Alive(row) : f \in Alive(row') /\ row'[f].ws = row[f].ws
        BY <2>3, <2>4 DEF Alive
      <3> QED
        BY <3>1 DEF IInv, ChatOK, LockOK
    <2>9. RunsOK(chosen, locked, call, row')
      BY <2>4 DEF IInv, ChatOK, RunsOK
    <2>10. \A f \in Alive(row') : row'[f].ws = call[c].ws
      <3> SUFFICES ASSUME NEW f \in Alive(row') PROVE row'[f].ws = call[c].ws
        OBVIOUS
      <3>1. f \in Execs
        BY DEF Alive
      <3>2. f \in Alive(row) /\ f \notin gone
        BY <2>4, <3>1
      <3>3. f = e /\ e # None
        BY <1>4, <3>2, NamesApart, <3>1
      <3>4. row[e].ws = call[c].ws
        BY <2>1, <3>2, <3>3
      <3> QED
        BY <2>4, <3>1, <3>3, <3>4
    <2>11. /\ OnlyCall(call, call', c) /\ call'[c].at \notin Taken /\ UNCHANGED chatVars
           /\ \/ call'[c].at \in Pending /\ line' = line /\ (session # "deleted" => Knows(call'[c], row'))
              \/ call'[c].at \notin Pending /\ line' = Tail(line)
      <3>1. CASE GoesOn(c, "local")
        <4>1. call' = [call EXCEPT ![c].at = "local"] /\ line' = line /\ UNCHANGED chatVars
          BY <3>1 DEF GoesOn
        <4>2. "local" \in {"new", "over"} \cup Pending \cup Taken
          BY AtFacts
        <4>3. OnlyCall(call, call', c) /\ call'[c].at = "local" /\ call'[c].ws = call[c].ws
          BY <1>2, <4>1, <4>2, HeadFacts DEF OnlyCall, Call
        <4>4. Knows(call'[c], row')
          BY <2>10, <4>3 DEF Knows
        <4> QED
          BY <4>1, <4>3, <4>4, AtFacts
      <3>2. CASE Refuse(c) /\ Leaves(c)
        <4>1. call' = [call EXCEPT ![c].at = "over"] /\ line' = Tail(line) /\ UNCHANGED chatVars
          BY <3>2 DEF Refuse, Over, Leaves
        <4>2. OnlyCall(call, call', c) /\ call'[c].at = "over"
          BY <1>2, <4>1, HeadFacts DEF OnlyCall, Call
        <4> QED
          BY <4>1, <4>2, AtFacts
      <3>3. CASE call[c].ws # Home /\ GoesOn(c, "models")
        <4>1. call' = [call EXCEPT ![c].at = "models"] /\ line' = line /\ UNCHANGED chatVars
          BY <3>3 DEF GoesOn
        <4>2. "models" \in {"new", "over"} \cup Pending \cup Taken
          BY AtFacts
        <4>3. OnlyCall(call, call', c) /\ call'[c].at = "models" /\ call'[c].ws = call[c].ws
          BY <1>2, <4>1, <4>2, HeadFacts DEF OnlyCall, Call
        <4>4. Knows(call'[c], row')
          BY <2>10, <3>3, <4>3 DEF Knows
        <4> QED
          BY <4>1, <4>3, <4>4, AtFacts
      <3> QED
        BY <2>2, <3>1, <3>2, <3>3
    <2>12. /\ SessionOK(session', chosen', touched', locked', active')
           /\ ChatOK(session', chosen', locked', call', line', row')
           /\ UNCHANGED <<session, chosen>>
      BY <1>2, <2>8, <2>9, <2>11, MovesKeep
    <2> QED
      BY <1>2, <2>5, <2>7, <2>12 DEF IInv
  <1> QED
    BY <1>5, <1>6
LEMMA LocalAnswersKeeps ==
    ASSUME IInv, NEW c \in Sends, NEW prepared \in BOOLEAN, LocalAnswers(c, prepared)
    PROVE  IInv'
  <1>1. /\ Heads(c, "local") /\ line' = Tail(line) /\ (prepared => call[c].ws = Home)
        /\ IF prepared THEN Admit(c, row) ELSE Refuse(c)
        /\ UNCHANGED <<row, tokens, peer, link, commands, receipts, stale, proc>>
    BY DEF LocalAnswers, Leaves, gateVars, laneVars
  <1>2. /\ line # <<>> /\ c = Head(line)
        /\ session # "deleted" => \A e \in Alive(row) : row[e].ws = call[c].ws
    BY <1>1, HeadKnows
  <1>3. /\ SessionOK(session', chosen', touched', locked', active')
        /\ ChatOK(session', chosen', locked', call', line', row)
        /\ UNCHANGED <<session, chosen>>
    <2>1. CASE prepared
      <3>1. Admit(c, row) /\ call[c].ws = Home /\ line' = Tail(line)
        BY <1>1, <2>1
      <3>2. RowsOK(row, chosen, tokens, peer) /\ LockOK(session, chosen, locked, row)
        BY DEF IInv, ChatOK
      <3> QED
        BY <1>2, <3>1, <3>2, AdmitKeeps
    <2>2. CASE ~prepared
      BY <1>1, <1>2, <2>2, RefuseKeeps
    <2> QED
      BY <2>1, <2>2
  <1> QED
    BY <1>1, <1>3 DEF IInv

LEMMA ModelsReadKeeps ==
    ASSUME IInv, NEW c \in Sends, ModelsRead(c)
    PROVE  IInv'
  <1>1. PICK e : e = Current(row)
    OBVIOUS
  <1>2. /\ Heads(c, "models") /\ UNCHANGED <<row, tokens, peer, link, receipts, stale, proc>>
        /\ IF e = None THEN GoesOn(c, "profile") /\ UNCHANGED commands
           ELSE IF session = "deleted" THEN Refuse(c) /\ line' = Tail(line) /\ UNCHANGED commands
           ELSE commands' = Sent(link, commands, Command("create", e)) /\ Goes(c, e, Look(c, e))
    BY <1>1 DEF ModelsRead, Leaves, gateVars
  <1>3. /\ line # <<>> /\ c = Head(line) /\ call[c].at = "models"
        /\ session # "deleted" => (\A f \in Alive(row) : row[f].ws = call[c].ws) /\ call[c].ws # Home
    BY <1>2, HeadKnows
  <1>4. \A f, g \in Alive(row) : f = g
    BY DEF IInv, RowsOK
  <1>5. (e = None => Alive(row) = {}) /\ (e # None => e \in Alive(row) /\ e \in Execs)
    <2>1. Alive(row) = {} => e = None
      BY <1>1, <1>4, CurrentFacts
    <2>2. \A f \in Alive(row) : f = e /\ f \in Execs
      BY <1>1, <1>4, CurrentFacts DEF Alive
    <2> QED
      BY <2>1, <2>2, NamesApart
  <1>6. LockOK(session, chosen, locked, row) /\ RunsOK(chosen, locked, call, row)
    BY DEF IInv, ChatOK
  <1>7. /\ SessionOK(session', chosen', touched', locked', active')
        /\ ChatOK(session', chosen', locked', call', line', row)
        /\ UNCHANGED <<session, chosen>>
    <2>1. CASE e = None
      <3>1. call' = [call EXCEPT ![c].at = "profile"] /\ line' = line /\ UNCHANGED chatVars
        BY <1>2, <2>1 DEF GoesOn
      <3>2. "profile" \in {"new", "over"} \cup Pending \cup Taken
        BY AtFacts
      <3>3. OnlyCall(call, call', c) /\ call'[c].at = "profile" /\ call'[c].ws = call[c].ws
        BY <1>3, <3>1, <3>2, HeadFacts DEF OnlyCall, Call
      <3>4. session # "deleted" => Knows(call'[c], row)
        BY <1>3, <1>5, <2>1, <3>3 DEF Knows
      <3>5. call'[c].at \in Pending /\ call'[c].at \notin Taken
        BY <3>3, AtFacts
      <3> QED
        BY <1>3, <1>6, <3>1, <3>3, <3>4, <3>5, MovesKeep
    <2>2. CASE e # None /\ session = "deleted"
      BY <1>2, <1>3, <2>2, RefuseKeeps
    <2>3. CASE e # None /\ session # "deleted"
      <3>1. PICK at : at = Look(c, e)
        OBVIOUS
      <3>2. Goes(c, e, at) /\ at \in {"configuring", "waiting", "over"}
        BY <1>2, <2>3, <3>1, LookFacts
      <3>3. e \in Execs \cup {None} /\ e \in Alive(row)
        BY <1>5, <2>3
      <3> QED
        BY <1>3, <1>6, <3>2, <3>3, GoesKeeps
    <2> QED
      BY <2>1, <2>2, <2>3
  <1>8. LaneOK(row, commands', receipts, stale, proc)
    <2>1. LaneOK(row, commands, receipts, stale, proc)
      BY DEF IInv
    <2>2. CASE e # None /\ session # "deleted"
      <3>1. e \in Execs /\ row[e].stage \notin {"deleted", "gone"}
        BY <1>5, <2>2 DEF Alive, Dead
      <3>2. LaneOK(row, Sent(link, commands, Command("create", e)), receipts, stale, proc)
        BY <2>1, <3>1, SentKeeps
      <3> QED
        BY <1>2, <2>2, <3>2
    <2>3. CASE ~(e # None /\ session # "deleted")
      BY <1>2, <2>1, <2>3
    <2> QED
      BY <2>2, <2>3
  <1> QED
    BY <1>2, <1>7, <1>8 DEF IInv

\* An execution is created only when the chat has none, and the one it gets is a new one.
LEMMA ProfileReadKeeps ==
    ASSUME IInv, NEW c \in Sends, ProfileRead(c)
    PROVE  IInv'
  <1>1. /\ Heads(c, "profile") /\ UNCHANGED <<peer, link, receipts, stale, proc>>
    BY DEF ProfileRead
  <1>2. /\ line # <<>> /\ c = Head(line) /\ call[c].ws \in Choice /\ call \in [Sends -> Call]
        /\ session # "deleted" => call[c].ws # Home /\ Alive(row) = {}
    BY <1>1, HeadKnows, HeadFacts
  <1>3. CASE session = "deleted"
    <2>1. Refuse(c) /\ line' = Tail(line) /\ UNCHANGED <<row, tokens, commands>>
      BY <1>3 DEF ProfileRead, Leaves, gateVars
    <2>2. /\ SessionOK(session', chosen', touched', locked', active')
          /\ ChatOK(session', chosen', locked', call', line', row)
          /\ UNCHANGED <<session, chosen>>
      BY <1>2, <2>1, RefuseKeeps
    <2> QED
      BY <1>1, <2>1, <2>2 DEF IInv
  <1>4. CASE session # "deleted"
    <2>1. PICK e \in Execs :
            /\ row[e].stage = "none" /\ row' = [row EXCEPT ![e] = [stage |-> "starting", ws |-> call[c].ws]]
            /\ tokens' = tokens \cup {e} /\ commands' = Sent(link, commands, Command("create", e))
            /\ Goes(c, e, IF link THEN "waiting" ELSE "over")
      BY <1>4 DEF ProfileRead
    <2>2. row \in [Execs -> Row] /\ row[e].ws = Home /\ tokens \subseteq Alive(row) /\ peer \in Peers
          /\ \A f \in Execs : peer[f] = "attached" => f \in Alive(row)
      BY <2>1 DEF IInv, RowsOK
    <2>3. /\ row' \in [Execs -> Row] /\ row'[e].stage = "starting" /\ row'[e].ws = call[c].ws
          /\ \A f \in Execs : f # e => row'[f] = row[f]
      <3>1. [stage |-> "starting", ws |-> call[c].ws] \in Row
        BY <1>2 DEF Row
      <3> QED
        BY <2>1, <2>2, <3>1
    <2>4. \A f \in Execs : f \in Alive(row') <=> f = e
      BY <1>2, <1>4, <2>3 DEF Alive, Dead
    <2>5. Alive(row') \subseteq Execs /\ e \in Alive(row') /\ \A f \in Alive(row') : f = e
      BY <2>4 DEF Alive
    <2>6. RowsOK(row', chosen, tokens', peer')
      <3>1. call[c].ws \in Workspaces /\ \E i \in 1..Len(chosen) : chosen[i] = call[c].ws
        BY <1>2, <1>4, NamesApart, HeadFacts DEF Chosen
      <3>2. \A f \in Execs : row'[f].stage = "none" => row'[f].ws = Home
        BY <2>3 DEF IInv, RowsOK
      <3>3. \A f \in Execs : row'[f].stage # "none" =>
              row'[f].ws \in Workspaces /\ \E i \in 1..Len(chosen) : chosen[i] = row'[f].ws
        BY <2>3, <3>1 DEF IInv, RowsOK
      <3>4. tokens' = {e} /\ \A f \in Execs : peer'[f] # "attached"
        BY <1>1, <1>2, <1>4, <2>1, <2>2
      <3> QED
        BY <1>1, <2>2, <2>3, <2>5, <3>2, <3>3, <3>4 DEF RowsOK
    <2>7. LaneOK(row', commands', receipts', stale', proc')
      <3>1. LaneOK(row, commands, receipts, stale, proc)
        BY DEF IInv
      <3>2. \A f \in Execs : row'[f].stage \notin {"deleted", "gone"} => row[f].stage \notin {"deleted", "gone"}
        BY <2>1, <2>3
      <3>3. \A f \in Execs : row'[f].stage = "gone" => Discharged(f, row, receipts, stale)
        BY <2>3 DEF Discharged
      <3>4. LaneOK(row', commands, receipts, stale, proc)
        BY <3>1, <3>2, <3>3, StagesKeep
      <3>5. LaneOK(row', Sent(link, commands, Command("create", e)), receipts, stale, proc)
        BY <2>3, <3>4, SentKeeps
      <3> QED
        BY <1>1, <2>1, <3>5
    <2>8. LockOK(session, chosen, locked, row')
      BY <1>2, <1>4 DEF IInv, ChatOK, LockOK
    <2>9. RunsOK(chosen, locked, call, row')
      <3> SUFFICES ASSUME NEW d \in Sends, call[d].at \in Taken
                   PROVE  /\ locked /\ call[d].ws = Last(chosen)
                          /\ Last(chosen) = Home /\ call[d].at = "turn" => call[d].peer = Home
                          /\ Last(chosen) # Home => call[d].peer \in Execs /\ row'[call[d].peer].ws = Last(chosen)
        BY DEF RunsOK
      <3>1. /\ locked /\ call[d].ws = Last(chosen)
            /\ Last(chosen) = Home /\ call[d].at = "turn" => call[d].peer = Home
            /\ Last(chosen) # Home => call[d].peer \in Execs /\ row[call[d].peer].ws = Last(chosen)
        BY DEF IInv, ChatOK, RunsOK
      <3>2. Last(chosen) # Home => call[d].peer # e
        BY <2>2, <3>1
      <3> QED
        BY <2>3, <3>1, <3>2
    <2>10. /\ SessionOK(session', chosen', touched', locked', active')
           /\ ChatOK(session', chosen', locked', call', line', row')
           /\ UNCHANGED <<session, chosen>>
      <3>1. PICK at : at = IF link THEN "waiting" ELSE "over"
        OBVIOUS
      <3>2. Goes(c, e, at) /\ at \in {"configuring", "waiting", "over"} /\ e \in Execs \cup {None}
        BY <2>1, <3>1
      <3>3. e \in Alive(row') /\ call[c].ws # Home /\ \A f \in Alive(row') : row'[f].ws = call[c].ws
        BY <1>2, <1>4, <2>3, <2>5
      <3> QED
        BY <1>2, <2>8, <2>9, <3>2, <3>3, GoesKeeps
    <2> QED
      BY <1>1, <2>6, <2>7, <2>10 DEF IInv
  <1> QED
    BY <1>3, <1>4

LEMMA GivesUpKeeps ==
    ASSUME IInv, NEW c \in Sends, ReadFails(c) \/ TimesOut(c)
    PROVE  IInv'
  <1>1. /\ line # <<>> /\ c = Head(line) /\ Refuse(c) /\ line' = Tail(line)
        /\ UNCHANGED <<row, tokens, peer, link, commands, receipts, stale, proc>>
    BY DEF ReadFails, TimesOut, Heads, Leaves, gateVars, laneVars
  <1>2. /\ SessionOK(session', chosen', touched', locked', active')
        /\ ChatOK(session', chosen', locked', call', line', row)
        /\ UNCHANGED <<session, chosen>>
    BY <1>1, RefuseKeeps
  <1> QED
    BY <1>1, <1>2 DEF IInv

LEMMA PollKeeps ==
    ASSUME IInv, NEW c \in Sends, Poll(c)
    PROVE  IInv'
  <1>1. PICK e, at : e = call[c].row /\ at = Look(c, e)
    OBVIOUS
  <1>2. /\ Heads(c, "waiting") /\ Goes(c, e, at) /\ at \in {"configuring", "waiting", "over"}
        /\ UNCHANGED <<row, tokens, peer, link, commands, receipts, stale, proc>>
    BY <1>1, LookFacts DEF Poll, gateVars, laneVars
  <1>3. /\ line # <<>> /\ c = Head(line) /\ e \in Execs \cup {None}
        /\ session # "deleted" => /\ e \in Alive(row) /\ call[c].ws # Home
                                  /\ \A f \in Alive(row) : row[f].ws = call[c].ws
    BY <1>1, <1>2, HeadKnows
  <1>4. LockOK(session, chosen, locked, row) /\ RunsOK(chosen, locked, call, row)
    BY DEF IInv, ChatOK
  <1>5. /\ SessionOK(session', chosen', touched', locked', active')
        /\ ChatOK(session', chosen', locked', call', line', row)
        /\ UNCHANGED <<session, chosen>>
    BY <1>2, <1>3, <1>4, GoesKeeps
  <1> QED
    BY <1>2, <1>5 DEF IInv

\* An answer of the execution finds it alive: nobody else in the line could end it.
LEMMA ConfiguredKeeps ==
    ASSUME IInv, NEW c \in Sends, NEW prepared \in BOOLEAN, Configured(c, prepared)
    PROVE  IInv'
  <1>1. PICK e, ready : e = call[c].row /\ ready = [row EXCEPT ![e].stage = IF @ = "gone" THEN @ ELSE "ready"]
    OBVIOUS
  <1>2. /\ Heads(c, "configuring") /\ line' = Tail(line)
        /\ IF prepared /\ session # "deleted" THEN row' = ready /\ Admit(c, ready) ELSE Refuse(c) /\ UNCHANGED row
        /\ UNCHANGED <<tokens, peer, link, commands, receipts, stale, proc>>
    BY <1>1 DEF Configured, Leaves, laneVars
  <1>3. /\ line # <<>> /\ c = Head(line)
        /\ session # "deleted" => /\ e \in Alive(row) /\ call[c].ws # Home
                                  /\ \A f \in Alive(row) : row[f].ws = call[c].ws
    BY <1>1, <1>2, HeadKnows
  <1>4. CASE prepared /\ session # "deleted"
    <2>1. row' = ready /\ Admit(c, ready) /\ e \in Alive(row) /\ e \in Execs
      BY <1>2, <1>3, <1>4 DEF Alive
    <2>2. row \in [Execs -> Row] /\ row[e].stage \notin Dead
      BY <2>1 DEF IInv, RowsOK, Alive
    <2>3. /\ ready \in [Execs -> Row] /\ ready[e].stage = "ready" /\ ready[e].ws = row[e].ws
          /\ \A f \in Execs : f # e => ready[f] = row[f]
      BY <1>1, <2>1, <2>2 DEF Row, Dead
    <2>4. Alike(session, row, ready)
      BY <2>2, <2>3 DEF Alike, Alive, Dead
    <2>5. Alive(ready) = Alive(row)
      BY <1>4, <2>4 DEF Alike
    <2>6. RowsOK(ready, chosen, tokens, peer)
      <3>1. RowsOK(row, chosen, tokens, peer)
        BY DEF IInv
      <3>2. tokens \in SUBSET Alive(ready) /\ peer \in Peers /\ \A f \in Execs : peer[f] = "attached" => f \in Alive(ready)
        BY <2>5, <3>1 DEF RowsOK
      <3> QED
        BY <2>4, <3>1, <3>2, AlikeRows
    <2>7. LockOK(session, chosen, locked, ready)
      <3>1. ChatOK(session, chosen, locked, call, line, row)
        BY DEF IInv
      <3>2. ChatOK(session, chosen, locked, call, line, ready)
        BY <2>4, <3>1, AlikeChat
      <3> QED
        BY <3>2 DEF ChatOK
    <2>8. (\A f \in Execs : ready[f].ws = row[f].ws) /\ (\A f \in Alive(ready) : ready[f].ws = call[c].ws) /\ Alive(ready) # {}
      BY <1>3, <1>4, <2>1, <2>3, <2>5 DEF Alive
    <2>9. /\ SessionOK(session', chosen', touched', locked', active')
          /\ ChatOK(session', chosen', locked', call', line', ready)
          /\ UNCHANGED <<session, chosen>>
      BY <1>2, <1>3, <2>1, <2>6, <2>7, <2>8, AdmitKeeps
    <2>10. LaneOK(ready, commands, receipts, stale, proc)
      <3>1. LaneOK(row, commands, receipts, stale, proc)
        BY DEF IInv
      <3>2. \A f \in Execs : ready[f].stage \notin {"deleted", "gone"} => row[f].stage \notin {"deleted", "gone"}
        BY <2>2, <2>3 DEF Dead
      <3>3. \A f \in Execs : ready[f].stage = "gone" => Discharged(f, row, receipts, stale)
        BY <2>3 DEF Discharged
      <3> QED
        BY <3>1, <3>2, <3>3, StagesKeep
    <2> QED
      BY <1>2, <2>1, <2>6, <2>9, <2>10 DEF IInv
  <1>5. CASE ~(prepared /\ session # "deleted")
    <2>1. Refuse(c) /\ UNCHANGED row
      BY <1>2, <1>5
    <2>2. /\ SessionOK(session', chosen', touched', locked', active')
          /\ ChatOK(session', chosen', locked', call', line', row)
          /\ UNCHANGED <<session, chosen>>
      BY <1>2, <1>3, <2>1, RefuseKeeps
    <2> QED
      BY <1>2, <2>1, <2>2 DEF IInv
  <1> QED
    BY <1>4, <1>5

----------------------------------------------------------------------------
(* The computer's stream loses frames, and carries them                    *)

LEMMA FewerReceipts ==
    ASSUME NEW rows, NEW cm, NEW rc, NEW st, NEW pr, LaneOK(rows, cm, rc, st, pr),
           NEW rc2 \in Seq(Created \cup Deleted), NEW st2 \in Seq(Created \cup Deleted),
           \A e \in Execs : Discharged(e, rows, rc2, st2) => Discharged(e, rows, rc, st)
    PROVE  LaneOK(rows, cm, rc2, st2, pr)
  BY DEF LaneOK

LEMMA NoCommands ==
    ASSUME NEW rows, NEW cm, NEW rc, NEW st, NEW pr, LaneOK(rows, cm, rc, st, pr)
    PROVE  LaneOK(rows, <<>>, rc, st, pr)
  <1>1. PICK new : new = <<>>
    OBVIOUS
  <1>2. new \in Seq(Frames) /\ Len(new) = 0 /\ \A i : i \notin 1..Len(new)
    BY <1>1
  <1>3. LaneOK(rows, new, rc, st, pr)
    BY <1>2 DEF LaneOK
  <1> QED
    BY <1>1, <1>3

LEMMA EmptyStream ==
    ASSUME NEW rows, NEW cm, NEW rc, NEW st, NEW pr, LaneOK(rows, cm, rc, st, pr)
    PROVE  LaneOK(rows, <<>>, <<>>, st, pr) /\ LaneOK(rows, <<>>, <<>>, <<>>, pr)
  <1>1. PICK none : none = <<>>
    OBVIOUS
  <1>2. none \in Seq(Created \cup Deleted) /\ \A i : i \notin 1..Len(none)
    BY <1>1
  <1>3. \A e \in Execs : /\ Discharged(e, rows, none, st) => Discharged(e, rows, rc, st)
                         /\ Discharged(e, rows, none, none) => Discharged(e, rows, rc, st)
    BY <1>2 DEF Discharged
  <1>4. st \in Seq(Created \cup Deleted) /\ LaneOK(rows, <<>>, rc, st, pr)
    BY NoCommands DEF LaneOK
  <1>5. LaneOK(rows, <<>>, none, st, pr) /\ LaneOK(rows, <<>>, none, none, pr)
    BY <1>2, <1>3, <1>4, FewerReceipts
  <1> QED
    BY <1>1, <1>5

LEMMA CommandTaken ==
    ASSUME NEW rows, NEW cm, NEW rc, NEW st, NEW pr, LaneOK(rows, cm, rc, st, pr), cm # <<>>
    PROVE  /\ LaneOK(rows, Tail(cm), rc, st, pr) /\ Head(cm) \in Frames /\ Head(cm) = cm[1] /\ 1 \in 1..Len(cm)
           /\ \A e \in Execs : Head(cm) = Command("delete", e) =>
                \A i \in 1..Len(Tail(cm)) : Tail(cm)[i] # Command("create", e)
  <1>1. PICK rest, n : rest = Tail(cm) /\ n = Len(cm)
    OBVIOUS
  <1>2. cm \in Seq(Frames) /\ n \in Nat \ {0} /\ Head(cm) = cm[1] /\ 1 \in 1..n
    BY <1>1 DEF LaneOK
  <1>3. rest \in Seq(Frames) /\ Len(rest) = n - 1 /\ \A i \in 1..(n - 1) : rest[i] = cm[i + 1] /\ i + 1 \in 1..n /\ 1 < i + 1
    BY <1>1, <1>2
  <1>4. \A e \in Execs : \A i, j \in 1..(n - 1) : i < j /\ rest[i] = Command("delete", e) => rest[j] # Command("create", e)
    <2> SUFFICES ASSUME NEW e \in Execs, NEW i \in 1..(n - 1), NEW j \in 1..(n - 1), i < j,
                        rest[i] = Command("delete", e)
                 PROVE  rest[j] # Command("create", e)
      OBVIOUS
    <2>1. i + 1 < j + 1 /\ cm[i + 1] = Command("delete", e) /\ rest[j] = cm[j + 1] /\ i + 1 \in 1..n /\ j + 1 \in 1..n
      BY <1>2, <1>3
    <2> QED
      BY <1>1, <2>1 DEF LaneOK
  <1>5. LaneOK(rows, rest, rc, st, pr)
    BY <1>1, <1>3, <1>4 DEF LaneOK
  <1>6. ASSUME NEW e \in Execs, cm[1] = Command("delete", e), NEW i \in 1..(n - 1)
        PROVE  rest[i] # Command("create", e)
    BY <1>1, <1>2, <1>3, <1>6 DEF LaneOK
  <1> QED
    BY <1>1, <1>2, <1>3, <1>5, <1>6

\* A receipt of a start: nothing is discharged by it.
LEMMA CreatedAdded ==
    ASSUME NEW rows, NEW cm, NEW rc, NEW st, NEW pr, LaneOK(rows, cm, rc, st, pr), NEW r \in Created
    PROVE  LaneOK(rows, cm, Append(rc, r), st, pr)
  <1>1. PICK all, n : all = Append(rc, r) /\ n = Len(rc)
    OBVIOUS
  <1>2. rc \in Seq(Created \cup Deleted) /\ st \in Seq(Created \cup Deleted) /\ n \in Nat
    BY <1>1 DEF LaneOK
  <1>3. /\ all \in Seq(Created \cup Deleted) /\ \A i \in 1..n : all[i] = rc[i]
        /\ \A i \in 1..Len(all) : i \in 1..n \/ all[i] = r
    BY <1>1, <1>2
  <1>4. \A e : r # Receipt("delete", e, "deleted")
    BY DEF Created, Receipt
  <1>5. \A e \in Execs : Discharged(e, rows, all, st) => Discharged(e, rows, rc, st)
    BY <1>1, <1>3, <1>4 DEF Discharged
  <1> QED
    BY <1>1, <1>2, <1>3, <1>5, FewerReceipts

LEMMA ReceiptTaken ==
    ASSUME NEW rc \in Seq(Created \cup Deleted), rc # <<>>
    PROVE  /\ Tail(rc) \in Seq(Created \cup Deleted) /\ Head(rc) \in Created \cup Deleted
           /\ Head(rc) = rc[1] /\ 1 \in 1..Len(rc)
           /\ \A x : (\E i \in 1..Len(Tail(rc)) : Tail(rc)[i] = x) => \E i \in 1..Len(rc) : rc[i] = x
  <1>1. PICK rest, n : rest = Tail(rc) /\ n = Len(rc)
    OBVIOUS
  <1>2. n \in Nat \ {0} /\ rest \in Seq(Created \cup Deleted) /\ Len(rest) = n - 1
        /\ \A i \in 1..(n - 1) : rest[i] = rc[i + 1] /\ i + 1 \in 1..n
    BY <1>1
  <1>3. 1 \in 1..n /\ Head(rc) = rc[1]
    BY <1>2
  <1> QED
    BY <1>1, <1>2, <1>3

\* A receipt changes the row it is about, and ends only what is being ended.
LEMMA ReceivedKeeps ==
    ASSUME IInv, NEW r \in Created \cup Deleted, row' = Received(row, r),
           r \in Deleted => Discharged(r.execution, row, receipts, stale)
    PROVE  /\ RowsOK(row', chosen, tokens, peer) /\ ChatOK(session, chosen, locked, call, line, row')
           /\ LaneOK(row', commands, receipts, stale, proc)
  <1>1. PICK e : e = r.execution
    OBVIOUS
  <1>2. /\ e \in Execs /\ r.stage \in {"starting", "ready", "failed", "deleted"}
        /\ (r.op = "create" => r.stage \in {"starting", "ready", "failed"})
        /\ (r.op = "delete" => r \in Deleted)
    BY <1>1 DEF Created, Deleted
  <1>3. /\ row \in [Execs -> Row] /\ RowsOK(row, chosen, tokens, peer) /\ LaneOK(row, commands, receipts, stale, proc)
        /\ ChatOK(session, chosen, locked, call, line, row)
    BY DEF IInv, RowsOK
  <1>4. \/ row' = row
        \/ row[e].stage = "deleted" /\ r.op = "delete" /\ row' = [row EXCEPT ![e].stage = "gone"]
        \/ row[e].stage \notin {"none", "gone", "deleted"} /\ r.op = "create" /\ row' = [row EXCEPT ![e].stage = r.stage]
    BY <1>1 DEF Received
  <1>5. CASE row' = row
    BY <1>3, <1>5
  <1>6. CASE row[e].stage = "deleted" /\ r.op = "delete" /\ row' = [row EXCEPT ![e].stage = "gone"]
    <2>1. /\ row' \in [Execs -> Row] /\ row'[e].stage = "gone" /\ row'[e].ws = row[e].ws
          /\ \A f \in Execs : f # e => row'[f] = row[f]
      BY <1>2, <1>3, <1>6 DEF Row, Dead
    <2>2. Alive(row') = Alive(row)
      BY <1>6, <2>1 DEF Alive, Dead
    <2>3. Alike(session, row, row')
      BY <1>6, <2>1, <2>2 DEF Alike
    <2>4. RowsOK(row', chosen, tokens, peer)
      <3>1. tokens \in SUBSET Alive(row') /\ peer \in Peers /\ \A f \in Execs : peer[f] = "attached" => f \in Alive(row')
        BY <1>3, <2>2 DEF RowsOK
      <3> QED
        BY <1>3, <2>3, <3>1, AlikeRows
    <2>5. ChatOK(session, chosen, locked, call, line, row')
      BY <1>3, <2>3, AlikeChat
    <2>6. LaneOK(row', commands, receipts, stale, proc)
      <3>1. \A f \in Execs : row'[f].stage \notin {"deleted", "gone"} => row[f].stage \notin {"deleted", "gone"}
        BY <2>1
      <3>2. \A f \in Execs : row'[f].stage = "gone" => f = e \/ row[f].stage = "gone"
        BY <2>1
      <3>3. Discharged(e, row, receipts, stale)
        BY <1>1, <1>2, <1>6
      <3>4. \A f \in Execs : row'[f].stage = "gone" => Discharged(f, row, receipts, stale)
        BY <3>2, <3>3 DEF Discharged
      <3> QED
        BY <1>3, <3>1, <3>4, StagesKeep
    <2> QED
      BY <2>4, <2>5, <2>6
  <1>7. CASE row[e].stage \notin {"none", "gone", "deleted"} /\ r.op = "create" /\ row' = [row EXCEPT ![e].stage = r.stage]
    <2>1. /\ row' \in [Execs -> Row] /\ row'[e].stage \in {"starting", "ready", "failed"} /\ row'[e].ws = row[e].ws
          /\ \A f \in Execs : f # e => row'[f] = row[f]
      BY <1>2, <1>3, <1>7 DEF Row, Dead
    <2>2. Alive(row') = Alive(row)
      BY <1>7, <2>1 DEF Alive, Dead
    <2>3. Alike(session, row, row')
      BY <1>7, <2>1, <2>2 DEF Alike
    <2>4. RowsOK(row', chosen, tokens, peer)
      <3>1. tokens \in SUBSET Alive(row') /\ peer \in Peers /\ \A f \in Execs : peer[f] = "attached" => f \in Alive(row')
        BY <1>3, <2>2 DEF RowsOK
      <3> QED
        BY <1>3, <2>3, <3>1, AlikeRows
    <2>5. ChatOK(session, chosen, locked, call, line, row')
      BY <1>3, <2>3, AlikeChat
    <2>6. LaneOK(row', commands, receipts, stale, proc)
      <3>1. \A f \in Execs : row'[f].stage \notin {"deleted", "gone"} => row[f].stage \notin {"deleted", "gone"}
        BY <1>7, <2>1
      <3>2. \A f \in Execs : row'[f].stage = "gone" => Discharged(f, row, receipts, stale)
        BY <2>1 DEF Discharged
      <3> QED
        BY <1>3, <3>1, <3>2, StagesKeep
    <2> QED
      BY <2>4, <2>5, <2>6
  <1> QED
    BY <1>4, <1>5, <1>6, <1>7

LEMMA ReceiveKeeps ==
    ASSUME IInv, Receive \/ ReceiveStale
    PROVE  IInv'
  <1>1. UNCHANGED <<session, chosen, touched, locked, active, call, line, tokens, peer, link, commands, proc>>
    BY DEF Receive, ReceiveStale, chatVars
  <1>2. /\ LaneOK(row, commands, receipts, stale, proc)
        /\ receipts \in Seq(Created \cup Deleted) /\ stale \in Seq(Created \cup Deleted)
    BY DEF IInv, LaneOK
  <1>3. \A x \in Deleted : x = Receipt("delete", x.execution, "deleted")
    BY DEF Deleted, Receipt
  <1>4. CASE Receive
    <2>1. receipts # <<>> /\ row' = Received(row, Head(receipts)) /\ receipts' = Tail(receipts) /\ stale' = stale
      BY <1>4 DEF Receive
    <2>2. PICK r : r = Head(receipts)
      OBVIOUS
    <2>3. /\ r \in Created \cup Deleted /\ receipts' \in Seq(Created \cup Deleted)
          /\ \E i \in 1..Len(receipts) : receipts[i] = r
          /\ \A x : (\E i \in 1..Len(receipts') : receipts'[i] = x) => \E i \in 1..Len(receipts) : receipts[i] = x
      BY <1>2, <2>1, <2>2, ReceiptTaken
    <2>4. r \in Deleted => Discharged(r.execution, row, receipts, stale)
      BY <1>3, <2>3 DEF Discharged
    <2>5. /\ RowsOK(row', chosen, tokens, peer) /\ ChatOK(session, chosen, locked, call, line, row')
          /\ LaneOK(row', commands, receipts, stale, proc)
      BY <2>1, <2>2, <2>3, <2>4, ReceivedKeeps
    <2>6. \A e \in Execs : Discharged(e, row', receipts', stale) => Discharged(e, row', receipts, stale)
      BY <2>3 DEF Discharged
    <2>7. LaneOK(row', commands, receipts', stale, proc)
      BY <1>2, <2>3, <2>5, <2>6, FewerReceipts
    <2> QED
      BY <1>1, <2>1, <2>5, <2>7 DEF IInv
  <1>5. CASE ReceiveStale
    <2>1. stale # <<>> /\ row' = Received(row, Head(stale)) /\ stale' = Tail(stale) /\ receipts' = receipts
      BY <1>5 DEF ReceiveStale
    <2>2. PICK r : r = Head(stale)
      OBVIOUS
    <2>3. /\ r \in Created \cup Deleted /\ stale' \in Seq(Created \cup Deleted)
          /\ \E i \in 1..Len(stale) : stale[i] = r
          /\ \A x : (\E i \in 1..Len(stale') : stale'[i] = x) => \E i \in 1..Len(stale) : stale[i] = x
      BY <1>2, <2>1, <2>2, ReceiptTaken
    <2>4. r \in Deleted => Discharged(r.execution, row, receipts, stale)
      BY <1>3, <2>3 DEF Discharged
    <2>5. /\ RowsOK(row', chosen, tokens, peer) /\ ChatOK(session, chosen, locked, call, line, row')
          /\ LaneOK(row', commands, receipts, stale, proc)
      BY <2>1, <2>2, <2>3, <2>4, ReceivedKeeps
    <2>6. \A e \in Execs : Discharged(e, row', receipts, stale') => Discharged(e, row', receipts, stale)
      BY <2>3 DEF Discharged
    <2>7. LaneOK(row', commands, receipts, stale', proc)
      BY <1>2, <2>3, <2>5, <2>6, FewerReceipts
    <2> QED
      BY <1>1, <2>1, <2>5, <2>7 DEF IInv
  <1> QED
    BY <1>4, <1>5

\* The sweep retires what lost its chat, and its commands are about what it retired or left.
LEMMA ReconcileKeeps ==
    ASSUME IInv, NEW there, NEW queue, NEW rc, NEW st, LaneOK(row, queue, rc, st, proc), Reconcile(there, queue)
    PROVE  /\ RowsOK(row', chosen, tokens', peer') /\ ChatOK(session, chosen, locked, call, line, row')
           /\ LaneOK(row', commands', rc, st, proc)
  <1>1. PICK gone : gone = {e \in Execs : Lost(e)}
    OBVIOUS
  <1>2. PICK told : told = {e \in gone \cup {f \in Live \ gone : peer[f] # "attached"} :
                              there /\ ~Contains(queue, Command(IF e \in gone THEN "delete" ELSE "create", e))}
    OBVIOUS
  <1>3. /\ row' = Retired(row, gone) /\ tokens' = tokens \ gone /\ peer' = Disconnected(gone)
        /\ \E list \in Listed(told) :
             commands' = queue \o [i \in DOMAIN list |-> Command(IF list[i] \in gone THEN "delete" ELSE "create", list[i])]
    BY <1>1, <1>2 DEF Reconcile
  <1>4. RowsOK(row, chosen, tokens, peer)
    BY DEF IInv
  <1>5. gone \in SUBSET Execs /\ \A e \in gone : row[e].stage \notin {"none", "gone"}
    BY <1>1 DEF Lost, Dead
  <1>6. /\ row' \in [Execs -> Row] /\ peer' \in Peers
        /\ \A f \in Execs : row'[f].ws = row[f].ws /\ (row'[f].stage = "none" <=> row[f].stage = "none")
        /\ \A f \in Execs : f \in gone => row'[f].stage = "deleted"
        /\ \A f \in Execs : f \notin gone => row'[f] = row[f]
        /\ \A f \in Execs : f \in Alive(row') <=> f \in Alive(row) /\ f \notin gone
        /\ tokens' \subseteq Alive(row')
        /\ \A f \in Execs : peer'[f] = "attached" => f \in Alive(row')
    BY <1>3, <1>4, <1>5, RetiredFacts
  <1>7. Alike(session, row, row')
    <2>1. session # "deleted" => \A f \in Alive(row) : f \in Execs /\ f \notin gone
      BY <1>1 DEF Alive, Lost, Dead
    <2>2. Alive(row') \subseteq Alive(row)
      BY <1>6 DEF Alive
    <2> QED
      BY <1>6, <2>1, <2>2 DEF Alike
  <1>8. RowsOK(row', chosen, tokens', peer')
    <2>1. tokens' \in SUBSET Alive(row') /\ peer' \in Peers /\ \A f \in Execs : peer'[f] = "attached" => f \in Alive(row')
      BY <1>6
    <2> QED
      BY <1>4, <1>7, <2>1, AlikeRows
  <1>9. ChatOK(session, chosen, locked, call, line, row')
    <2>1. ChatOK(session, chosen, locked, call, line, row)
      BY DEF IInv
    <2> QED
      BY <1>7, <2>1, AlikeChat
  <1>10. LaneOK(row', queue, rc, st, proc)
    <2>1. \A f \in Execs : row'[f].stage \notin {"deleted", "gone"} => row[f].stage \notin {"deleted", "gone"}
      BY <1>6
    <2>2. \A f \in Execs : row'[f].stage = "gone" => Discharged(f, row, rc, st)
      BY <1>6 DEF Discharged
    <2> QED
      BY <2>1, <2>2, StagesKeep
  <1>11. PICK list \in Listed(told) :
           commands' = queue \o [i \in DOMAIN list |-> Command(IF list[i] \in gone THEN "delete" ELSE "create", list[i])]
    BY <1>3
  <1>12. PICK n : n = Cardinality(told)
    OBVIOUS
  <1>13. n \in Nat
    <2>1. IsFiniteSet(Execs)
      BY ExecutionAssumption, FS_Interval DEF Execs
    <2>2. told \subseteq Execs
      BY <1>2, <1>5 DEF Live
    <2> QED
      BY <1>12, <2>1, <2>2, FS_Subset, FS_CardinalityType
  <1>14. list \in [1..n -> told] /\ DOMAIN list = 1..n
    BY <1>12 DEF Listed
  <1>15. PICK new : new = [i \in 1..n |-> Command(IF list[i] \in gone THEN "delete" ELSE "create", list[i])]
    OBVIOUS
  <1>16. \A e \in told : e \in Execs /\ (e \notin gone => row'[e].stage \notin {"deleted", "gone"})
    BY <1>2, <1>5, <1>6 DEF Live, Dead
  <1>17. ASSUME NEW i \in 1..n
         PROVE  /\ new[i] \in Frames
                /\ new[i] = Command("create", new[i].execution) => row'[new[i].execution].stage \notin {"deleted", "gone"}
                /\ new[i] = Command("delete", new[i].execution) => row'[new[i].execution].stage = "deleted"
    <2>1. PICK e : e = list[i]
      OBVIOUS
    <2>2. e \in told /\ e \in Execs
      BY <1>14, <1>16, <1>17, <2>1
    <2>3. PICK f : f = new[i]
      OBVIOUS
    <2>4. CASE e \in gone
      <3>1. f = Command("delete", e)
        BY <1>15, <1>17, <2>1, <2>3, <2>4
      <3>2. f \in Frames /\ f.execution = e /\ \A x : f # Command("create", x)
        BY <2>2, <3>1, FrameFacts
      <3> QED
        BY <1>6, <2>2, <2>3, <2>4, <3>2
    <2>5. CASE e \notin gone
      <3>1. f = Command("create", e)
        BY <1>15, <1>17, <2>1, <2>3, <2>5
      <3>2. f \in Frames /\ f.execution = e /\ \A x : f # Command("delete", x)
        BY <2>2, <3>1, FrameFacts
      <3> QED
        BY <1>16, <2>2, <2>3, <2>5, <3>2
    <2> QED
      BY <2>4, <2>5
  <1>18. new \in Seq(Frames) /\ Len(new) = n
    <2>1. new \in [1..n -> Frames]
      BY <1>15, <1>17
    <2> QED
      BY <1>13, <2>1
  <1>19. LaneOK(row', queue \o new, rc, st, proc)
    BY <1>10, <1>17, <1>18, OrdersKeep
  <1>20. commands' = queue \o new
    BY <1>11, <1>14, <1>15
  <1> QED
    BY <1>8, <1>9, <1>19, <1>20

LEMMA LaneKeeps ==
    ASSUME IInv, Sweep \/ StaleCloses \/ RunnerHello \/ RunnerSupersedes \/ RunnerCloses
    PROVE  IInv'
  <1>1. /\ UNCHANGED <<session, chosen, touched, locked, active, call, line, proc>> /\ link' \in BOOLEAN
    BY DEF Sweep, StaleCloses, RunnerHello, RunnerSupersedes, RunnerCloses, chatVars, IInv
  <1>2. LaneOK(row, commands, receipts, stale, proc)
    BY DEF IInv
  <1>3. PICK none : none = <<>>
    OBVIOUS
  <1>4. none \in Seq(Created \cup Deleted) /\ receipts \in Seq(Created \cup Deleted) /\ stale \in Seq(Created \cup Deleted)
        /\ \A i : i \notin 1..Len(none)
    BY <1>2, <1>3 DEF LaneOK
  <1>5. CASE Sweep
    <2>1. Reconcile(link, commands) /\ UNCHANGED <<receipts, stale>>
      BY <1>5 DEF Sweep
    <2>2. /\ RowsOK(row', chosen, tokens', peer') /\ ChatOK(session, chosen, locked, call, line, row')
          /\ LaneOK(row', commands', receipts, stale, proc)
      BY <1>2, <2>1, ReconcileKeeps
    <2> QED
      BY <1>1, <2>1, <2>2 DEF IInv
  <1>6. CASE StaleCloses
    <2>1. stale' = none /\ UNCHANGED <<row, tokens, peer, commands, receipts>>
      BY <1>3, <1>6 DEF StaleCloses, gateVars
    <2>2. \A e \in Execs : Discharged(e, row, receipts, none) => Discharged(e, row, receipts, stale)
      BY <1>4 DEF Discharged
    <2>3. LaneOK(row, commands, receipts, none, proc)
      BY <1>2, <1>4, <2>2, FewerReceipts
    <2> QED
      BY <1>1, <2>1, <2>3 DEF IInv
  <1>7. CASE RunnerHello
    <2>1. Reconcile(TRUE, none) /\ UNCHANGED <<receipts, stale>>
      BY <1>3, <1>7 DEF RunnerHello
    <2>2. LaneOK(row, none, receipts, stale, proc)
      BY <1>2, <1>3, NoCommands
    <2>3. /\ RowsOK(row', chosen, tokens', peer') /\ ChatOK(session, chosen, locked, call, line, row')
          /\ LaneOK(row', commands', receipts, stale, proc)
      BY <2>1, <2>2, ReconcileKeeps
    <2> QED
      BY <1>1, <2>1, <2>3 DEF IInv
  <1>8. CASE RunnerSupersedes
    <2>1. Reconcile(TRUE, none) /\ stale' = receipts /\ receipts' = none
      BY <1>3, <1>8 DEF RunnerSupersedes
    <2>2. LaneOK(row, none, receipts, stale, proc)
      BY <1>2, <1>3, NoCommands
    <2>3. \A e \in Execs : Discharged(e, row, none, receipts) => Discharged(e, row, receipts, stale)
      BY <1>4 DEF Discharged
    <2>4. LaneOK(row, none, none, receipts, proc)
      BY <1>4, <2>2, <2>3, FewerReceipts
    <2>5. /\ RowsOK(row', chosen, tokens', peer') /\ ChatOK(session, chosen, locked, call, line, row')
          /\ LaneOK(row', commands', none, receipts, proc)
      BY <2>1, <2>4, ReconcileKeeps
    <2> QED
      BY <1>1, <2>1, <2>5 DEF IInv
  <1>9. CASE RunnerCloses
    <2>1. commands' = <<>> /\ receipts' = <<>> /\ UNCHANGED <<row, tokens, peer, stale>>
      BY <1>9 DEF RunnerCloses, gateVars
    <2>2. LaneOK(row, <<>>, <<>>, stale, proc)
      BY <1>2, EmptyStream
    <2> QED
      BY <1>1, <2>1, <2>2 DEF IInv
  <1> QED
    BY <1>5, <1>6, <1>7, <1>8, <1>9

----------------------------------------------------------------------------
(* The computer, and both ends' restarts                                   *)

\* A socket attaches with a token, and a token is a living execution's.
LEMMA PeerKeeps ==
    ASSUME IInv, NEW e \in Execs, Dial(e) \/ Hello(e) \/ PeerDrops(e)
    PROVE  IInv'
  <1>1. /\ UNCHANGED <<session, chosen, touched, locked, active, call, line, row, tokens, link, commands, receipts, stale, proc>>
        /\ \/ peer' = [peer EXCEPT ![e] = "dialing"]
           \/ peer' = [peer EXCEPT ![e] = IF e \in tokens THEN "attached" ELSE "none"]
           \/ peer' = [peer EXCEPT ![e] = "none"]
    BY DEF Dial, Hello, PeerDrops, chatVars, gateVars, laneVars
  <1>2. peer \in Peers /\ tokens \subseteq Alive(row) /\ \A f \in Execs : peer[f] = "attached" => f \in Alive(row)
    BY DEF IInv, RowsOK
  <1>3. peer' \in Peers /\ \A f \in Execs : peer'[f] = "attached" => f \in Alive(row)
    BY <1>1, <1>2 DEF Peers
  <1>4. RowsOK(row, chosen, tokens, peer')
    BY <1>3 DEF IInv, RowsOK
  <1> QED
    BY <1>1, <1>4 DEF IInv

\* A process changes, and sockets go with it.
LEMMA ProcessKeeps ==
    ASSUME IInv, NEW pe \in Peers, \A f \in Execs : pe[f] \in {peer[f], "none"}
    PROVE  RowsOK(row, chosen, tokens, pe)
  BY DEF IInv, RowsOK

\* The computer ends what it is told to end: from its receipt on, nothing starts it again.
LEMMA RunnerTakesKeeps ==
    ASSUME IInv, RunnerTakes
    PROVE  IInv'
  <1>1. PICK f, e : f = Head(commands) /\ e = f.execution
    OBVIOUS
  <1>2. /\ commands # <<>> /\ commands' = Tail(commands)
        /\ UNCHANGED <<session, chosen, touched, locked, active, call, line, row, tokens, link, stale>>
        /\ IF f.kind = "delete"
           THEN /\ proc' = [proc EXCEPT ![e] = "none"] /\ peer' = [peer EXCEPT ![e] = "none"]
                /\ receipts' = Append(receipts, Receipt("delete", e, "deleted"))
           ELSE /\ proc' = [proc EXCEPT ![e] = IF @ = "none" THEN "booting" ELSE @] /\ UNCHANGED peer
                /\ receipts' = Append(receipts, Receipt("create", e, IF proc[e] = "up" THEN "ready" ELSE "starting"))
    BY <1>1 DEF RunnerTakes, Stopped, Unplugged, chatVars, gateVars
  <1>3. /\ LaneOK(row, commands, receipts, stale, proc) /\ proc \in Processes
        /\ receipts \in Seq(Created \cup Deleted) /\ stale \in Seq(Created \cup Deleted) /\ peer \in Peers
    BY DEF IInv, LaneOK, RowsOK
  <1>4. /\ LaneOK(row, commands', receipts, stale, proc) /\ f \in Frames /\ f = commands[1] /\ 1 \in 1..Len(commands)
        /\ \A g \in Execs : f = Command("delete", g) => \A i \in 1..Len(commands') : commands'[i] # Command("create", g)
    BY <1>1, <1>2, <1>3, CommandTaken
  <1>5. e \in Execs /\ (f.kind = "delete" => f = Command("delete", e)) /\ (f.kind # "delete" => f = Command("create", e))
    BY <1>1, <1>4, FrameFacts
  <1>6. CASE f.kind = "delete"
    <2>1. /\ proc' = [proc EXCEPT ![e] = "none"] /\ peer' = [peer EXCEPT ![e] = "none"]
          /\ receipts' = Append(receipts, Receipt("delete", e, "deleted"))
      BY <1>2, <1>6
    <2>2. row[e].stage \in {"deleted", "gone"} /\ \A i \in 1..Len(commands') : commands'[i] # Command("create", e)
      BY <1>3, <1>4, <1>5, <1>6 DEF LaneOK
    <2>3. PICK r, n : r = Receipt("delete", e, "deleted") /\ n = Len(receipts)
      OBVIOUS
    <2>4. r \in Deleted /\ \A g : r = Receipt("delete", g, "deleted") => g = e
      BY <1>5, <2>3 DEF Deleted, Receipt
    <2>5. /\ receipts' \in Seq(Created \cup Deleted) /\ n \in Nat
          /\ \A i \in 1..Len(receipts') : (i \in 1..n /\ receipts'[i] = receipts[i]) \/ receipts'[i] = r
      BY <1>3, <2>1, <2>3, <2>4
    <2>6. \A g \in Execs : Discharged(g, row, receipts', stale) => g = e \/ Discharged(g, row, receipts, stale)
      BY <2>3, <2>4, <2>5 DEF Discharged
    <2>7. proc' \in Processes /\ proc'[e] = "none" /\ \A g \in Execs : g # e => proc'[g] = proc[g]
      BY <1>3, <1>5, <2>1 DEF Processes
    <2>8. LaneOK(row, commands', receipts', stale, proc')
      <3>1. \A g \in Execs : row[g].stage \notin {"deleted", "gone"} =>
              /\ ~Discharged(g, row, receipts', stale)
              /\ \A i \in 1..Len(commands') : commands'[i] # Command("delete", g)
        BY <1>4, <2>2, <2>6 DEF LaneOK
      <3>2. \A g \in Execs : Discharged(g, row, receipts', stale) =>
              /\ proc'[g] = "none"
              /\ \A i \in 1..Len(commands') : commands'[i] # Command("create", g)
        BY <1>4, <2>2, <2>6, <2>7 DEF LaneOK
      <3> QED
        BY <1>4, <2>5, <2>7, <3>1, <3>2 DEF LaneOK
    <2>9. peer' \in Peers /\ \A g \in Execs : peer'[g] \in {peer[g], "none"}
      BY <1>3, <2>1 DEF Peers
    <2>10. RowsOK(row, chosen, tokens, peer')
      BY <2>9, ProcessKeeps
    <2> QED
      BY <1>2, <2>8, <2>10 DEF IInv
  <1>7. CASE f.kind # "delete"
    <2>1. PICK r : r = Receipt("create", e, IF proc[e] = "up" THEN "ready" ELSE "starting")
      OBVIOUS
    <2>2. /\ proc' = [proc EXCEPT ![e] = IF @ = "none" THEN "booting" ELSE @] /\ peer' = peer
          /\ receipts' = Append(receipts, r) /\ r \in Created
      BY <1>2, <1>5, <1>7, <2>1 DEF Created, Receipt
    <2>3. LaneOK(row, commands', receipts', stale, proc)
      BY <1>4, <2>2, CreatedAdded
    <2>4. ~Discharged(e, row, receipts, stale)
      BY <1>3, <1>4, <1>5, <1>7 DEF LaneOK
    <2>5. ~Discharged(e, row, receipts', stale)
      <3>1. \A g : r # Receipt("delete", g, "deleted")
        BY <2>1 DEF Receipt
      <3>2. \A i \in 1..Len(receipts') : receipts'[i] = r \/ (i \in 1..Len(receipts) /\ receipts'[i] = receipts[i])
        BY <1>3, <2>2
      <3> QED
        BY <2>4, <3>1, <3>2 DEF Discharged
    <2>6. proc' \in Processes /\ \A g \in Execs : g # e => proc'[g] = proc[g]
      BY <1>3, <1>5, <2>2 DEF Processes
    <2>7. LaneOK(row, commands', receipts', stale, proc')
      BY <2>3, <2>5, <2>6 DEF LaneOK
    <2> QED
      BY <1>2, <2>2, <2>7 DEF IInv
  <1> QED
    BY <1>6, <1>7

LEMMA BootsKeeps ==
    ASSUME IInv, NEW e \in Execs, Boots(e)
    PROVE  IInv'
  <1>1. /\ UNCHANGED <<session, chosen, touched, locked, active, call, line, row, tokens, link, commands, stale>>
        /\ proc[e] = "booting"
    BY DEF Boots, chatVars, gateVars
  <1>2. PICK r : r \in Created /\ receipts' \in {receipts, Append(receipts, r)}
    <2>1. Receipt("create", e, "ready") \in Created /\ Receipt("create", e, "failed") \in Created
      BY DEF Created, Receipt
    <2> QED
      BY <2>1 DEF Boots
  <1>3. /\ proc' \in {[proc EXCEPT ![e] = "up"], [proc EXCEPT ![e] = "none"]}
        /\ peer' \in {peer, [peer EXCEPT ![e] = "none"]}
    BY DEF Boots, Stopped, Unplugged
  <1>4. LaneOK(row, commands, receipts, stale, proc) /\ proc \in Processes /\ peer \in Peers
    BY DEF IInv, LaneOK, RowsOK
  <1>5. LaneOK(row, commands, receipts', stale, proc)
    BY <1>2, <1>4, CreatedAdded
  <1>6. ~Discharged(e, row, receipts', stale)
    BY <1>1, <1>5 DEF LaneOK
  <1>7. proc' \in Processes /\ \A g \in Execs : g # e => proc'[g] = proc[g]
    BY <1>3, <1>4 DEF Processes
  <1>8. LaneOK(row, commands, receipts', stale, proc')
    BY <1>5, <1>6, <1>7 DEF LaneOK
  <1>9. peer' \in Peers /\ \A g \in Execs : peer'[g] \in {peer[g], "none"}
    BY <1>3, <1>4 DEF Peers
  <1>10. RowsOK(row, chosen, tokens, peer')
    BY <1>9, ProcessKeeps
  <1> QED
    BY <1>1, <1>8, <1>10 DEF IInv

LEMMA RunnerDiesKeeps ==
    ASSUME IInv, RunnerDies
    PROVE  IInv'
  <1>1. /\ UNCHANGED <<session, chosen, touched, locked, active, call, line, row, tokens>>
        /\ proc' = [e \in Execs |-> "none"] /\ peer' = [e \in Execs |-> "none"] /\ link' = FALSE
        /\ commands' = <<>> /\ receipts' = <<>> /\ stale' = <<>>
    BY DEF RunnerDies, chatVars, gateVars
  <1>2. LaneOK(row, commands, receipts, stale, proc)
    BY DEF IInv
  <1>3. LaneOK(row, <<>>, <<>>, <<>>, proc)
    BY <1>2, EmptyStream
  <1>4. proc' \in Processes /\ \A e \in Execs : proc'[e] = "none"
    BY <1>1 DEF Processes
  <1>5. LaneOK(row, <<>>, <<>>, <<>>, proc')
    BY <1>3, <1>4 DEF LaneOK
  <1>6. peer' \in Peers /\ \A g \in Execs : peer'[g] \in {peer[g], "none"}
    BY <1>1 DEF Peers
  <1>7. RowsOK(row, chosen, tokens, peer')
    BY <1>6, ProcessKeeps
  <1> QED
    BY <1>1, <1>5, <1>7 DEF IInv

LEMMA RestartKeeps ==
    ASSUME IInv, GatewayRestarts
    PROVE  IInv'
  <1>1. /\ UNCHANGED <<session, chosen, touched, locked, active, row, proc>>
        /\ call' = [c \in Sends |-> IF call[c].at \in Pending THEN [call[c] EXCEPT !.at = "over"] ELSE call[c]]
        /\ line' = <<>> /\ peer' = [e \in Execs |-> "none"]
        /\ tokens' = (IF session = "deleted" THEN {} ELSE Live)
        /\ link' = FALSE /\ commands' = <<>> /\ receipts' = <<>> /\ stale' = <<>>
    BY DEF GatewayRestarts, chatVars
  <1>2. LaneOK(row, commands, receipts, stale, proc) /\ call \in [Sends -> Call]
    BY DEF IInv, ChatOK, CallsOK
  <1>3. LaneOK(row, <<>>, <<>>, <<>>, proc)
    BY <1>2, EmptyStream
  <1>4. Live = Alive(row)
    BY DEF Live, Alive
  <1>5. RowsOK(row, chosen, tokens', peer')
    <2>1. tokens' \subseteq Alive(row)
      BY <1>1, <1>4
    <2>2. peer' \in Peers /\ \A e \in Execs : peer'[e] # "attached"
      BY <1>1 DEF Peers
    <2> QED
      BY <2>1, <2>2 DEF IInv, RowsOK
  <1>6. \A c \in Sends : /\ call'[c] \in Call /\ call'[c].at \notin Pending /\ call'[c].ws = call[c].ws
                         /\ call'[c].peer = call[c].peer
                         /\ call'[c].at \in Taken => call[c].at = call'[c].at
    <2> SUFFICES ASSUME NEW c \in Sends
                 PROVE  /\ call'[c] \in Call /\ call'[c].at \notin Pending /\ call'[c].ws = call[c].ws
                        /\ call'[c].peer = call[c].peer
                        /\ call'[c].at \in Taken => call[c].at = call'[c].at
      OBVIOUS
    <2>1. call[c] \in Call
      BY <1>2
    <2>2. CASE call[c].at \in Pending
      <3>1. call'[c] = [call[c] EXCEPT !.at = "over"]
        BY <1>1, <2>2
      <3>2. call'[c] \in Call /\ call'[c].at = "over" /\ call'[c].ws = call[c].ws /\ call'[c].peer = call[c].peer
        BY <2>1, <3>1 DEF Call
      <3> QED
        BY <3>2, AtFacts
    <2>3. CASE call[c].at \notin Pending
      BY <1>1, <2>1, <2>3
    <2> QED
      BY <2>2, <2>3
  <1>7. CallsOK(call', line')
    <2>1. PICK none : none = <<>>
      OBVIOUS
    <2>2. none \in Seq(Sends) /\ \A i : i \notin 1..Len(none)
      BY <2>1
    <2>3. call' \in [Sends -> Call]
      BY <1>1, <1>6
    <2>4. CallsOK(call', none)
      BY <1>6, <2>2, <2>3 DEF CallsOK
    <2> QED
      BY <1>1, <2>1, <2>4
  <1>8. ChatOK(session, chosen, locked, call', line', row)
    <2>1. HeadOK(session, call', line', row)
      BY <1>1 DEF HeadOK
    <2>2. RunsOK(chosen, locked, call', row)
      BY <1>6 DEF IInv, ChatOK, RunsOK
    <2> QED
      BY <1>6, <1>7, <2>1, <2>2 DEF IInv, ChatOK
  <1> QED
    BY <1>1, <1>3, <1>5, <1>8 DEF IInv

----------------------------------------------------------------------------
(* The invariant                                                           *)

LEMMA InitHolds == ASSUME Init PROVE IInv
  <1>1. /\ session = "open" /\ chosen = <<Home>> /\ touched = FALSE /\ locked = FALSE /\ active = None
        /\ call = [c \in Sends |-> [at |-> "new", ws |-> Home, row |-> None, peer |-> None]]
        /\ line = <<>> /\ row = [e \in Execs |-> [stage |-> "none", ws |-> Home]] /\ tokens = {}
        /\ peer = [e \in Execs |-> "none"] /\ link = TRUE /\ commands = <<>> /\ receipts = <<>> /\ stale = <<>>
        /\ proc = [e \in Execs |-> "none"]
    BY DEF Init
  <1>2. SessionOK(session, chosen, touched, locked, active)
    <2>1. chosen \in Seq(Choice) /\ chosen # <<>> /\ chosen[1] = Home
      BY <1>1, NamesApart
    <2>2. session \in {"open", "left", "deleted"} /\ touched \in BOOLEAN /\ locked \in BOOLEAN
          /\ active \in Sends \cup {None} /\ active = None
      BY <1>1
    <2> QED
      BY <2>1, <2>2 DEF SessionOK
  <1>3. \A c \in Sends : call[c] \in Call /\ call[c].at = "new" /\ call[c].ws = Home
    BY <1>1, NamesApart DEF Call
  <1>4. CallsOK(call, line)
    <2>1. line \in Seq(Sends) /\ \A i : i \notin 1..Len(line)
      BY <1>1
    <2>2. call \in [Sends -> Call]
      BY <1>1, <1>3
    <2> QED
      BY <1>3, <2>1, <2>2, AtFacts DEF CallsOK
  <1>5. ChatOK(session, chosen, locked, call, line, row)
    <2>1. \A c \in Sends : \E i \in 1..Len(chosen) : chosen[i] = call[c].ws
      BY <1>1, <1>3
    <2>2. HeadOK(session, call, line, row) /\ LockOK(session, chosen, locked, row)
      BY <1>1 DEF HeadOK, LockOK
    <2>3. RunsOK(chosen, locked, call, row)
      BY <1>3, AtFacts DEF RunsOK
    <2> QED
      BY <1>4, <2>1, <2>2, <2>3 DEF ChatOK
  <1>6. \A e \in Execs : row[e] \in Row /\ row[e].stage = "none" /\ row[e].ws = Home
    BY <1>1, NamesApart DEF Row, Dead
  <1>7. Alive(row) = {}
    BY <1>6 DEF Alive, Dead
  <1>8. RowsOK(row, chosen, tokens, peer)
    <2>1. row \in [Execs -> Row] /\ peer \in Peers /\ \A e \in Execs : peer[e] # "attached"
      BY <1>1, <1>6 DEF Peers
    <2> QED
      BY <1>1, <1>6, <1>7, <2>1 DEF RowsOK
  <1>9. LaneOK(row, commands, receipts, stale, proc)
    <2>1. PICK none : none = <<>>
      OBVIOUS
    <2>2. none \in Seq(Frames) /\ none \in Seq(Created \cup Deleted) /\ \A i : i \notin 1..Len(none)
      BY <2>1
    <2>3. proc \in Processes
      BY <1>1 DEF Processes
    <2>4. \A e \in Execs : ~Discharged(e, row, none, none)
      BY <1>6, <2>2 DEF Discharged
    <2>5. LaneOK(row, none, none, none, proc)
      BY <2>2, <2>3, <2>4 DEF LaneOK
    <2> QED
      BY <1>1, <2>1, <2>5
  <1> QED
    BY <1>1, <1>2, <1>5, <1>8, <1>9 DEF IInv

LEMMA NextKeeps == ASSUME IInv, [Next]_vars PROVE IInv'
  <1>1. CASE \E c \in Sends : Begin(c)
    BY <1>1, BeginKeeps
  <1>2. CASE Person
    BY <1>2, ConfigureKeeps, VisitKeeps, SendKeeps, SteerKeeps DEF Person
  <1>3. CASE Sweep \/ Lane
    BY <1>3, LaneKeeps, ReceiveKeeps DEF Lane
  <1>4. CASE Computer
    BY <1>4, RunnerTakesKeeps, RunnerDiesKeeps, BootsKeeps, PeerKeeps DEF Computer
  <1>5. CASE GatewayRestarts
    BY <1>5, RestartKeeps
  <1>6. CASE \E c \in Sends : Prepares(c)
    BY <1>6, LocalAnswersKeeps, ConfiguredKeeps, ModelsReadKeeps, ProfileReadKeeps, GivesUpKeeps, PollKeeps DEF Prepares
  <1>7. CASE UNCHANGED vars
    BY <1>7 DEF vars, chatVars, gateVars, laneVars, IInv
  <1> QED
    BY <1>1, <1>2, <1>3, <1>4, <1>5, <1>6, <1>7 DEF Next

\* In every behaviour, the chat, the line of its sends, the executions and the computer's
\* stream agree as the invariant says.
THEOREM InvariantHolds == Spec => []IInv
  <1>1. Init => IInv
    BY InitHolds
  <1>2. IInv /\ [Next]_vars => IInv'
    BY NextKeeps
  <1> QED
    BY <1>1, <1>2, PTL DEF Spec

----------------------------------------------------------------------------
(* A chat on its bot's own profile                                         *)

\* Sends are made in order, and the line keeps it.
OrderOK(cl, ln) ==
  /\ \A c, d \in Sends : c < d /\ cl[c].at = "new" => cl[d].at = "new"
  /\ \A i, j \in 1..Len(ln) : i < j => ln[i] < ln[j]

Returned(cl) ==
  \E c, d \in Sends :
    /\ c < d /\ cl[c].at = "turn" /\ cl[c].ws = Home
    /\ cl[d].at # "new" /\ cl[d].ws # Home

\* A chat locked to its own profile has no execution, prepares for none and steers to none.
ProfileOK(cl, rows) ==
  /\ Alive(rows) = {}
  /\ \A c \in Sends : cl[c].at \in Pending => cl[c].ws = Home
  /\ \A c \in Sends : cl[c].at = "steer" => cl[c].peer = Home

HomeOK(ch, to, lk, cl, ln, rows) ==
  /\ ~to => \A i \in 1..Len(ch) : ch[i] = Home
  /\ OrderOK(cl, ln)
  /\ lk /\ Last(ch) = Home /\ ~Returned(cl) => ProfileOK(cl, rows)

\* Sends go on or leave, without being made, admitted or joined to a turn.
Onward(cl, cl2) ==
  \A c \in Sends :
    /\ cl2[c].ws = cl[c].ws /\ (cl2[c].at = "new" <=> cl[c].at = "new")
    /\ (cl2[c].at = "turn" <=> cl[c].at = "turn")
    /\ cl2[c].at \in Pending => cl[c].at \in Pending
    /\ cl2[c].at = "steer" => cl[c].at = "steer" /\ cl2[c].peer = cl[c].peer

LEMMA ShorterLine ==
    ASSUME NEW cl, NEW ln, CallsOK(cl, ln), OrderOK(cl, ln), NEW ln2,
           ln2 = ln \/ (ln # <<>> /\ ln2 = Tail(ln)) \/ ln2 = <<>>
    PROVE  \A i, j \in 1..Len(ln2) : i < j => ln2[i] < ln2[j]
  <1>1. CASE ln2 = ln
    BY <1>1 DEF OrderOK
  <1>2. CASE ln2 = <<>>
    BY <1>2
  <1>3. CASE ln # <<>> /\ ln2 = Tail(ln)
    <2>1. PICK n : n = Len(ln)
      OBVIOUS
    <2>2. ln \in Seq(Sends) /\ n \in Nat \ {0}
      BY <1>3, <2>1 DEF CallsOK
    <2>3. Len(ln2) = n - 1 /\ \A i \in 1..(n - 1) : ln2[i] = ln[i + 1] /\ i + 1 \in 1..n
      BY <1>3, <2>1, <2>2
    <2>4. \A i, j \in 1..n : i < j => ln[i] < ln[j]
      BY <2>1 DEF OrderOK
    <2> SUFFICES ASSUME NEW i \in 1..(n - 1), NEW j \in 1..(n - 1), i < j PROVE ln2[i] < ln2[j]
      BY <2>3
    <2>5. i + 1 < j + 1
      OBVIOUS
    <2> QED
      BY <2>3, <2>4, <2>5
  <1> QED
    BY <1>1, <1>2, <1>3

LEMMA OnwardKeeps ==
    ASSUME NEW ch, NEW to, NEW lk, NEW cl, NEW ln, NEW rows, CallsOK(cl, ln), HomeOK(ch, to, lk, cl, ln, rows),
           NEW cl2, NEW ln2, NEW rows2, Onward(cl, cl2), ln2 = ln \/ (ln # <<>> /\ ln2 = Tail(ln)) \/ ln2 = <<>>,
           Alive(rows2) \subseteq Alive(rows)
    PROVE  HomeOK(ch, to, lk, cl2, ln2, rows2)
  <1>1. OrderOK(cl2, ln2)
    <2>1. \A i, j \in 1..Len(ln2) : i < j => ln2[i] < ln2[j]
      BY ShorterLine DEF HomeOK
    <2>2. \A c, d \in Sends : c < d /\ cl2[c].at = "new" => cl2[d].at = "new"
      BY DEF HomeOK, OrderOK, Onward
    <2> QED
      BY <2>1, <2>2 DEF OrderOK
  <1>2. Returned(cl) => Returned(cl2)
    BY DEF Returned, Onward
  <1>3. ProfileOK(cl, rows) => ProfileOK(cl2, rows2)
    BY DEF ProfileOK, Onward
  <1> QED
    BY <1>1, <1>2, <1>3 DEF HomeOK

\* One send is made: it changes, and the others before it have been made.
LEMMA MadeInOrder ==
    ASSUME NEW cl, NEW ln, OrderOK(cl, ln), NEW c \in Sends, \A d \in 1..(c - 1) : cl[d].at # "new",
           NEW cl2, cl2[c].at # "new", \A d \in Sends \ {c} : cl2[d] = cl[d]
    PROVE  \A d, e \in Sends : d < e /\ cl2[d].at = "new" => cl2[e].at = "new"
  <1> SUFFICES ASSUME NEW d \in Sends, NEW e \in Sends, d < e, cl2[d].at = "new" PROVE cl2[e].at = "new"
    OBVIOUS
  <1>1. d # c /\ cl[d].at = "new" /\ cl[e].at = "new"
    BY DEF OrderOK
  <1>2. e # c
    <2> SUFFICES ASSUME e = c PROVE FALSE
      OBVIOUS
    <2>1. d \in Nat /\ e \in Nat /\ d \in 1..(c - 1)
      BY ExecutionAssumption DEF Sends
    <2> QED
      BY <1>1, <2>1
  <1> QED
    BY <1>1, <1>2

\* What was steered while nothing had locked the chat: nothing.
LEMMA NoSteersYet ==
    ASSUME IInv, HomeOK(chosen, touched, locked, call, line, row), Workspace = Home,
           NEW cl2, Returned(call) => Returned(cl2), ~Returned(cl2),
           NEW d \in Sends, call[d].at = "steer"
    PROVE  call[d].peer = Home
  <1>1. locked
    BY AtFacts DEF IInv, ChatOK, RunsOK
  <1>2. ProfileOK(call, row)
    BY <1>1 DEF HomeOK, Workspace
  <1> QED
    BY <1>2 DEF ProfileOK

Homed == HomeOK(chosen, touched, locked, call, line, row)

LEMMA AdmitHomes ==
    ASSUME IInv, Homed, line # <<>>, NEW c, c = Head(line), NEW rows, RowsOK(rows, chosen, tokens, peer),
           Alive(rows) = Alive(row), session # "deleted" => \A e \in Alive(rows) : rows[e].ws = call[c].ws,
           Admit(c, rows), line' = Tail(line)
    PROVE  HomeOK(chosen', touched', locked', call', line', rows)
  <1>1. PICK to : to = ExecutionPeer(rows)
    OBVIOUS
  <1>2. c \in Sends /\ call[c].at \in Pending /\ call \in [Sends -> Call] /\ CallsOK(call, line)
    BY HeadFacts
  <1>3. CASE ~(session = "open" /\ Workspace = call[c].ws /\ active = None /\ Serves(to))
    <2>1. Refuse(c)
      BY <1>1, <1>3 DEF Admit
    <2>2. call' = [call EXCEPT ![c].at = "over"] /\ UNCHANGED <<session, chosen, touched, locked, active>>
      BY <2>1 DEF Refuse, Over, chatVars
    <2>3. Onward(call, call')
      BY <1>2, <2>2, AtFacts, ZenonT(60) DEF Onward, Call
    <2> QED
      BY <1>2, <2>2, <2>3, OnwardKeeps DEF Homed
  <1>4. CASE session = "open" /\ Workspace = call[c].ws /\ active = None /\ Serves(to)
    <2>1. /\ call' = [call EXCEPT ![c].at = "turn", ![c].peer = to] /\ locked' = TRUE
          /\ UNCHANGED <<session, chosen, touched>>
      BY <1>1, <1>4 DEF Admit
    <2>2. /\ call'[c].at = "turn" /\ call'[c].ws = call[c].ws
          /\ \A d \in Sends \ {c} : call'[d] = call[d]
      BY <1>2, <2>1 DEF Call
    <2>3. OrderOK(call, line)
      BY DEF Homed, HomeOK
    <2>4. OrderOK(call', line')
      <3>1. \A i, j \in 1..Len(line') : i < j => line'[i] < line'[j]
        <4>1. PICK rest : rest = Tail(line)
          OBVIOUS
        <4>2. \A i, j \in 1..Len(rest) : i < j => rest[i] < rest[j]
          BY <1>2, <2>3, <4>1, ShorterLine
        <4> QED
          BY <4>1, <4>2
      <3>2. \A d, e \in Sends : d < e /\ call'[d].at = "new" => call'[e].at = "new"
        <4>1. call[c].at # "new"
          BY <1>2, AtFacts
        <4> QED
          BY <2>2, <2>3, <4>1 DEF OrderOK
      <3> QED
        BY <3>1, <3>2 DEF OrderOK
    <2>5. ASSUME Workspace = Home, ~Returned(call') PROVE ProfileOK(call', rows)
      <3>1. Alive(rows) = {}
        <4> SUFFICES ASSUME NEW e \in Alive(rows) PROVE FALSE
          OBVIOUS
        <4>1. rows[e].ws \in Workspaces
          BY DEF RowsOK, Alive, Dead
        <4> QED
          BY <1>4, <2>5, <4>1, NamesApart
      <3>2. ASSUME NEW d \in Sends, call'[d].at \in Pending PROVE call'[d].ws = Home
        <4>1. d # c /\ call'[d] = call[d]
          BY <2>2, <3>2, AtFacts
        <4>2. PICK i \in 1..Len(line) : line[i] = d
          BY <1>2, <3>2, <4>1 DEF CallsOK
        <4>3. line[1] = c /\ 1 \in 1..Len(line) /\ 1 < i
          BY <1>2, <4>1, <4>2 DEF CallsOK
        <4>4. c < d
          BY <2>3, <4>2, <4>3 DEF OrderOK
        <4>5. call'[d].at # "new"
          BY <3>2, AtFacts
        <4> QED
          BY <1>2, <1>4, <2>2, <2>5, <4>4, <4>5 DEF Returned
      <3>3. Returned(call) => Returned(call')
        <4>1. call[c].at # "turn" /\ call[c].at # "new"
          BY <1>2, AtFacts
        <4> QED
          BY <2>2, <4>1 DEF Returned
      <3>4. ASSUME NEW d \in Sends, call'[d].at = "steer" PROVE call'[d].peer = Home
        <4>1. d # c /\ call'[d] = call[d]
          BY <2>2, <3>4
        <4>2. PICK cl2 : cl2 = call'
          OBVIOUS
        <4>3. (Returned(call) => Returned(cl2)) /\ ~Returned(cl2) /\ call[d].at = "steer"
          BY <2>5, <3>3, <3>4, <4>1, <4>2
        <4>4. HomeOK(chosen, touched, locked, call, line, row)
          BY DEF Homed
        <4> QED
          BY <2>5, <4>1, <4>3, <4>4, NoSteersYet
      <3> QED
        BY <3>1, <3>2, <3>4 DEF ProfileOK
    <2>6. ~touched => \A i \in 1..Len(chosen) : chosen[i] = Home
      BY DEF Homed, HomeOK
    <2> QED
      BY <2>1, <2>4, <2>5, <2>6 DEF HomeOK, Workspace
  <1> QED
    BY <1>3, <1>4

LEMMA SendHomes ==
    ASSUME IInv, Homed, NEW c \in Sends, Send(c)
    PROVE  Homed'
  <1>1. /\ call[c].at = "new" /\ UNCHANGED <<chosen, touched, row>> /\ \A d \in 1..(c - 1) : call[d].at # "new"
    BY DEF Send, chatVars, gateVars
  <1>2. OrderOK(call, line) /\ CallsOK(call, line) /\ call \in [Sends -> Call] /\ Chosen(chosen, call)
    BY <1>1, FirstSendFacts DEF Homed, HomeOK
  <1>3. CASE Workspace = Home /\ ~touched /\ Current(row) = None
    <2>1. /\ call' = [call EXCEPT ![c] = [@ EXCEPT !.at = "turn", !.ws = Home, !.peer = Home]]
          /\ locked' = TRUE /\ UNCHANGED line
      BY <1>3 DEF Send
    <2>2. /\ call'[c].at = "turn" /\ call'[c].ws = Home /\ \A d \in Sends \ {c} : call'[d] = call[d]
      BY <1>1, <1>2, <2>1 DEF Call
    <2>3. OrderOK(call', line')
      <3>1. \A d, e \in Sends : d < e /\ call'[d].at = "new" => call'[e].at = "new"
        <4>1. PICK cl2 : cl2 = call'
          OBVIOUS
        <4>2. cl2[c].at # "new" /\ \A d \in Sends \ {c} : cl2[d] = call[d]
          BY <2>2, <4>1
        <4>3. \A d, e \in Sends : d < e /\ cl2[d].at = "new" => cl2[e].at = "new"
          BY <1>1, <1>2, <4>2, MadeInOrder
        <4> QED
          BY <4>1, <4>3
      <3> QED
        BY <1>2, <2>1, <3>1 DEF OrderOK
    <2>4. ASSUME ~Returned(call') PROVE ProfileOK(call', row)
      <3>1. Alive(row) = {}
        <4> SUFFICES ASSUME NEW e \in Alive(row) PROVE FALSE
          OBVIOUS
        <4>1. \A f, g \in Alive(row) : f = g
          BY DEF IInv, RowsOK
        <4>2. Current(row) = e /\ e \in Execs
          BY <4>1, CurrentFacts DEF Alive
        <4> QED
          BY <1>3, <4>2, NamesApart
      <3>2. \A d \in Sends : call'[d].at \in Pending => call'[d].ws = Home
        <4>1. \A i \in 1..Len(chosen) : chosen[i] = Home
          BY <1>3 DEF Homed, HomeOK
        <4> QED
          BY <1>2, <2>2, <4>1, AtFacts DEF Chosen
      <3>3. Returned(call) => Returned(call')
        BY <1>1, <2>2 DEF Returned
      <3>4. ASSUME NEW d \in Sends, call'[d].at = "steer" PROVE call'[d].peer = Home
        <4>1. d # c /\ call'[d] = call[d]
          BY <2>2, <3>4
        <4>2. PICK cl2 : cl2 = call'
          OBVIOUS
        <4>3. (Returned(call) => Returned(cl2)) /\ ~Returned(cl2) /\ call[d].at = "steer"
          BY <2>4, <3>3, <3>4, <4>1, <4>2
        <4>4. HomeOK(chosen, touched, locked, call, line, row)
          BY DEF Homed
        <4> QED
          BY <1>3, <4>1, <4>3, <4>4, NoSteersYet
      <3> QED
        BY <3>1, <3>2, <3>4 DEF ProfileOK
    <2> QED
      BY <1>1, <2>3, <2>4 DEF Homed, HomeOK
  <1>4. CASE ~(Workspace = Home /\ ~touched /\ Current(row) = None)
    <2>1. /\ call' = [call EXCEPT ![c].at = "line", ![c].ws = Workspace] /\ line' = Append(line, c)
          /\ UNCHANGED locked
      BY <1>4 DEF Send, chatVars
    <2>2. /\ call'[c].at = "line" /\ call'[c].ws = Workspace /\ \A d \in Sends \ {c} : call'[d] = call[d]
      BY <1>1, <1>2, <2>1 DEF Call
    <2>3. OrderOK(call', line')
      <3>1. \A d, e \in Sends : d < e /\ call'[d].at = "new" => call'[e].at = "new"
        <4>1. PICK cl2 : cl2 = call'
          OBVIOUS
        <4>2. cl2[c].at # "new" /\ \A d \in Sends \ {c} : cl2[d] = call[d]
          BY <2>2, <4>1
        <4>3. \A d, e \in Sends : d < e /\ cl2[d].at = "new" => cl2[e].at = "new"
          BY <1>1, <1>2, <4>2, MadeInOrder
        <4> QED
          BY <4>1, <4>3
      <3>2. PICK n, new : n = Len(line) /\ new = Append(line, c)
        OBVIOUS
      <3>3. n \in Nat /\ line \in Seq(Sends)
        BY <1>2, <3>2 DEF CallsOK
      <3>4. Len(new) = n + 1 /\ new[n + 1] = c /\ \A i \in 1..n : new[i] = line[i]
        BY <3>2, <3>3
      <3>5. \A i \in 1..n : line[i] \in Sends /\ line[i] < c
        <4> SUFFICES ASSUME NEW i \in 1..n PROVE line[i] \in Sends /\ line[i] < c
          OBVIOUS
        <4>1. PICK d : d = line[i]
          OBVIOUS
        <4>2. d \in Sends /\ call[d].at # "new"
          BY <1>2, <3>2, <4>1, AtFacts DEF CallsOK
        <4>3. ~(c < d) /\ d # c
          BY <1>1, <1>2, <4>2 DEF OrderOK
        <4>4. d < c
          BY <4>2, <4>3, ExecutionAssumption DEF Sends
        <4> QED
          BY <4>1, <4>2, <4>4
      <3>6. \A i, j \in 1..(n + 1) : i < j => new[i] < new[j]
        <4> SUFFICES ASSUME NEW i \in 1..(n + 1), NEW j \in 1..(n + 1), i < j PROVE new[i] < new[j]
          OBVIOUS
        <4>1. i \in 1..n
          BY <3>3
        <4>2. CASE j = n + 1
          BY <3>4, <3>5, <4>1, <4>2
        <4>3. CASE j # n + 1
          <5>1. j \in 1..n
            BY <3>3, <4>3
          <5>2. line[i] < line[j]
            BY <1>2, <3>2, <4>1, <5>1 DEF OrderOK
          <5> QED
            BY <3>4, <4>1, <5>1, <5>2
        <4> QED
          BY <4>2, <4>3
      <3> QED
        BY <2>1, <3>1, <3>2, <3>4, <3>6 DEF OrderOK
    <2>4. Returned(call) => Returned(call')
      BY <1>1, <2>2 DEF Returned
    <2>5. Workspace = Home /\ ProfileOK(call, row) => ProfileOK(call', row)
      BY <1>1, <2>2, AtFacts DEF ProfileOK
    <2> QED
      BY <1>1, <2>1, <2>3, <2>4, <2>5 DEF Homed, HomeOK, Workspace
  <1> QED
    BY <1>3, <1>4

LEMMA SteerHomes ==
    ASSUME IInv, Homed, NEW c \in Sends, Steer(c)
    PROVE  Homed'
  <1>1. PICK to : to = ExecutionPeer(row)
    OBVIOUS
  <1>2. /\ call[c].at = "new" /\ UNCHANGED <<chosen, touched, locked, line, row>>
        /\ \A d \in 1..(c - 1) : call[d].at # "new"
    BY DEF Steer, chatVars, gateVars
  <1>3. call' = [call EXCEPT ![c] = IF ~Serves(to) THEN [@ EXCEPT !.at = "over"]
                                   ELSE [@ EXCEPT !.at = "steer", !.ws = Workspace, !.peer = to]]
    BY <1>1 DEF Steer
  <1>4. OrderOK(call, line) /\ call \in [Sends -> Call]
    BY <1>2, FirstSendFacts DEF Homed, HomeOK
  <1>5. /\ call'[c].at \in {"over", "steer"} /\ \A d \in Sends \ {c} : call'[d] = call[d]
        /\ call'[c].at = "steer" => call'[c].peer = to
    BY <1>2, <1>3, <1>4 DEF Call
  <1>6. OrderOK(call', line')
    <2>1. PICK cl2 : cl2 = call'
      OBVIOUS
    <2>2. cl2[c].at # "new" /\ \A d \in Sends \ {c} : cl2[d] = call[d]
      BY <1>5, <2>1
    <2>3. \A d, e \in Sends : d < e /\ cl2[d].at = "new" => cl2[e].at = "new"
      BY <1>2, <1>4, <2>2, MadeInOrder
    <2> QED
      BY <1>2, <1>4, <2>1, <2>3 DEF OrderOK
  <1>7. Returned(call) => Returned(call')
    BY <1>2, <1>5 DEF Returned
  <1>8. ProfileOK(call, row) => ProfileOK(call', row)
    <2>1. Alive(row) = {} => to = Home
      <3>1. \A e, f \in Alive(row) : e = f
        BY DEF IInv, RowsOK
      <3>2. Alive(row) = {} => Current(row) = None
        BY <3>1, CurrentFacts
      <3> QED
        BY <1>1, <3>2 DEF ExecutionPeer
    <2> QED
      BY <1>2, <1>5, <2>1, AtFacts DEF ProfileOK
  <1> QED
    BY <1>2, <1>6, <1>7, <1>8 DEF Homed, HomeOK

LEMMA PersonHomes ==
    ASSUME IInv, Homed, Person
    PROVE  Homed'
  <1>1. ASSUME NEW ws \in Choice, Configure(ws) PROVE Homed'
    <2>1. UNCHANGED <<locked, call, line, row>> /\ touched' = TRUE /\ (locked => chosen' = chosen)
      BY <1>1 DEF Configure, gateVars
    <2>2. CASE locked
      BY <2>1, <2>2 DEF Homed, HomeOK
    <2>3. CASE ~locked
      BY <2>1, <2>3 DEF Homed, HomeOK
    <2> QED
      BY <2>2, <2>3
  <1>2. CASE Leave \/ Return \/ DeleteSession \/ TurnEnds
    BY <1>2 DEF Leave, Return, DeleteSession, TurnEnds, gateVars, Homed
  <1> QED
    BY <1>1, <1>2, SendHomes, SteerHomes DEF Person

LEMMA BeginHomes ==
    ASSUME IInv, Homed, NEW c \in Sends, Begin(c)
    PROVE  Homed'
  <1>1. line # <<>> /\ c = Head(line) /\ call[c].at = "line"
    BY DEF Begin, Heads
  <1>2. c \in Sends /\ call[c].at \in Pending /\ call \in [Sends -> Call] /\ CallsOK(call, line)
    BY <1>1, HeadFacts
  <1>3. /\ \E at \in {"local", "models", "over"} : call' = [call EXCEPT ![c].at = at]
        /\ line' = line \/ line' = Tail(line)
        /\ UNCHANGED <<chosen, touched, locked>>
    BY DEF Begin, GoesOn, Refuse, Over, Leaves, chatVars
  <1>4. Onward(call, call')
    BY <1>2, <1>3, AtFacts DEF Onward, Call
  <1>5. Alive(row') \subseteq Alive(row)
    <2>1. row' = row \/ \E gone \in SUBSET Execs : row' = Retired(row, gone)
      <3>1. PICK e : e = Current(row)
        OBVIOUS
      <3>2. PICK gone : gone = IF e # None /\ row[e].ws # call[c].ws THEN {e} ELSE {}
        OBVIOUS
      <3>3. row' = row \/ row' = Retired(row, gone)
        BY <3>1, <3>2 DEF Begin, gateVars
      <3>4. gone \in SUBSET Execs
        <4>1. \A f, g \in Alive(row) : f = g
          BY DEF IInv, RowsOK
        <4>2. e = None \/ e \in Execs
          BY <3>1, <4>1, CurrentFacts DEF Alive
        <4> QED
          BY <3>2, <4>2
      <3> QED
        BY <3>3, <3>4
    <2> QED
      BY <2>1 DEF Alive, Retired, Dead, IInv, RowsOK, Row
  <1> QED
    BY <1>1, <1>2, <1>3, <1>4, <1>5, OnwardKeeps DEF Homed

Moved(c, at) ==
  /\ call'[c].at = at /\ call'[c].ws = call[c].ws
  /\ \A d \in Sends \ {c} : call'[d] = call[d]
After == {"profile", "waiting", "configuring", "over"}

LEMMA MovedFacts ==
    ASSUME call \in [Sends -> Call], NEW c \in Sends, NEW at \in After
    PROVE  /\ call' = [call EXCEPT ![c].at = at] => Moved(c, at)
           /\ \A e : call' = [call EXCEPT ![c].at = at, ![c].row = e] => Moved(c, at)
  <1>1. PICK old : old = call[c]
    OBVIOUS
  <1>2. old \in Call
    BY <1>1
  <1>3. ASSUME call' = [call EXCEPT ![c].at = at] PROVE Moved(c, at)
    <2>1. call'[c] = [old EXCEPT !.at = at] /\ \A d \in Sends \ {c} : call'[d] = call[d]
      BY <1>1, <1>3
    <2>2. call'[c].at = at /\ call'[c].ws = old.ws
      BY <1>2, <2>1 DEF Call
    <2> QED
      BY <1>1, <2>1, <2>2 DEF Moved
  <1>4. ASSUME NEW e, call' = [call EXCEPT ![c].at = at, ![c].row = e] PROVE Moved(c, at)
    <2>1. PICK mid : mid = [call EXCEPT ![c].at = at]
      OBVIOUS
    <2>2. /\ call' = [mid EXCEPT ![c].row = e] /\ DOMAIN mid = Sends
          /\ mid[c] = [old EXCEPT !.at = at] /\ \A d \in Sends \ {c} : mid[d] = call[d]
      BY <1>1, <1>4, <2>1
    <2>3. call'[c] = [mid[c] EXCEPT !.row = e] /\ \A d \in Sends \ {c} : call'[d] = call[d]
      BY <2>2
    <2>4. DOMAIN mid[c] = DOMAIN old /\ mid[c].at = at /\ mid[c].ws = old.ws
          /\ {"at", "ws", "row", "peer"} = DOMAIN old
      BY <1>2, <2>2 DEF Call
    <2>5. call'[c].at = at /\ call'[c].ws = old.ws
      BY <2>3, <2>4
    <2> QED
      BY <1>1, <2>3, <2>5 DEF Moved
  <1> QED
    BY <1>3, <1>4

\* The head gives up or goes on, over rows that do not change.
LEMMA MoveHomes ==
    ASSUME IInv, Homed, line # <<>>, NEW c, c = Head(line), UNCHANGED <<chosen, touched, locked>>,
           NEW at \in After, Moved(c, at),
           line' = line \/ line' = Tail(line), NEW rows, Alive(rows) \subseteq Alive(row)
    PROVE  HomeOK(chosen', touched', locked', call', line', rows)
  <1>1. c \in Sends /\ call[c].at \in Pending /\ call \in [Sends -> Call] /\ CallsOK(call, line)
    BY HeadFacts
  <1>2. at \notin {"new", "turn", "steer"} /\ call[c].at \notin {"new", "turn", "steer"}
    BY <1>1, AtFacts DEF After
  <1>3. Onward(call, call')
    BY <1>1, <1>2 DEF Onward, Moved
  <1> QED
    BY <1>1, <1>3, OnwardKeeps DEF Homed

LEMMA PreparesHomes ==
    ASSUME IInv, Homed, NEW c \in Sends, Prepares(c)
    PROVE  Homed'
  <1> "over" \in After /\ call \in [Sends -> Call]
    BY DEF After, IInv, ChatOK, CallsOK
  <1>1. ASSUME NEW prepared \in BOOLEAN, LocalAnswers(c, prepared) PROVE Homed'
    <2>1. Heads(c, "local") /\ line' = Tail(line) /\ UNCHANGED row /\ IF prepared THEN Admit(c, row) ELSE Refuse(c)
      BY <1>1 DEF LocalAnswers, Leaves, gateVars
    <2>2. line # <<>> /\ c = Head(line) /\ (session # "deleted" => \A e \in Alive(row) : row[e].ws = call[c].ws)
      BY <2>1, HeadKnows
    <2>3. CASE prepared
      <3>1. RowsOK(row, chosen, tokens, peer)
        BY DEF IInv
      <3> QED
        BY <2>1, <2>2, <2>3, <3>1, AdmitHomes DEF Homed
    <2>4. CASE ~prepared
      <3>1. call' = [call EXCEPT ![c].at = "over"] /\ UNCHANGED <<chosen, touched, locked>>
        BY <2>1, <2>4 DEF Refuse, Over, chatVars
      <3> QED
        BY <2>1, <2>2, <3>1, MovedFacts, MoveHomes DEF Homed
    <2> QED
      BY <2>3, <2>4
  <1>2. ASSUME NEW prepared \in BOOLEAN, Configured(c, prepared) PROVE Homed'
    <2>1. PICK e, ready : e = call[c].row /\ ready = [row EXCEPT ![e].stage = IF @ = "gone" THEN @ ELSE "ready"]
      OBVIOUS
    <2>2. /\ Heads(c, "configuring") /\ line' = Tail(line)
          /\ IF prepared /\ session # "deleted" THEN row' = ready /\ Admit(c, ready) ELSE Refuse(c) /\ UNCHANGED row
      BY <1>2, <2>1 DEF Configured, Leaves
    <2>3. /\ line # <<>> /\ c = Head(line)
          /\ session # "deleted" => /\ e \in Alive(row) /\ \A f \in Alive(row) : row[f].ws = call[c].ws
      BY <2>1, <2>2, HeadKnows
    <2>4. CASE prepared /\ session # "deleted"
      <3>1. row' = ready /\ Admit(c, ready) /\ e \in Execs /\ row[e].stage \notin Dead
        BY <2>2, <2>3, <2>4 DEF Alive
      <3>2. row \in [Execs -> Row]
        BY DEF IInv, RowsOK
      <3>3. /\ ready \in [Execs -> Row] /\ ready[e].stage = "ready" /\ ready[e].ws = row[e].ws
            /\ \A f \in Execs : f # e => ready[f] = row[f]
        BY <2>1, <3>1, <3>2 DEF Row, Dead
      <3>4. Alive(ready) = Alive(row) /\ \A f \in Execs : ready[f].ws = row[f].ws
        BY <3>1, <3>3 DEF Alive, Dead
      <3>5. Alike(session, row, ready)
        BY <3>1, <3>3, <3>4 DEF Alike, Dead
      <3>6. RowsOK(ready, chosen, tokens, peer)
        <4>1. RowsOK(row, chosen, tokens, peer)
          BY DEF IInv
        <4>2. tokens \in SUBSET Alive(ready) /\ peer \in Peers /\ \A f \in Execs : peer[f] = "attached" => f \in Alive(ready)
          BY <3>4, <4>1 DEF RowsOK
        <4> QED
          BY <3>5, <4>1, <4>2, AlikeRows
      <3>7. \A f \in Alive(ready) : ready[f].ws = call[c].ws
        BY <2>3, <2>4, <3>4 DEF Alive
      <3>8. HomeOK(chosen', touched', locked', call', line', ready)
        BY <2>2, <2>3, <3>1, <3>4, <3>6, <3>7, AdmitHomes
      <3> QED
        BY <3>1, <3>8 DEF Homed
    <2>5. CASE ~(prepared /\ session # "deleted")
      <3>1. call' = [call EXCEPT ![c].at = "over"] /\ UNCHANGED <<chosen, touched, locked, row>>
        BY <2>2, <2>5 DEF Refuse, Over, chatVars
      <3> QED
        BY <2>2, <2>3, <3>1, MovedFacts, MoveHomes DEF Homed
    <2> QED
      BY <2>4, <2>5
  <1>3. ASSUME ModelsRead(c) \/ ReadFails(c) \/ Poll(c) \/ TimesOut(c) PROVE Homed'
    <2>1. /\ line # <<>> /\ c = Head(line) /\ UNCHANGED <<chosen, touched, locked, row>>
          /\ line' = line \/ line' = Tail(line)
          /\ \E at \in After :
               \/ call' = [call EXCEPT ![c].at = at]
               \/ \E e : call' = [call EXCEPT ![c].at = at, ![c].row = e]
      <3>1. CASE ModelsRead(c)
        BY <3>1, LookFacts DEF ModelsRead, Heads, GoesOn, Goes, Refuse, Over, Leaves, chatVars, gateVars, After
      <3>2. CASE Poll(c)
        BY <3>2, LookFacts DEF Poll, Heads, Goes, chatVars, gateVars, After
      <3>3. CASE ReadFails(c) \/ TimesOut(c)
        BY <3>3 DEF ReadFails, TimesOut, Heads, Refuse, Over, Leaves, chatVars, gateVars
      <3> QED
        BY <1>3, <3>1, <3>2, <3>3
    <2>2. \E at \in After : Moved(c, at)
      <3>1. PICK at \in After : \/ call' = [call EXCEPT ![c].at = at]
                                \/ \E e : call' = [call EXCEPT ![c].at = at, ![c].row = e]
        BY <2>1
      <3>2. Moved(c, at)
        BY <3>1, MovedFacts
      <3> QED
        BY <3>2
    <2>3. HomeOK(chosen', touched', locked', call', line', row)
      BY <2>1, <2>2, MoveHomes
    <2> QED
      BY <2>1, <2>3 DEF Homed
  <1>4. ASSUME ProfileRead(c) PROVE Homed'
    <2>1. Heads(c, "profile")
      BY <1>4 DEF ProfileRead
    <2>2. /\ line # <<>> /\ c = Head(line) /\ c \in Sends /\ call[c].at = "profile"
          /\ session # "deleted" => call[c].ws # Home
      BY <2>1, HeadKnows
    <2>3. /\ line' = line \/ line' = Tail(line)
          /\ \E at \in After : Moved(c, at)
          /\ UNCHANGED <<chosen, touched, locked>> /\ (session = "deleted" => row' = row)
      <3>1. \E at \in After : \/ call' = [call EXCEPT ![c].at = at]
                              \/ \E e : call' = [call EXCEPT ![c].at = at, ![c].row = e]
        <4>1. CASE session = "deleted"
          BY <1>4, <4>1 DEF ProfileRead, Refuse, Over
        <4>2. CASE session # "deleted"
          BY <1>4, <4>2 DEF ProfileRead, Goes, After
        <4> QED
          BY <4>1, <4>2
      <3>2. \E at \in After : Moved(c, at)
        BY <3>1, MovedFacts
      <3> QED
        BY <1>4, <3>2 DEF ProfileRead, Goes, Refuse, Leaves, chatVars, gateVars
    <2>4. HomeOK(chosen', touched', locked', call', line', row)
      BY <2>2, <2>3, MoveHomes
    <2>5. CASE session = "deleted"
      BY <2>3, <2>4, <2>5 DEF Homed
    <2>6. CASE session # "deleted"
      <3>1. call[c].at \in Pending /\ call[c].ws # Home
        BY <2>2, <2>6, AtFacts
      <3>2. ~(locked /\ Last(chosen) = Home /\ ~Returned(call))
        BY <2>2, <3>1 DEF Homed, HomeOK, ProfileOK
      <3>3. Returned(call) => Returned(call')
        <4>1. /\ call'[c].ws = call[c].ws /\ call'[c].at # "new" /\ \A d \in Sends \ {c} : call'[d] = call[d]
          BY <2>3 DEF Moved, After
        <4> QED
          BY <2>2, <4>1 DEF Returned
      <3> QED
        BY <2>3, <2>4, <3>2, <3>3 DEF Homed, HomeOK
    <2> QED
      BY <2>5, <2>6
  <1> QED
    BY <1>1, <1>2, <1>3, <1>4 DEF Prepares

LEMMA OthersHome ==
    ASSUME IInv, Homed, Sweep \/ Lane \/ Computer
    PROVE  Homed'
  <1>1. UNCHANGED <<chosen, touched, locked, call, line>>
    BY DEF Sweep, Lane, Computer, Receive, ReceiveStale, StaleCloses, RunnerHello, RunnerSupersedes, RunnerCloses,
           RunnerTakes, RunnerDies, Boots, Dial, Hello, PeerDrops, chatVars
  <1>2. row \in [Execs -> Row] /\ LaneOK(row, commands, receipts, stale, proc)
    BY DEF IInv, RowsOK
  <1>3. Alive(row') \subseteq Alive(row)
    <2>1. CASE row' = row
      BY <2>1
    <2>2. CASE Sweep \/ RunnerHello \/ RunnerSupersedes
      <3>1. \E gone \in SUBSET Execs : row' = Retired(row, gone)
        BY <2>2 DEF Sweep, RunnerHello, RunnerSupersedes, Reconcile
      <3> QED
        BY <1>2, <3>1 DEF Alive, Retired, Dead, Row
    <2>3. ASSUME NEW r, row' = Received(row, r) PROVE Alive(row') \subseteq Alive(row)
      <3>1. PICK e : e = r.execution
        OBVIOUS
      <3>2. CASE e \in Execs
        BY <1>2, <2>3, <3>1, <3>2 DEF Received, Alive, Dead, Row
      <3>3. CASE e \notin Execs
        <4>1. \A f \in Execs : row'[f] = row[f]
          BY <1>2, <2>3, <3>1, <3>3 DEF Received
        <4> QED
          BY <4>1 DEF Alive
      <3> QED
        BY <3>2, <3>3
    <2>4. CASE Receive \/ ReceiveStale
      BY <2>3, <2>4 DEF Receive, ReceiveStale
    <2> QED
      BY <2>1, <2>2, <2>4
         DEF Sweep, Lane, Computer, StaleCloses, RunnerCloses, RunnerTakes, RunnerDies, Boots, Dial, Hello, PeerDrops, gateVars
  <1>4. Onward(call, call)
    BY DEF Onward
  <1>5. CallsOK(call, line)
    BY DEF IInv, ChatOK
  <1>6. HomeOK(chosen, touched, locked, call, line, row')
    BY <1>3, <1>4, <1>5, OnwardKeeps DEF Homed
  <1> QED
    BY <1>1, <1>6 DEF Homed

LEMMA RestartHomes ==
    ASSUME IInv, Homed, GatewayRestarts
    PROVE  Homed'
  <1>1. /\ UNCHANGED <<chosen, touched, locked, row>> /\ line' = <<>>
        /\ call' = [c \in Sends |-> IF call[c].at \in Pending THEN [call[c] EXCEPT !.at = "over"] ELSE call[c]]
    BY DEF GatewayRestarts, chatVars
  <1>2. call \in [Sends -> Call] /\ CallsOK(call, line)
    BY DEF IInv, ChatOK, CallsOK
  <1>3. Onward(call, call')
    <2> SUFFICES ASSUME NEW c \in Sends
                 PROVE  /\ call'[c].ws = call[c].ws /\ (call'[c].at = "new" <=> call[c].at = "new")
                        /\ (call'[c].at = "turn" <=> call[c].at = "turn")
                        /\ call'[c].at \in Pending => call[c].at \in Pending
                        /\ call'[c].at = "steer" => call[c].at = "steer" /\ call'[c].peer = call[c].peer
      BY DEF Onward
    <2>1. CASE call[c].at \notin Pending
      BY <1>1, <2>1
    <2>2. CASE call[c].at \in Pending
      <3>1. call'[c] = [call[c] EXCEPT !.at = "over"] /\ call[c] \in Call
        BY <1>1, <1>2, <2>2
      <3>2. call'[c].at = "over" /\ call'[c].ws = call[c].ws
        BY <3>1 DEF Call
      <3> QED
        BY <2>2, <3>2, AtFacts
    <2> QED
      BY <2>1, <2>2
  <1> QED
    BY <1>1, <1>2, <1>3, OnwardKeeps DEF Homed

LEMMA HomedKeeps == ASSUME IInv, Homed, [Next]_vars PROVE Homed'
  <1>1. CASE \E c \in Sends : Begin(c)
    BY <1>1, BeginHomes
  <1>2. CASE Person
    BY <1>2, PersonHomes
  <1>3. CASE Sweep \/ Lane \/ Computer
    BY <1>3, OthersHome
  <1>4. CASE GatewayRestarts
    BY <1>4, RestartHomes
  <1>5. CASE \E c \in Sends : Prepares(c)
    BY <1>5, PreparesHomes
  <1>6. CASE UNCHANGED vars
    BY <1>6 DEF vars, chatVars, gateVars, Homed
  <1> QED
    BY <1>1, <1>2, <1>3, <1>4, <1>5, <1>6 DEF Next

LEMMA InitHomes == ASSUME Init PROVE Homed
  <1>1. /\ chosen = <<Home>> /\ locked = FALSE /\ line = <<>>
        /\ call = [c \in Sends |-> [at |-> "new", ws |-> Home, row |-> None, peer |-> None]]
    BY DEF Init
  <1>2. OrderOK(call, line)
    BY <1>1 DEF OrderOK
  <1> QED
    BY <1>1, <1>2 DEF Homed, HomeOK

\* The words of a chat go where it is locked to: no preparation of native-data-plane.ts and
\* chat-executions.ts that outlives the choice it read admits a turn, and no steer takes
\* another way, unless the bot's own profile was given up and taken back while sends prepared.
THEOREM WordsGoWhereChosen == Spec => []RunsWhereChosen
  <1>1. Init => Homed
    BY InitHomes
  <1>2. IInv /\ Homed /\ [Next]_vars => Homed'
    BY HomedKeeps
  <1>3. ASSUME IInv, Homed PROVE RunsWhereChosen
    <2> SUFFICES ASSUME NEW c \in Sends, call[c].at \in Taken, ~(call[c].at = "steer" /\ TakenBack)
                 PROVE  GoesToWorkspace(c)
      BY DEF RunsWhereChosen
    <2>1. /\ locked /\ call[c].ws = Workspace
          /\ Workspace = Home /\ call[c].at = "turn" => call[c].peer = Home
          /\ Workspace # Home => call[c].peer \in Execs /\ row[call[c].peer].ws = Workspace
      BY <1>3 DEF IInv, ChatOK, RunsOK, Workspace
    <2>2. Workspace = Home /\ call[c].at = "steer" => call[c].peer = Home
      <3> SUFFICES ASSUME Workspace = Home, call[c].at = "steer" PROVE call[c].peer = Home
        OBVIOUS
      <3>1. ~Returned(call)
        BY DEF TakenBack, Returned
      <3> QED
        BY <1>3, <2>1, <3>1 DEF Homed, HomeOK, ProfileOK, Workspace
    <2> QED
      BY <2>1, <2>2, AtFacts DEF GoesToWorkspace
  <1> QED
    BY <1>1, <1>2, <1>3, InvariantHolds, PTL DEF Spec

\* A chat has one execution, only it is attached, and the row of storage.ts is released
\* only after the computer has ended the process.
THEOREM OneExecutionLives == Spec => []OneExecution
  <1>1. ASSUME IInv PROVE Cardinality(Live) <= 1
    <2>1. Live = Alive(row) /\ \A e, f \in Live : e = f
      BY <1>1 DEF IInv, RowsOK, Live, Alive
    <2>2. CASE Live = {}
      <3>1. Cardinality({}) = 0
        BY FS_EmptySet
      <3> QED
        BY <2>2, <3>1
    <2>3. CASE Live # {}
      <3>1. PICK e \in Live : TRUE
        BY <2>3
      <3>2. Live = {e}
        BY <2>1, <3>1
      <3>3. Cardinality({e}) = 1
        BY FS_Singleton
      <3> QED
        BY <3>2, <3>3
    <2> QED
      BY <2>2, <2>3
  <1>2. ASSUME IInv PROVE \A e \in Execs : peer[e] = "attached" => e \in Live
    BY <1>2 DEF IInv, RowsOK, Live, Alive
  <1>3. ASSUME IInv PROVE \A e \in Execs : proc[e] # "none" => row[e].stage # "gone"
    BY <1>3 DEF IInv, LaneOK, Discharged
  <1>4. IInv => OneExecution
    BY <1>1, <1>2, <1>3 DEF OneExecution
  <1> QED
    BY <1>4, InvariantHolds, PTL

\* Every variable keeps its type, and the sends in preparation are those in the line.
THEOREM TypeCorrect == Spec => []TypeOK
  <1>1. ASSUME IInv
        PROVE  /\ line \in Seq(Sends) /\ IsInjective(line)
               /\ \A c \in Sends : call[c].at \in Pending <=> Contains(line, c)
    <2>1. CallsOK(call, line)
      BY <1>1 DEF IInv, ChatOK
    <2>2. line \in Seq(Sends) /\ DOMAIN line = 1..Len(line)
      BY <2>1 DEF CallsOK
    <2>3. IsInjective(line)
      BY <2>1, <2>2 DEF CallsOK, IsInjective
    <2>4. \A c \in Sends : call[c].at \in Pending <=> \E i \in 1..Len(line) : line[i] = c
      BY <2>1 DEF CallsOK
    <2>5. \A c \in Sends : call[c].at \in Pending <=> Contains(line, c)
      BY <2>4 DEF Contains
    <2> QED
      BY <2>2, <2>3, <2>5
  <1>2. ASSUME IInv
        PROVE  /\ session \in {"open", "left", "deleted"} /\ chosen \in Seq(Choice) /\ chosen # <<>>
               /\ touched \in BOOLEAN /\ locked \in BOOLEAN /\ link \in BOOLEAN /\ active \in Sends \cup {None}
    BY <1>2 DEF IInv, SessionOK
  <1>3. ASSUME IInv PROVE call \in [Sends -> Call] /\ row \in [Execs -> Row] /\ peer \in Peers /\ proc \in Processes
    BY <1>3 DEF IInv, ChatOK, CallsOK, RowsOK, LaneOK
  <1>4. ASSUME IInv PROVE tokens \subseteq Execs
    BY <1>4 DEF IInv, RowsOK, Alive
  <1>5. IInv => TypeOK
    <2> SUFFICES ASSUME IInv PROVE TypeOK
      OBVIOUS
    <2>1. {touched, locked, link} \subseteq BOOLEAN
      BY <1>2
    <2> QED
      BY <1>1, <1>2, <1>3, <1>4, <2>1 DEF TypeOK, Call, Row, Peers, Processes
  <1> QED
    BY <1>5, InvariantHolds, PTL
=============================================================================
