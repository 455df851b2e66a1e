------------------------- MODULE TurnRunnerProofs -------------------------
(***************************************************************************)
(* Proofs about TurnRunner for any number of messages, replies, approvals  *)
(* and restarts.                                                           *)
(*                                                                         *)
(* The invariant rests on one fact: a message that waits for its turn, has *)
(* it, or was steered has an untouched turn of its own (Quiet).  So a turn *)
(* that is over never looks like one that may run, the streams speak only  *)
(* of turns that have begun, and a reply that is projected for the live    *)
(* turn is the first entry of its transcript.                              *)
(***************************************************************************)
EXTENDS TurnRunner, TLAPS, FiniteSetTheorems, SequenceTheorems

Commands == [kind : {"turn", "steer", "interrupt", "resolve_approval"}, turn : Turns,
             message : 0..MaxMessages, approval : Approvals \cup {"none"},
             decision : Decisions \cup {"none"}]
Events == [kind : {"commit", "failed", "interrupted", "approval"}, turn : Turns,
           reply : 0..MaxReplies, blocks : BOOLEAN, approval : Approvals \cup {"none"},
           status : Outcomes \cup {"pending", "none"}]
Asks == [Approvals -> [state : Outcomes \cup {"unasked", "waiting"}, turn : {NoTurn} \cup Turns]]
Settled == {<<"pending", outcome>> : outcome \in Outcomes}
Cards == {<<>>, <<"pending">>} \cup Settled

\* Nothing was appended for the turn, and nobody stopped or lost it.
Quiet(t, rec, sto, los) == rec[t] = <<>> /\ t \notin sto /\ t \notin los

\* A message waits for its turn, has it, or was steered: its own turn is quiet.
ThreadOK(sub, qu, inf, ste, rec, sto, los) ==
  /\ sub \in 0..MaxMessages /\ inf \in {NoTurn} \cup (1..sub)
  /\ qu \in Seq(1..sub) /\ \A i, j \in 1..Len(qu) : i < j => qu[i] < qu[j]
  /\ DOMAIN ste \subseteq 1..sub /\ \A m \in DOMAIN ste : ste[m] \in 1..sub
  /\ sto \subseteq 1..sub /\ los \subseteq 1..sub /\ rec \in [Turns -> Seq(Entry)]
  /\ \A t \in Turns : t > sub => Quiet(t, rec, sto, los)
  /\ inf # NoTurn => Quiet(inf, rec, sto, los) /\ inf \notin DOMAIN ste
  /\ \A i \in 1..Len(qu) : Quiet(qu[i], rec, sto, los) /\ qu[i] # inf /\ qu[i] \notin DOMAIN ste
  /\ \A m \in DOMAIN ste : Quiet(m, rec, sto, los)

\* The turns that have begun, and so the only ones the two streams speak of.
Begun == {t \in 1..submitted : t = inflight \/ ~Quiet(t, record, stopped, lost)}

CommandOK(c, beg, ste, sto) ==
  /\ c \in Commands /\ c.turn \in beg
  /\ c.kind = "turn" => c.message = c.turn
  /\ c.kind = "steer" => c.message \in DOMAIN ste /\ ste[c.message] = c.turn
  /\ c.kind = "interrupt" => c.turn \in sto
  /\ c.kind = "resolve_approval" => c.decision \in Decisions
OutboxOK(ob, beg, ste, sto) ==
  ob \in Seq(Commands) /\ \A i \in 1..Len(ob) : CommandOK(ob[i], beg, ste, sto)

EventOK(e, beg, sto, sd) ==
  /\ e \in Events /\ e.turn \in beg
  /\ IF e.kind = "commit" THEN e.reply \in 1..Len(sd[e.turn]) /\ sd[e.turn][e.reply] = e.blocks
                          ELSE e.reply = 0
  /\ e.kind = "interrupted" => e.turn \in sto
  /\ e.kind = "approval" => e.approval \in Approvals /\ e.status \in Outcomes \cup {"pending"}
SameReply(e, f) == /\ e.kind = "commit" /\ f.kind = "commit"
                   /\ e.turn = f.turn /\ e.reply = f.reply
InboxOK(ib, beg, sto, sd) ==
  /\ ib \in Seq(Events) /\ \A i \in 1..Len(ib) : EventOK(ib[i], beg, sto, sd)
  /\ \A i, j \in 1..Len(ib) : SameReply(ib[i], ib[j]) => i = j

\* The plugin acts on turns it was given, and words reached the turn they were meant for.
PeerOK(beg, sub, ste, sto, act, hel, sea, sti, hea) ==
  /\ act \in {NoTurn} \cup hel /\ hel \subseteq beg /\ sea \subseteq beg /\ sti \subseteq sto
  /\ \A pair \in hea : /\ pair[1] \in 1..sub
                       /\ pair[2] = IF pair[1] \in DOMAIN ste THEN ste[pair[1]] ELSE pair[1]

SaidOK(sd) == sd \in [Turns -> Seq(BOOLEAN)] /\ \A t \in Turns : Len(sd[t]) <= MaxReplies

\* What a turn's transcript holds was said, and is there twice only after a crash.
EntriesOK(rec, sd, sto, cra) ==
  /\ \A t \in Turns : \A i \in 1..Len(rec[t]) :
       /\ rec[t][i].reply \in 0..Len(sd[t])
       /\ rec[t][i].reply # 0 => rec[t][i].kind = "reply"
       /\ rec[t][i].kind = "interrupted" => t \in sto
  /\ \A t \in Turns : \A i, j \in 1..Len(rec[t]) :
       i # j /\ rec[t][i].reply = rec[t][j].reply /\ rec[t][i].reply # 0 =>
         t \in cra /\ rec[t][i].keyed # rec[t][j].keyed

InRecord(rec, t, n) == \E i \in 1..Len(rec[t]) : rec[t][i].reply = n
InInbox(ib, t, n) == \E k \in 1..Len(ib) : ib[k].turn = t /\ ib[k].reply = n

\* A reply with words is in the transcript or in the inbox, and in both only after a crash.
RepliesOK(rec, ib, sd, cra) ==
  /\ \A t \in Turns : \A n \in 1..Len(sd[t]) :
       sd[t][n] => InRecord(rec, t, n) \/ InInbox(ib, t, n)
  /\ \A k \in 1..Len(ib) :
       ib[k].kind = "commit" /\ InRecord(rec, ib[k].turn, ib[k].reply) => ib[k].turn \in cra

\* A card is announced once: its event is on its way, or it was shown and perhaps settled.
CardsOK(app, fra, inf, ask) ==
  /\ ask \in Asks /\ fra \in [Approvals -> Cards]
  /\ app \in Seq(ApprovalRecord) /\ Len(app) <= ApprovalMemory
  /\ \A i, j \in 1..Len(app) : app[i].id = app[j].id => i = j
  /\ \A i \in 1..Len(app) :
       IF app[i].state = "pending" THEN app[i].turn = inf /\ fra[app[i].id] = <<"pending">>
                                   ELSE fra[app[i].id] \in Settled
  /\ \A a \in Approvals : ask[a].state = "unasked" => fra[a] = <<>>

IsRequest(e) == e.kind = "approval" /\ e.status = "pending"
RequestsOK(fra, ib, ask) ==
  /\ \A k \in 1..Len(ib) :
       IsRequest(ib[k]) => ask[ib[k].approval].state # "unasked" /\ fra[ib[k].approval] = <<>>
  /\ \A k, l \in 1..Len(ib) :
       IsRequest(ib[k]) /\ IsRequest(ib[l]) /\ ib[k].approval = ib[l].approval => k = l

IInv ==
  /\ ThreadOK(submitted, queue, inflight, steered, record, stopped, lost)
  /\ OutboxOK(outbox, Begun, steered, stopped)
  /\ InboxOK(inbox, Begun, stopped, said)
  /\ PeerOK(Begun, submitted, steered, stopped, active, held, sealed, stopping, heard)
  /\ SaidOK(said)
  /\ EntriesOK(record, said, stopped, crashed)
  /\ RepliesOK(record, inbox, said, crashed)
  /\ CardsOK(approvals, frames, inflight, asks)
  /\ RequestsOK(frames, inbox, asks)
  /\ blocked \in BOOLEAN

------------------------------------------------------------------------------
(* Sequences.                                                                  *)

\* What the tail of a sequence holds.
LEMMA TailHolds ==
    ASSUME NEW S, NEW q \in Seq(S), q # <<>>
    PROVE  /\ Tail(q) \in Seq(S) /\ Len(q) \in Nat \ {0} /\ Len(Tail(q)) = Len(q) - 1
           /\ Head(q) = q[1] /\ 1 \in 1..Len(q) /\ Head(q) \in S
           /\ \A i \in 1..Len(Tail(q)) : i + 1 \in 1..Len(q) /\ Tail(q)[i] = q[i + 1]
           /\ \A i \in 1..Len(q) : i = 1 \/ (i - 1 \in 1..Len(Tail(q)) /\ Tail(q)[i - 1] = q[i])
  <1>1. Len(q) \in Nat \ {0}
    BY EmptySeq
  <1>2. /\ Tail(q) \in Seq(S) /\ Len(Tail(q)) = Len(q) - 1
        /\ \A i \in 1..Len(Tail(q)) : Tail(q)[i] = q[i + 1]
        /\ Head(q) \in S
    BY HeadTailProperties
  <1>3. Head(q) = q[1] /\ 1 \in 1..Len(q)
    BY <1>1
  <1>4. \A i \in 1..Len(Tail(q)) : i + 1 \in 1..Len(q)
    BY <1>1, <1>2
  <1>5. ASSUME NEW i \in 1..Len(q), i # 1
        PROVE  i - 1 \in 1..Len(Tail(q)) /\ Tail(q)[i - 1] = q[i]
    <2>1. i - 1 \in 1..Len(Tail(q)) /\ (i - 1) + 1 = i
      BY <1>1, <1>2, <1>5
    <2> QED
      BY <1>2, <2>1
  <1> QED
    BY <1>1, <1>2, <1>3, <1>4, <1>5

\* What a sequence holds after an element is appended to it.
LEMMA AppendHolds ==
    ASSUME NEW S, NEW q \in Seq(S), NEW e \in S
    PROVE  /\ Append(q, e) \in Seq(S) /\ Len(q) \in Nat /\ Len(Append(q, e)) = Len(q) + 1
           /\ \A i \in 1..Len(Append(q, e)) :
                (i \in 1..Len(q) /\ Append(q, e)[i] = q[i]) \/ (i = Len(q) + 1 /\ Append(q, e)[i] = e)
           /\ \A i \in 1..Len(q) : i \in 1..Len(Append(q, e)) /\ Append(q, e)[i] = q[i]
           /\ Len(q) + 1 \in 1..Len(Append(q, e)) /\ Append(q, e)[Len(q) + 1] = e
  <1>1. /\ Append(q, e) \in Seq(S) /\ Len(Append(q, e)) = Len(q) + 1
        /\ \A i \in 1..Len(q) : Append(q, e)[i] = q[i]
        /\ Append(q, e)[Len(q) + 1] = e
    BY AppendProperties
  <1>2. Len(q) \in Nat
    BY LenProperties
  <1>3. \A i \in 1..Len(Append(q, e)) : i \in 1..Len(q) \/ i = Len(q) + 1
    BY <1>1, <1>2
  <1> QED
    BY <1>1, <1>2, <1>3

\* A turn's transcript after at most one entry is appended to it.
LEMMA ConcatHolds ==
    ASSUME NEW S, NEW q \in Seq(S), NEW e \in S
    PROVE  q \o <<e>> = Append(q, e) /\ q \o <<>> = q /\ Append(q, e) # <<>>
  BY AppendIsConcat, ConcatEmptySeq, AppendProperties

LEMMA RangeHolds ==
    ASSUME NEW S, NEW q \in Seq(S), NEW x
    PROVE  x \in Range(q) <=> \E i \in 1..Len(q) : q[i] = x
  BY RangeEquality

------------------------------------------------------------------------------
(* What a step may do to the turns, and what that leaves true of the streams   *)
(* and of the plugin.                                                          *)

\* A turn that has begun stays begun: its entries stay, and so do the marks on it.
SettledKept ==
  /\ submitted <= submitted'
  /\ \A t \in Turns : record[t] # <<>> => record'[t] # <<>>
  /\ stopped \subseteq stopped' /\ lost \subseteq lost'
  /\ inflight # NoTurn => inflight' = inflight \/ ~Quiet(inflight, record', stopped', lost')

\* A steer stays what it was, and only a new message becomes one.
SteersKept ==
  /\ \A m \in DOMAIN steered : m \in DOMAIN steered' /\ steered'[m] = steered[m]
  /\ \A m \in DOMAIN steered' : m \in DOMAIN steered \/ m > submitted

LEMMA ThreadTypes ==
    ASSUME ThreadOK(submitted, queue, inflight, steered, record, stopped, lost)
    PROVE  /\ MaxMessages \in Nat /\ MaxReplies \in Nat /\ submitted \in 0..MaxMessages
           /\ Begun \subseteq 1..submitted /\ Begun \subseteq Turns /\ 1..submitted \subseteq Turns
           /\ NoTurn \notin Begun /\ NoTurn \notin Turns
           /\ (inflight # NoTurn => inflight \in Begun)
           /\ \A t \in Begun : t \notin DOMAIN steered
           /\ \A t \in Begun : t # inflight => ~Quiet(t, record, stopped, lost)
  <1>1. /\ MaxMessages \in Nat /\ MaxReplies \in Nat /\ submitted \in 0..MaxMessages
        /\ inflight \in {NoTurn} \cup (1..submitted)
        /\ (inflight # NoTurn => inflight \notin DOMAIN steered)
        /\ \A m \in DOMAIN steered : Quiet(m, record, stopped, lost)
    BY ConstantsAssumption DEF ThreadOK
  <1>2. /\ Begun \subseteq 1..submitted /\ 1..submitted \subseteq Turns
        /\ NoTurn \notin Turns
    BY <1>1 DEF Begun, Turns, Messages, NoTurn
  <1>3. inflight # NoTurn => inflight \in Begun
    BY <1>1 DEF Begun
  <1>4. \A t \in Begun : t \notin DOMAIN steered
    <2> SUFFICES ASSUME NEW t \in Begun PROVE t \notin DOMAIN steered
      OBVIOUS
    <2>1. CASE t = inflight
      BY <1>1, <1>2, <2>1
    <2>2. CASE t # inflight
      BY <1>1, <2>2 DEF Begun
    <2> QED
      BY <2>1, <2>2
  <1>5. \A t \in Begun : t # inflight => ~Quiet(t, record, stopped, lost)
    BY DEF Begun
  <1> QED
    BY <1>1, <1>2, <1>3, <1>4, <1>5

LEMMA BegunGrows ==
    ASSUME ThreadOK(submitted, queue, inflight, steered, record, stopped, lost),
           submitted' \in Nat, SettledKept
    PROVE  Begun \subseteq Begun'
  <1> SUFFICES ASSUME NEW t \in Begun PROVE t \in Begun'
    OBVIOUS
  <1>1. t \in 1..submitted /\ t \in Turns /\ submitted \in Nat /\ NoTurn \notin Begun
    BY ThreadTypes
  <1>2. t \in 1..submitted'
    BY <1>1 DEF SettledKept
  <1>3. t = inflight' \/ ~Quiet(t, record', stopped', lost')
    <2>1. CASE t = inflight
      BY <1>1, <2>1 DEF SettledKept
    <2>2. CASE t # inflight
      <3>1. record[t] # <<>> \/ t \in stopped \/ t \in lost
        BY <2>2, ThreadTypes DEF Quiet
      <3> QED
        BY <1>1, <3>1 DEF SettledKept, Quiet
    <2> QED
      BY <2>1, <2>2
  <1> QED
    BY <1>2, <1>3 DEF Begun

LEMMA CommandKeeps ==
    ASSUME NEW c, NEW beg, NEW beg2, NEW ste, NEW ste2, NEW sto, NEW sto2,
           CommandOK(c, beg, ste, sto), beg \subseteq beg2, sto \subseteq sto2,
           \A m \in DOMAIN ste : m \in DOMAIN ste2 /\ ste2[m] = ste[m]
    PROVE  CommandOK(c, beg2, ste2, sto2)
  BY DEF CommandOK

LEMMA OutboxKeeps ==
    ASSUME OutboxOK(outbox, Begun, steered, stopped), Begun \subseteq Begun',
           stopped \subseteq stopped', SteersKept
    PROVE  /\ outbox' = outbox => OutboxOK(outbox', Begun', steered', stopped')
           /\ outbox # <<>> /\ outbox' = Tail(outbox) => OutboxOK(outbox', Begun', steered', stopped')
           /\ \A c : CommandOK(c, Begun', steered', stopped') /\ outbox' = Append(outbox, c) =>
                OutboxOK(outbox', Begun', steered', stopped')
  <1>1. outbox \in Seq(Commands) /\ \A i \in 1..Len(outbox) : CommandOK(outbox[i], Begun, steered, stopped)
    BY DEF OutboxOK
  <1>2. \A m \in DOMAIN steered : m \in DOMAIN steered' /\ steered'[m] = steered[m]
    BY DEF SteersKept
  <1>3. \A i \in 1..Len(outbox) : CommandOK(outbox[i], Begun', steered', stopped')
    BY <1>1, <1>2, CommandKeeps
  <1>4. ASSUME outbox' = outbox PROVE OutboxOK(outbox', Begun', steered', stopped')
    BY <1>1, <1>3, <1>4 DEF OutboxOK
  <1>5. ASSUME outbox # <<>>, outbox' = Tail(outbox) PROVE OutboxOK(outbox', Begun', steered', stopped')
    <2>1. /\ outbox' \in Seq(Commands)
          /\ \A i \in 1..Len(outbox') : i + 1 \in 1..Len(outbox) /\ outbox'[i] = outbox[i + 1]
      BY <1>1, <1>5, TailHolds
    <2>2. \A i \in 1..Len(outbox') : CommandOK(outbox'[i], Begun', steered', stopped')
      BY <1>3, <2>1
    <2> QED
      BY <2>1, <2>2 DEF OutboxOK
  <1>6. ASSUME NEW c, CommandOK(c, Begun', steered', stopped'), outbox' = Append(outbox, c)
        PROVE  OutboxOK(outbox', Begun', steered', stopped')
    <2>1. c \in Commands
      BY <1>6 DEF CommandOK
    <2>2. /\ outbox' \in Seq(Commands)
          /\ \A i \in 1..Len(outbox') : (i \in 1..Len(outbox) /\ outbox'[i] = outbox[i]) \/ outbox'[i] = c
      BY <1>1, <1>6, <2>1, AppendHolds
    <2>3. \A i \in 1..Len(outbox') : CommandOK(outbox'[i], Begun', steered', stopped')
      BY <1>3, <1>6, <2>2
    <2> QED
      BY <2>2, <2>3 DEF OutboxOK
  <1> QED
    BY <1>4, <1>5, <1>6

LEMMA PeerIdles ==
    ASSUME PeerOK(Begun, submitted, steered, stopped, active, held, sealed, stopping, heard),
           Begun \subseteq Begun', stopped \subseteq stopped', SteersKept,
           submitted \in Nat, submitted' \in Nat, submitted <= submitted',
           UNCHANGED <<active, held, sealed, stopping, heard>>
    PROVE  PeerOK(Begun', submitted', steered', stopped', active', held', sealed', stopping', heard')
  <1>1. /\ active \in {NoTurn} \cup held /\ held \subseteq Begun /\ sealed \subseteq Begun
        /\ stopping \subseteq stopped
    BY DEF PeerOK
  <1>2. ASSUME NEW pair \in heard
        PROVE  /\ pair[1] \in 1..submitted'
               /\ pair[2] = IF pair[1] \in DOMAIN steered' THEN steered'[pair[1]] ELSE pair[1]
    <2>1. /\ pair[1] \in 1..submitted
          /\ pair[2] = IF pair[1] \in DOMAIN steered THEN steered[pair[1]] ELSE pair[1]
      BY DEF PeerOK
    <2>2. pair[1] \in 1..submitted' /\ ~(pair[1] > submitted)
      BY <2>1
    <2>3. pair[1] \in DOMAIN steered <=> pair[1] \in DOMAIN steered'
      BY <2>2 DEF SteersKept
    <2> QED
      BY <2>1, <2>2, <2>3 DEF SteersKept
  <1> QED
    BY <1>1, <1>2 DEF PeerOK

LEMMA InboxKeeps ==
    ASSUME InboxOK(inbox, Begun, stopped, said), Begun \subseteq Begun',
           stopped \subseteq stopped', said' = said
    PROVE  /\ inbox' = inbox => InboxOK(inbox', Begun', stopped', said')
           /\ inbox # <<>> /\ inbox' = Tail(inbox) => InboxOK(inbox', Begun', stopped', said')
  <1>1. /\ inbox \in Seq(Events) /\ \A i \in 1..Len(inbox) : EventOK(inbox[i], Begun, stopped, said)
        /\ \A i, j \in 1..Len(inbox) : SameReply(inbox[i], inbox[j]) => i = j
    BY DEF InboxOK
  <1>2. \A i \in 1..Len(inbox) : EventOK(inbox[i], Begun', stopped', said')
    BY <1>1 DEF EventOK
  <1>3. ASSUME inbox' = inbox PROVE InboxOK(inbox', Begun', stopped', said')
    BY <1>1, <1>2, <1>3 DEF InboxOK
  <1>4. ASSUME inbox # <<>>, inbox' = Tail(inbox) PROVE InboxOK(inbox', Begun', stopped', said')
    <2>1. /\ inbox' \in Seq(Events)
          /\ \A i \in 1..Len(inbox') : i + 1 \in 1..Len(inbox) /\ inbox'[i] = inbox[i + 1]
      BY <1>1, <1>4, TailHolds
    <2>2. \A i \in 1..Len(inbox') : EventOK(inbox'[i], Begun', stopped', said')
      BY <1>2, <2>1
    <2>3. \A i, j \in 1..Len(inbox') : SameReply(inbox'[i], inbox'[j]) => i = j
      <3> SUFFICES ASSUME NEW i \in 1..Len(inbox'), NEW j \in 1..Len(inbox'), SameReply(inbox'[i], inbox'[j])
                   PROVE  i = j
        OBVIOUS
      <3>1. i + 1 = j + 1
        BY <1>1, <2>1
      <3> QED
        BY <3>1
    <2> QED
      BY <2>1, <2>2, <2>3 DEF InboxOK
  <1> QED
    BY <1>3, <1>4

------------------------------------------------------------------------------
(* What the plugin puts into the inbox.                                        *)

\* An event that is neither a reply nor a request for an approval.
LEMMA EmitKeeps ==
    ASSUME NEW e, EventOK(e, Begun, stopped, said), e.kind # "commit", ~IsRequest(e),
           InboxOK(inbox, Begun, stopped, said), RepliesOK(record, inbox, said, crashed),
           RequestsOK(frames, inbox, asks), Emits(e)
    PROVE  /\ InboxOK(inbox', Begun, stopped, said) /\ RepliesOK(record, inbox', said, crashed)
           /\ RequestsOK(frames, inbox', asks)
  <1>1. CASE e.turn \in sealed
    BY <1>1 DEF Emits
  <1>2. CASE e.turn \notin sealed
    <2>1. inbox \in Seq(Events) /\ e \in Events /\ inbox' = Append(inbox, e)
      BY <1>2 DEF InboxOK, EventOK, Emits
    <2>2. /\ inbox' \in Seq(Events)
          /\ \A i \in 1..Len(inbox') : (i \in 1..Len(inbox) /\ inbox'[i] = inbox[i]) \/ inbox'[i] = e
          /\ \A i \in 1..Len(inbox) : i \in 1..Len(inbox') /\ inbox'[i] = inbox[i]
      BY <2>1, AppendHolds
    <2>3. InboxOK(inbox', Begun, stopped, said)
      <3>1. \A i \in 1..Len(inbox') : EventOK(inbox'[i], Begun, stopped, said)
        BY <2>2 DEF InboxOK
      <3>2. \A i, j \in 1..Len(inbox') : SameReply(inbox'[i], inbox'[j]) => i = j
        BY <2>2 DEF InboxOK, SameReply
      <3> QED
        BY <2>2, <3>1, <3>2 DEF InboxOK
    <2>4. RepliesOK(record, inbox', said, crashed)
      <3>1. \A t, n : InInbox(inbox, t, n) => InInbox(inbox', t, n)
        BY <2>2 DEF InInbox
      <3>2. \A k \in 1..Len(inbox') : inbox'[k].kind = "commit" => k \in 1..Len(inbox) /\ inbox'[k] = inbox[k]
        BY <2>2
      <3> QED
        BY <3>1, <3>2 DEF RepliesOK
    <2>5. RequestsOK(frames, inbox', asks)
      <3>1. \A k \in 1..Len(inbox') : IsRequest(inbox'[k]) => k \in 1..Len(inbox) /\ inbox'[k] = inbox[k]
        BY <2>2
      <3> QED
        BY <3>1 DEF RequestsOK
    <2> QED
      BY <2>3, <2>4, <2>5
  <1> QED
    BY <1>1, <1>2

\* A request for an approval that was never asked for.
LEMMA RequestKeeps ==
    ASSUME NEW t \in Begun, NEW a \in Approvals, asks[a].state = "unasked",
           ThreadOK(submitted, queue, inflight, steered, record, stopped, lost),
           InboxOK(inbox, Begun, stopped, said), RepliesOK(record, inbox, said, crashed),
           CardsOK(approvals, frames, inflight, asks), RequestsOK(frames, inbox, asks),
           asks' = [asks EXCEPT ![a] = [state |-> "waiting", turn |-> t]],
           Emits(ApprovalEvent(t, a, "pending"))
    PROVE  /\ InboxOK(inbox', Begun, stopped, said) /\ RepliesOK(record, inbox', said, crashed)
           /\ CardsOK(approvals, frames, inflight, asks') /\ RequestsOK(frames, inbox', asks')
  <1> DEFINE e == ApprovalEvent(t, a, "pending")
  <1>1. /\ e.kind = "approval" /\ e.turn = t /\ e.reply = 0 /\ e.approval = a /\ e.status = "pending"
        /\ e \in Events
    <2>1. t \in Turns /\ 0 \in 0..MaxReplies
      BY ThreadTypes
    <2> QED
      BY <2>1 DEF Events, ApprovalEvent, EventRecord
  <1>2. EventOK(e, Begun, stopped, said) /\ e.kind # "commit"
    <2> HIDE DEF e
    <2> QED
      BY <1>1 DEF EventOK
  <1>3. /\ asks \in Asks /\ frames[a] = <<>>
        /\ \A b \in Approvals : asks[b].state = "unasked" => frames[b] = <<>>
    BY DEF CardsOK
  <1>4. asks' \in Asks /\ asks'[a].state = "waiting" /\ \A b \in Approvals : b # a => asks'[b] = asks[b]
    <2>1. [state |-> "waiting", turn |-> t] \in [state : Outcomes \cup {"unasked", "waiting"}, turn : {NoTurn} \cup Turns]
      BY ThreadTypes
    <2> QED
      BY <1>3, <2>1 DEF Asks
  <1>5. CardsOK(approvals, frames, inflight, asks')
    <2>1. \A b \in Approvals : asks'[b].state = "unasked" => frames[b] = <<>>
      BY <1>3, <1>4
    <2> QED
      BY <1>4, <2>1 DEF CardsOK
  <1>6. inbox \in Seq(Events) /\ \A k \in 1..Len(inbox) : EventOK(inbox[k], Begun, stopped, said)
    BY DEF InboxOK
  <1>7. \A k \in 1..Len(inbox) : IsRequest(inbox[k]) =>
          /\ inbox[k].approval \in Approvals /\ inbox[k].approval # a
          /\ asks'[inbox[k].approval].state # "unasked" /\ frames[inbox[k].approval] = <<>>
    <2> SUFFICES ASSUME NEW k \in 1..Len(inbox), IsRequest(inbox[k])
                 PROVE  /\ inbox[k].approval \in Approvals /\ inbox[k].approval # a
                        /\ asks'[inbox[k].approval].state # "unasked" /\ frames[inbox[k].approval] = <<>>
      OBVIOUS
    <2>1. inbox[k].approval \in Approvals
      BY <1>6 DEF EventOK, IsRequest
    <2>2. asks[inbox[k].approval].state # "unasked" /\ frames[inbox[k].approval] = <<>>
      BY DEF RequestsOK
    <2> QED
      BY <1>4, <2>1, <2>2
  <1> HIDE DEF e
  <1>8. CASE t \in sealed
    <2>1. inbox' = inbox
      BY <1>1, <1>8 DEF Emits, e
    <2>2. RequestsOK(frames, inbox', asks')
      BY <1>7, <2>1 DEF RequestsOK
    <2> QED
      BY <1>5, <2>1, <2>2
  <1>9. CASE t \notin sealed
    <2>1. inbox' = Append(inbox, e)
      BY <1>1, <1>9 DEF Emits, e
    <2>2. /\ inbox' \in Seq(Events)
          /\ \A i \in 1..Len(inbox') :
               (i \in 1..Len(inbox) /\ inbox'[i] = inbox[i]) \/ (i = Len(inbox) + 1 /\ inbox'[i] = e)
          /\ \A i \in 1..Len(inbox) : i \in 1..Len(inbox') /\ inbox'[i] = inbox[i]
      BY <1>1, <1>6, <2>1, AppendHolds
    <2>3. InboxOK(inbox', Begun, stopped, said)
      <3>1. \A i \in 1..Len(inbox') : EventOK(inbox'[i], Begun, stopped, said)
        BY <1>2, <1>6, <2>2
      <3>2. \A i, j \in 1..Len(inbox') : SameReply(inbox'[i], inbox'[j]) => i = j
        BY <1>2, <2>2 DEF InboxOK, SameReply
      <3> QED
        BY <2>2, <3>1, <3>2 DEF InboxOK
    <2>4. RepliesOK(record, inbox', said, crashed)
      <3>1. \A s, n : InInbox(inbox, s, n) => InInbox(inbox', s, n)
        BY <2>2 DEF InInbox
      <3>2. \A k \in 1..Len(inbox') : inbox'[k].kind = "commit" => k \in 1..Len(inbox) /\ inbox'[k] = inbox[k]
        BY <1>2, <2>2
      <3> QED
        BY <3>1, <3>2 DEF RepliesOK
    <2>5. RequestsOK(frames, inbox', asks')
      <3>1. \A k \in 1..Len(inbox') : IsRequest(inbox'[k]) =>
              asks'[inbox'[k].approval].state # "unasked" /\ frames[inbox'[k].approval] = <<>>
        BY <1>1, <1>3, <1>4, <1>7, <2>2
      <3>2. \A k, l \in 1..Len(inbox') :
              IsRequest(inbox'[k]) /\ IsRequest(inbox'[l]) /\ inbox'[k].approval = inbox'[l].approval => k = l
        <4>1. \A k, l \in 1..Len(inbox) :
                IsRequest(inbox[k]) /\ IsRequest(inbox[l]) /\ inbox[k].approval = inbox[l].approval => k = l
          BY DEF RequestsOK
        <4> QED
          BY <1>1, <1>7, <2>2, <4>1, SMTT(30)
      <3> QED
        BY <3>1, <3>2 DEF RequestsOK
    <2> QED
      BY <1>5, <2>3, <2>4, <2>5
  <1> QED
    BY <1>8, <1>9

\* The agent says one more thing for a turn, and the spool journals it.
LEMMA SayKeeps ==
    ASSUME NEW t \in Begun, NEW blocks \in BOOLEAN, Len(said[t]) < MaxReplies,
           ThreadOK(submitted, queue, inflight, steered, record, stopped, lost),
           InboxOK(inbox, Begun, stopped, said), SaidOK(said), EntriesOK(record, said, stopped, crashed),
           RepliesOK(record, inbox, said, crashed), RequestsOK(frames, inbox, asks),
           Says(t, blocks)
    PROVE  /\ InboxOK(inbox', Begun, stopped, said') /\ SaidOK(said')
           /\ EntriesOK(record, said', stopped, crashed)
           /\ RepliesOK(record, inbox', said', crashed) /\ RequestsOK(frames, inbox', asks)
  <1> DEFINE n == Len(said[t]) + 1
             e == CommitEvent(t, n, blocks)
  <1>1. /\ t \in Turns /\ MaxReplies \in Nat /\ said \in [Turns -> Seq(BOOLEAN)]
        /\ \A s \in Turns : Len(said[s]) \in Nat /\ Len(said[s]) <= MaxReplies
    <2>1. t \in Turns /\ MaxReplies \in Nat
      BY ThreadTypes
    <2>2. said \in [Turns -> Seq(BOOLEAN)] /\ \A s \in Turns : Len(said[s]) <= MaxReplies
      BY DEF SaidOK
    <2>3. \A s \in Turns : Len(said[s]) \in Nat
      BY <2>2, LenProperties
    <2> QED
      BY <2>1, <2>2, <2>3
  <1>2. n \in 1..MaxReplies
    BY <1>1
  <1>3. /\ e.kind = "commit" /\ e.turn = t /\ e.reply = n /\ e.blocks = blocks /\ e \in Events
    <2> HIDE DEF n
    <2>1. n \in 0..MaxReplies
      BY <1>1, <1>2
    <2> QED
      BY <1>1, <2>1 DEF Events, CommitEvent, EventRecord
  <1>4. CASE t \in sealed
    <2>1. said' = said /\ inbox' = inbox
      BY <1>3, <1>4 DEF Says, Emits
    <2> QED
      BY <2>1
  <1>5. CASE t \notin sealed
    <2>1. said' = [said EXCEPT ![t] = Append(@, blocks)] /\ inbox' = Append(inbox, e)
      BY <1>3, <1>5 DEF Says, Emits
    <2>2. /\ said'[t] \in Seq(BOOLEAN) /\ Len(said'[t]) = n /\ said'[t][n] = blocks
          /\ \A i \in 1..Len(said[t]) : said'[t][i] = said[t][i]
          /\ \A i \in 1..n : i \in 1..Len(said[t]) \/ i = n
      <3>1. said'[t] = Append(said[t], blocks) /\ said[t] \in Seq(BOOLEAN)
        BY <1>1, <2>1
      <3>2. \A i \in 1..n : i \in 1..Len(said[t]) \/ i = n
        BY <1>1
      <3> QED
        BY <3>1, <3>2, AppendHolds
    <2>3. \A s \in Turns : s # t => said'[s] = said[s]
      BY <1>1, <2>1
    <2>4. said' \in [Turns -> Seq(BOOLEAN)]
      BY <1>1, <2>1, <2>2
    <2>5. \A s \in Turns : Len(said'[s]) \in Nat /\ Len(said[s]) <= Len(said'[s])
                           /\ \A i \in 1..Len(said[s]) : said'[s][i] = said[s][i]
      <3> SUFFICES ASSUME NEW s \in Turns
                   PROVE  Len(said'[s]) \in Nat /\ Len(said[s]) <= Len(said'[s])
                          /\ \A i \in 1..Len(said[s]) : said'[s][i] = said[s][i]
        OBVIOUS
      <3>1. CASE s = t
        BY <1>1, <2>2, <3>1
      <3>2. CASE s # t
        BY <1>1, <2>3, <3>2
      <3> QED
        BY <3>1, <3>2
    <2>6. SaidOK(said')
      <3>1. \A s \in Turns : Len(said'[s]) <= MaxReplies
        BY <1>1, <1>2, <2>2, <2>3
      <3> QED
        BY <2>4, <3>1 DEF SaidOK
    <2> HIDE DEF n, e
    <2>7. EntriesOK(record, said', stopped, crashed)
      <3>1. ASSUME NEW s \in Turns, NEW i \in 1..Len(record[s])
            PROVE  /\ record[s][i].reply \in 0..Len(said'[s])
                   /\ record[s][i].reply # 0 => record[s][i].kind = "reply"
                   /\ record[s][i].kind = "interrupted" => s \in stopped
        <4>1. /\ record[s][i].reply \in 0..Len(said[s])
              /\ record[s][i].reply # 0 => record[s][i].kind = "reply"
              /\ record[s][i].kind = "interrupted" => s \in stopped
          BY DEF EntriesOK
        <4>2. record[s][i].reply \in 0..Len(said'[s])
          BY <1>1, <2>5, <4>1
        <4> QED
          BY <4>1, <4>2
      <3> QED
        BY <3>1 DEF EntriesOK
    <2>8. inbox \in Seq(Events) /\ \A k \in 1..Len(inbox) : EventOK(inbox[k], Begun, stopped, said)
      BY DEF InboxOK
    <2>9. /\ inbox' \in Seq(Events)
          /\ \A k \in 1..Len(inbox') :
               (k \in 1..Len(inbox) /\ inbox'[k] = inbox[k]) \/ (k = Len(inbox) + 1 /\ inbox'[k] = e)
          /\ \A k \in 1..Len(inbox) : k \in 1..Len(inbox') /\ inbox'[k] = inbox[k]
          /\ Len(inbox) + 1 \in 1..Len(inbox') /\ inbox'[Len(inbox) + 1] = e
      BY <1>3, <2>1, <2>8, AppendHolds
    <2>10. \A k \in 1..Len(inbox) : EventOK(inbox[k], Begun, stopped, said')
      <3> SUFFICES ASSUME NEW k \in 1..Len(inbox) PROVE EventOK(inbox[k], Begun, stopped, said')
        OBVIOUS
      <3>1. EventOK(inbox[k], Begun, stopped, said)
        BY <2>8
      <3>2. inbox[k].turn \in Turns
        BY <3>1, ThreadTypes DEF EventOK
      <3>3. inbox[k].kind = "commit" =>
              inbox[k].reply \in 1..Len(said'[inbox[k].turn])
              /\ said'[inbox[k].turn][inbox[k].reply] = inbox[k].blocks
        <4> SUFFICES ASSUME inbox[k].kind = "commit"
                     PROVE  inbox[k].reply \in 1..Len(said'[inbox[k].turn])
                            /\ said'[inbox[k].turn][inbox[k].reply] = inbox[k].blocks
          OBVIOUS
        <4>1. inbox[k].reply \in 1..Len(said[inbox[k].turn])
              /\ said[inbox[k].turn][inbox[k].reply] = inbox[k].blocks
          BY <3>1 DEF EventOK
        <4>2. inbox[k].reply \in 1..Len(said'[inbox[k].turn])
          BY <1>1, <2>5, <3>2, <4>1
        <4> QED
          BY <2>5, <3>2, <4>1, <4>2
      <3> QED
        BY <3>1, <3>3 DEF EventOK
    <2>11. EventOK(e, Begun, stopped, said')
      <3>1. n \in 1..n
        BY <1>2
      <3> QED
        BY <1>3, <2>2, <3>1 DEF EventOK
    <2>12. InboxOK(inbox', Begun, stopped, said')
      <3>1. \A k \in 1..Len(inbox') : EventOK(inbox'[k], Begun, stopped, said')
        BY <2>9, <2>10, <2>11
      <3>2. \A k \in 1..Len(inbox) : ~SameReply(inbox[k], e) /\ ~SameReply(e, inbox[k])
        <4> SUFFICES ASSUME NEW k \in 1..Len(inbox), inbox[k].kind = "commit", inbox[k].turn = t,
                            inbox[k].reply = n
                     PROVE  FALSE
          BY <1>3 DEF SameReply
        <4>1. n \in 1..Len(said[t])
          BY <2>8 DEF EventOK
        <4> QED
          BY <1>1, <4>1 DEF n
      <3>3. \A k, l \in 1..Len(inbox) : SameReply(inbox[k], inbox[l]) => k = l
        BY DEF InboxOK
      <3>4. \A k, l \in 1..Len(inbox') : SameReply(inbox'[k], inbox'[l]) => k = l
        BY <2>9, <3>2, <3>3
      <3> QED
        BY <2>9, <3>1, <3>4 DEF InboxOK
    <2>13. RepliesOK(record, inbox', said', crashed)
      <3>1. ASSUME NEW s \in Turns, NEW i \in 1..Len(said'[s]), said'[s][i]
            PROVE  InRecord(record, s, i) \/ InInbox(inbox', s, i)
        <4>1. CASE s = t /\ i = n
          BY <1>3, <2>9, <4>1 DEF InInbox
        <4>2. CASE ~(s = t /\ i = n)
          <5>1. i \in 1..Len(said[s]) /\ said[s][i]
            BY <2>2, <2>3, <3>1, <4>2
          <5>2. InRecord(record, s, i) \/ InInbox(inbox, s, i)
            BY <5>1 DEF RepliesOK
          <5> QED
            BY <2>9, <5>2 DEF InInbox
        <4> QED
          BY <4>1, <4>2
      <3>2. ASSUME NEW k \in 1..Len(inbox'), inbox'[k].kind = "commit",
                   InRecord(record, inbox'[k].turn, inbox'[k].reply)
            PROVE  inbox'[k].turn \in crashed
        <4>1. CASE k \in 1..Len(inbox) /\ inbox'[k] = inbox[k]
          BY <3>2, <4>1 DEF RepliesOK
        <4>2. CASE inbox'[k] = e
          <5>1. PICK i \in 1..Len(record[t]) : record[t][i].reply = n
            BY <1>3, <3>2, <4>2 DEF InRecord
          <5>2. n \in 0..Len(said[t])
            BY <1>1, <5>1 DEF EntriesOK
          <5> QED
            BY <1>1, <5>2 DEF n
        <4> QED
          BY <2>9, <4>1, <4>2
      <3> QED
        BY <3>1, <3>2 DEF RepliesOK
    <2>14. RequestsOK(frames, inbox', asks)
      <3>1. \A k \in 1..Len(inbox') : IsRequest(inbox'[k]) => k \in 1..Len(inbox) /\ inbox'[k] = inbox[k]
        BY <1>3, <2>9 DEF IsRequest
      <3> QED
        BY <3>1 DEF RequestsOK
    <2> QED
      BY <2>6, <2>7, <2>12, <2>13, <2>14
  <1> QED
    BY <1>4, <1>5

\* The bound on all replies bounds the replies of each turn.
LEMMA RepliesAreFew ==
    ASSUME NEW t \in Turns, SaidOK(said), RepliesSaid < MaxReplies
    PROVE  Len(said[t]) < MaxReplies
  <1> DEFINE All == {pair \in Turns \X (1..MaxReplies) : pair[2] <= Len(said[pair[1]])}
             Mine == {t} \X (1..Len(said[t]))
  <1>1. MaxMessages \in Nat /\ MaxReplies \in Nat
    BY ConstantsAssumption
  <1>2. Len(said[t]) \in Nat /\ Len(said[t]) <= MaxReplies
    BY LenProperties DEF SaidOK
  <1>3. IsFiniteSet(1..MaxReplies) /\ IsFiniteSet(Turns)
    BY <1>1, FS_Interval DEF Turns, Messages
  <1>4. IsFiniteSet(Turns \X (1..MaxReplies))
    BY <1>3, FS_Product
  <1>5. All \subseteq Turns \X (1..MaxReplies)
    OBVIOUS
  <1>6. IsFiniteSet(All)
    BY <1>4, <1>5, FS_Subset
  <1>7. Mine \subseteq All
    BY <1>1, <1>2
  <1>8. IsFiniteSet({t}) /\ Cardinality({t}) = 1
    BY FS_Singleton
  <1>9. IsFiniteSet(1..Len(said[t])) /\ Cardinality(1..Len(said[t])) = Len(said[t])
    <2> DEFINE m == Len(said[t])
    <2>1. m \in Nat
      BY <1>2
    <2> HIDE DEF m
    <2>2. /\ IsFiniteSet(1..m)
          /\ Cardinality(1..m) = IF 1 > m THEN 0 ELSE m - 1 + 1
      BY <2>1, FS_Interval
    <2>3. IsFiniteSet(1..m) /\ Cardinality(1..m) = m
      BY <2>1, <2>2
    <2> QED
      BY <2>3 DEF m
  <1>10. Cardinality(Mine) = 1 * Len(said[t])
    <2> DEFINE A == {t}
               B == 1..Len(said[t])
    <2>1. IsFiniteSet(A) /\ IsFiniteSet(B) /\ Cardinality(A) = 1 /\ Cardinality(B) = Len(said[t])
      BY <1>8, <1>9
    <2> HIDE DEF A, B
    <2>2. Cardinality(A \X B) = Cardinality(A) * Cardinality(B)
      BY <2>1, FS_Product
    <2> QED
      BY <2>1, <2>2 DEF A, B
  <1>11. Cardinality(Mine) <= Cardinality(All) /\ Cardinality(All) \in Nat
    <2> HIDE DEF Mine, All
    <2> QED
      BY <1>6, <1>7, FS_Subset, FS_CardinalityType
  <1>12. RepliesSaid = Cardinality(All)
    BY DEF RepliesSaid
  <1> HIDE DEF All, Mine
  <1> QED
    BY <1>1, <1>2, <1>10, <1>11, <1>12

------------------------------------------------------------------------------
(* The actions of the plugin.                                                  *)

AgentStep == UNCHANGED <<gatewayMemory, gatewayDisk, frames, stopped, lost, crashed>>

LEMMA AgentKeeps ==
    ASSUME IInv, AgentStep, OutboxOK(outbox', Begun, steered, stopped),
           InboxOK(inbox', Begun, stopped, said'),
           PeerOK(Begun, submitted, steered, stopped, active', held', sealed', stopping', heard'),
           SaidOK(said'), EntriesOK(record, said', stopped, crashed),
           RepliesOK(record, inbox', said', crashed),
           CardsOK(approvals, frames, inflight, asks'), RequestsOK(frames, inbox', asks')
    PROVE  IInv'
  <1>1. /\ submitted' = submitted /\ queue' = queue /\ inflight' = inflight /\ steered' = steered
        /\ record' = record /\ stopped' = stopped /\ lost' = lost /\ approvals' = approvals
        /\ frames' = frames /\ crashed' = crashed /\ blocked' = blocked
    BY DEF AgentStep, gatewayMemory, gatewayDisk
  <1>2. Begun' = Begun
    BY <1>1 DEF Begun
  <1>3. ThreadOK(submitted, queue, inflight, steered, record, stopped, lost) /\ blocked \in BOOLEAN
    BY DEF IInv
  <1> QED
    BY <1>1, <1>2, <1>3 DEF IInv

\* What the plugin takes from the outbox is a command for a turn that has begun.
LEMMA TakenCommand ==
    ASSUME IInv, NEW kind, Takes(kind)
    PROVE  /\ OutboxOK(outbox', Begun, steered, stopped)
           /\ CommandOK(Head(outbox), Begun, steered, stopped) /\ Head(outbox).kind = kind
  <1>1. outbox \in Seq(Commands) /\ \A i \in 1..Len(outbox) : CommandOK(outbox[i], Begun, steered, stopped)
    BY DEF IInv, OutboxOK
  <1>2. outbox # <<>> /\ outbox' = Tail(outbox) /\ Head(outbox).kind = kind
    BY DEF Takes
  <1>3. /\ outbox' \in Seq(Commands) /\ Head(outbox) = outbox[1] /\ 1 \in 1..Len(outbox)
        /\ \A i \in 1..Len(outbox') : i + 1 \in 1..Len(outbox) /\ outbox'[i] = outbox[i + 1]
    BY <1>1, <1>2, TailHolds
  <1> QED
    BY <1>1, <1>2, <1>3 DEF OutboxOK

\* What the invariant says to the plugin's actions.
LEMMA AgentFacts ==
    ASSUME IInv
    PROVE  /\ ThreadOK(submitted, queue, inflight, steered, record, stopped, lost)
           /\ OutboxOK(outbox, Begun, steered, stopped)
           /\ InboxOK(inbox, Begun, stopped, said) /\ SaidOK(said)
           /\ PeerOK(Begun, submitted, steered, stopped, active, held, sealed, stopping, heard)
           /\ EntriesOK(record, said, stopped, crashed) /\ RepliesOK(record, inbox, said, crashed)
           /\ CardsOK(approvals, frames, inflight, asks) /\ RequestsOK(frames, inbox, asks)
           /\ Begun \subseteq 1..submitted /\ Begun \subseteq Turns /\ 1..submitted \subseteq Turns
           /\ NoTurn \notin Begun /\ NoTurn \notin held
           /\ active \in {NoTurn} \cup held /\ held \subseteq Begun
           /\ sealed \subseteq Begun /\ stopping \subseteq stopped
  <1>1. ThreadOK(submitted, queue, inflight, steered, record, stopped, lost)
    BY DEF IInv
  <1>2. /\ Begun \subseteq 1..submitted /\ Begun \subseteq Turns /\ 1..submitted \subseteq Turns
        /\ NoTurn \notin Begun
    BY <1>1, ThreadTypes
  <1>3. /\ active \in {NoTurn} \cup held /\ held \subseteq Begun
        /\ sealed \subseteq Begun /\ stopping \subseteq stopped
    BY DEF IInv, PeerOK
  <1> QED
    BY <1>2, <1>3 DEF IInv

LEMMA TakeTurnKeeps ==
    ASSUME IInv, TakeTurn
    PROVE  IInv'
  <1> DEFINE c == Head(outbox)
  <1>1. AgentStep /\ UNCHANGED <<inbox, sealed, stopping, asks, said>>
    BY DEF TakeTurn, AgentStep, history
  <1>2. /\ OutboxOK(outbox', Begun, steered, stopped) /\ CommandOK(c, Begun, steered, stopped)
        /\ c.kind = "turn"
    BY TakenCommand DEF TakeTurn
  <1>3. /\ active' = c.turn /\ held' = held \cup {c.turn}
        /\ heard' = heard \cup {<<c.message, c.turn>>}
    BY DEF TakeTurn
  <1>4. c.turn \in Begun /\ c.message = c.turn
    BY <1>2 DEF CommandOK
  <1>5. c.turn \in 1..submitted /\ c.turn \notin DOMAIN steered
    BY <1>4, AgentFacts, ThreadTypes
  <1> HIDE DEF c
  <1>6. PeerOK(Begun, submitted, steered, stopped, active', held', sealed', stopping', heard')
    <2>1. /\ held \subseteq Begun /\ sealed \subseteq Begun /\ stopping \subseteq stopped
          /\ \A pair \in heard : /\ pair[1] \in 1..submitted
                                 /\ pair[2] = IF pair[1] \in DOMAIN steered THEN steered[pair[1]] ELSE pair[1]
      BY AgentFacts DEF PeerOK
    <2>2. ASSUME NEW pair \in heard'
          PROVE  /\ pair[1] \in 1..submitted
                 /\ pair[2] = IF pair[1] \in DOMAIN steered THEN steered[pair[1]] ELSE pair[1]
      <3>1. CASE pair \in heard
        BY <2>1, <3>1
      <3>2. CASE pair = <<c.message, c.turn>>
        BY <1>4, <1>5, <3>2
      <3> QED
        BY <1>3, <3>1, <3>2
    <2> QED
      BY <1>1, <1>3, <1>4, <2>1, <2>2 DEF PeerOK
  <1> QED
    BY <1>1, <1>2, <1>6, AgentFacts, AgentKeeps

LEMMA TakeSteerKeeps ==
    ASSUME IInv, TakeSteer
    PROVE  IInv'
  <1> DEFINE c == Head(outbox)
  <1>1. AgentStep /\ UNCHANGED <<inbox, active, held, sealed, stopping, asks, said>>
    BY DEF TakeSteer, AgentStep, history
  <1>2. /\ OutboxOK(outbox', Begun, steered, stopped) /\ CommandOK(c, Begun, steered, stopped)
        /\ c.kind = "steer"
    BY TakenCommand DEF TakeSteer
  <1>3. heard' = heard \cup {<<c.message, c.turn>>}
    BY DEF TakeSteer, IsHeld
  <1>4. c.message \in DOMAIN steered /\ steered[c.message] = c.turn
    BY <1>2 DEF CommandOK
  <1>5. c.message \in 1..submitted
    BY <1>4, AgentFacts DEF ThreadOK
  <1> HIDE DEF c
  <1>6. PeerOK(Begun, submitted, steered, stopped, active', held', sealed', stopping', heard')
    <2>1. /\ active \in {NoTurn} \cup held /\ held \subseteq Begun /\ sealed \subseteq Begun
          /\ stopping \subseteq stopped
          /\ \A pair \in heard : /\ pair[1] \in 1..submitted
                                 /\ pair[2] = IF pair[1] \in DOMAIN steered THEN steered[pair[1]] ELSE pair[1]
      BY AgentFacts DEF PeerOK
    <2>2. ASSUME NEW pair \in heard'
          PROVE  /\ pair[1] \in 1..submitted
                 /\ pair[2] = IF pair[1] \in DOMAIN steered THEN steered[pair[1]] ELSE pair[1]
      <3>1. CASE pair \in heard
        BY <2>1, <3>1
      <3>2. CASE pair = <<c.message, c.turn>>
        BY <1>4, <1>5, <3>2
      <3> QED
        BY <1>3, <3>1, <3>2
    <2> QED
      BY <1>1, <2>1, <2>2 DEF PeerOK
  <1> QED
    BY <1>1, <1>2, <1>6, AgentFacts, AgentKeeps

\* The plugin's own bookkeeping: what it runs, sealed and is stopping.
LEMMA PeerMoves ==
    ASSUME IInv, active' \in {NoTurn} \cup held', held' \subseteq held, sealed' \subseteq Begun,
           stopping' \subseteq stopped, heard' = heard
    PROVE  PeerOK(Begun, submitted, steered, stopped, active', held', sealed', stopping', heard')
  BY DEF IInv, PeerOK

LEMMA CleanupMoves ==
    ASSUME NEW t, active \in {NoTurn} \cup held, Cleanup(t)
    PROVE  active' \in {NoTurn} \cup held' /\ held' \subseteq held
  BY DEF Cleanup

LEMMA TerminalOK ==
    ASSUME IInv, NEW t \in Begun, NEW kind \in {"failed", "interrupted"},
           kind = "interrupted" => t \in stopped
    PROVE  /\ EventOK(TerminalEvent(t, kind), Begun, stopped, said)
           /\ TerminalEvent(t, kind).kind # "commit" /\ ~IsRequest(TerminalEvent(t, kind))
           /\ TerminalEvent(t, kind).turn = t
  <1> DEFINE e == TerminalEvent(t, kind)
  <1>1. /\ e.kind = kind /\ e.turn = t /\ e.reply = 0 /\ e \in Events
    <2>1. t \in Turns /\ 0 \in 0..MaxReplies
      BY AgentFacts, ThreadTypes
    <2> QED
      BY <2>1 DEF Events, TerminalEvent, EventRecord
  <1> HIDE DEF e
  <1>2. EventOK(e, Begun, stopped, said) /\ e.kind # "commit" /\ ~IsRequest(e)
    BY <1>1 DEF EventOK, IsRequest
  <1> QED
    BY <1>1, <1>2 DEF e

LEMMA RefuseFrameKeeps ==
    ASSUME IInv, RefuseFrame
    PROVE  IInv'
  <1> DEFINE t == Head(outbox).turn
             e == TerminalEvent(t, "failed")
  <1>1. AgentStep /\ UNCHANGED <<active, held, stopping, asks, heard, said>>
    BY DEF RefuseFrame, AgentStep, history
  <1>2. OutboxOK(outbox', Begun, steered, stopped) /\ t \in Begun
    BY TakenCommand DEF RefuseFrame, CommandOK
  <1>3. Emits(e) /\ sealed' = sealed \cup {t}
    BY DEF RefuseFrame
  <1> HIDE DEF t
  <1>4. EventOK(e, Begun, stopped, said) /\ e.kind # "commit" /\ ~IsRequest(e)
    BY <1>2, TerminalOK
  <1> HIDE DEF e
  <1>5. /\ InboxOK(inbox', Begun, stopped, said) /\ RepliesOK(record, inbox', said, crashed)
        /\ RequestsOK(frames, inbox', asks)
    BY <1>3, <1>4, AgentFacts, EmitKeeps
  <1>6. PeerOK(Begun, submitted, steered, stopped, active', held', sealed', stopping', heard')
    BY <1>1, <1>2, <1>3, AgentFacts, PeerMoves
  <1> QED
    BY <1>1, <1>2, <1>5, <1>6, AgentFacts, AgentKeeps

LEMMA TakeInterruptKeeps ==
    ASSUME IInv, TakeInterrupt
    PROVE  IInv'
  <1>1. AgentStep /\ UNCHANGED <<inbox, active, held, sealed, asks, heard, said>>
    BY DEF TakeInterrupt, AgentStep, history
  <1>2. OutboxOK(outbox', Begun, steered, stopped) /\ active \in stopped
    BY TakenCommand DEF TakeInterrupt, CommandOK, IsHeld
  <1>3. stopping' = stopping \cup {active}
    BY DEF TakeInterrupt
  <1>4. PeerOK(Begun, submitted, steered, stopped, active', held', sealed', stopping', heard')
    BY <1>1, <1>2, <1>3, AgentFacts, PeerMoves
  <1> QED
    BY <1>1, <1>2, <1>4, AgentFacts, AgentKeeps

LEMMA SealInterruptedKeeps ==
    ASSUME IInv, SealInterrupted
    PROVE  IInv'
  <1>1. AgentStep /\ UNCHANGED <<outbox, asks, heard, said>>
    BY DEF SealInterrupted, AgentStep, history
  <1>2. PICK t \in stopping :
          /\ stopping' = stopping \ {t}
          /\ IF active = t
             THEN /\ Emits(TerminalEvent(t, "interrupted"))
                  /\ sealed' = sealed \cup {t}
                  /\ Cleanup(t)
             ELSE UNCHANGED <<inbox, active, held, sealed>>
    BY DEF SealInterrupted
  <1>3. stopping' \subseteq stopped /\ t \in stopped /\ t \in 1..submitted
    BY <1>2, AgentFacts DEF ThreadOK
  <1>4. CASE active = t
    <2> DEFINE e == TerminalEvent(t, "interrupted")
    <2>1. Emits(e) /\ sealed' = sealed \cup {t} /\ Cleanup(t)
      BY <1>2, <1>4
    <2>2. t \in Begun
      BY <1>3, <1>4, AgentFacts DEF NoTurn
    <2>3. EventOK(e, Begun, stopped, said) /\ e.kind # "commit" /\ ~IsRequest(e)
      BY <1>3, <2>2, TerminalOK
    <2> HIDE DEF e
    <2>4. /\ InboxOK(inbox', Begun, stopped, said) /\ RepliesOK(record, inbox', said, crashed)
          /\ RequestsOK(frames, inbox', asks)
      BY <2>1, <2>3, AgentFacts, EmitKeeps
    <2>5. active' \in {NoTurn} \cup held' /\ held' \subseteq held
      BY <2>1, AgentFacts, CleanupMoves
    <2>6. PeerOK(Begun, submitted, steered, stopped, active', held', sealed', stopping', heard')
      BY <1>1, <1>3, <2>1, <2>2, <2>5, AgentFacts, PeerMoves
    <2> QED
      BY <1>1, <2>4, <2>6, AgentFacts, AgentKeeps
  <1>5. CASE active # t
    <2>1. UNCHANGED <<inbox, active, held, sealed>>
      BY <1>2, <1>5
    <2>2. PeerOK(Begun, submitted, steered, stopped, active', held', sealed', stopping', heard')
      BY <1>1, <1>3, <2>1, AgentFacts, PeerMoves
    <2> QED
      BY <1>1, <2>1, <2>2, AgentFacts, AgentKeeps
  <1> QED
    BY <1>4, <1>5

LEMMA FinalReplyKeeps ==
    ASSUME IInv, FinalReply
    PROVE  IInv'
  <1>1. AgentStep /\ UNCHANGED <<outbox, stopping, asks, heard>>
    BY DEF FinalReply, AgentStep, history
  <1>2. PICK t \in held, blocks \in BOOLEAN :
          RepliesSaid < MaxReplies /\ Says(t, blocks) /\ sealed' = sealed \cup {t} /\ Cleanup(t)
    BY DEF FinalReply
  <1>3. t \in Begun /\ t \in Turns
    BY AgentFacts
  <1>4. Len(said[t]) < MaxReplies
    BY <1>2, <1>3, AgentFacts, RepliesAreFew
  <1>5. /\ InboxOK(inbox', Begun, stopped, said') /\ SaidOK(said')
        /\ EntriesOK(record, said', stopped, crashed)
        /\ RepliesOK(record, inbox', said', crashed) /\ RequestsOK(frames, inbox', asks)
    BY <1>2, <1>3, <1>4, AgentFacts, SayKeeps
  <1>6. active' \in {NoTurn} \cup held' /\ held' \subseteq held
    BY <1>2, AgentFacts, CleanupMoves
  <1>7. PeerOK(Begun, submitted, steered, stopped, active', held', sealed', stopping', heard')
    BY <1>1, <1>2, <1>3, <1>6, AgentFacts, PeerMoves
  <1> QED
    BY <1>1, <1>5, <1>7, AgentFacts, AgentKeeps

LEMMA InterimReplyKeeps ==
    ASSUME IInv, InterimReply
    PROVE  IInv'
  <1>1. AgentStep /\ UNCHANGED <<outbox, active, held, sealed, stopping, asks, heard>>
    BY DEF InterimReply, AgentStep, history
  <1>2. active \in held /\ RepliesSaid < MaxReplies /\ Says(active, TRUE)
    BY DEF InterimReply
  <1>3. active \in Begun /\ active \in Turns
    BY <1>2, AgentFacts
  <1>4. Len(said[active]) < MaxReplies
    BY <1>2, <1>3, AgentFacts, RepliesAreFew
  <1>5. /\ InboxOK(inbox', Begun, stopped, said') /\ SaidOK(said')
        /\ EntriesOK(record, said', stopped, crashed)
        /\ RepliesOK(record, inbox', said', crashed) /\ RequestsOK(frames, inbox', asks)
    BY <1>2, <1>3, <1>4, AgentFacts, SayKeeps
  <1>6. PeerOK(Begun, submitted, steered, stopped, active', held', sealed', stopping', heard')
    BY <1>1, AgentFacts, PeerMoves
  <1> QED
    BY <1>1, <1>5, <1>6, AgentFacts, AgentKeeps

LEMMA FailRunKeeps ==
    ASSUME IInv, FailRun
    PROVE  IInv'
  <1>1. AgentStep /\ UNCHANGED <<outbox, stopping, asks, heard, said>>
    BY DEF FailRun, AgentStep, history
  <1>2. PICK t \in held :
          Emits(TerminalEvent(t, "failed")) /\ sealed' = sealed \cup {t} /\ Cleanup(t)
    BY DEF FailRun
  <1> DEFINE e == TerminalEvent(t, "failed")
  <1>3. t \in Begun
    BY AgentFacts
  <1>4. EventOK(e, Begun, stopped, said) /\ e.kind # "commit" /\ ~IsRequest(e) /\ Emits(e)
    BY <1>2, <1>3, TerminalOK
  <1> HIDE DEF e
  <1>5. /\ InboxOK(inbox', Begun, stopped, said) /\ RepliesOK(record, inbox', said, crashed)
        /\ RequestsOK(frames, inbox', asks)
    BY <1>4, AgentFacts, EmitKeeps
  <1>6. active' \in {NoTurn} \cup held' /\ held' \subseteq held
    BY <1>2, AgentFacts, CleanupMoves
  <1>7. PeerOK(Begun, submitted, steered, stopped, active', held', sealed', stopping', heard')
    BY <1>1, <1>2, <1>3, <1>6, AgentFacts, PeerMoves
  <1> QED
    BY <1>1, <1>5, <1>7, AgentFacts, AgentKeeps

LEMMA AskApprovalKeeps ==
    ASSUME IInv, NEW a \in Approvals, AskApproval(a)
    PROVE  IInv'
  <1>1. AgentStep /\ UNCHANGED <<outbox, active, held, sealed, stopping, heard, said>>
    BY DEF AskApproval, AgentStep, history
  <1>2. /\ active \in Begun /\ asks[a].state = "unasked"
        /\ asks' = [asks EXCEPT ![a] = [state |-> "waiting", turn |-> active]]
        /\ Emits(ApprovalEvent(active, a, "pending"))
    BY AgentFacts DEF AskApproval
  <1>3. /\ InboxOK(inbox', Begun, stopped, said) /\ RepliesOK(record, inbox', said, crashed)
        /\ CardsOK(approvals, frames, inflight, asks') /\ RequestsOK(frames, inbox', asks')
    BY <1>2, AgentFacts, RequestKeeps
  <1>4. PeerOK(Begun, submitted, steered, stopped, active', held', sealed', stopping', heard')
    BY <1>1, AgentFacts, PeerMoves
  <1> QED
    BY <1>1, <1>3, <1>4, AgentFacts, AgentKeeps

\* An approval that was asked for stays asked for.
LEMMA AsksKeep ==
    ASSUME CardsOK(approvals, frames, inflight, asks), asks' \in Asks,
           \A b \in Approvals : asks'[b].state = "unasked" => asks[b].state = "unasked",
           InboxOK(inbox', Begun, stopped, said), RequestsOK(frames, inbox', asks)
    PROVE  CardsOK(approvals, frames, inflight, asks') /\ RequestsOK(frames, inbox', asks')
  <1>1. CardsOK(approvals, frames, inflight, asks')
    BY DEF CardsOK
  <1>2. ASSUME NEW k \in 1..Len(inbox'), IsRequest(inbox'[k])
        PROVE  asks'[inbox'[k].approval].state # "unasked" /\ frames[inbox'[k].approval] = <<>>
    <2>1. inbox'[k].approval \in Approvals
      BY <1>2 DEF InboxOK, EventOK, IsRequest
    <2>2. asks[inbox'[k].approval].state # "unasked" /\ frames[inbox'[k].approval] = <<>>
      BY <1>2 DEF RequestsOK
    <2> QED
      BY <2>1, <2>2
  <1>3. \A k, l \in 1..Len(inbox') :
          IsRequest(inbox'[k]) /\ IsRequest(inbox'[l]) /\ inbox'[k].approval = inbox'[l].approval => k = l
    BY DEF RequestsOK
  <1>4. RequestsOK(frames, inbox', asks')
    BY <1>2, <1>3 DEF RequestsOK
  <1> QED
    BY <1>1, <1>4

\* The harness answers an approval that is waiting.
LEMMA AnswersKeep ==
    ASSUME IInv, NEW a \in Approvals, NEW outcome \in Outcomes, asks[a].state = "waiting",
           Answers(a, outcome)
    PROVE  /\ InboxOK(inbox', Begun, stopped, said) /\ RepliesOK(record, inbox', said, crashed)
           /\ CardsOK(approvals, frames, inflight, asks') /\ RequestsOK(frames, inbox', asks')
  <1>1. asks \in Asks
    BY AgentFacts DEF CardsOK
  <1>2. asks' = [asks EXCEPT ![a].state = outcome]
    BY DEF Answers
  <1>3. asks' \in Asks /\ asks'[a].state = outcome /\ \A b \in Approvals : b # a => asks'[b] = asks[b]
    BY <1>1, <1>2 DEF Asks
  <1>4. \A b \in Approvals : asks'[b].state = "unasked" => asks[b].state = "unasked"
    BY <1>3 DEF Outcomes
  <1>5. /\ InboxOK(inbox', Begun, stopped, said) /\ RepliesOK(record, inbox', said, crashed)
        /\ RequestsOK(frames, inbox', asks)
    <2>1. CASE active = NoTurn
      <3>1. inbox' = inbox
        BY <2>1 DEF Answers
      <3> QED
        BY <3>1, AgentFacts
    <2>2. CASE active # NoTurn
      <3> DEFINE e == ApprovalEvent(active, a, outcome)
      <3>1. Emits(e) /\ active \in Begun
        BY <2>2, AgentFacts DEF Answers
      <3>2. /\ e.kind = "approval" /\ e.turn = active /\ e.reply = 0 /\ e.approval = a
            /\ e.status = outcome /\ e \in Events
        <4>1. active \in Turns /\ 0 \in 0..MaxReplies
          BY <3>1, AgentFacts, ThreadTypes
        <4> QED
          BY <4>1 DEF Events, ApprovalEvent, EventRecord
      <3> HIDE DEF e
      <3>3. EventOK(e, Begun, stopped, said) /\ e.kind # "commit" /\ ~IsRequest(e)
        BY <3>1, <3>2 DEF EventOK, IsRequest, Outcomes
      <3> QED
        BY <3>1, <3>3, AgentFacts, EmitKeeps
    <2> QED
      BY <2>1, <2>2
  <1> QED
    BY <1>3, <1>4, <1>5, AgentFacts, AsksKeep

LEMMA LapseApprovalKeeps ==
    ASSUME IInv, NEW a \in Approvals, LapseApproval(a)
    PROVE  IInv'
  <1>1. AgentStep /\ UNCHANGED <<outbox, active, held, sealed, stopping, heard, said>>
    BY DEF LapseApproval, AgentStep, history
  <1>2. asks[a].state = "waiting" /\ Answers(a, "expired") /\ "expired" \in Outcomes
    BY DEF LapseApproval, Outcomes
  <1>3. /\ InboxOK(inbox', Begun, stopped, said) /\ RepliesOK(record, inbox', said, crashed)
        /\ CardsOK(approvals, frames, inflight, asks') /\ RequestsOK(frames, inbox', asks')
    BY <1>2, AnswersKeep
  <1>4. PeerOK(Begun, submitted, steered, stopped, active', held', sealed', stopping', heard')
    BY <1>1, AgentFacts, PeerMoves
  <1> QED
    BY <1>1, <1>3, <1>4, AgentFacts, AgentKeeps

LEMMA TakeResolutionKeeps ==
    ASSUME IInv, TakeResolution
    PROVE  IInv'
  <1>1. AgentStep /\ UNCHANGED <<active, held, sealed, stopping, heard, said>>
    BY DEF TakeResolution, AgentStep, history
  <1>2. OutboxOK(outbox', Begun, steered, stopped) /\ Head(outbox).decision \in Outcomes
    <2>1. /\ OutboxOK(outbox', Begun, steered, stopped)
          /\ CommandOK(Head(outbox), Begun, steered, stopped)
          /\ Head(outbox).kind = "resolve_approval"
      BY TakenCommand DEF TakeResolution
    <2> QED
      BY <2>1, ConstantsAssumption DEF CommandOK, Outcomes
  <1>3. /\ InboxOK(inbox', Begun, stopped, said) /\ RepliesOK(record, inbox', said, crashed)
        /\ CardsOK(approvals, frames, inflight, asks') /\ RequestsOK(frames, inbox', asks')
    <2>1. CASE \E a \in Approvals : asks[a].state = "waiting"
      <3>1. PICK a \in Approvals : asks[a].state = "waiting" /\ Answers(a, Head(outbox).decision)
        BY <2>1 DEF TakeResolution
      <3> QED
        BY <1>2, <3>1, AnswersKeep
    <2>2. CASE ~\E a \in Approvals : asks[a].state = "waiting"
      <3>1. asks' = asks /\ inbox' = inbox
        BY <2>2 DEF TakeResolution
      <3> QED
        BY <3>1, AgentFacts
    <2> QED
      BY <2>1, <2>2
  <1>4. PeerOK(Begun, submitted, steered, stopped, active', held', sealed', stopping', heard')
    BY <1>1, AgentFacts, PeerMoves
  <1> QED
    BY <1>1, <1>2, <1>3, <1>4, AgentFacts, AgentKeeps

LEMMA PluginRestartsKeeps ==
    ASSUME IInv, PluginRestarts
    PROVE  IInv'
  <1>1. /\ AgentStep /\ UNCHANGED <<outbox, inbox, sealed, heard, said>>
        /\ active' = NoTurn /\ held' = {} /\ stopping' = {}
    BY DEF PluginRestarts, AgentStep
  <1>2. asks' = [a \in Approvals |->
          IF asks[a].state = "waiting" THEN [asks[a] EXCEPT !.state = "expired"] ELSE asks[a]]
    BY DEF PluginRestarts
  <1>3. asks \in Asks
    BY AgentFacts DEF CardsOK
  <1>4. asks' \in Asks /\ \A b \in Approvals : asks'[b].state = "unasked" => asks[b].state = "unasked"
    <2>1. \A b \in Approvals :
            asks'[b] = IF asks[b].state = "waiting" THEN [asks[b] EXCEPT !.state = "expired"] ELSE asks[b]
      BY <1>2
    <2>2. \A b \in Approvals :
            /\ asks'[b] \in [state : Outcomes \cup {"unasked", "waiting"}, turn : {NoTurn} \cup Turns]
            /\ asks'[b].state = "unasked" => asks[b].state = "unasked"
      BY <1>3, <2>1 DEF Asks, Outcomes
    <2> QED
      BY <1>2, <2>2 DEF Asks
  <1>5. CardsOK(approvals, frames, inflight, asks') /\ RequestsOK(frames, inbox', asks')
    BY <1>1, <1>4, AgentFacts, AsksKeep
  <1>6. PeerOK(Begun, submitted, steered, stopped, active', held', sealed', stopping', heard')
    BY <1>1, AgentFacts, PeerMoves
  <1> QED
    BY <1>1, <1>5, <1>6, AgentFacts, AgentKeeps

------------------------------------------------------------------------------
(* The thread: what its steps leave true of the turns.                         *)

\* Marking turns that no message waits for, and taking messages from the queue.
LEMMA ThreadMarks ==
    ASSUME NEW M, NEW qu,
           ThreadOK(submitted, queue, inflight, steered, record, stopped, lost),
           M \subseteq 1..submitted, \A m \in M : m \notin DOMAIN steered,
           record' \in [Turns -> Seq(Entry)], \A t \in Turns : t \notin M => record'[t] = record[t],
           stopped' \subseteq stopped \cup M, lost' \subseteq lost \cup M,
           qu \in Seq(1..submitted), \A i, j \in 1..Len(qu) : i < j => qu[i] < qu[j],
           \A i \in 1..Len(qu) : /\ qu[i] \notin M /\ qu[i] # inflight'
                                 /\ \E j \in 1..Len(queue) : qu[i] = queue[j],
           inflight' = NoTurn \/ (inflight' \notin M /\
             (inflight' = inflight \/ \E j \in 1..Len(queue) : inflight' = queue[j]))
    PROVE  ThreadOK(submitted, qu, inflight', steered, record', stopped', lost')
  <1>1. /\ submitted \in 0..MaxMessages /\ inflight \in {NoTurn} \cup (1..submitted)
        /\ queue \in Seq(1..submitted)
        /\ DOMAIN steered \subseteq 1..submitted /\ \A m \in DOMAIN steered : steered[m] \in 1..submitted
        /\ stopped \subseteq 1..submitted /\ lost \subseteq 1..submitted
    BY DEF ThreadOK
  <1>2. /\ \A t \in Turns : t > submitted => Quiet(t, record, stopped, lost)
        /\ (inflight # NoTurn => Quiet(inflight, record, stopped, lost) /\ inflight \notin DOMAIN steered)
        /\ \A i \in 1..Len(queue) : Quiet(queue[i], record, stopped, lost) /\ queue[i] \notin DOMAIN steered
        /\ \A m \in DOMAIN steered : Quiet(m, record, stopped, lost)
    BY DEF ThreadOK
  <1>3. \A i \in 1..Len(queue) : queue[i] \in 1..submitted
    BY <1>1, ElementOfSeq
  <1>4. 1..submitted \subseteq Turns
    BY ThreadTypes
  <1>5. \A t \in Turns : t \notin M /\ Quiet(t, record, stopped, lost) => Quiet(t, record', stopped', lost')
    BY DEF Quiet
  <1>6. stopped' \subseteq 1..submitted /\ lost' \subseteq 1..submitted
    BY <1>1
  <1>7. \A t \in Turns : t > submitted => Quiet(t, record', stopped', lost')
    <2> SUFFICES ASSUME NEW t \in Turns, t > submitted PROVE Quiet(t, record', stopped', lost')
      OBVIOUS
    <2>1. t \notin 1..submitted
      BY <1>1
    <2> QED
      BY <1>2, <1>5, <2>1
  <1>8. /\ inflight' \in {NoTurn} \cup (1..submitted)
        /\ (inflight' # NoTurn => Quiet(inflight', record', stopped', lost') /\ inflight' \notin DOMAIN steered)
    <2>1. CASE inflight' = NoTurn
      BY <2>1
    <2>2. CASE inflight' # NoTurn /\ inflight' = inflight
      <3>1. inflight \in 1..submitted /\ inflight \notin M
        BY <1>1, <2>2
      <3>2. inflight \in Turns
        BY <1>4, <3>1
      <3>3. Quiet(inflight, record', stopped', lost')
        BY <1>2, <1>5, <2>2, <3>1, <3>2
      <3> QED
        BY <1>2, <2>2, <3>1, <3>3
    <2>3. CASE inflight' # NoTurn /\ \E j \in 1..Len(queue) : inflight' = queue[j]
      <3>1. PICK j \in 1..Len(queue) : inflight' = queue[j]
        BY <2>3
      <3>2. queue[j] \in Turns /\ queue[j] \notin M
        BY <1>3, <1>4, <2>3, <3>1
      <3>3. Quiet(queue[j], record', stopped', lost')
        BY <1>2, <1>5, <3>2
      <3> QED
        BY <1>2, <1>3, <3>1, <3>3
    <2> QED
      BY <2>1, <2>2, <2>3
  <1>9. \A i \in 1..Len(qu) :
          Quiet(qu[i], record', stopped', lost') /\ qu[i] # inflight' /\ qu[i] \notin DOMAIN steered
    <2> SUFFICES ASSUME NEW i \in 1..Len(qu)
                 PROVE  Quiet(qu[i], record', stopped', lost') /\ qu[i] # inflight' /\ qu[i] \notin DOMAIN steered
      OBVIOUS
    <2>1. PICK j \in 1..Len(queue) : qu[i] = queue[j]
      OBVIOUS
    <2>2. queue[j] \in Turns /\ queue[j] \notin M
      BY <1>3, <1>4, <2>1
    <2> QED
      BY <1>2, <1>5, <2>1, <2>2
  <1>10. \A m \in DOMAIN steered : Quiet(m, record', stopped', lost')
    BY <1>1, <1>2, <1>4, <1>5
  <1> QED
    BY <1>1, <1>6, <1>7, <1>8, <1>9, <1>10 DEF ThreadOK

\* A new message waits for a turn of its own.
LEMMA ThreadAsks ==
    ASSUME NEW sub, NEW qu, NEW inf, NEW ste, NEW rec, NEW sto, NEW los,
           ThreadOK(sub, qu, inf, ste, rec, sto, los), sub < MaxMessages
    PROVE  ThreadOK(sub + 1, Append(qu, sub + 1), inf, ste, rec, sto, los)
  <1>1. /\ MaxMessages \in Nat /\ sub \in Nat /\ sub + 1 \in 0..MaxMessages /\ sub + 1 \in Turns
        /\ 1..sub \subseteq 1..(sub + 1) /\ sub + 1 \in 1..(sub + 1)
    BY ConstantsAssumption DEF ThreadOK, Turns, Messages
  <1>2. /\ inf \in {NoTurn} \cup (1..sub) /\ qu \in Seq(1..sub)
        /\ \A i, j \in 1..Len(qu) : i < j => qu[i] < qu[j]
        /\ DOMAIN ste \subseteq 1..sub /\ \A m \in DOMAIN ste : ste[m] \in 1..sub
        /\ sto \subseteq 1..sub /\ los \subseteq 1..sub /\ rec \in [Turns -> Seq(Entry)]
    BY DEF ThreadOK
  <1>3. /\ \A t \in Turns : t > sub => Quiet(t, rec, sto, los)
        /\ (inf # NoTurn => Quiet(inf, rec, sto, los) /\ inf \notin DOMAIN ste)
        /\ \A i \in 1..Len(qu) : Quiet(qu[i], rec, sto, los) /\ qu[i] # inf /\ qu[i] \notin DOMAIN ste
        /\ \A m \in DOMAIN ste : Quiet(m, rec, sto, los)
    BY DEF ThreadOK
  <1>4. Quiet(sub + 1, rec, sto, los) /\ sub + 1 # inf /\ sub + 1 \notin DOMAIN ste
    <2>1. sub + 1 > sub /\ sub + 1 \notin 1..sub /\ sub + 1 # NoTurn
      BY <1>1 DEF NoTurn
    <2> QED
      BY <1>1, <1>2, <1>3, <2>1
  <1>5. qu \in Seq(1..(sub + 1)) /\ \A i \in 1..Len(qu) : qu[i] \in 1..sub
    BY <1>1, <1>2, SeqMonotonic, ElementOfSeq
  <1>6. PICK q \in Seq(1..(sub + 1)) : q = Append(qu, sub + 1)
    BY <1>1, <1>5, AppendHolds
  <1>7. \A i \in 1..Len(q) : (i \in 1..Len(qu) /\ q[i] = qu[i]) \/ (i = Len(qu) + 1 /\ q[i] = sub + 1)
    BY <1>1, <1>5, <1>6, AppendHolds
  <1>8. \A i, j \in 1..Len(q) : i < j => q[i] < q[j]
    <2> SUFFICES ASSUME NEW i \in 1..Len(q), NEW j \in 1..Len(q), i < j PROVE q[i] < q[j]
      OBVIOUS
    <2>0. Len(qu) \in Nat
      BY <1>2, LenProperties
    <2>1. CASE j \in 1..Len(qu) /\ q[j] = qu[j]
      <3>1. i \in 1..Len(qu) /\ q[i] = qu[i]
        BY <1>7, <2>0, <2>1
      <3> QED
        BY <1>2, <2>1, <3>1
    <2>2. CASE j = Len(qu) + 1 /\ q[j] = sub + 1
      <3>1. i \in 1..Len(qu) /\ q[i] = qu[i]
        BY <1>7, <2>0, <2>2
      <3>2. qu[i] \in 1..sub
        BY <1>5, <3>1
      <3> QED
        BY <1>1, <2>2, <3>1, <3>2
    <2> QED
      BY <1>7, <2>1, <2>2
  <1>9. \A i \in 1..Len(q) : Quiet(q[i], rec, sto, los) /\ q[i] # inf /\ q[i] \notin DOMAIN ste
    BY <1>3, <1>4, <1>7
  <1>10. \A t \in Turns : t > sub + 1 => Quiet(t, rec, sto, los)
    <2> SUFFICES ASSUME NEW t \in Turns, t > sub + 1 PROVE Quiet(t, rec, sto, los)
      OBVIOUS
    <2>1. t > sub
      BY <1>1 DEF Turns, Messages
    <2> QED
      BY <1>3, <2>1
  <1>11. /\ inf \in {NoTurn} \cup (1..(sub + 1)) /\ DOMAIN ste \subseteq 1..(sub + 1)
         /\ \A m \in DOMAIN ste : ste[m] \in 1..(sub + 1)
         /\ sto \subseteq 1..(sub + 1) /\ los \subseteq 1..(sub + 1)
    BY <1>1, <1>2
  <1>12. ThreadOK(sub + 1, q, inf, ste, rec, sto, los)
    <2> DEFINE s == sub + 1
    <2>1. s \in 0..MaxMessages /\ inf \in {NoTurn} \cup (1..s) /\ q \in Seq(1..s)
      BY <1>1, <1>11
    <2>2. DOMAIN ste \subseteq 1..s /\ (\A m \in DOMAIN ste : ste[m] \in 1..s)
          /\ sto \subseteq 1..s /\ los \subseteq 1..s
      BY <1>11
    <2>3. \A t \in Turns : t > s => Quiet(t, rec, sto, los)
      BY <1>10
    <2> HIDE DEF s
    <2>4. ThreadOK(s, q, inf, ste, rec, sto, los)
      BY <1>2, <1>3, <1>8, <1>9, <2>1, <2>2, <2>3 DEF ThreadOK
    <2> QED
      BY <2>4 DEF s
  <1> QED
    BY <1>6, <1>12

\* A new message joins the live turn.
LEMMA ThreadSteers ==
    ASSUME ThreadOK(submitted, queue, inflight, steered, record, stopped, lost),
           submitted < MaxMessages, inflight # NoTurn, submitted' = submitted + 1,
           steered' = [m \in DOMAIN steered \cup {submitted + 1} |->
                         IF m = submitted + 1 THEN inflight ELSE steered[m]]
    PROVE  ThreadOK(submitted', queue, inflight, steered', record, stopped, lost)
  <1>1. /\ MaxMessages \in Nat /\ submitted \in Nat /\ submitted' \in 0..MaxMessages
        /\ submitted + 1 \in Turns /\ submitted + 1 \in 1..submitted'
        /\ 1..submitted \subseteq 1..submitted'
    BY ConstantsAssumption DEF ThreadOK, Turns, Messages
  <1>2. /\ inflight \in {NoTurn} \cup (1..submitted) /\ queue \in Seq(1..submitted)
        /\ \A i, j \in 1..Len(queue) : i < j => queue[i] < queue[j]
        /\ DOMAIN steered \subseteq 1..submitted /\ \A m \in DOMAIN steered : steered[m] \in 1..submitted
        /\ stopped \subseteq 1..submitted /\ lost \subseteq 1..submitted
        /\ record \in [Turns -> Seq(Entry)]
    BY DEF ThreadOK
  <1>3. /\ \A t \in Turns : t > submitted => Quiet(t, record, stopped, lost)
        /\ (inflight # NoTurn => Quiet(inflight, record, stopped, lost) /\ inflight \notin DOMAIN steered)
        /\ \A i \in 1..Len(queue) : /\ Quiet(queue[i], record, stopped, lost)
                                    /\ queue[i] # inflight /\ queue[i] \notin DOMAIN steered
        /\ \A m \in DOMAIN steered : Quiet(m, record, stopped, lost)
    BY DEF ThreadOK
  <1>4. Quiet(submitted + 1, record, stopped, lost) /\ submitted + 1 \notin 1..submitted
    BY <1>1, <1>3
  <1>5. queue \in Seq(1..submitted') /\ \A i \in 1..Len(queue) : queue[i] \in 1..submitted
    BY <1>1, <1>2, SeqMonotonic, ElementOfSeq
  <1>6. /\ DOMAIN steered' = DOMAIN steered \cup {submitted + 1}
        /\ \A m \in DOMAIN steered' : m # submitted + 1 => steered'[m] = steered[m]
        /\ steered'[submitted + 1] = inflight
    OBVIOUS
  <1>7. inflight \in 1..submitted
    BY <1>2
  <1>8. /\ DOMAIN steered' \subseteq 1..submitted' /\ \A m \in DOMAIN steered' : steered'[m] \in 1..submitted'
        /\ inflight \notin DOMAIN steered'
        /\ \A i \in 1..Len(queue) : queue[i] \notin DOMAIN steered'
        /\ \A m \in DOMAIN steered' : Quiet(m, record, stopped, lost)
    <2> HIDE DEF NoTurn
    <2>1. DOMAIN steered' \subseteq 1..submitted'
      BY <1>1, <1>2, <1>6
    <2>2. \A m \in DOMAIN steered' : steered'[m] \in 1..submitted'
      BY <1>1, <1>2, <1>6, <1>7
    <2>3. inflight \notin DOMAIN steered'
      BY <1>3, <1>4, <1>6, <1>7
    <2>4. \A i \in 1..Len(queue) : queue[i] \notin DOMAIN steered'
      BY <1>3, <1>4, <1>5, <1>6
    <2>5. \A m \in DOMAIN steered' : Quiet(m, record, stopped, lost)
      BY <1>3, <1>4, <1>6
    <2> QED
      BY <2>1, <2>2, <2>3, <2>4, <2>5
  <1>9. \A t \in Turns : t > submitted' => Quiet(t, record, stopped, lost)
    <2> SUFFICES ASSUME NEW t \in Turns, t > submitted' PROVE Quiet(t, record, stopped, lost)
      OBVIOUS
    <2>1. t > submitted
      BY <1>1 DEF Turns, Messages
    <2> QED
      BY <1>3, <2>1
  <1>10. inflight \in {NoTurn} \cup (1..submitted') /\ stopped \subseteq 1..submitted' /\ lost \subseteq 1..submitted'
    BY <1>1, <1>2
  <1>11. \A i \in 1..Len(queue) : /\ Quiet(queue[i], record, stopped, lost)
                                  /\ queue[i] # inflight /\ queue[i] \notin DOMAIN steered'
    BY <1>3, <1>8
  <1> QED
    BY <1>1, <1>2, <1>3, <1>5, <1>8, <1>9, <1>10, <1>11 DEF ThreadOK

\* A turn that has begun is not in the queue, and its message was not steered.
LEMMA BegunIsNotQueued ==
    ASSUME ThreadOK(submitted, queue, inflight, steered, record, stopped, lost), NEW t \in Begun
    PROVE  /\ t \in 1..submitted /\ t \in Turns /\ t \notin DOMAIN steered
           /\ \A i \in 1..Len(queue) : queue[i] # t
  <1>1. \A i \in 1..Len(queue) : Quiet(queue[i], record, stopped, lost) /\ queue[i] # inflight
    BY DEF ThreadOK
  <1> QED
    BY <1>1, ThreadTypes

------------------------------------------------------------------------------
(* The approvals.                                                              *)

LEMMA CardFacts ==
    ASSUME CardsOK(approvals, frames, inflight, asks)
    PROVE  /\ asks \in Asks /\ frames \in [Approvals -> Cards]
           /\ approvals \in Seq(ApprovalRecord) /\ Len(approvals) \in Nat
           /\ DOMAIN approvals = 1..Len(approvals)
           /\ \A i \in 1..Len(approvals) :
                approvals[i] \in ApprovalRecord /\ approvals[i].id \in Approvals /\ approvals[i].turn \in Turns
           /\ \A i, j \in 1..Len(approvals) : approvals[i].id = approvals[j].id => i = j
  <1>1. /\ asks \in Asks /\ frames \in [Approvals -> Cards] /\ approvals \in Seq(ApprovalRecord)
        /\ \A i, j \in 1..Len(approvals) : approvals[i].id = approvals[j].id => i = j
    BY DEF CardsOK
  <1>2. Len(approvals) \in Nat /\ DOMAIN approvals = 1..Len(approvals)
    BY <1>1, LenProperties
  <1>3. \A i \in 1..Len(approvals) : approvals[i] \in ApprovalRecord
    BY <1>1, ElementOfSeq
  <1>4. \A i \in 1..Len(approvals) : approvals[i].id \in Approvals /\ approvals[i].turn \in Turns
    BY <1>3 DEF ApprovalRecord
  <1> QED
    BY <1>1, <1>2, <1>3, <1>4

\* Pending approvals are settled; if the live turn changes, all of them are.
LEMMA SettleKeeps ==
    ASSUME NEW as \in SUBSET Approvals, NEW outcome \in Outcomes, NEW inf,
           CardsOK(approvals, frames, inflight, asks), RequestsOK(frames, inbox, asks),
           InboxOK(inbox, Begun, stopped, said),
           \A a \in as : Pending(a),
           \/ inf = inflight
           \/ \A i \in 1..Len(approvals) : approvals[i].state = "pending" => approvals[i].id \in as,
           SettleApprovals(as, outcome)
    PROVE  CardsOK(approvals', frames', inf, asks) /\ RequestsOK(frames', inbox, asks)
  <1>1. /\ asks \in Asks /\ frames \in [Approvals -> Cards]
        /\ approvals \in Seq(ApprovalRecord) /\ Len(approvals) \in Nat
        /\ DOMAIN approvals = 1..Len(approvals)
        /\ \A i \in 1..Len(approvals) :
             approvals[i] \in ApprovalRecord /\ approvals[i].id \in Approvals /\ approvals[i].turn \in Turns
        /\ \A i, j \in 1..Len(approvals) : approvals[i].id = approvals[j].id => i = j
    BY CardFacts
  <1>2. /\ \A i \in 1..Len(approvals) :
             IF approvals[i].state = "pending"
             THEN approvals[i].turn = inflight /\ frames[approvals[i].id] = <<"pending">>
             ELSE frames[approvals[i].id] \in Settled
        /\ \A a \in Approvals : asks[a].state = "unasked" => frames[a] = <<>>
        /\ Len(approvals) <= ApprovalMemory
    BY DEF CardsOK
  <1>3. \A i \in 1..Len(approvals) : approvals[i].id \in as =>
          approvals[i].state = "pending" /\ frames[approvals[i].id] = <<"pending">>
    <2> SUFFICES ASSUME NEW i \in 1..Len(approvals), approvals[i].id \in as
                 PROVE  approvals[i].state = "pending"
      BY <1>2
    <2>1. PICK j \in 1..Len(approvals) : approvals[j].id = approvals[i].id /\ approvals[j].state = "pending"
      BY <1>1 DEF Pending
    <2> QED
      BY <1>1, <2>1
  <1>4. \A a \in as : frames[a] = <<"pending">>
    <2> SUFFICES ASSUME NEW a \in as PROVE frames[a] = <<"pending">>
      OBVIOUS
    <2>1. PICK i \in 1..Len(approvals) : approvals[i].id = a /\ approvals[i].state = "pending"
      BY <1>1 DEF Pending
    <2> QED
      BY <1>2, <2>1
  <1>5. /\ DOMAIN approvals' = 1..Len(approvals)
        /\ \A i \in 1..Len(approvals) : approvals'[i] =
             IF approvals[i].id \in as THEN [approvals[i] EXCEPT !.state = outcome] ELSE approvals[i]
        /\ approvals' = [i \in 1..Len(approvals) |->
             IF approvals[i].id \in as THEN [approvals[i] EXCEPT !.state = outcome] ELSE approvals[i]]
    BY <1>1 DEF SettleApprovals
  <1>6. \A i \in 1..Len(approvals) :
          /\ approvals'[i] \in ApprovalRecord /\ approvals'[i].id = approvals[i].id
          /\ approvals'[i].turn = approvals[i].turn
          /\ approvals'[i].state = IF approvals[i].id \in as THEN outcome ELSE approvals[i].state
    BY <1>1, <1>5 DEF ApprovalRecord
  <1>7. approvals' \in Seq(ApprovalRecord) /\ Len(approvals') = Len(approvals)
    <2>1. approvals' \in [1..Len(approvals) -> ApprovalRecord]
      BY <1>5, <1>6
    <2> QED
      BY <1>1, <2>1
  <1>8. /\ \A a \in as : frames'[a] = <<"pending", outcome>>
        /\ \A a \in Approvals : a \notin as => frames'[a] = frames[a]
        /\ frames' \in [Approvals -> Cards]
    <2>1. frames' = [a \in Approvals |-> IF a \in as THEN Append(frames[a], outcome) ELSE frames[a]]
      BY DEF SettleApprovals
    <2>2. \A a \in as : Append(frames[a], outcome) = <<"pending", outcome>>
      <3>1. Append(<<"pending">>, outcome) = <<"pending", outcome>>
        <4> DEFINE S == Outcomes \cup {"pending"}
                   s == Append(<<"pending">>, outcome)
        <4>1. <<"pending">> \in Seq(S) /\ outcome \in S /\ <<"pending", outcome>> \in Seq(S)
          OBVIOUS
        <4>2. s \in Seq(S) /\ Len(s) = 2 /\ s[1] = "pending" /\ s[2] = outcome
          <5> HIDE DEF S
          <5>1. Len(<<"pending">>) = 1 /\ <<"pending">>[1] = "pending"
            OBVIOUS
          <5> QED
            BY <4>1, <5>1, AppendProperties
        <4>3. Len(<<"pending", outcome>>) = 2
          OBVIOUS
        <4>4. \A i \in 1..2 : s[i] = <<"pending", outcome>>[i]
          BY <4>2
        <4> HIDE DEF S, s
        <4>5. s = <<"pending", outcome>>
          BY <4>1, <4>2, <4>3, <4>4, SeqEqual
        <4> QED
          BY <4>5 DEF s
      <3> QED
        BY <1>4, <3>1, Zenon
    <2>3. <<"pending", outcome>> \in Cards
      BY DEF Cards, Settled
    <2> QED
      BY <1>1, <2>1, <2>2, <2>3
  <1>9. outcome # "pending" /\ <<"pending", outcome>> \in Settled
    BY DEF Settled, Outcomes
  <1>10. \A i \in 1..Len(approvals') :
           IF approvals'[i].state = "pending"
           THEN approvals'[i].turn = inf /\ frames'[approvals'[i].id] = <<"pending">>
           ELSE frames'[approvals'[i].id] \in Settled
    <2> SUFFICES ASSUME NEW i \in 1..Len(approvals)
                 PROVE  IF approvals'[i].state = "pending"
                        THEN approvals'[i].turn = inf /\ frames'[approvals'[i].id] = <<"pending">>
                        ELSE frames'[approvals'[i].id] \in Settled
      BY <1>7
    <2>1. CASE approvals[i].id \in as
      BY <1>6, <1>8, <1>9, <2>1
    <2>2. CASE approvals[i].id \notin as
      <3>1. approvals'[i].state = approvals[i].state /\ frames'[approvals'[i].id] = frames[approvals[i].id]
        BY <1>1, <1>6, <1>8, <2>2
      <3>2. approvals[i].state = "pending" => inf = inflight
        BY <2>2
      <3> QED
        BY <1>2, <1>6, <3>1, <3>2
    <2> QED
      BY <2>1, <2>2
  <1>11. \A i, j \in 1..Len(approvals') : approvals'[i].id = approvals'[j].id => i = j
    BY <1>1, <1>6, <1>7
  <1>12. \A a \in Approvals : asks[a].state = "unasked" => frames'[a] = <<>>
    <2> SUFFICES ASSUME NEW a \in Approvals, asks[a].state = "unasked" PROVE frames'[a] = <<>>
      OBVIOUS
    <2>1. frames[a] = <<>> /\ frames[a] # <<"pending">>
      BY <1>2
    <2> QED
      BY <1>4, <1>8, <2>1
  <1>13. CardsOK(approvals', frames', inf, asks)
    BY <1>1, <1>2, <1>7, <1>8, <1>10, <1>11, <1>12 DEF CardsOK
  <1>14. RequestsOK(frames', inbox, asks)
    <2>1. \A k, l \in 1..Len(inbox) :
            IsRequest(inbox[k]) /\ IsRequest(inbox[l]) /\ inbox[k].approval = inbox[l].approval => k = l
      BY DEF RequestsOK
    <2>2. ASSUME NEW k \in 1..Len(inbox), IsRequest(inbox[k])
          PROVE  asks[inbox[k].approval].state # "unasked" /\ frames'[inbox[k].approval] = <<>>
      <3>1. asks[inbox[k].approval].state # "unasked" /\ frames[inbox[k].approval] = <<>>
        BY <2>2 DEF RequestsOK
      <3>2. inbox[k].approval \in Approvals
        BY <2>2 DEF InboxOK, EventOK, IsRequest
      <3>3. inbox[k].approval \notin as
        <4>1. <<>> # <<"pending">>
          OBVIOUS
        <4> QED
          BY <1>4, <3>1, <4>1, Zenon
      <3> QED
        BY <1>8, <3>1, <3>2, <3>3
    <2> QED
      BY <2>1, <2>2 DEF RequestsOK
  <1> QED
    BY <1>13, <1>14

\* The end of the live turn: everything pending lapses.
LEMMA EndTurnKeeps ==
    ASSUME IInv, inflight # NoTurn, EndTurn(inflight)
    PROVE  /\ inflight' = NoTurn /\ CardsOK(approvals', frames', inflight', asks)
           /\ RequestsOK(frames', inbox, asks)
  <1> DEFINE as == PendingIn(inflight)
  <1>1. inflight' = NoTurn /\ SettleApprovals(as, "expired")
    BY DEF EndTurn, Lapsing
  <1>2. CardsOK(approvals, frames, inflight, asks)
    BY AgentFacts
  <1>3. /\ DOMAIN approvals = 1..Len(approvals)
        /\ \A i \in 1..Len(approvals) : approvals[i].id \in Approvals
    BY <1>2, CardFacts
  <1>4. as \in SUBSET Approvals /\ \A a \in as : Pending(a)
    BY DEF PendingIn, Pending
  <1>5. \A i \in 1..Len(approvals) : approvals[i].state = "pending" => approvals[i].id \in as
    <2> SUFFICES ASSUME NEW i \in 1..Len(approvals), approvals[i].state = "pending"
                 PROVE  approvals[i].id \in as
      OBVIOUS
    <2>1. approvals[i].turn = inflight
      BY <1>2 DEF CardsOK
    <2> QED
      BY <1>3, <2>1 DEF PendingIn
  <1>6. "expired" \in Outcomes
    BY DEF Outcomes
  <1> HIDE DEF as
  <1>7. CardsOK(approvals', frames', NoTurn, asks) /\ RequestsOK(frames', inbox, asks)
    BY <1>1, <1>4, <1>5, <1>6, AgentFacts, SettleKeeps
  <1> QED
    BY <1>1, <1>7

\* The head of the inbox is gone.
LEMMA RequestsTake ==
    ASSUME NEW fra, NEW ask, RequestsOK(fra, inbox, ask), inbox \in Seq(Events), inbox # <<>>,
           inbox' = Tail(inbox)
    PROVE  RequestsOK(fra, inbox', ask)
  <1>1. \A i \in 1..Len(inbox') : i + 1 \in 1..Len(inbox) /\ inbox'[i] = inbox[i + 1]
    BY TailHolds
  <1>2. \A k \in 1..Len(inbox') :
          IsRequest(inbox'[k]) => ask[inbox'[k].approval].state # "unasked" /\ fra[inbox'[k].approval] = <<>>
    BY <1>1 DEF RequestsOK
  <1>3. ASSUME NEW k \in 1..Len(inbox'), NEW l \in 1..Len(inbox'),
               IsRequest(inbox'[k]), IsRequest(inbox'[l]), inbox'[k].approval = inbox'[l].approval
        PROVE  k = l
    <2>1. k + 1 = l + 1
      BY <1>1, <1>3 DEF RequestsOK
    <2> QED
      BY <2>1
  <1> QED
    BY <1>2, <1>3 DEF RequestsOK

\* A request that reaches its live turn becomes a card.
LEMMA RaiseKeeps ==
    ASSUME NEW a \in Approvals, inflight \in Turns,
           CardsOK(approvals, frames, inflight, asks), RequestsOK(frames, inbox, asks),
           InboxOK(inbox, Begun, stopped, said),
           inbox # <<>>, inbox' = Tail(inbox),
           IsRequest(inbox[1]), inbox[1].approval = a,
           RaiseApproval(a, inflight)
    PROVE  CardsOK(approvals', frames', inflight, asks) /\ RequestsOK(frames', inbox', asks)
  <1>1. /\ asks \in Asks /\ frames \in [Approvals -> Cards]
        /\ approvals \in Seq(ApprovalRecord) /\ Len(approvals) \in Nat
        /\ DOMAIN approvals = 1..Len(approvals)
        /\ \A i \in 1..Len(approvals) :
             approvals[i] \in ApprovalRecord /\ approvals[i].id \in Approvals /\ approvals[i].turn \in Turns
        /\ \A i, j \in 1..Len(approvals) : approvals[i].id = approvals[j].id => i = j
    BY CardFacts
  <1>2. /\ \A i \in 1..Len(approvals) :
             IF approvals[i].state = "pending"
             THEN approvals[i].turn = inflight /\ frames[approvals[i].id] = <<"pending">>
             ELSE frames[approvals[i].id] \in Settled
        /\ \A b \in Approvals : asks[b].state = "unasked" => frames[b] = <<>>
        /\ Len(approvals) <= ApprovalMemory
    BY DEF CardsOK
  <1>3. inbox \in Seq(Events) /\ 1 \in 1..Len(inbox)
    <2>1. inbox \in Seq(Events)
      BY DEF InboxOK
    <2> QED
      BY <2>1, TailHolds
  <1>4. RequestsOK(frames, inbox', asks)
    BY <1>3, RequestsTake
  <1>5. asks[a].state # "unasked" /\ frames[a] = <<>>
    BY <1>3 DEF RequestsOK
  <1>6. CASE Remembered(a)
    <2>1. approvals' = approvals /\ frames' = frames
      BY <1>6 DEF RaiseApproval
    <2> QED
      BY <1>4, <2>1
  <1>7. CASE ~Remembered(a)
    <2> DEFINE r == [id |-> a, turn |-> inflight, state |-> "pending"]
               all == Append(approvals, r)
    <2>1. /\ approvals' = IF Len(all) > ApprovalMemory THEN Tail(all) ELSE all
          /\ frames' = [frames EXCEPT ![a] = Append(@, "pending")]
      BY <1>7 DEF RaiseApproval
    <2>2. r \in ApprovalRecord /\ r.id = a /\ r.turn = inflight /\ r.state = "pending"
      BY DEF ApprovalRecord
    <2>3. frames'[a] = <<"pending">> /\ (\A b \in Approvals : b # a => frames'[b] = frames[b])
          /\ frames' \in [Approvals -> Cards]
      <3>1. Append(<<>>, "pending") = <<"pending">>
        OBVIOUS
      <3>2. <<"pending">> \in Cards
        BY DEF Cards
      <3> QED
        BY <1>1, <1>5, <2>1, <3>1, <3>2
    <2>4. \A i \in 1..Len(approvals) : approvals[i].id # a
      BY <1>1, <1>7 DEF Remembered
    <2> HIDE DEF r
    <2>5. /\ all \in Seq(ApprovalRecord) /\ Len(all) = Len(approvals) + 1 /\ all # <<>>
          /\ \A i \in 1..Len(all) : (i \in 1..Len(approvals) /\ all[i] = approvals[i])
                                    \/ (i = Len(approvals) + 1 /\ all[i] = r)
      BY <1>1, <2>2, AppendHolds, AppendProperties
    <2> HIDE DEF all
    <2>6. \A i \in 1..Len(all) :
            IF all[i].state = "pending"
            THEN all[i].turn = inflight /\ frames'[all[i].id] = <<"pending">>
            ELSE frames'[all[i].id] \in Settled
      <3> SUFFICES ASSUME NEW i \in 1..Len(all)
                   PROVE  IF all[i].state = "pending"
                          THEN all[i].turn = inflight /\ frames'[all[i].id] = <<"pending">>
                          ELSE frames'[all[i].id] \in Settled
        OBVIOUS
      <3>1. CASE i \in 1..Len(approvals) /\ all[i] = approvals[i]
        <4>1. frames'[approvals[i].id] = frames[approvals[i].id]
          BY <1>1, <2>3, <2>4, <3>1
        <4> QED
          BY <1>2, <3>1, <4>1
      <3>2. CASE all[i] = r
        BY <2>2, <2>3, <3>2
      <3> QED
        BY <2>5, <3>1, <3>2
    <2>7. \A i, j \in 1..Len(all) : all[i].id = all[j].id => i = j
      BY <1>1, <2>2, <2>4, <2>5
    <2>8. /\ approvals' \in Seq(ApprovalRecord) /\ Len(approvals') <= ApprovalMemory
          /\ \A i \in 1..Len(approvals') :
               IF approvals'[i].state = "pending"
               THEN approvals'[i].turn = inflight /\ frames'[approvals'[i].id] = <<"pending">>
               ELSE frames'[approvals'[i].id] \in Settled
          /\ \A i, j \in 1..Len(approvals') : approvals'[i].id = approvals'[j].id => i = j
      <3>0. ApprovalMemory \in Nat
        BY ConstantsAssumption
      <3>1. CASE Len(all) > ApprovalMemory
        <4>1. approvals' = Tail(all)
          BY <2>1, <3>1
        <4>2. /\ approvals' \in Seq(ApprovalRecord) /\ Len(approvals') = Len(all) - 1
              /\ \A i \in 1..Len(approvals') : i + 1 \in 1..Len(all) /\ approvals'[i] = all[i + 1]
          BY <2>5, <4>1, TailHolds
        <4>3. Len(approvals') <= ApprovalMemory
          BY <1>1, <1>2, <2>5, <3>0, <4>2
        <4>4. ASSUME NEW i \in 1..Len(approvals'), NEW j \in 1..Len(approvals'),
                     approvals'[i].id = approvals'[j].id
              PROVE  i = j
          <5>1. i + 1 = j + 1
            BY <2>7, <4>2, <4>4
          <5> QED
            BY <5>1
        <4>5. \A i \in 1..Len(approvals') :
                IF approvals'[i].state = "pending"
                THEN approvals'[i].turn = inflight /\ frames'[approvals'[i].id] = <<"pending">>
                ELSE frames'[approvals'[i].id] \in Settled
          BY <2>6, <4>2
        <4> QED
          BY <4>2, <4>3, <4>4, <4>5
      <3>2. CASE ~(Len(all) > ApprovalMemory)
        <4>1. approvals' = all
          BY <2>1, <3>2
        <4>2. Len(all) <= ApprovalMemory
          BY <1>1, <2>5, <3>0, <3>2
        <4> QED
          BY <2>5, <2>6, <2>7, <4>1, <4>2
      <3> QED
        BY <3>1, <3>2
    <2>9. \A b \in Approvals : asks[b].state = "unasked" => frames'[b] = <<>>
      BY <1>2, <1>5, <2>3
    <2>10. CardsOK(approvals', frames', inflight, asks)
      BY <1>1, <2>3, <2>8, <2>9 DEF CardsOK
    <2>11. RequestsOK(frames', inbox', asks)
      <3>1. \A k, l \in 1..Len(inbox') :
              IsRequest(inbox'[k]) /\ IsRequest(inbox'[l]) /\ inbox'[k].approval = inbox'[l].approval => k = l
        BY <1>4 DEF RequestsOK
      <3>2. ASSUME NEW k \in 1..Len(inbox'), IsRequest(inbox'[k])
            PROVE  asks[inbox'[k].approval].state # "unasked" /\ frames'[inbox'[k].approval] = <<>>
        <4>1. asks[inbox'[k].approval].state # "unasked" /\ frames[inbox'[k].approval] = <<>>
          BY <1>4, <3>2 DEF RequestsOK
        <4>2. k + 1 \in 1..Len(inbox) /\ inbox'[k] = inbox[k + 1] /\ k + 1 # 1
          BY <1>3, TailHolds
        <4>3. inbox'[k].approval # a
          BY <1>3, <3>2, <4>2 DEF RequestsOK
        <4>4. inbox'[k].approval \in Approvals
          BY <3>2, <4>2 DEF InboxOK, EventOK, IsRequest
        <4> QED
          BY <2>3, <4>1, <4>3, <4>4
      <3> QED
        BY <3>1, <3>2 DEF RequestsOK
    <2> QED
      BY <2>10, <2>11
  <1> QED
    BY <1>6, <1>7

------------------------------------------------------------------------------
(* The transcript.                                                             *)

\* An entry is appended to the transcript of turn t.
LEMMA EntryKeeps ==
    ASSUME NEW t \in Turns, NEW x \in Entry, record \in [Turns -> Seq(Entry)],
           AppendTo(t, <<x>>), EntriesOK(record, said, stopped, crashed),
           stopped \subseteq stopped', crashed \subseteq crashed',
           x.reply \in 0..Len(said[t]), x.reply # 0 => x.kind = "reply",
           x.kind = "interrupted" => t \in stopped',
           \A i \in 1..Len(record[t]) : record[t][i].reply = x.reply /\ x.reply # 0 =>
             t \in crashed' /\ record[t][i].keyed # x.keyed
    PROVE  /\ EntriesOK(record', said, stopped', crashed')
           /\ record' \in [Turns -> Seq(Entry)] /\ record'[t] # <<>>
           /\ \A s \in Turns : s # t => record'[s] = record[s]
           /\ \A s \in Turns : \A n : InRecord(record', s, n) <=> InRecord(record, s, n) \/ (s = t /\ n = x.reply)
  <1>1. record' = [record EXCEPT ![t] = @ \o <<x>>]
    BY DEF AppendTo
  <1>2. record[t] \in Seq(Entry)
    OBVIOUS
  <1>3. record'[t] = Append(record[t], x)
    BY <1>1, <1>2, ConcatHolds
  <1>4. /\ record'[t] \in Seq(Entry) /\ record'[t] # <<>>
        /\ \A i \in 1..Len(record'[t]) :
             (i \in 1..Len(record[t]) /\ record'[t][i] = record[t][i]) \/ (i = Len(record[t]) + 1 /\ record'[t][i] = x)
        /\ \A i \in 1..Len(record[t]) : i \in 1..Len(record'[t]) /\ record'[t][i] = record[t][i]
        /\ Len(record[t]) + 1 \in 1..Len(record'[t]) /\ record'[t][Len(record[t]) + 1] = x
    BY <1>2, <1>3, AppendHolds, ConcatHolds
  <1>5. \A s \in Turns : s # t => record'[s] = record[s]
    BY <1>1
  <1>6. record' \in [Turns -> Seq(Entry)]
    BY <1>1, <1>3, <1>4
  <1>7. \A s \in Turns : \A n : InRecord(record', s, n) <=> InRecord(record, s, n) \/ (s = t /\ n = x.reply)
    <2> SUFFICES ASSUME NEW s \in Turns, NEW n
                 PROVE  InRecord(record', s, n) <=> InRecord(record, s, n) \/ (s = t /\ n = x.reply)
      OBVIOUS
    <2>1. CASE s = t
      BY <1>4, <2>1 DEF InRecord
    <2>2. CASE s # t
      BY <1>5, <2>2 DEF InRecord
    <2> QED
      BY <2>1, <2>2
  <1>8. ASSUME NEW s \in Turns, NEW i \in 1..Len(record'[s])
        PROVE  /\ record'[s][i].reply \in 0..Len(said[s])
               /\ record'[s][i].reply # 0 => record'[s][i].kind = "reply"
               /\ record'[s][i].kind = "interrupted" => s \in stopped'
    <2>1. CASE s # t
      BY <1>5, <1>8, <2>1 DEF EntriesOK
    <2>2. CASE s = t /\ i \in 1..Len(record[t]) /\ record'[t][i] = record[t][i]
      BY <2>2 DEF EntriesOK
    <2>3. CASE s = t /\ record'[t][i] = x
      BY <2>3
    <2> QED
      BY <1>4, <1>8, <2>1, <2>2, <2>3
  <1>9. ASSUME NEW s \in Turns, NEW i \in 1..Len(record'[s]), NEW j \in 1..Len(record'[s]),
               i # j, record'[s][i].reply = record'[s][j].reply, record'[s][i].reply # 0
        PROVE  s \in crashed' /\ record'[s][i].keyed # record'[s][j].keyed
    <2>1. CASE s # t
      BY <1>5, <1>9, <2>1 DEF EntriesOK
    <2>2. CASE s = t /\ i \in 1..Len(record[t]) /\ record'[t][i] = record[t][i]
                     /\ j \in 1..Len(record[t]) /\ record'[t][j] = record[t][j]
      BY <1>9, <2>2 DEF EntriesOK
    <2>3. CASE s = t /\ i \in 1..Len(record[t]) /\ record'[t][i] = record[t][i]
                     /\ j = Len(record[t]) + 1 /\ record'[t][j] = x
      BY <1>9, <2>3
    <2>4. CASE s = t /\ j \in 1..Len(record[t]) /\ record'[t][j] = record[t][j]
                     /\ i = Len(record[t]) + 1 /\ record'[t][i] = x
      BY <1>9, <2>4
    <2> QED
      BY <1>4, <1>9, <2>1, <2>2, <2>3, <2>4
  <1>10. EntriesOK(record', said, stopped', crashed')
    BY <1>8, <1>9 DEF EntriesOK
  <1> QED
    BY <1>4, <1>5, <1>6, <1>7, <1>10

\* Nothing is appended.
LEMMA NoEntryKeeps ==
    ASSUME NEW t \in Turns, record \in [Turns -> Seq(Entry)], AppendTo(t, <<>>),
           EntriesOK(record, said, stopped, crashed),
           stopped \subseteq stopped', crashed \subseteq crashed'
    PROVE  record' = record /\ EntriesOK(record', said, stopped', crashed')
  <1>1. record' = [record EXCEPT ![t] = @ \o <<>>] /\ record[t] \in Seq(Entry)
    BY DEF AppendTo
  <1>2. record[t] \o <<>> = record[t]
    BY <1>1, ConcatHolds, ConcatEmptySeq
  <1>3. record' = record
    BY <1>1, <1>2
  <1> QED
    BY <1>3 DEF EntriesOK

\* A marker is appended and the inbox is left alone.
LEMMA MarkerKeeps ==
    ASSUME NEW t \in Turns, NEW kind \in {"failed", "interrupted", "timeLimit"},
           record \in [Turns -> Seq(Entry)], AppendTo(t, <<Marker(kind)>>),
           InboxOK(inbox, Begun, stopped, said), SaidOK(said), Begun \subseteq Turns,
           EntriesOK(record, said, stopped, crashed), RepliesOK(record, inbox, said, crashed),
           stopped \subseteq stopped', crashed' = crashed, kind = "interrupted" => t \in stopped'
    PROVE  /\ EntriesOK(record', said, stopped', crashed') /\ RepliesOK(record', inbox, said, crashed')
           /\ record' \in [Turns -> Seq(Entry)] /\ record'[t] # <<>>
           /\ \A s \in Turns : s # t => record'[s] = record[s]
  <1> DEFINE x == Marker(kind)
  <1>1. x.kind = kind /\ x.reply = 0 /\ x \in Entry
    <2>1. 0 \in 0..MaxReplies
      BY ConstantsAssumption
    <2> QED
      BY <2>1 DEF Marker, Entry
  <1>2. 0 \in 0..Len(said[t])
    <2>1. said[t] \in Seq(BOOLEAN)
      BY DEF SaidOK
    <2> QED
      BY <2>1, LenProperties
  <1>3. AppendTo(t, <<x>>)
    OBVIOUS
  <1> HIDE DEF x
  <1>4. /\ EntriesOK(record', said, stopped', crashed')
        /\ record' \in [Turns -> Seq(Entry)] /\ record'[t] # <<>>
        /\ \A s \in Turns : s # t => record'[s] = record[s]
        /\ \A s \in Turns : \A n : InRecord(record', s, n) <=> InRecord(record, s, n) \/ (s = t /\ n = x.reply)
    BY <1>1, <1>2, <1>3, EntryKeeps
  <1>5. RepliesOK(record', inbox, said, crashed')
    <2>1. \A s \in Turns : \A n \in 1..Len(said[s]) :
            said[s][n] => InRecord(record', s, n) \/ InInbox(inbox, s, n)
      BY <1>4 DEF RepliesOK
    <2>2. ASSUME NEW k \in 1..Len(inbox), inbox[k].kind = "commit",
                 InRecord(record', inbox[k].turn, inbox[k].reply)
          PROVE  inbox[k].turn \in crashed'
      <3>1. inbox[k].turn \in Turns /\ inbox[k].reply # 0
        BY <2>2 DEF InboxOK, EventOK
      <3>2. InRecord(record, inbox[k].turn, inbox[k].reply)
        BY <1>1, <1>4, <2>2, <3>1
      <3> QED
        BY <2>2, <3>2 DEF RepliesOK
    <2> QED
      BY <2>1, <2>2 DEF RepliesOK
  <1> QED
    BY <1>4, <1>5

\* What the projection of an event appends.
LEMMA AppendedEntry ==
    ASSUME NEW e \in Events, ~IsDeclined(e)
    PROVE  \/ /\ Appended(e) = <<>> /\ ~IsTerminal(e)
              /\ e.kind = "commit" => ~IsLive(e) /\ IsKeyed(e)
           \/ \E x \in Entry :
                /\ Appended(e) = <<x>> /\ e.kind # "approval"
                /\ x.reply \in {0, e.reply}
                /\ IF e.kind = "commit" THEN e.blocks => x.reply = e.reply ELSE x.reply = 0
                /\ x.reply # 0 => x.kind = "reply"
                /\ x.kind = "interrupted" => e.kind = "interrupted"
                /\ x.reply # 0 /\ ~IsLive(e) => x.keyed /\ ~IsKeyed(e)
  <1>1. /\ e.kind \in {"commit", "failed", "interrupted", "approval"} /\ e.blocks \in BOOLEAN
        /\ e.reply \in 0..MaxReplies /\ MaxReplies \in Nat
    BY ConstantsAssumption DEF Events
  <1>2. \A k \in {"failed", "interrupted"} :
          /\ Marker(k) \in Entry /\ Marker(k).reply = 0 /\ Marker(k).kind = k
    BY <1>1 DEF Marker, Entry
  <1>3. \A b \in BOOLEAN : /\ Reply(e.reply, b) \in Entry /\ Reply(e.reply, b).reply = e.reply
                           /\ Reply(e.reply, b).kind = "reply" /\ Reply(e.reply, b).keyed = b
    BY <1>1 DEF Reply, Entry
  <1>4. CASE e.kind = "commit" /\ IsLive(e)
    <2>1. Appended(e) = IF e.blocks THEN <<Reply(e.reply, FALSE)>> ELSE <<Marker("failed")>>
      BY <1>4 DEF Appended, IsTerminal
    <2>2. CASE e.blocks
      <3>1. Appended(e) = <<Reply(e.reply, FALSE)>> /\ Reply(e.reply, FALSE) \in Entry
        BY <1>3, <2>1, <2>2
      <3> QED
        BY <1>3, <1>4, <2>2, <3>1
    <2>3. CASE ~e.blocks
      <3>1. Appended(e) = <<Marker("failed")>> /\ Marker("failed") \in Entry
        BY <1>2, <2>1, <2>3
      <3> QED
        BY <1>2, <1>4, <2>3, <3>1
    <2> QED
      BY <2>2, <2>3
  <1>5. CASE e.kind = "commit" /\ ~IsLive(e)
    <2>1. Appended(e) = IF IsKeyed(e) THEN <<>> ELSE <<Reply(e.reply, TRUE)>>
      BY <1>5 DEF Appended, IsTerminal
    <2>2. CASE IsKeyed(e)
      BY <1>5, <2>1, <2>2 DEF IsTerminal
    <2>3. CASE ~IsKeyed(e)
      <3>1. Appended(e) = <<Reply(e.reply, TRUE)>> /\ Reply(e.reply, TRUE) \in Entry
        BY <1>3, <2>1, <2>3
      <3> QED
        BY <1>3, <1>5, <2>3, <3>1
    <2> QED
      BY <2>2, <2>3
  <1>6. CASE e.kind \in {"failed", "interrupted"} /\ IsLive(e)
    <2>1. Appended(e) = <<Marker("failed")>> /\ Marker("failed") \in Entry
      BY <1>2, <1>6 DEF Appended, IsTerminal
    <2> QED
      BY <1>2, <1>6, <2>1
  <1>7. CASE e.kind \in {"failed", "interrupted"} /\ ~IsLive(e)
    <2>1. Appended(e) = <<Marker(e.kind)>> /\ Marker(e.kind) \in Entry
      BY <1>2, <1>7 DEF Appended, IsTerminal
    <2>2. Marker(e.kind).reply = 0 /\ Marker(e.kind).kind = e.kind
      BY <1>2, <1>7
    <2> QED
      BY <1>7, <2>1, <2>2
  <1>8. CASE e.kind = "approval"
    BY <1>8 DEF Appended, IsTerminal
  <1> QED
    BY <1>1, <1>4, <1>5, <1>6, <1>7, <1>8

\* The head of the inbox is projected, and marked applied or not.
LEMMA ProjectionKeeps ==
    ASSUME NEW e, IInv, inbox # <<>>, e = Head(inbox), ~IsDeclined(e), AppendTo(e.turn, Appended(e)),
           stopped' = stopped, crashed \subseteq crashed'
    PROVE  /\ EventOK(e, Begun, stopped, said) /\ e = inbox[1] /\ e.turn \in Begun
           /\ record' \in [Turns -> Seq(Entry)]
           /\ \A s \in Turns : s # e.turn => record'[s] = record[s]
           /\ record[e.turn] # <<>> => record'[e.turn] # <<>>
           /\ IsLive(e) /\ e.kind # "approval" => record'[e.turn] # <<>>
           /\ EntriesOK(record', said, stopped', crashed')
           /\ RepliesOK(record', Tail(inbox), said, crashed')
           /\ e.turn \in crashed' => RepliesOK(record', inbox, said, crashed')
  <1> DEFINE t == e.turn
             tail == Tail(inbox)
  <1>1. /\ inbox \in Seq(Events) /\ \A k \in 1..Len(inbox) : EventOK(inbox[k], Begun, stopped, said)
        /\ \A k, l \in 1..Len(inbox) : SameReply(inbox[k], inbox[l]) => k = l
    BY AgentFacts DEF InboxOK
  <1>2. /\ e = inbox[1] /\ 1 \in 1..Len(inbox) /\ Len(inbox) \in Nat
        /\ \A k \in 1..Len(tail) : k + 1 \in 1..Len(inbox) /\ tail[k] = inbox[k + 1] /\ k + 1 # 1
        /\ \A k \in 1..Len(inbox) : k = 1 \/ (k - 1 \in 1..Len(tail) /\ tail[k - 1] = inbox[k])
    BY <1>1, TailHolds
  <1>3. EventOK(e, Begun, stopped, said) /\ e \in Events /\ t \in Begun /\ t \in Turns
    BY <1>1, <1>2, AgentFacts DEF EventOK
  <1>4. /\ e.kind \in {"commit", "failed", "interrupted", "approval"} /\ e.blocks \in BOOLEAN
        /\ e.kind = "commit" => e.reply \in 1..Len(said[t]) /\ said[t][e.reply] = e.blocks
        /\ e.kind # "commit" => e.reply = 0
        /\ e.kind = "interrupted" => t \in stopped
    BY <1>3 DEF EventOK, Events
  <1>5. record \in [Turns -> Seq(Entry)] /\ (t = inflight => record[t] = <<>>)
    <2>1. /\ record \in [Turns -> Seq(Entry)]
          /\ (inflight # NoTurn => Quiet(inflight, record, stopped, lost))
      BY AgentFacts DEF ThreadOK
    <2>2. t # NoTurn
      BY <1>3, AgentFacts
    <2> QED
      BY <2>1, <2>2 DEF Quiet
  <1>6. Len(said[t]) \in Nat
    <2>1. said[t] \in Seq(BOOLEAN)
      BY <1>3, AgentFacts DEF SaidOK
    <2> QED
      BY <2>1, LenProperties
  <1>7. /\ EntriesOK(record, said, stopped, crashed) /\ RepliesOK(record, inbox, said, crashed)
        /\ stopped \subseteq stopped'
    BY AgentFacts
  <1> HIDE DEF t, tail
  \* Nothing is appended: no reply, or one that is already there.
  <1>8. CASE /\ Appended(e) = <<>> /\ ~IsTerminal(e)
             /\ e.kind = "commit" => ~IsLive(e) /\ IsKeyed(e)
    <2>1. AppendTo(t, <<>>)
      BY <1>8 DEF t
    <2>2. record' = record /\ EntriesOK(record', said, stopped', crashed')
      BY <1>3, <1>5, <1>7, <2>1, NoEntryKeeps
    <2>3. e.kind = "commit" => InRecord(record, t, e.reply)
      <3> SUFFICES ASSUME e.kind = "commit" PROVE InRecord(record, t, e.reply)
        OBVIOUS
      <3>1. Reply(e.reply, TRUE) \in Range(record[t]) /\ record[t] \in Seq(Entry)
        BY <1>3, <1>5, <1>8 DEF IsKeyed, t
      <3>2. PICK i \in 1..Len(record[t]) : record[t][i] = Reply(e.reply, TRUE)
        BY <3>1, RangeHolds
      <3> QED
        BY <3>2 DEF InRecord, Reply
    <2>4. RepliesOK(record', inbox, said, crashed')
      BY <1>7, <2>2 DEF RepliesOK
    <2>5. RepliesOK(record', tail, said, crashed')
      <3>1. ASSUME NEW s \in Turns, NEW n \in 1..Len(said[s]), said[s][n]
            PROVE  InRecord(record', s, n) \/ InInbox(tail, s, n)
        <4>1. InRecord(record', s, n) \/ InInbox(inbox, s, n)
          BY <2>4, <3>1 DEF RepliesOK
        <4>2. ASSUME InInbox(inbox, s, n) PROVE InRecord(record', s, n) \/ InInbox(tail, s, n)
          <5>1. PICK k \in 1..Len(inbox) : inbox[k].turn = s /\ inbox[k].reply = n
            BY <4>2 DEF InInbox
          <5>2. CASE k = 1
            <6>1. e.turn = s /\ e.reply = n /\ n # 0
              BY <1>2, <5>1, <5>2
            <6>2. e.kind = "commit"
              BY <1>4, <6>1
            <6> QED
              BY <2>2, <2>3, <6>1, <6>2 DEF t
          <5>3. CASE k # 1
            BY <1>2, <5>1, <5>3 DEF InInbox
          <5> QED
            BY <5>2, <5>3
        <4> QED
          BY <4>1, <4>2
      <3>2. \A k \in 1..Len(tail) :
              tail[k].kind = "commit" /\ InRecord(record', tail[k].turn, tail[k].reply) => tail[k].turn \in crashed'
        BY <1>2, <2>4 DEF RepliesOK
      <3> QED
        BY <3>1, <3>2 DEF RepliesOK
    <2>6. IsLive(e) /\ e.kind # "approval" => record'[t] # <<>>
      BY <1>4, <1>8 DEF IsTerminal
    <2>7. record' \in [Turns -> Seq(Entry)] /\ (\A s \in Turns : s # t => record'[s] = record[s])
          /\ (record[t] # <<>> => record'[t] # <<>>)
      BY <1>5, <2>2
    <2> QED
      BY <1>2, <1>3, <2>2, <2>4, <2>5, <2>6, <2>7 DEF t, tail
  <1>9. ASSUME NEW x \in Entry, Appended(e) = <<x>>, e.kind # "approval",
               x.reply \in {0, e.reply},
               IF e.kind = "commit" THEN e.blocks => x.reply = e.reply ELSE x.reply = 0,
               x.reply # 0 => x.kind = "reply",
               x.kind = "interrupted" => e.kind = "interrupted",
               x.reply # 0 /\ ~IsLive(e) => x.keyed /\ ~IsKeyed(e)
        PROVE  /\ record' \in [Turns -> Seq(Entry)]
               /\ \A s \in Turns : s # t => record'[s] = record[s]
               /\ record'[t] # <<>>
               /\ EntriesOK(record', said, stopped', crashed')
               /\ RepliesOK(record', tail, said, crashed')
               /\ t \in crashed' => RepliesOK(record', inbox, said, crashed')
    <2>1. AppendTo(t, <<x>>)
      BY <1>9 DEF t
    <2>2. x.reply # 0 => e.kind = "commit" /\ x.reply = e.reply /\ x.reply \in 1..Len(said[t])
      BY <1>4, <1>9
    <2>3. x.reply \in 0..Len(said[t])
      BY <1>6, <2>2
    <2>4. x.kind = "interrupted" => t \in stopped'
      BY <1>4, <1>9
    <2>5. ASSUME NEW i \in 1..Len(record[t]), record[t][i].reply = x.reply, x.reply # 0
          PROVE  t \in crashed' /\ record[t][i].keyed # x.keyed
      <3>1. e.kind = "commit" /\ record[t][i].reply = e.reply
        BY <2>2, <2>5
      <3>2. InRecord(record, t, e.reply)
        BY <3>1 DEF InRecord
      <3>3. t \in crashed
        BY <1>2, <1>7, <3>1, <3>2 DEF RepliesOK, t
      <3>4. ~IsLive(e)
        <4>1. record[t] # <<>>
          <5>1. Len(<<>>) = 0
            OBVIOUS
          <5> QED
            BY <5>1
        <4> QED
          BY <1>5, <4>1 DEF IsLive, t
      <3>5. x.keyed /\ ~IsKeyed(e)
        BY <1>9, <2>5, <3>4
      <3>6. record[t] \in Seq(Entry) /\ record[t][i] \in Entry /\ record[t][i].kind = "reply"
        <4>1. record[t] \in Seq(Entry)
          BY <1>3, <1>5
        <4>2. record[t][i].kind = "reply"
          BY <1>3, <1>7, <2>5 DEF EntriesOK
        <4> QED
          BY <4>1, <4>2, ElementOfSeq
      <3>7. record[t][i] # Reply(e.reply, TRUE)
        BY <3>5, <3>6, RangeHolds DEF IsKeyed, t
      <3>8. record[t][i].keyed # TRUE
        <4> SUFFICES ASSUME record[t][i].keyed = TRUE PROVE FALSE
          OBVIOUS
        <4>1. record[t][i] = [kind |-> "reply", reply |-> e.reply, keyed |-> TRUE]
          BY <3>1, <3>6 DEF Entry
        <4> QED
          BY <3>7, <4>1 DEF Reply
      <3>9. record[t][i].keyed \in BOOLEAN /\ x.keyed \in BOOLEAN
        BY <3>6 DEF Entry
      <3> QED
        BY <1>7, <3>3, <3>5, <3>8, <3>9
    <2>6. /\ EntriesOK(record', said, stopped', crashed')
          /\ record' \in [Turns -> Seq(Entry)] /\ record'[t] # <<>>
          /\ \A s \in Turns : s # t => record'[s] = record[s]
          /\ \A s \in Turns : \A n : InRecord(record', s, n) <=> InRecord(record, s, n) \/ (s = t /\ n = x.reply)
      BY <1>3, <1>5, <1>7, <1>9, <2>1, <2>3, <2>4, <2>5, EntryKeeps
    <2>7. ASSUME NEW s \in Turns, NEW n \in 1..Len(said[s]), said[s][n]
          PROVE  InRecord(record', s, n) \/ InInbox(tail, s, n)
      <3>1. CASE InRecord(record, s, n)
        BY <2>6, <3>1
      <3>2. CASE InInbox(inbox, s, n)
        <4>1. PICK k \in 1..Len(inbox) : inbox[k].turn = s /\ inbox[k].reply = n
          BY <3>2 DEF InInbox
        <4>2. CASE k = 1
          <5>1. t = s /\ e.reply = n /\ n # 0
            BY <1>2, <4>1, <4>2 DEF t
          <5>2. e.kind = "commit" /\ e.blocks
            BY <1>4, <2>7, <5>1
          <5>3. x.reply = n
            BY <1>9, <5>1, <5>2
          <5> QED
            BY <2>6, <5>1, <5>3
        <4>3. CASE k # 1
          BY <1>2, <4>1, <4>3 DEF InInbox
        <4> QED
          BY <4>2, <4>3
      <3> QED
        BY <1>7, <2>7, <3>1, <3>2 DEF RepliesOK
    <2>8. ASSUME NEW k \in 1..Len(inbox), inbox[k].kind = "commit",
                 InRecord(record', inbox[k].turn, inbox[k].reply)
          PROVE  inbox[k].turn \in crashed' \/ (k = 1 /\ inbox[k].turn = t)
      <3>1. inbox[k].turn \in Turns /\ inbox[k].reply # 0
        BY <1>1, <2>8, AgentFacts DEF EventOK
      <3>2. CASE InRecord(record, inbox[k].turn, inbox[k].reply)
        BY <1>7, <2>8, <3>2 DEF RepliesOK
      <3>3. CASE inbox[k].turn = t /\ inbox[k].reply = x.reply
        <4>1. e.kind = "commit" /\ x.reply = e.reply
          BY <2>2, <3>1, <3>3
        <4>2. SameReply(inbox[k], inbox[1])
          BY <1>2, <2>8, <3>3, <4>1 DEF SameReply, t
        <4> QED
          BY <1>1, <1>2, <3>3, <4>2
      <3> QED
        BY <2>6, <2>8, <3>1, <3>2, <3>3
    <2>9. RepliesOK(record', tail, said, crashed')
      <3>1. \A k \in 1..Len(tail) :
              tail[k].kind = "commit" /\ InRecord(record', tail[k].turn, tail[k].reply) => tail[k].turn \in crashed'
        BY <1>2, <2>8
      <3> QED
        BY <2>7, <3>1 DEF RepliesOK
    <2>10. ASSUME t \in crashed' PROVE RepliesOK(record', inbox, said, crashed')
      <3>1. \A s \in Turns : \A n \in 1..Len(said[s]) :
              said[s][n] => InRecord(record', s, n) \/ InInbox(inbox, s, n)
        <4> SUFFICES ASSUME NEW s \in Turns, NEW n \in 1..Len(said[s]), said[s][n], InInbox(tail, s, n)
                     PROVE  InInbox(inbox, s, n)
          BY <2>7
        <4>1. PICK k \in 1..Len(tail) : tail[k].turn = s /\ tail[k].reply = n
          BY DEF InInbox
        <4>2. k + 1 \in 1..Len(inbox) /\ inbox[k + 1].turn = s /\ inbox[k + 1].reply = n
          BY <1>2, <4>1
        <4> QED
          BY <4>2 DEF InInbox
      <3>2. \A k \in 1..Len(inbox) :
              inbox[k].kind = "commit" /\ InRecord(record', inbox[k].turn, inbox[k].reply) => inbox[k].turn \in crashed'
        BY <2>8, <2>10
      <3> QED
        BY <3>1, <3>2 DEF RepliesOK
    <2> QED
      BY <2>6, <2>9, <2>10
  <1>10. CASE \E x \in Entry :
                /\ Appended(e) = <<x>> /\ e.kind # "approval"
                /\ x.reply \in {0, e.reply}
                /\ IF e.kind = "commit" THEN e.blocks => x.reply = e.reply ELSE x.reply = 0
                /\ x.reply # 0 => x.kind = "reply"
                /\ x.kind = "interrupted" => e.kind = "interrupted"
                /\ x.reply # 0 /\ ~IsLive(e) => x.keyed /\ ~IsKeyed(e)
    <2>1. /\ record' \in [Turns -> Seq(Entry)]
          /\ \A s \in Turns : s # t => record'[s] = record[s]
          /\ record'[t] # <<>>
          /\ EntriesOK(record', said, stopped', crashed')
          /\ RepliesOK(record', tail, said, crashed')
          /\ t \in crashed' => RepliesOK(record', inbox, said, crashed')
      BY <1>9, <1>10
    <2> QED
      BY <1>2, <1>3, <2>1 DEF t, tail
  <1> QED
    BY <1>3, <1>8, <1>10, AppendedEntry

------------------------------------------------------------------------------
(* The actions of the person, of #runTurn and of the projection.               *)

LEMMA GatewayKeeps ==
    ASSUME IInv, UNCHANGED peer, SettledKept, SteersKept,
           ThreadOK(submitted', queue', inflight', steered', record', stopped', lost'),
           inbox' = inbox \/ (inbox # <<>> /\ inbox' = Tail(inbox)),
           \/ outbox' = outbox
           \/ \E c : CommandOK(c, Begun', steered', stopped') /\ outbox' = Append(outbox, c),
           EntriesOK(record', said, stopped', crashed'), RepliesOK(record', inbox', said, crashed'),
           CardsOK(approvals', frames', inflight', asks), RequestsOK(frames', inbox', asks),
           blocked' \in BOOLEAN
    PROVE  IInv'
  <1>1. UNCHANGED <<active, held, sealed, stopping, heard>> /\ asks' = asks /\ said' = said
    BY DEF peer
  <1>2. /\ submitted \in Nat /\ submitted' \in Nat /\ submitted <= submitted'
        /\ stopped \subseteq stopped'
    <2>1. submitted \in 0..MaxMessages /\ submitted' \in 0..MaxMessages /\ MaxMessages \in Nat
      BY AgentFacts, ConstantsAssumption DEF ThreadOK
    <2> QED
      BY <2>1 DEF SettledKept
  <1>3. Begun \subseteq Begun'
    BY <1>2, AgentFacts, BegunGrows
  <1>4. OutboxOK(outbox', Begun', steered', stopped')
    BY <1>2, <1>3, AgentFacts, OutboxKeeps
  <1>5. InboxOK(inbox', Begun', stopped', said')
    BY <1>1, <1>2, <1>3, AgentFacts, InboxKeeps
  <1>6. PeerOK(Begun', submitted', steered', stopped', active', held', sealed', stopping', heard')
    BY <1>1, <1>2, <1>3, AgentFacts, PeerIdles
  <1>7. SaidOK(said') /\ EntriesOK(record', said', stopped', crashed') /\ RepliesOK(record', inbox', said', crashed')
    BY <1>1, AgentFacts
  <1>8. CardsOK(approvals', frames', inflight', asks') /\ RequestsOK(frames', inbox', asks')
    BY <1>1
  <1> QED
    BY <1>4, <1>5, <1>6, <1>7, <1>8 DEF IInv

LEMMA SubmitKeeps ==
    ASSUME IInv, MayAsk, submitted' = NewMessage, queue' = Append(queue, NewMessage),
           UNCHANGED <<inflight, approvals, steered, record, blocked, outbox, inbox, peer, history>>
    PROVE  IInv'
  <1>1. /\ UNCHANGED peer /\ inflight' = inflight /\ approvals' = approvals /\ steered' = steered
        /\ record' = record /\ blocked' = blocked /\ outbox' = outbox /\ inbox' = inbox
        /\ frames' = frames /\ stopped' = stopped /\ lost' = lost /\ crashed' = crashed
    BY DEF history
  <1>2. submitted < MaxMessages /\ submitted' = submitted + 1 /\ queue' = Append(queue, submitted + 1)
    BY DEF MayAsk, NewMessage
  <1>3. ThreadOK(submitted', queue', inflight', steered', record', stopped', lost')
    BY <1>1, <1>2, AgentFacts, ThreadAsks
  <1>4. submitted \in Nat
    BY AgentFacts, ThreadTypes
  <1>5. SettledKept /\ SteersKept
    BY <1>1, <1>2, <1>4 DEF SettledKept, SteersKept
  <1>6. /\ EntriesOK(record', said, stopped', crashed') /\ RepliesOK(record', inbox', said, crashed')
        /\ CardsOK(approvals', frames', inflight', asks) /\ RequestsOK(frames', inbox', asks)
        /\ blocked' \in BOOLEAN
    <2>1. blocked \in BOOLEAN
      BY DEF IInv
    <2> QED
      BY <1>1, <2>1, AgentFacts
  <1> QED
    BY <1>1, <1>3, <1>5, <1>6, GatewayKeeps

LEMMA SubmitMessageKeeps == ASSUME IInv, SubmitMessage PROVE IInv'
  BY SubmitKeeps DEF SubmitMessage

LEMMA SubmitSteerRefusedKeeps == ASSUME IInv, SubmitSteerRefused PROVE IInv'
  BY SubmitKeeps DEF SubmitSteerRefused

\* A command the gateway sends.
LEMMA CommandIs ==
    ASSUME NEW kind \in {"turn", "steer", "interrupt", "resolve_approval"}, NEW t \in Turns,
           NEW m \in 0..MaxMessages, NEW a \in Approvals \cup {"none"}, NEW d \in Decisions \cup {"none"}
    PROVE  LET c == CommandRecord(kind, t, m, a, d)
           IN  /\ c \in Commands /\ c.kind = kind /\ c.turn = t /\ c.message = m
               /\ c.approval = a /\ c.decision = d
  BY DEF CommandRecord, Commands

LEMMA SubmitSteerKeeps ==
    ASSUME IInv, SubmitSteer
    PROVE  IInv'
  <1> DEFINE m == submitted + 1
             c == SteerCommand(m, inflight)
  <1>1. /\ UNCHANGED peer /\ UNCHANGED <<queue, inflight, approvals>>
        /\ record' = record /\ blocked' = blocked /\ inbox' = inbox
        /\ frames' = frames /\ stopped' = stopped /\ lost' = lost /\ crashed' = crashed
    BY DEF SubmitSteer, history, gatewayMemory
  <1>2. /\ submitted < MaxMessages /\ inflight # NoTurn /\ submitted' = m
        /\ steered' = [n \in DOMAIN steered \cup {m} |-> IF n = m THEN inflight ELSE steered[n]]
        /\ outbox' = Append(outbox, c)
    BY DEF SubmitSteer, MayAsk, NewMessage
  <1>3. /\ submitted \in 0..MaxMessages /\ MaxMessages \in Nat /\ inflight \in Begun /\ inflight \in Turns
        /\ DOMAIN steered \subseteq 1..submitted
    BY <1>2, AgentFacts, ThreadTypes DEF ThreadOK
  <1>4. m \in 0..MaxMessages /\ m \notin DOMAIN steered /\ m > submitted
    BY <1>2, <1>3
  <1>5. ThreadOK(submitted', queue', inflight', steered', record', stopped', lost')
    BY <1>1, <1>2, AgentFacts, ThreadSteers
  <1> HIDE DEF c
  <1>6. /\ m \in DOMAIN steered' /\ steered'[m] = inflight
        /\ \A n \in DOMAIN steered : n \in DOMAIN steered' /\ steered'[n] = steered[n]
        /\ \A n \in DOMAIN steered' : n \in DOMAIN steered \/ n > submitted
    <2> HIDE DEF m
    <2> QED
      BY <1>2, <1>4
  <1>7. SettledKept /\ SteersKept
    BY <1>1, <1>2, <1>3, <1>6 DEF SettledKept, SteersKept
  <1>8. CommandOK(c, Begun', steered', stopped')
    <2>1. Begun \subseteq Begun'
      BY <1>2, <1>3, <1>7, AgentFacts, BegunGrows
    <2>2. c \in Commands /\ c.kind = "steer" /\ c.turn = inflight /\ c.message = m
      BY <1>3, <1>4, CommandIs DEF c, SteerCommand
    <2> QED
      BY <1>3, <1>6, <2>1, <2>2 DEF CommandOK
  <1>9. /\ EntriesOK(record', said, stopped', crashed') /\ RepliesOK(record', inbox', said, crashed')
        /\ CardsOK(approvals', frames', inflight', asks) /\ RequestsOK(frames', inbox', asks)
        /\ blocked' \in BOOLEAN
    <2>1. blocked \in BOOLEAN
      BY DEF IInv
    <2> QED
      BY <1>1, <2>1, AgentFacts
  <1> QED
    BY <1>1, <1>2, <1>5, <1>7, <1>8, <1>9, GatewayKeeps

\* What StopTurn does, before the message that may have asked for it.
LEMMA StopTurnKeeps ==
    ASSUME IInv, NEW kind \in {"interrupted", "timeLimit"}, StopTurn(kind)
    PROVE  /\ UNCHANGED peer /\ inbox' = inbox /\ steered' = steered /\ blocked' \in BOOLEAN
           /\ ThreadOK(submitted, queue, inflight', steered, record', stopped', lost')
           /\ outbox' = Append(outbox, InterruptCommand(inflight))
           /\ inflight \in Begun /\ inflight \in stopped' /\ stopped \subseteq stopped' /\ lost' = lost
           /\ \A t \in Turns : record[t] # <<>> => record'[t] # <<>>
           /\ ~Quiet(inflight, record', stopped', lost')
           /\ EntriesOK(record', said, stopped', crashed') /\ RepliesOK(record', inbox', said, crashed')
           /\ CardsOK(approvals', frames', inflight', asks) /\ RequestsOK(frames', inbox', asks)
  <1>1. /\ inflight # NoTurn /\ EndTurn(inflight) /\ AppendTo(inflight, <<Marker(kind)>>)
        /\ stopped' = stopped \cup {inflight} /\ lost' = lost /\ crashed' = crashed
        /\ UNCHANGED peer /\ inbox' = inbox /\ steered' = steered /\ blocked' = blocked
        /\ outbox' = Append(outbox, InterruptCommand(inflight))
    BY DEF StopTurn
  <1>2. inflight \in Begun /\ inflight \in Turns /\ inflight \in 1..submitted /\ inflight \notin DOMAIN steered
    BY <1>1, AgentFacts, ThreadTypes
  <1>3. record \in [Turns -> Seq(Entry)] /\ record[inflight] = <<>>
    BY <1>1, AgentFacts DEF ThreadOK, Quiet
  <1>4. /\ EntriesOK(record', said, stopped', crashed') /\ RepliesOK(record', inbox, said, crashed')
        /\ record' \in [Turns -> Seq(Entry)] /\ record'[inflight] # <<>>
        /\ \A s \in Turns : s # inflight => record'[s] = record[s]
    BY <1>1, <1>2, <1>3, AgentFacts, MarkerKeeps
  <1>5. /\ inflight' = NoTurn /\ CardsOK(approvals', frames', inflight', asks)
        /\ RequestsOK(frames', inbox, asks)
    BY <1>1, EndTurnKeeps
  <1>6. ThreadOK(submitted, queue, inflight', steered, record', stopped', lost')
    <2> DEFINE M == {inflight}
    <2>1. M \subseteq 1..submitted /\ \A m \in M : m \notin DOMAIN steered
      BY <1>2
    <2>2. \A t \in Turns : t \notin M => record'[t] = record[t]
      BY <1>4
    <2>3. stopped' \subseteq stopped \cup M /\ lost' \subseteq lost \cup M
      BY <1>1
    <2>4. /\ queue \in Seq(1..submitted) /\ \A i, j \in 1..Len(queue) : i < j => queue[i] < queue[j]
          /\ \A i \in 1..Len(queue) : queue[i] \in 1..submitted
      BY AgentFacts, ElementOfSeq DEF ThreadOK
    <2>5. \A i \in 1..Len(queue) : /\ queue[i] \notin M /\ queue[i] # inflight'
                                   /\ \E j \in 1..Len(queue) : queue[i] = queue[j]
      BY <1>2, <1>5, <2>4, AgentFacts, BegunIsNotQueued DEF NoTurn
    <2> HIDE DEF M
    <2> QED
      BY <1>4, <1>5, <2>1, <2>2, <2>3, <2>4, <2>5, AgentFacts, ThreadMarks
  <1>7. \A t \in Turns : record[t] # <<>> => record'[t] # <<>>
    BY <1>4
  <1>8. ~Quiet(inflight, record', stopped', lost') /\ stopped \subseteq stopped' /\ inflight \in stopped'
    BY <1>1 DEF Quiet
  <1>9. blocked' \in BOOLEAN
    BY <1>1 DEF IInv
  <1> QED
    BY <1>1, <1>2, <1>4, <1>5, <1>6, <1>7, <1>8, <1>9

LEMMA InterruptSent ==
    ASSUME ThreadOK(submitted, queue, inflight, steered, record, stopped, lost),
           inflight \in Begun, inflight \in stopped', Begun \subseteq Begun'
    PROVE  CommandOK(InterruptCommand(inflight), Begun', steered', stopped')
  <1> DEFINE c == InterruptCommand(inflight)
  <1>1. inflight \in Turns /\ 0 \in 0..MaxMessages
    BY ThreadTypes
  <1>2. c \in Commands /\ c.kind = "interrupt" /\ c.turn = inflight
    BY <1>1, CommandIs DEF InterruptCommand
  <1> HIDE DEF c
  <1>3. CommandOK(c, Begun', steered', stopped')
    BY <1>2 DEF CommandOK
  <1> QED
    BY <1>3 DEF c

\* An interrupt or the bound of the turn ends it; a stop phrase also asks for a turn.
LEMMA StopKeeps ==
    ASSUME IInv, NEW kind \in {"interrupted", "timeLimit"}, StopTurn(kind),
           \/ UNCHANGED <<queue, submitted>>
           \/ MayAsk /\ submitted' = NewMessage /\ queue' = Append(queue, NewMessage)
    PROVE  IInv'
  <1>1. /\ UNCHANGED peer /\ inbox' = inbox /\ steered' = steered /\ blocked' \in BOOLEAN
        /\ ThreadOK(submitted, queue, inflight', steered, record', stopped', lost')
        /\ outbox' = Append(outbox, InterruptCommand(inflight))
        /\ inflight \in Begun /\ inflight \in stopped' /\ stopped \subseteq stopped' /\ lost' = lost
        /\ \A t \in Turns : record[t] # <<>> => record'[t] # <<>>
        /\ ~Quiet(inflight, record', stopped', lost')
        /\ EntriesOK(record', said, stopped', crashed') /\ RepliesOK(record', inbox', said, crashed')
        /\ CardsOK(approvals', frames', inflight', asks) /\ RequestsOK(frames', inbox', asks)
    BY StopTurnKeeps
  <1>2. submitted \in Nat
    BY AgentFacts, ThreadTypes
  <1>3. /\ ThreadOK(submitted', queue', inflight', steered', record', stopped', lost')
        /\ submitted' \in Nat /\ submitted <= submitted'
    <2>1. CASE UNCHANGED <<queue, submitted>>
      BY <1>1, <1>2, <2>1
    <2>2. CASE MayAsk /\ submitted' = NewMessage /\ queue' = Append(queue, NewMessage)
      <3>1. submitted < MaxMessages /\ submitted' = submitted + 1 /\ queue' = Append(queue, submitted + 1)
        BY <2>2 DEF MayAsk, NewMessage
      <3>2. ThreadOK(submitted + 1, Append(queue, submitted + 1), inflight', steered, record', stopped', lost')
        BY <1>1, <3>1, ThreadAsks
      <3> QED
        BY <1>1, <1>2, <3>1, <3>2
    <2> QED
      BY <2>1, <2>2
  <1>4. SettledKept /\ SteersKept
    BY <1>1, <1>3 DEF SettledKept, SteersKept
  <1>5. Begun \subseteq Begun'
    BY <1>3, <1>4, AgentFacts, BegunGrows
  <1>6. CommandOK(InterruptCommand(inflight), Begun', steered', stopped')
    BY <1>1, <1>5, AgentFacts, InterruptSent
  <1> QED
    BY <1>1, <1>3, <1>4, <1>6, GatewayKeeps

LEMMA InterruptKeeps == ASSUME IInv, Interrupt PROVE IInv'
  BY StopKeeps DEF Interrupt

LEMMA SubmitStopPhraseKeeps == ASSUME IInv, SubmitStopPhrase PROVE IInv'
  BY StopKeeps DEF SubmitStopPhrase

LEMMA TurnBoundExpiresKeeps == ASSUME IInv, TurnBoundExpires PROVE IInv'
  BY StopKeeps DEF TurnBoundExpires

LEMMA ResolveApprovalKeeps ==
    ASSUME IInv, NEW a \in Approvals, NEW d \in Decisions, ResolveApproval(a, d)
    PROVE  IInv'
  <1> DEFINE c == ResolveCommand(inflight, a, d)
  <1>1. /\ UNCHANGED peer /\ queue' = queue /\ inflight' = inflight /\ submitted' = submitted
        /\ steered' = steered /\ record' = record /\ blocked' = blocked /\ inbox' = inbox
        /\ stopped' = stopped /\ lost' = lost /\ crashed' = crashed
    BY DEF ResolveApproval, gatewayDisk
  <1>2. /\ Pending(a) /\ inflight # NoTurn /\ outbox' = Append(outbox, c) /\ SettleApprovals({a}, d)
    BY DEF ResolveApproval
  <1>3. inflight \in Begun /\ inflight \in Turns /\ submitted \in Nat /\ 0 \in 0..MaxMessages
    BY <1>2, AgentFacts, ThreadTypes
  <1>4. c \in Commands /\ c.kind = "resolve_approval" /\ c.turn = inflight /\ c.decision = d
    BY <1>3, CommandIs DEF ResolveCommand
  <1> HIDE DEF c
  <1>5. SettledKept /\ SteersKept
    BY <1>1, <1>3 DEF SettledKept, SteersKept
  <1>6. CommandOK(c, Begun', steered', stopped')
    <2>1. Begun \subseteq Begun'
      BY <1>1, <1>3, <1>5, AgentFacts, BegunGrows
    <2> QED
      BY <1>3, <1>4, <2>1 DEF CommandOK
  <1>7. CardsOK(approvals', frames', inflight', asks) /\ RequestsOK(frames', inbox', asks)
    <2>1. d \in Outcomes /\ {a} \in SUBSET Approvals /\ \A b \in {a} : Pending(b)
      BY <1>2, ConstantsAssumption DEF Outcomes
    <2>2. CardsOK(approvals', frames', inflight, asks) /\ RequestsOK(frames', inbox, asks)
      BY <1>2, <2>1, AgentFacts, SettleKeeps
    <2> QED
      BY <1>1, <2>2
  <1>8. /\ EntriesOK(record', said, stopped', crashed') /\ RepliesOK(record', inbox', said, crashed')
        /\ ThreadOK(submitted', queue', inflight', steered', record', stopped', lost')
        /\ blocked' \in BOOLEAN
    <2>1. blocked \in BOOLEAN
      BY DEF IInv
    <2> QED
      BY <1>1, <2>1, AgentFacts
  <1> QED
    BY <1>1, <1>2, <1>5, <1>6, <1>7, <1>8, GatewayKeeps

\* The oldest message leaves the queue.
LEMMA QueuePops ==
    ASSUME ThreadOK(submitted, queue, inflight, steered, record, stopped, lost), queue # <<>>,
           queue' = Tail(queue)
    PROVE  /\ queue' \in Seq(1..submitted) /\ \A i, j \in 1..Len(queue') : i < j => queue'[i] < queue'[j]
           /\ \A i \in 1..Len(queue') : /\ queue'[i] # Head(queue) /\ queue'[i] # inflight
                                        /\ queue'[i] \in 1..submitted
                                        /\ \E j \in 1..Len(queue) : queue'[i] = queue[j]
           /\ Head(queue) \in 1..submitted /\ Head(queue) \in Turns /\ Head(queue) \notin DOMAIN steered
           /\ Head(queue) # inflight /\ Quiet(Head(queue), record, stopped, lost)
           /\ \E j \in 1..Len(queue) : Head(queue) = queue[j]
           /\ \A i \in 1..Len(queue) : Head(queue) <= queue[i]
           /\ \A i \in 1..Len(queue) :
                queue[i] = Head(queue) \/ \E j \in 1..Len(queue') : queue'[j] = queue[i]
  <1>1. /\ queue \in Seq(1..submitted) /\ \A i, j \in 1..Len(queue) : i < j => queue[i] < queue[j]
        /\ \A i \in 1..Len(queue) : queue[i] \in 1..submitted
        /\ \A i \in 1..Len(queue) : /\ Quiet(queue[i], record, stopped, lost)
                                    /\ queue[i] # inflight /\ queue[i] \notin DOMAIN steered
    BY ElementOfSeq DEF ThreadOK
  <1>2. /\ queue' \in Seq(1..submitted) /\ Head(queue) = queue[1] /\ 1 \in 1..Len(queue)
        /\ \A i \in 1..Len(queue') : i + 1 \in 1..Len(queue) /\ queue'[i] = queue[i + 1]
        /\ \A i \in 1..Len(queue) : i = 1 \/ (i - 1 \in 1..Len(queue') /\ queue'[i - 1] = queue[i])
    BY <1>1, TailHolds
  <1>3. 1..submitted \subseteq Turns
    BY ThreadTypes
  <1>4. \A i, j \in 1..Len(queue') : i < j => queue'[i] < queue'[j]
    <2> SUFFICES ASSUME NEW i \in 1..Len(queue'), NEW j \in 1..Len(queue'), i < j
                 PROVE  queue'[i] < queue'[j]
      OBVIOUS
    <2>1. i + 1 < j + 1
      OBVIOUS
    <2> QED
      BY <1>1, <1>2, <2>1
  <1>5. \A i \in 1..Len(queue) : i # 1 => queue[1] < queue[i]
    BY <1>1, <1>2
  <1>6. \A i \in 1..Len(queue') : /\ queue'[i] # Head(queue) /\ queue'[i] # inflight
                                  /\ queue'[i] \in 1..submitted
                                  /\ \E j \in 1..Len(queue) : queue'[i] = queue[j]
    <2> SUFFICES ASSUME NEW i \in 1..Len(queue')
                 PROVE  /\ queue'[i] # Head(queue) /\ queue'[i] # inflight /\ queue'[i] \in 1..submitted
                        /\ \E j \in 1..Len(queue) : queue'[i] = queue[j]
      OBVIOUS
    <2>1. i + 1 \in 1..Len(queue) /\ queue'[i] = queue[i + 1] /\ i + 1 # 1
      BY <1>2
    <2>2. queue[1] < queue[i + 1] /\ queue[1] \in 1..submitted /\ queue[i + 1] \in 1..submitted
      BY <1>1, <1>2, <1>5, <2>1
    <2> QED
      BY <1>1, <1>2, <2>1, <2>2
  <1>7. \A i \in 1..Len(queue) : Head(queue) <= queue[i]
    BY <1>1, <1>2, <1>5
  <1>8. \A i \in 1..Len(queue) : queue[i] = Head(queue) \/ \E j \in 1..Len(queue') : queue'[j] = queue[i]
    BY <1>2
  <1> QED
    BY <1>1, <1>2, <1>3, <1>4, <1>6, <1>7, <1>8

LEMMA StartTurnKeeps ==
    ASSUME IInv, StartTurn
    PROVE  IInv'
  <1> DEFINE t == Head(queue)
             c == TurnCommand(t)
  <1>1. /\ UNCHANGED peer /\ approvals' = approvals /\ submitted' = submitted
        /\ steered' = steered /\ record' = record /\ blocked' = blocked /\ inbox' = inbox
        /\ frames' = frames /\ stopped' = stopped /\ lost' = lost /\ crashed' = crashed
    BY DEF StartTurn, gatewayDisk, history
  <1>2. /\ inflight = NoTurn /\ queue # <<>> /\ queue' = Tail(queue) /\ inflight' = t
        /\ outbox' = Append(outbox, c)
    BY DEF StartTurn
  <1>3. /\ queue' \in Seq(1..submitted) /\ \A i, j \in 1..Len(queue') : i < j => queue'[i] < queue'[j]
        /\ \A i \in 1..Len(queue') : /\ queue'[i] # t
                                     /\ \E j \in 1..Len(queue) : queue'[i] = queue[j]
        /\ t \in 1..submitted /\ t \in Turns
        /\ \E j \in 1..Len(queue) : t = queue[j]
    BY <1>2, AgentFacts, QueuePops
  <1> HIDE DEF t, c
  <1>4. record \in [Turns -> Seq(Entry)] /\ submitted \in 0..MaxMessages /\ MaxMessages \in Nat
    BY AgentFacts, ConstantsAssumption DEF ThreadOK
  <1>5. ThreadOK(submitted, queue', inflight', steered, record', stopped', lost')
    <2> DEFINE M == {}
    <2>1. /\ M \subseteq 1..submitted /\ \A m \in M : m \notin DOMAIN steered
          /\ record' \in [Turns -> Seq(Entry)] /\ \A s \in Turns : s \notin M => record'[s] = record[s]
          /\ stopped' \subseteq stopped \cup M /\ lost' \subseteq lost \cup M
      BY <1>1, <1>4
    <2>2. \A i \in 1..Len(queue') : /\ queue'[i] \notin M /\ queue'[i] # inflight'
                                    /\ \E j \in 1..Len(queue) : queue'[i] = queue[j]
      BY <1>2, <1>3
    <2>3. inflight' = NoTurn \/ (inflight' \notin M /\
            (inflight' = inflight \/ \E j \in 1..Len(queue) : inflight' = queue[j]))
      BY <1>2, <1>3
    <2> HIDE DEF M
    <2> QED
      BY <1>3, <2>1, <2>2, <2>3, AgentFacts, ThreadMarks
  <1>6. SettledKept /\ SteersKept
    BY <1>1, <1>2, <1>4 DEF SettledKept, SteersKept
  <1>7. CommandOK(c, Begun', steered', stopped')
    <2>1. t \in Begun'
      BY <1>1, <1>2, <1>3 DEF Begun
    <2>2. c \in Commands /\ c.kind = "turn" /\ c.turn = t /\ c.message = t
      <3>1. t \in 0..MaxMessages
        BY <1>3, <1>4
      <3>2. c = CommandRecord("turn", t, t, "none", "none")
        BY DEF c, TurnCommand
      <3> QED
        BY <1>3, <3>1, <3>2 DEF CommandRecord, Commands
    <2> QED
      BY <2>1, <2>2 DEF CommandOK
  <1>8. /\ EntriesOK(record', said, stopped', crashed') /\ RepliesOK(record', inbox', said, crashed')
        /\ RequestsOK(frames', inbox', asks) /\ blocked' \in BOOLEAN
    <2>1. blocked \in BOOLEAN
      BY DEF IInv
    <2> QED
      BY <1>1, <2>1, AgentFacts
  <1>9. CardsOK(approvals', frames', inflight', asks)
    <2>1. CardsOK(approvals, frames, inflight, asks)
      BY AgentFacts
    <2>2. \A i \in 1..Len(approvals) : approvals[i].state # "pending"
      <3>1. \A i \in 1..Len(approvals) : approvals[i].turn \in Turns /\ NoTurn \notin Turns
        BY <2>1, CardFacts, AgentFacts, ThreadTypes
      <3> QED
        BY <1>2, <2>1, <3>1 DEF CardsOK
    <2> QED
      BY <1>1, <2>1, <2>2 DEF CardsOK
  <1>10. ThreadOK(submitted', queue', inflight', steered', record', stopped', lost')
    BY <1>1, <1>5
  <1> QED
    BY <1>1, <1>2, <1>6, <1>7, <1>8, <1>9, <1>10, GatewayKeeps

LEMMA RefuseTurnKeeps ==
    ASSUME IInv, RefuseTurn
    PROVE  IInv'
  <1> DEFINE t == Head(queue)
  <1>1. /\ UNCHANGED peer /\ inflight' = inflight /\ approvals' = approvals /\ submitted' = submitted
        /\ steered' = steered /\ blocked' = blocked /\ inbox' = inbox /\ outbox' = outbox
        /\ frames' = frames /\ stopped' = stopped /\ lost' = lost /\ crashed' = crashed
    BY DEF RefuseTurn, history
  <1>2. /\ inflight = NoTurn /\ queue # <<>> /\ queue' = Tail(queue)
        /\ AppendTo(t, <<Marker("failed")>>)
    BY DEF RefuseTurn
  <1>3. /\ queue' \in Seq(1..submitted) /\ \A i, j \in 1..Len(queue') : i < j => queue'[i] < queue'[j]
        /\ \A i \in 1..Len(queue') : /\ queue'[i] # t /\ queue'[i] # inflight
                                     /\ \E j \in 1..Len(queue) : queue'[i] = queue[j]
        /\ t \in 1..submitted /\ t \in Turns /\ t \notin DOMAIN steered
    BY <1>2, AgentFacts, QueuePops
  <1> HIDE DEF t
  <1>4. record \in [Turns -> Seq(Entry)] /\ submitted \in 0..MaxMessages /\ MaxMessages \in Nat
    BY AgentFacts, ConstantsAssumption DEF ThreadOK
  <1>5. /\ EntriesOK(record', said, stopped', crashed') /\ RepliesOK(record', inbox, said, crashed')
        /\ record' \in [Turns -> Seq(Entry)] /\ record'[t] # <<>>
        /\ \A s \in Turns : s # t => record'[s] = record[s]
    BY <1>1, <1>2, <1>3, <1>4, AgentFacts, MarkerKeeps
  <1>6. ThreadOK(submitted, queue', inflight', steered, record', stopped', lost')
    <2> DEFINE M == {t}
    <2>1. /\ M \subseteq 1..submitted /\ \A m \in M : m \notin DOMAIN steered
          /\ \A s \in Turns : s \notin M => record'[s] = record[s]
          /\ stopped' \subseteq stopped \cup M /\ lost' \subseteq lost \cup M
      BY <1>1, <1>3, <1>5
    <2>2. \A i \in 1..Len(queue') : /\ queue'[i] \notin M /\ queue'[i] # inflight'
                                    /\ \E j \in 1..Len(queue) : queue'[i] = queue[j]
      BY <1>1, <1>3
    <2>3. inflight' = NoTurn
      BY <1>1, <1>2
    <2> HIDE DEF M
    <2> QED
      BY <1>3, <1>5, <2>1, <2>2, <2>3, AgentFacts, ThreadMarks
  <1>7. SettledKept /\ SteersKept
    <2>1. \A s \in Turns : record[s] # <<>> => record'[s] # <<>>
      BY <1>5
    <2> QED
      BY <1>1, <1>2, <1>4, <2>1 DEF SettledKept, SteersKept
  <1>8. /\ RequestsOK(frames', inbox', asks) /\ blocked' \in BOOLEAN
        /\ CardsOK(approvals', frames', inflight', asks)
    <2>1. blocked \in BOOLEAN
      BY DEF IInv
    <2> QED
      BY <1>1, <2>1, AgentFacts
  <1>9. ThreadOK(submitted', queue', inflight', steered', record', stopped', lost')
    BY <1>1, <1>6
  <1> QED
    BY <1>1, <1>5, <1>7, <1>8, <1>9, GatewayKeeps

\* A turn that has begun may be marked while the queue stays as it is.
LEMMA BegunIsMarked ==
    ASSUME NEW t \in Begun,
           ThreadOK(submitted, queue, inflight, steered, record, stopped, lost),
           record' \in [Turns -> Seq(Entry)], \A s \in Turns : s # t => record'[s] = record[s],
           stopped' = stopped, lost' = lost, queue' = queue, submitted' = submitted, steered' = steered,
           inflight' = NoTurn \/ (inflight' = inflight /\ inflight # t)
    PROVE  ThreadOK(submitted', queue', inflight', steered', record', stopped', lost')
  <1> DEFINE M == {t}
  <1>1. /\ M \subseteq 1..submitted /\ \A m \in M : m \notin DOMAIN steered
        /\ \A s \in Turns : s \notin M => record'[s] = record[s]
        /\ stopped' \subseteq stopped \cup M /\ lost' \subseteq lost \cup M
    BY BegunIsNotQueued
  <1>2. /\ queue \in Seq(1..submitted) /\ \A i, j \in 1..Len(queue) : i < j => queue[i] < queue[j]
        /\ \A i \in 1..Len(queue) : queue[i] \in 1..submitted /\ queue[i] # inflight
    BY ElementOfSeq DEF ThreadOK
  <1>3. \A i \in 1..Len(queue) : /\ queue[i] \notin M /\ queue[i] # inflight'
                                 /\ \E j \in 1..Len(queue) : queue[i] = queue[j]
    BY <1>2, BegunIsNotQueued DEF NoTurn
  <1>4. inflight' = NoTurn \/ (inflight' \notin M /\
          (inflight' = inflight \/ \E j \in 1..Len(queue) : inflight' = queue[j]))
    OBVIOUS
  <1> HIDE DEF M
  <1>5. ThreadOK(submitted, queue, inflight', steered, record', stopped', lost')
    BY <1>1, <1>2, <1>3, <1>4, ThreadMarks
  <1> QED
    BY <1>5

LEMMA ProjectReplyOrTerminalKeeps ==
    ASSUME IInv, ProjectReplyOrTerminal
    PROVE  IInv'
  <1>1. PICK e \in Range(inbox) :
          /\ Projects(e) /\ ~IsDeclined(e) /\ e.kind # "approval"
          /\ AppendTo(e.turn, Appended(e))
          /\ IF IsLive(e) THEN EndTurn(e.turn) ELSE UNCHANGED <<inflight, approvals, frames>>
          /\ inbox' = Tail(inbox)
          /\ UNCHANGED <<queue, submitted, steered, blocked, outbox, peer, stopped, lost, crashed, restarts>>
    BY DEF ProjectReplyOrTerminal
  <1>2. inbox # <<>> /\ e = Head(inbox)
    BY <1>1 DEF Projects
  <1>3. /\ UNCHANGED peer /\ queue' = queue /\ submitted' = submitted /\ steered' = steered
        /\ blocked' = blocked /\ outbox' = outbox /\ stopped' = stopped /\ lost' = lost
        /\ crashed' = crashed
    BY <1>1
  <1>4. /\ EventOK(e, Begun, stopped, said) /\ e = inbox[1] /\ e.turn \in Begun
        /\ record' \in [Turns -> Seq(Entry)]
        /\ \A s \in Turns : s # e.turn => record'[s] = record[s]
        /\ record[e.turn] # <<>> => record'[e.turn] # <<>>
        /\ IsLive(e) /\ e.kind # "approval" => record'[e.turn] # <<>>
        /\ EntriesOK(record', said, stopped', crashed')
        /\ RepliesOK(record', Tail(inbox), said, crashed')
    BY <1>1, <1>2, <1>3, ProjectionKeeps
  <1>5. submitted \in Nat /\ NoTurn \notin Begun /\ inbox \in Seq(Events) /\ blocked \in BOOLEAN
    BY AgentFacts, ThreadTypes DEF InboxOK, IInv
  <1>6. /\ CardsOK(approvals', frames', inflight', asks) /\ RequestsOK(frames', inbox, asks)
        /\ (inflight' = NoTurn \/ (inflight' = inflight /\ inflight # e.turn))
        /\ (inflight # NoTurn => inflight' = inflight \/ record'[inflight] # <<>>)
    <2>1. CASE IsLive(e)
      <3>1. e.turn = inflight /\ EndTurn(inflight) /\ inflight # NoTurn
        BY <1>1, <1>4, <1>5, <2>1 DEF IsLive
      <3>2. /\ inflight' = NoTurn /\ CardsOK(approvals', frames', inflight', asks)
            /\ RequestsOK(frames', inbox, asks)
        BY <3>1, EndTurnKeeps
      <3> QED
        BY <1>1, <1>4, <2>1, <3>1, <3>2
    <2>2. CASE ~IsLive(e)
      <3>1. inflight' = inflight /\ approvals' = approvals /\ frames' = frames /\ e.turn # inflight
        BY <1>1, <2>2 DEF IsLive
      <3> QED
        BY <3>1, AgentFacts
    <2> QED
      BY <2>1, <2>2
  <1>7. RequestsOK(frames', inbox', asks)
    BY <1>1, <1>2, <1>5, <1>6, RequestsTake
  <1>8. ThreadOK(submitted', queue', inflight', steered', record', stopped', lost')
    BY <1>3, <1>4, <1>6, AgentFacts, BegunIsMarked
  <1>9. SettledKept /\ SteersKept
    <2>1. \A t \in Turns : record[t] # <<>> => record'[t] # <<>>
      BY <1>4
    <2>2. inflight # NoTurn => inflight' = inflight \/ ~Quiet(inflight, record', stopped', lost')
      BY <1>6 DEF Quiet
    <2> QED
      BY <1>3, <1>5, <2>1, <2>2 DEF SettledKept, SteersKept
  <1>10. RepliesOK(record', inbox', said, crashed')
    BY <1>1, <1>4
  <1>11. blocked' \in BOOLEAN
    BY <1>3, <1>5
  <1> QED
    BY <1>1, <1>2, <1>3, <1>4, <1>6, <1>7, <1>8, <1>9, <1>10, <1>11, GatewayKeeps

LEMMA ProjectApprovalKeeps ==
    ASSUME IInv, ProjectApproval
    PROVE  IInv'
  <1>1. PICK e \in Range(inbox) :
          /\ Projects(e) /\ ~IsDeclined(e) /\ e.kind = "approval"
          /\ IF e.status = "pending" THEN RaiseApproval(e.approval, e.turn)
                                     ELSE BackendResolvedApproval(e.approval, e.status)
          /\ inbox' = Tail(inbox)
          /\ UNCHANGED <<queue, inflight, gatewayDisk, outbox, peer, stopped, lost, crashed, restarts>>
    BY DEF ProjectApproval
  <1>2. inbox # <<>> /\ e = Head(inbox)
    BY <1>1 DEF Projects
  <1>3. /\ UNCHANGED peer /\ queue' = queue /\ inflight' = inflight /\ submitted' = submitted
        /\ steered' = steered /\ record' = record /\ blocked' = blocked /\ outbox' = outbox
        /\ stopped' = stopped /\ lost' = lost /\ crashed' = crashed
    BY <1>1 DEF gatewayDisk
  <1>4. /\ inbox \in Seq(Events) /\ \A k \in 1..Len(inbox) : EventOK(inbox[k], Begun, stopped, said)
        /\ blocked \in BOOLEAN /\ submitted \in Nat
    BY AgentFacts, ThreadTypes DEF InboxOK, IInv
  <1>5. e = inbox[1] /\ 1 \in 1..Len(inbox)
    BY <1>2, <1>4, TailHolds
  <1>6. /\ e.turn \in Begun /\ e.approval \in Approvals /\ e.status \in Outcomes \cup {"pending"}
        /\ e.reply = 0
    <2>1. EventOK(e, Begun, stopped, said)
      BY <1>4, <1>5
    <2> QED
      BY <1>1, <2>1 DEF EventOK
  <1>7. e.turn = inflight /\ inflight \in Turns
    <2>1. e.turn = inflight
      BY <1>1 DEF IsDeclined, IsLive
    <2> QED
      BY <1>6, <2>1, AgentFacts
  <1>8. CardsOK(approvals', frames', inflight, asks) /\ RequestsOK(frames', inbox', asks)
    <2>1. CASE e.status = "pending"
      <3>1. RaiseApproval(e.approval, inflight) /\ IsRequest(inbox[1])
        BY <1>1, <1>5, <1>7, <2>1 DEF IsRequest
      <3> QED
        BY <1>1, <1>2, <1>5, <1>6, <1>7, <3>1, AgentFacts, RaiseKeeps
    <2>2. CASE e.status # "pending"
      <3>1. BackendResolvedApproval(e.approval, e.status) /\ e.status \in Outcomes
        BY <1>1, <1>6, <2>2
      <3>2. CardsOK(approvals', frames', inflight, asks) /\ RequestsOK(frames', inbox, asks)
        <4>1. CASE Pending(e.approval)
          <5>1. SettleApprovals({e.approval}, e.status) /\ {e.approval} \in SUBSET Approvals
                /\ \A a \in {e.approval} : Pending(a)
            BY <1>6, <3>1, <4>1 DEF BackendResolvedApproval
          <5> QED
            BY <3>1, <5>1, AgentFacts, SettleKeeps
        <4>2. CASE ~Pending(e.approval)
          <5>1. approvals' = approvals /\ frames' = frames
            BY <3>1, <4>2 DEF BackendResolvedApproval
          <5> QED
            BY <5>1, AgentFacts
        <4> QED
          BY <4>1, <4>2
      <3> QED
        BY <1>1, <1>2, <1>4, <3>2, RequestsTake
    <2> QED
      BY <2>1, <2>2
  <1>9. RepliesOK(record', inbox', said, crashed')
    <2>1. /\ \A i \in 1..Len(inbox') : i + 1 \in 1..Len(inbox) /\ inbox'[i] = inbox[i + 1]
          /\ \A i \in 1..Len(inbox) : i = 1 \/ (i - 1 \in 1..Len(inbox') /\ inbox'[i - 1] = inbox[i])
      BY <1>1, <1>2, <1>4, TailHolds
    <2>2. RepliesOK(record, inbox, said, crashed)
      BY AgentFacts
    <2>3. ASSUME NEW t \in Turns, NEW n \in 1..Len(said[t]), said[t][n]
          PROVE  InRecord(record, t, n) \/ InInbox(inbox', t, n)
      <3>1. CASE InRecord(record, t, n)
        BY <3>1
      <3>2. CASE InInbox(inbox, t, n)
        <4>1. PICK k \in 1..Len(inbox) : inbox[k].turn = t /\ inbox[k].reply = n
          BY <3>2 DEF InInbox
        <4>2. k # 1
          BY <1>5, <1>6, <4>1
        <4>3. k - 1 \in 1..Len(inbox') /\ inbox'[k - 1] = inbox[k]
          BY <2>1, <4>2
        <4> QED
          BY <4>1, <4>3 DEF InInbox
      <3> QED
        BY <2>2, <2>3, <3>1, <3>2 DEF RepliesOK
    <2>4. \A k \in 1..Len(inbox') :
            inbox'[k].kind = "commit" /\ InRecord(record, inbox'[k].turn, inbox'[k].reply)
              => inbox'[k].turn \in crashed
      BY <2>1, <2>2 DEF RepliesOK
    <2>5. RepliesOK(record, inbox', said, crashed)
      BY <2>3, <2>4 DEF RepliesOK
    <2> QED
      BY <1>3, <2>5
  <1>10. /\ ThreadOK(submitted', queue', inflight', steered', record', stopped', lost')
         /\ EntriesOK(record', said, stopped', crashed') /\ blocked' \in BOOLEAN
    BY <1>3, <1>4, AgentFacts
  <1>11. SettledKept /\ SteersKept
    BY <1>3, <1>4 DEF SettledKept, SteersKept
  <1>12. CardsOK(approvals', frames', inflight', asks)
    BY <1>3, <1>8
  <1> QED
    BY <1>1, <1>2, <1>3, <1>8, <1>9, <1>10, <1>11, <1>12, GatewayKeeps

LEMMA DeclineEventKeeps ==
    ASSUME IInv, DeclineEvent
    PROVE  IInv'
  <1>1. /\ UNCHANGED peer /\ queue' = queue /\ inflight' = inflight /\ approvals' = approvals
        /\ submitted' = submitted /\ steered' = steered /\ record' = record /\ outbox' = outbox
        /\ inbox' = inbox /\ frames' = frames /\ stopped' = stopped /\ lost' = lost
        /\ crashed' = crashed /\ blocked' = TRUE
    BY DEF DeclineEvent, gatewayMemory, history
  <1>2. submitted \in Nat
    BY AgentFacts, ThreadTypes
  <1>3. SettledKept /\ SteersKept
    BY <1>1, <1>2 DEF SettledKept, SteersKept
  <1>4. /\ ThreadOK(submitted', queue', inflight', steered', record', stopped', lost')
        /\ EntriesOK(record', said, stopped', crashed') /\ RepliesOK(record', inbox', said, crashed')
        /\ CardsOK(approvals', frames', inflight', asks) /\ RequestsOK(frames', inbox', asks)
        /\ blocked' \in BOOLEAN
    BY <1>1, AgentFacts
  <1> QED
    BY <1>1, <1>3, <1>4, GatewayKeeps

\* The gateway forgets what is in memory; the crashed one may have appended for turn t.
LEMMA RestartKeeps ==
    ASSUME IInv, ForgetMemory, NEW t \in Begun \cup {inflight},
           record' \in [Turns -> Seq(Entry)], \A s \in Turns : s # t => record'[s] = record[s],
           record[t] # <<>> => record'[t] # <<>>,
           EntriesOK(record', said, stopped', crashed'), RepliesOK(record', inbox, said, crashed')
    PROVE  IInv'
  <1>1. /\ UNCHANGED peer /\ queue' = <<>> /\ inflight' = NoTurn /\ approvals' = <<>>
        /\ lost' = lost \cup Range(queue) \cup ({inflight} \ {NoTurn})
        /\ submitted' = submitted /\ steered' = steered /\ blocked' = blocked /\ outbox' = outbox
        /\ inbox' = inbox /\ frames' = frames /\ stopped' = stopped
    BY DEF ForgetMemory
  <1>2. /\ queue \in Seq(1..submitted) /\ \A i \in 1..Len(queue) : queue[i] \in 1..submitted
        /\ \A i \in 1..Len(queue) : queue[i] \notin DOMAIN steered
        /\ inflight \in {NoTurn} \cup (1..submitted) /\ submitted \in Nat /\ NoTurn \notin Turns
        /\ (inflight # NoTurn => inflight \notin DOMAIN steered)
    <2>1. ThreadOK(submitted, queue, inflight, steered, record, stopped, lost)
      BY AgentFacts
    <2>2. submitted \in Nat /\ NoTurn \notin Turns
      BY <2>1, ThreadTypes
    <2>3. /\ queue \in Seq(1..submitted) /\ \A i \in 1..Len(queue) : queue[i] \notin DOMAIN steered
          /\ inflight \in {NoTurn} \cup (1..submitted)
          /\ (inflight # NoTurn => inflight \notin DOMAIN steered)
      BY <2>1 DEF ThreadOK
    <2>4. \A i \in 1..Len(queue) : queue[i] \in 1..submitted
      BY <2>3, ElementOfSeq
    <2> QED
      BY <2>2, <2>3, <2>4
  <1>3. ThreadOK(submitted, <<>>, inflight', steered, record', stopped', lost')
    <2> DEFINE M == Range(queue) \cup ((Begun \cup {inflight}) \ {NoTurn})
    <2>1. M \subseteq 1..submitted /\ \A m \in M : m \notin DOMAIN steered
      <3> SUFFICES ASSUME NEW m \in M PROVE m \in 1..submitted /\ m \notin DOMAIN steered
        OBVIOUS
      <3>1. CASE m \in Range(queue)
        BY <1>2, <3>1, RangeHolds
      <3>2. CASE m \in Begun
        BY <3>2, AgentFacts, BegunIsNotQueued
      <3>3. CASE m = inflight /\ m # NoTurn
        BY <1>2, <3>3
      <3> QED
        BY <3>1, <3>2, <3>3
    <2>2. \A s \in Turns : s \notin M => record'[s] = record[s]
      BY <1>2
    <2>3. stopped' \subseteq stopped \cup M /\ lost' \subseteq lost \cup M
      BY <1>1
    <2> DEFINE q == <<>>
    <2>4. /\ q \in Seq(1..submitted) /\ \A i, j \in 1..Len(q) : i < j => q[i] < q[j]
          /\ \A i \in 1..Len(q) : /\ q[i] \notin M /\ q[i] # inflight'
                                  /\ \E j \in 1..Len(queue) : q[i] = queue[j]
      OBVIOUS
    <2> HIDE DEF M, q
    <2>5. ThreadOK(submitted, q, inflight', steered, record', stopped', lost')
      BY <1>1, <2>1, <2>2, <2>3, <2>4, AgentFacts, ThreadMarks
    <2> QED
      BY <2>5 DEF q
  <1>4. ThreadOK(submitted', queue', inflight', steered', record', stopped', lost')
    BY <1>1, <1>3
  <1>5. SettledKept /\ SteersKept
    <2>1. \A s \in Turns : record[s] # <<>> => record'[s] # <<>>
      OBVIOUS
    <2>2. inflight # NoTurn => ~Quiet(inflight, record', stopped', lost')
      BY <1>1 DEF Quiet
    <2> QED
      BY <1>1, <1>2, <2>1, <2>2 DEF SettledKept, SteersKept
  <1>6. CardsOK(approvals', frames', inflight', asks) /\ RequestsOK(frames', inbox', asks)
    <2>1. CardsOK(<<>>, frames, inflight', asks)
      <3>1. ApprovalMemory \in Nat /\ <<>> \in Seq(ApprovalRecord) /\ Len(<<>>) = 0
        BY ConstantsAssumption
      <3>2. CardsOK(approvals, frames, inflight, asks)
        BY AgentFacts
      <3> QED
        BY <3>1, <3>2 DEF CardsOK
    <2> QED
      BY <1>1, <2>1, AgentFacts
  <1>7. blocked' \in BOOLEAN
    BY <1>1 DEF IInv
  <1>8. RepliesOK(record', inbox', said, crashed')
    BY <1>1
  <1> QED
    BY <1>1, <1>4, <1>5, <1>6, <1>7, <1>8, GatewayKeeps

LEMMA GatewayRestartsKeeps ==
    ASSUME IInv, GatewayRestarts
    PROVE  IInv'
  <1>1. ForgetMemory /\ record' = record /\ crashed' = crashed
    BY DEF GatewayRestarts
  <1>2. stopped' = stopped
    BY <1>1 DEF ForgetMemory
  <1>3. record \in [Turns -> Seq(Entry)]
    BY AgentFacts DEF ThreadOK
  <1>4. EntriesOK(record', said, stopped', crashed') /\ RepliesOK(record', inbox, said, crashed')
    BY <1>1, <1>2, AgentFacts
  <1>5. inflight \in Begun \cup {inflight}
    OBVIOUS
  <1> QED
    BY <1>1, <1>3, <1>4, <1>5, RestartKeeps

LEMMA GatewayCrashesBeforeMarkKeeps ==
    ASSUME IInv, GatewayCrashesBeforeMark
    PROVE  IInv'
  <1>1. ForgetMemory
    BY DEF GatewayCrashesBeforeMark
  <1>2. PICK e \in Range(inbox) :
          /\ Projects(e) /\ ~IsDeclined(e) /\ AppendTo(e.turn, Appended(e))
          /\ crashed' = crashed \cup {e.turn}
    BY DEF GatewayCrashesBeforeMark
  <1>3. inbox # <<>> /\ e = Head(inbox) /\ stopped' = stopped /\ crashed \subseteq crashed'
        /\ e.turn \in crashed'
    BY <1>1, <1>2 DEF Projects, ForgetMemory
  <1>4. /\ e.turn \in Begun
        /\ record' \in [Turns -> Seq(Entry)]
        /\ \A s \in Turns : s # e.turn => record'[s] = record[s]
        /\ record[e.turn] # <<>> => record'[e.turn] # <<>>
        /\ EntriesOK(record', said, stopped', crashed')
        /\ RepliesOK(record', inbox, said, crashed')
    BY <1>2, <1>3, ProjectionKeeps
  <1>5. e.turn \in Begun \cup {inflight}
    BY <1>4
  <1> QED
    BY <1>1, <1>4, <1>5, RestartKeeps

------------------------------------------------------------------------------
(* The invariant.                                                              *)

LEMMA InitHolds == ASSUME Init PROVE IInv
  <1>1. /\ queue = <<>> /\ inflight = NoTurn /\ approvals = <<>> /\ submitted = 0 /\ steered = <<>>
        /\ blocked = FALSE /\ record = [t \in Turns |-> <<>>] /\ outbox = <<>> /\ inbox = <<>>
        /\ active = NoTurn /\ held = {} /\ sealed = {} /\ stopping = {} /\ heard = {}
        /\ asks = [a \in Approvals |-> [state |-> "unasked", turn |-> NoTurn]]
        /\ said = [t \in Turns |-> <<>>] /\ frames = [a \in Approvals |-> <<>>]
        /\ stopped = {} /\ lost = {} /\ crashed = {}
    BY DEF Init
  <1>2. MaxMessages \in Nat /\ MaxReplies \in Nat /\ ApprovalMemory \in Nat
    BY ConstantsAssumption
  <1>3. PICK none : none = <<>>
    OBVIOUS
  <1>4. /\ \A S : none \in Seq(S)
        /\ Len(none) = 0 /\ DOMAIN none = {} /\ \A i : i \notin 1..Len(none)
    BY <1>3
  <1>5. \A t \in Turns : record[t] = none /\ said[t] = none
    BY <1>1, <1>3
  <1>6. ThreadOK(submitted, queue, inflight, steered, record, stopped, lost)
    <2>1. record \in [Turns -> Seq(Entry)]
      BY <1>1, <1>3, <1>4
    <2>2. \A t \in Turns : Quiet(t, record, stopped, lost)
      BY <1>1, <1>3, <1>5 DEF Quiet
    <2>3. ThreadOK(0, none, NoTurn, none, record, {}, {})
      BY <1>1, <1>2, <1>4, <2>1, <2>2 DEF ThreadOK
    <2> QED
      BY <1>1, <1>3, <2>3
  <1>7. OutboxOK(outbox, Begun, steered, stopped) /\ InboxOK(inbox, Begun, stopped, said)
    BY <1>1, <1>3, <1>4 DEF OutboxOK, InboxOK
  <1>8. PeerOK(Begun, submitted, steered, stopped, active, held, sealed, stopping, heard)
    BY <1>1 DEF PeerOK
  <1>9. SaidOK(said)
    <2>1. said \in [Turns -> Seq(BOOLEAN)]
      BY <1>1, <1>3, <1>4
    <2> QED
      BY <1>2, <1>4, <1>5, <2>1 DEF SaidOK
  <1>10. EntriesOK(record, said, stopped, crashed)
    BY <1>4, <1>5 DEF EntriesOK
  <1>11. RepliesOK(record, inbox, said, crashed)
    BY <1>1, <1>3, <1>4, <1>5 DEF RepliesOK
  <1>12. CardsOK(approvals, frames, inflight, asks) /\ RequestsOK(frames, inbox, asks)
    <2>1. asks \in Asks
      BY <1>1 DEF Asks
    <2>2. frames \in [Approvals -> Cards] /\ \A a \in Approvals : frames[a] = <<>>
      BY <1>1 DEF Cards
    <2>3. CardsOK(none, frames, inflight, asks)
      BY <1>2, <1>4, <2>1, <2>2 DEF CardsOK
    <2>4. RequestsOK(frames, none, asks)
      BY <1>4 DEF RequestsOK
    <2> QED
      BY <1>1, <1>3, <2>3, <2>4
  <1> QED
    BY <1>1, <1>6, <1>7, <1>8, <1>9, <1>10, <1>11, <1>12 DEF IInv

LEMMA NextKeeps == ASSUME IInv, [Next]_vars PROVE IInv'
  <1>1. CASE SubmitMessage \/ SubmitSteer \/ SubmitSteerRefused \/ SubmitStopPhrase
    BY <1>1, SubmitMessageKeeps, SubmitSteerKeeps, SubmitSteerRefusedKeeps, SubmitStopPhraseKeeps
  <1>2. CASE Interrupt \/ TurnBoundExpires \/ StartTurn \/ RefuseTurn
    BY <1>2, InterruptKeeps, TurnBoundExpiresKeeps, StartTurnKeeps, RefuseTurnKeeps
  <1>3. CASE \E a \in Approvals : \E d \in Decisions : ResolveApproval(a, d)
    BY <1>3, ResolveApprovalKeeps
  <1>4. CASE ProjectReplyOrTerminal \/ ProjectApproval \/ DeclineEvent
    BY <1>4, ProjectReplyOrTerminalKeeps, ProjectApprovalKeeps, DeclineEventKeeps
  <1>5. CASE GatewayRestarts \/ GatewayCrashesBeforeMark
    BY <1>5, GatewayRestartsKeeps, GatewayCrashesBeforeMarkKeeps
  <1>6. CASE TakeTurn \/ TakeSteer \/ RefuseFrame \/ TakeInterrupt \/ TakeResolution
    BY <1>6, TakeTurnKeeps, TakeSteerKeeps, RefuseFrameKeeps, TakeInterruptKeeps, TakeResolutionKeeps
  <1>7. CASE SealInterrupted \/ FinalReply \/ InterimReply \/ FailRun
    BY <1>7, SealInterruptedKeeps, FinalReplyKeeps, InterimReplyKeeps, FailRunKeeps
  <1>8. CASE \E a \in Approvals : AskApproval(a) \/ LapseApproval(a)
    BY <1>8, AskApprovalKeeps, LapseApprovalKeeps
  <1>9. CASE PluginRestarts
    BY <1>9, PluginRestartsKeeps
  <1>10. CASE UNCHANGED vars
    <2>1. /\ UNCHANGED <<outbox, inbox, active, held, sealed, stopping, asks, heard, said>> /\ AgentStep
      BY <1>10 DEF vars, gatewayMemory, gatewayDisk, peer, history, AgentStep
    <2>2. PeerOK(Begun, submitted, steered, stopped, active', held', sealed', stopping', heard')
      BY <2>1, AgentFacts
    <2> QED
      BY <2>1, <2>2, AgentFacts, AgentKeeps
  <1> QED
    BY <1>1, <1>2, <1>3, <1>4, <1>5, <1>6, <1>7, <1>8, <1>9, <1>10 DEF Next

\* In every behaviour, the turns, the two streams, the transcripts and the cards agree as the
\* invariant says, between the gateway of turns.ts and the plugin's adapter.py.
THEOREM InvariantHolds == Spec => []IInv
  <1>1. Init => IInv
    BY InitHolds
  <1>2. IInv /\ [Next]_vars => IInv'
    BY NextKeeps
  <1> QED
    BY <1>1, <1>2, PTL DEF Spec

\* Every variable of the thread keeps its type.
THEOREM TypeCorrect == Spec => []TypeOK
  <1>1. ASSUME IInv PROVE TypeOK
    <2>1. ThreadOK(submitted, queue, inflight, steered, record, stopped, lost)
      BY <1>1, AgentFacts
    <2>2. /\ submitted \in 0..MaxMessages /\ queue \in Seq(1..submitted)
          /\ inflight \in {NoTurn} \cup (1..submitted)
          /\ DOMAIN steered \subseteq 1..submitted /\ \A m \in DOMAIN steered : steered[m] \in 1..submitted
          /\ \A t \in Turns : record[t] \in Seq(Entry)
      BY <2>1 DEF ThreadOK
    <2>3. Range(steered) \subseteq 1..submitted
      BY <2>2 DEF Range
    <2>4. /\ active \in {NoTurn} \cup held /\ held \subseteq 1..submitted /\ sealed \subseteq 1..submitted
          /\ stopping \subseteq stopped
      BY <1>1, AgentFacts
    <2>5. approvals \in Seq(ApprovalRecord) /\ Len(approvals) <= ApprovalMemory /\ asks \in Asks
      BY <1>1, AgentFacts DEF CardsOK
    <2>6. \A a \in Approvals : asks[a].state \in Outcomes \cup {"unasked", "waiting"}
      BY <2>5 DEF Asks
    <2>7. \A t \in Turns : said[t] \in Seq(BOOLEAN) /\ Len(said[t]) <= MaxReplies
      BY <1>1, AgentFacts DEF SaidOK
    <2>8. blocked \in BOOLEAN
      BY <1>1 DEF IInv
    <2> QED
      BY <2>2, <2>3, <2>4, <2>5, <2>6, <2>7, <2>8 DEF TypeOK
  <1>2. IInv => TypeOK
    BY <1>1
  <1> QED
    BY <1>2, InvariantHolds, PTL

\* A reply with words is never lost between the adapter of a live turn and the sink of
\* native-sink.ts, and only a crash between the append and the mark shows it twice.
THEOREM RepliesOnce == Spec => []EveryReplyOnce
  <1>1. ASSUME IInv PROVE EveryReplyOnce
    <2>1. EntriesOK(record, said, stopped, crashed) /\ RepliesOK(record, inbox, said, crashed)
      BY <1>1, AgentFacts
    <2>2. \A t \in Turns : DOMAIN record[t] = 1..Len(record[t]) /\ DOMAIN said[t] = 1..Len(said[t])
      <3> SUFFICES ASSUME NEW t \in Turns
                   PROVE  DOMAIN record[t] = 1..Len(record[t]) /\ DOMAIN said[t] = 1..Len(said[t])
        OBVIOUS
      <3>1. record[t] \in Seq(Entry) /\ said[t] \in Seq(BOOLEAN)
        BY <1>1, AgentFacts DEF ThreadOK, SaidOK
      <3> QED
        BY <3>1, LenProperties
    <2>3. DOMAIN inbox = 1..Len(inbox)
      <3>1. inbox \in Seq(Events)
        BY <1>1, AgentFacts DEF InboxOK
      <3> QED
        BY <3>1, LenProperties
    <2>4. ASSUME NEW t \in Turns, NEW n \in DOMAIN said[t], said[t][n]
          PROVE  \/ \E i \in DOMAIN record[t] : record[t][i].reply = n
                 \/ \E i \in DOMAIN inbox : inbox[i].turn = t /\ inbox[i].reply = n
      <3>1. InRecord(record, t, n) \/ InInbox(inbox, t, n)
        BY <2>1, <2>2, <2>4 DEF RepliesOK
      <3> QED
        BY <2>2, <2>3, <3>1 DEF InRecord, InInbox
    <2>5. ASSUME NEW t \in Turns, NEW i \in DOMAIN record[t], NEW j \in DOMAIN record[t], i # j,
                 record[t][i].reply = record[t][j].reply, record[t][i].reply # 0
          PROVE  t \in crashed /\ record[t][i].keyed # record[t][j].keyed
      BY <2>1, <2>2, <2>5 DEF EntriesOK
    <2> QED
      BY <2>4, <2>5 DEF EveryReplyOnce
  <1>2. IInv => EveryReplyOnce
    BY <1>1
  <1> QED
    BY <1>2, InvariantHolds, PTL

\* "No approval outlives its turn" (turns.ts): a card is announced once, settled once, and
\* pending only while its turn is live.
THEOREM CardsSettle == Spec => []CardsAreSettled
  <1>1. ASSUME IInv PROVE CardsAreSettled
    <2>1. CardsOK(approvals, frames, inflight, asks)
      BY <1>1, AgentFacts
    <2>2. DOMAIN approvals = 1..Len(approvals)
      BY <2>1, CardFacts
    <2>3. \A a \in Approvals : frames[a] \in {<<>>, <<"pending">>}
                                  \cup {<<"pending", outcome>> : outcome \in Outcomes}
      BY <2>1 DEF CardsOK, Cards, Settled
    <2>4. \A i \in 1..Len(approvals) :
            IF approvals[i].state = "pending"
            THEN approvals[i].turn = inflight /\ frames[approvals[i].id] = <<"pending">>
            ELSE frames[approvals[i].id] \in Settled
      BY <2>1 DEF CardsOK
    <2>5. Len(<<"pending">>) = 1 /\ \A card \in Settled : Len(card) = 2
      BY DEF Settled
    <2>6. \A i \in 1..Len(approvals) :
            /\ approvals[i].state = "pending" => approvals[i].turn = inflight
            /\ Len(frames[approvals[i].id]) = IF approvals[i].state = "pending" THEN 1 ELSE 2
      BY <2>4, <2>5
    <2> QED
      BY <2>2, <2>3, <2>6 DEF CardsAreSettled
  <1>2. IInv => CardsAreSettled
    BY <1>1
  <1> QED
    BY <1>2, InvariantHolds, PTL

\* A steer reaches the turn it joined and a seal the turn that was to stop: adapter.py acts on
\* the turn a frame names, whatever the thread runs by then.
THEOREM CommandsHit == Spec => []CommandsHitTheirTurn
  <1>1. ASSUME IInv PROVE CommandsHitTheirTurn
    <2>1. \A pair \in heard :
            pair[2] = IF pair[1] \in DOMAIN steered THEN steered[pair[1]] ELSE pair[1]
      BY <1>1, AgentFacts DEF PeerOK
    <2>2. inbox \in Seq(Events) /\ \A i \in 1..Len(inbox) : inbox[i].kind = "interrupted" => inbox[i].turn \in stopped
      BY <1>1, AgentFacts DEF InboxOK, EventOK
    <2>3. DOMAIN inbox = 1..Len(inbox)
      BY <2>2, LenProperties
    <2>4. ASSUME NEW t \in Turns, Marker("interrupted") \in Range(record[t])
          PROVE  t \in stopped
      <3>1. record[t] \in Seq(Entry)
        BY <1>1, AgentFacts DEF ThreadOK
      <3>2. PICK i \in 1..Len(record[t]) : record[t][i] = Marker("interrupted")
        BY <2>4, <3>1, RangeHolds
      <3>3. record[t][i].kind = "interrupted"
        BY <3>2 DEF Marker
      <3> QED
        BY <1>1, <3>3, AgentFacts DEF EntriesOK
    <2> QED
      BY <2>1, <2>2, <2>3, <2>4 DEF CommandsHitTheirTurn
  <1>2. IInv => CommandsHitTheirTurn
    BY <1>1
  <1> QED
    BY <1>2, InvariantHolds, PTL

------------------------------------------------------------------------------
(* The thread is a TurnQueue.                                                  *)

\* A turn is over when something was appended or asked for it, unless it was lost.
OverIsDone == Over = {t \in Turns : (record[t] # <<>> \/ t \in stopped) /\ t \notin lost}

LEMMA OverIs == IInv => Over = {t \in Turns : (record[t] # <<>> \/ t \in stopped) /\ t \notin lost}
  <1> SUFFICES ASSUME IInv
               PROVE  Over = {t \in Turns : (record[t] # <<>> \/ t \in stopped) /\ t \notin lost}
    OBVIOUS
  <1>1. /\ submitted \in 0..MaxMessages /\ MaxMessages \in Nat /\ 1..submitted \subseteq Turns
        /\ queue \in Seq(1..submitted)
        /\ \A t \in Turns : t > submitted => Quiet(t, record, stopped, lost)
        /\ (inflight # NoTurn => Quiet(inflight, record, stopped, lost))
        /\ \A i \in 1..Len(queue) : Quiet(queue[i], record, stopped, lost)
        /\ NoTurn \notin Turns
    <2>1. ThreadOK(submitted, queue, inflight, steered, record, stopped, lost)
      BY AgentFacts
    <2> QED
      BY <2>1, ThreadTypes DEF ThreadOK
  <1>2. ASSUME NEW t \in Turns, record[t] # <<>> \/ t \in stopped
        PROVE  t \in 1..submitted /\ t # inflight /\ t \notin Range(queue)
    <2>1. ~Quiet(t, record, stopped, lost)
      BY <1>2 DEF Quiet
    <2>2. t \in 1..submitted
      BY <1>1, <2>1 DEF Turns, Messages
    <2>3. t # inflight
      BY <1>1, <2>1
    <2>4. t \notin Range(queue)
      BY <1>1, <2>1, RangeHolds
    <2> QED
      BY <2>2, <2>3, <2>4
  <1> QED
    BY <1>1, <1>2 DEF Over

LEMMA OverBecomes ==
    IInv' => Over' = {t \in Turns : (record'[t] # <<>> \/ t \in stopped') /\ t \notin lost'}
  <1>1. IInv => OverIsDone
    BY OverIs DEF OverIsDone
  <1>2. IInv' => OverIsDone'
    BY <1>1, PTL
  <1> QED
    BY <1>2 DEF OverIsDone

\* What the refinement mapping makes of the queue.
LEMMA QueueRange ==
    ASSUME ThreadOK(submitted, queue, inflight, steered, record, stopped, lost)
    PROVE  /\ \A x : x \in Range(queue) <=> \E i \in 1..Len(queue) : queue[i] = x
           /\ \A x \in 1..(submitted + 1) :
                queue' = Append(queue, x) => Range(queue') = Range(queue) \cup {x}
           /\ queue # <<>> /\ queue' = Tail(queue) =>
                /\ Head(queue) \in Range(queue) /\ \A m \in Range(queue) : Head(queue) <= m
                /\ Range(queue') = Range(queue) \ {Head(queue)}
           /\ queue' = <<>> => Range(queue') = {}
           /\ \A m \in Range(queue) : m \in 1..submitted /\ Quiet(m, record, stopped, lost)
  <1>1. queue \in Seq(1..submitted) /\ submitted \in Nat
    BY ThreadTypes DEF ThreadOK
  <1>2. \A x : x \in Range(queue) <=> \E i \in 1..Len(queue) : queue[i] = x
    BY <1>1, RangeHolds
  <1>3. \A m \in Range(queue) : m \in 1..submitted /\ Quiet(m, record, stopped, lost)
    <2>1. \A i \in 1..Len(queue) : queue[i] \in 1..submitted
      BY <1>1, ElementOfSeq
    <2> QED
      BY <1>2, <2>1 DEF ThreadOK
  <1>4. ASSUME NEW x \in 1..(submitted + 1), queue' = Append(queue, x)
        PROVE  Range(queue') = Range(queue) \cup {x}
    <2>1. queue \in Seq(1..(submitted + 1))
      <3>1. 1..submitted \subseteq 1..(submitted + 1)
        BY <1>1
      <3> QED
        BY <1>1, <3>1, SeqMonotonic
    <2>2. /\ queue' \in Seq(1..(submitted + 1))
          /\ \A i \in 1..Len(queue') :
               (i \in 1..Len(queue) /\ queue'[i] = queue[i]) \/ (i = Len(queue) + 1 /\ queue'[i] = x)
          /\ \A i \in 1..Len(queue) : i \in 1..Len(queue') /\ queue'[i] = queue[i]
          /\ Len(queue) + 1 \in 1..Len(queue') /\ queue'[Len(queue) + 1] = x
      BY <1>4, <2>1, AppendHolds
    <2>3. \A y : y \in Range(queue') <=> \E i \in 1..Len(queue') : queue'[i] = y
      BY <2>2, RangeHolds
    <2>4. \A y : y \in Range(queue') <=> y \in Range(queue) \/ y = x
      BY <1>2, <2>2, <2>3
    <2> QED
      BY <2>4
  <1>5. ASSUME queue # <<>>, queue' = Tail(queue)
        PROVE  /\ Head(queue) \in Range(queue) /\ \A m \in Range(queue) : Head(queue) <= m
               /\ Range(queue') = Range(queue) \ {Head(queue)}
    <2>1. /\ queue' \in Seq(1..submitted)
          /\ \A i \in 1..Len(queue') : /\ queue'[i] # Head(queue)
                                       /\ \E j \in 1..Len(queue) : queue'[i] = queue[j]
          /\ \E j \in 1..Len(queue) : Head(queue) = queue[j]
          /\ \A i \in 1..Len(queue) : Head(queue) <= queue[i]
          /\ \A i \in 1..Len(queue) :
               queue[i] = Head(queue) \/ \E j \in 1..Len(queue') : queue'[j] = queue[i]
      BY <1>5, QueuePops
    <2>2. \A y : y \in Range(queue') <=> \E i \in 1..Len(queue') : queue'[i] = y
      BY <2>1, RangeHolds
    <2>3. \A y : y \in Range(queue') <=> y \in Range(queue) /\ y # Head(queue)
      BY <1>2, <2>1, <2>2
    <2>4. Head(queue) \in Range(queue) /\ \A m \in Range(queue) : Head(queue) <= m
      BY <1>2, <2>1
    <2> QED
      BY <2>3, <2>4
  <1>6. ASSUME queue' = <<>> PROVE Range(queue') = {}
    <2>1. queue' \in Seq(1..submitted) /\ \A i : i \notin 1..Len(queue')
      BY <1>6
    <2> QED
      BY <2>1, RangeHolds
  <1> QED
    BY <1>2, <1>3, <1>4, <1>5, <1>6

LEMMA SubmitAsks ==
    ASSUME IInv, IInv', MayAsk, submitted' = NewMessage, queue' = Append(queue, NewMessage),
           UNCHANGED <<inflight, steered, record>>, stopped' = stopped, lost' = lost
    PROVE  Promise!Ask
  <1>1. submitted < MaxMessages /\ submitted' = submitted + 1 /\ queue' = Append(queue, submitted + 1)
    BY DEF MayAsk, NewMessage
  <1>2. submitted + 1 \in 1..(submitted + 1)
    <2>1. submitted \in Nat
      BY AgentFacts, ThreadTypes
    <2> QED
      BY <2>1
  <1>3. Range(queue') = Range(queue) \cup {submitted + 1}
    BY <1>1, <1>2, AgentFacts, QueueRange
  <1>4. Over' = Over
    BY OverIs, OverBecomes
  <1> QED
    BY <1>1, <1>3, <1>4 DEF Promise!Ask

LEMMA SteerSteers ==
    ASSUME IInv, IInv', SubmitSteer
    PROVE  Promise!Steer
  <1>1. /\ submitted < MaxMessages /\ inflight # NoTurn /\ submitted' = submitted + 1
        /\ steered' = [n \in DOMAIN steered \cup {submitted + 1} |->
                         IF n = submitted + 1 THEN inflight ELSE steered[n]]
        /\ queue' = queue /\ inflight' = inflight /\ record' = record /\ stopped' = stopped /\ lost' = lost
    BY DEF SubmitSteer, MayAsk, NewMessage, gatewayMemory, history
  <1>2. DOMAIN steered' = DOMAIN steered \cup {submitted + 1}
    BY <1>1
  <1>3. Over' = Over
    BY <1>1, OverIs, OverBecomes
  <1> QED
    BY <1>1, <1>2, <1>3 DEF Promise!Steer

LEMMA StartStarts ==
    ASSUME IInv, IInv', StartTurn
    PROVE  \E m \in Promise!Messages : Promise!Start(m)
  <1> DEFINE m == Head(queue)
  <1>1. /\ inflight = NoTurn /\ queue # <<>> /\ queue' = Tail(queue) /\ inflight' = m
        /\ submitted' = submitted /\ steered' = steered /\ record' = record
        /\ stopped' = stopped /\ lost' = lost
    BY DEF StartTurn, gatewayDisk, history
  <1>2. /\ m \in Range(queue) /\ \A n \in Range(queue) : m <= n
        /\ Range(queue') = Range(queue) \ {m}
    BY <1>1, AgentFacts, QueueRange
  <1>3. m \in Turns /\ NoTurn \notin Turns
    BY <1>1, AgentFacts, QueuePops, ThreadTypes
  <1>4. Over' = Over
    BY <1>1, OverIs, OverBecomes
  <1> HIDE DEF m
  <1>5. {inflight} \ {NoTurn} = {} /\ {inflight'} \ {NoTurn} = {m}
    BY <1>1, <1>3
  <1>6. Promise!Start(m)
    BY <1>1, <1>2, <1>4, <1>5 DEF Promise!Start, Promise!First
  <1> QED
    BY <1>3, <1>6 DEF Promise!Messages, Turns, Messages

LEMMA RefuseRefuses ==
    ASSUME IInv, IInv', RefuseTurn
    PROVE  \E m \in Promise!Messages : Promise!Refuse(m)
  <1> DEFINE m == Head(queue)
  <1>1. /\ inflight = NoTurn /\ queue # <<>> /\ queue' = Tail(queue) /\ inflight' = inflight
        /\ submitted' = submitted /\ steered' = steered /\ AppendTo(m, <<Marker("failed")>>)
        /\ stopped' = stopped /\ lost' = lost /\ crashed' = crashed
    BY DEF RefuseTurn, history
  <1>2. /\ m \in Range(queue) /\ \A n \in Range(queue) : m <= n
        /\ Range(queue') = Range(queue) \ {m}
    BY <1>1, AgentFacts, QueueRange
  <1>3. m \in Turns /\ Quiet(m, record, stopped, lost)
    BY <1>1, AgentFacts, QueuePops
  <1> HIDE DEF m
  <1>4. record'[m] # <<>> /\ \A t \in Turns : t # m => record'[t] = record[t]
    <2>1. record \in [Turns -> Seq(Entry)] /\ stopped \subseteq stopped'
      BY <1>1, AgentFacts DEF ThreadOK
    <2> QED
      BY <1>1, <1>3, <2>1, AgentFacts, MarkerKeeps
  <1>5. Over' = Over \cup {m}
    <2>1. \A t \in Turns : (record'[t] # <<>> \/ t \in stopped') /\ t \notin lost'
                             <=> ((record[t] # <<>> \/ t \in stopped) /\ t \notin lost) \/ t = m
      BY <1>1, <1>3, <1>4 DEF Quiet
    <2> QED
      BY <1>3, <2>1, OverIs, OverBecomes
  <1>6. {inflight} \ {NoTurn} = {} /\ {inflight'} \ {NoTurn} = {inflight} \ {NoTurn}
    BY <1>1
  <1>7. Promise!Refuse(m)
    BY <1>1, <1>2, <1>5, <1>6 DEF Promise!Refuse, Promise!First
  <1> QED
    BY <1>3, <1>7 DEF Promise!Messages, Turns, Messages

\* The turn is over once something is appended for it or somebody stopped it.
LEMMA TurnEnds ==
    ASSUME IInv, IInv', inflight # NoTurn, inflight' = NoTurn, lost' = lost,
           stopped \subseteq stopped', stopped' \subseteq stopped \cup {inflight},
           \A t \in Turns : t # inflight => record'[t] = record[t],
           record'[inflight] # <<>> \/ inflight \in stopped'
    PROVE  Over' = Over \cup ({inflight} \ {NoTurn}) /\ {inflight'} \ {NoTurn} = {}
  <1>1. inflight \in Turns /\ Quiet(inflight, record, stopped, lost)
    BY AgentFacts, ThreadTypes DEF ThreadOK
  <1>2. \A t \in Turns : (record'[t] # <<>> \/ t \in stopped') /\ t \notin lost'
                           <=> ((record[t] # <<>> \/ t \in stopped) /\ t \notin lost) \/ t = inflight
    BY <1>1 DEF Quiet
  <1>3. Over' = Over \cup {inflight}
    BY <1>1, <1>2, OverIs, OverBecomes
  <1> QED
    BY <1>3

LEMMA StopEnds ==
    ASSUME IInv, IInv', NEW kind, StopTurn(kind)
    PROVE  /\ Over' = Over \cup ({inflight} \ {NoTurn}) /\ {inflight'} \ {NoTurn} = {}
           /\ {inflight} \ {NoTurn} # {} /\ lost' = lost /\ steered' = steered
  <1>1. /\ inflight # NoTurn /\ inflight' = NoTurn /\ lost' = lost /\ steered' = steered
        /\ stopped' = stopped \cup {inflight}
        /\ record' = [record EXCEPT ![inflight] = @ \o <<Marker(kind)>>]
    BY DEF StopTurn, EndTurn, AppendTo
  <1>2. \A t \in Turns : t # inflight => record'[t] = record[t]
    <2>1. record \in [Turns -> Seq(Entry)]
      BY AgentFacts DEF ThreadOK
    <2> QED
      BY <1>1, <2>1
  <1>3. Over' = Over \cup ({inflight} \ {NoTurn}) /\ {inflight'} \ {NoTurn} = {}
    BY <1>1, <1>2, TurnEnds
  <1> QED
    BY <1>1, <1>3

LEMMA StopPromises ==
    ASSUME IInv, IInv', NEW kind, StopTurn(kind)
    PROVE  /\ UNCHANGED <<queue, submitted>> => Promise!End
           /\ MayAsk /\ submitted' = NewMessage /\ queue' = Append(queue, NewMessage) => Promise!EndAndAsk
  <1>1. /\ Over' = Over \cup ({inflight} \ {NoTurn}) /\ {inflight'} \ {NoTurn} = {}
        /\ {inflight} \ {NoTurn} # {} /\ lost' = lost /\ steered' = steered
    BY StopEnds
  <1>2. ASSUME queue' = queue, submitted' = submitted PROVE Promise!End
    BY <1>1, <1>2 DEF Promise!End
  <1>3. ASSUME MayAsk, submitted' = NewMessage, queue' = Append(queue, NewMessage)
        PROVE  Promise!EndAndAsk
    <2>1. submitted < MaxMessages /\ submitted' = submitted + 1 /\ queue' = Append(queue, submitted + 1)
      BY <1>3 DEF MayAsk, NewMessage
    <2>2. submitted + 1 \in 1..(submitted + 1)
      <3>1. submitted \in Nat
        BY AgentFacts, ThreadTypes
      <3> QED
        BY <3>1
    <2>3. Range(queue') = Range(queue) \cup {submitted + 1}
      BY <2>1, <2>2, AgentFacts, QueueRange
    <2> QED
      BY <1>1, <2>1, <2>3 DEF Promise!EndAndAsk
  <1> QED
    BY <1>2, <1>3

\* A step that changes no turn's state is invisible.
LEMMA ThreadStutters ==
    ASSUME IInv, IInv', submitted' = submitted, queue' = queue, inflight' = inflight,
           steered' = steered, lost' = lost, stopped' = stopped,
           \A t \in Turns : t \notin lost /\ t \notin stopped => (record'[t] # <<>> <=> record[t] # <<>>)
    PROVE  UNCHANGED Promise!vars
  <1>1. Over' = Over
    BY OverIs, OverBecomes
  <1>2. Range(queue') = Range(queue)
    OBVIOUS
  <1>3. {inflight'} \ {NoTurn} = {inflight} \ {NoTurn}
    OBVIOUS
  <1> QED
    BY <1>1, <1>2, <1>3 DEF Promise!vars

LEMMA ProjectionPromises ==
    ASSUME IInv, IInv', ProjectReplyOrTerminal
    PROVE  Promise!End \/ UNCHANGED Promise!vars
  <1>1. PICK e \in Range(inbox) :
          /\ Projects(e) /\ ~IsDeclined(e) /\ e.kind # "approval"
          /\ AppendTo(e.turn, Appended(e))
          /\ IF IsLive(e) THEN EndTurn(e.turn) ELSE UNCHANGED <<inflight, approvals, frames>>
          /\ UNCHANGED <<queue, submitted, steered, blocked, outbox, peer, stopped, lost, crashed, restarts>>
    BY DEF ProjectReplyOrTerminal
  <1>2. inbox # <<>> /\ e = Head(inbox)
    BY <1>1 DEF Projects
  <1>3. /\ queue' = queue /\ submitted' = submitted /\ steered' = steered /\ stopped' = stopped
        /\ lost' = lost /\ crashed' = crashed
    BY <1>1
  <1>4. /\ e.turn \in Begun
        /\ \A s \in Turns : s # e.turn => record'[s] = record[s]
        /\ record[e.turn] # <<>> => record'[e.turn] # <<>>
        /\ IsLive(e) /\ e.kind # "approval" => record'[e.turn] # <<>>
    BY <1>1, <1>2, <1>3, ProjectionKeeps
  <1>5. NoTurn \notin Begun
    BY AgentFacts
  <1>6. CASE IsLive(e)
    <2>1. e.turn = inflight /\ inflight # NoTurn /\ inflight' = NoTurn
      BY <1>1, <1>4, <1>5, <1>6 DEF IsLive, EndTurn
    <2>2. Over' = Over \cup ({inflight} \ {NoTurn}) /\ {inflight'} \ {NoTurn} = {}
      <3>1. record'[inflight] # <<>>
        BY <1>1, <1>4, <1>6, <2>1
      <3>2. \A t \in Turns : t # inflight => record'[t] = record[t]
        BY <1>4, <2>1
      <3> QED
        BY <1>3, <2>1, <3>1, <3>2, TurnEnds
    <2>3. {inflight} \ {NoTurn} # {}
      BY <2>1
    <2> QED
      BY <1>3, <2>2, <2>3 DEF Promise!End
  <1>7. CASE ~IsLive(e)
    <2>1. inflight' = inflight /\ e.turn # inflight
      BY <1>1, <1>7 DEF IsLive
    <2>2. ~Quiet(e.turn, record, stopped, lost)
      BY <1>4, <2>1, AgentFacts, ThreadTypes
    <2>3. \A t \in Turns : t \notin lost /\ t \notin stopped => (record'[t] # <<>> <=> record[t] # <<>>)
      BY <1>4, <2>2 DEF Quiet
    <2> QED
      BY <1>3, <2>1, <2>3, ThreadStutters
  <1> QED
    BY <1>6, <1>7

\* What a restart drops was waiting or running; a turn that was over stays over, and the entry
\* a crashed projection leaves behind ends no turn but one that is lost.
LEMMA RestartPromises ==
    ASSUME IInv, IInv', GatewayRestarts \/ GatewayCrashesBeforeMark
    PROVE  Promise!Restart
  <1>1. /\ ForgetMemory /\ queue' = <<>> /\ inflight' = NoTurn /\ submitted' = submitted /\ steered' = steered
        /\ stopped' = stopped /\ lost' = lost \cup Range(queue) \cup ({inflight} \ {NoTurn})
    BY DEF GatewayRestarts, GatewayCrashesBeforeMark, ForgetMemory
  <1>2. \A t \in Turns : t # inflight /\ t \notin lost /\ t \notin stopped =>
          (record'[t] # <<>> <=> record[t] # <<>>)
    <2>1. CASE GatewayRestarts
      BY <2>1 DEF GatewayRestarts
    <2>2. CASE GatewayCrashesBeforeMark
      <3>1. PICK e \in Range(inbox) :
              /\ Projects(e) /\ ~IsDeclined(e) /\ AppendTo(e.turn, Appended(e))
              /\ crashed' = crashed \cup {e.turn}
        BY <2>2 DEF GatewayCrashesBeforeMark
      <3>2. inbox # <<>> /\ e = Head(inbox) /\ crashed \subseteq crashed'
        BY <3>1 DEF Projects
      <3>3. /\ e.turn \in Begun
            /\ \A s \in Turns : s # e.turn => record'[s] = record[s]
            /\ record[e.turn] # <<>> => record'[e.turn] # <<>>
        BY <1>1, <3>1, <3>2, ProjectionKeeps
      <3>4. e.turn # inflight => ~Quiet(e.turn, record, stopped, lost)
        BY <3>3, AgentFacts, ThreadTypes
      <3> QED
        BY <3>3, <3>4 DEF Quiet
    <2> QED
      BY <2>1, <2>2
  <1>3. /\ \A t \in Range(queue) : Quiet(t, record, stopped, lost)
        /\ inflight # NoTurn => Quiet(inflight, record, stopped, lost)
        /\ NoTurn \notin Turns
    <2>1. ThreadOK(submitted, queue, inflight, steered, record, stopped, lost)
      BY AgentFacts
    <2> QED
      BY <2>1, QueueRange, ThreadTypes DEF ThreadOK
  <1>4. Over' = Over
    <2>1. ASSUME NEW t \in Turns
          PROVE  (record'[t] # <<>> \/ t \in stopped') /\ t \notin lost'
                   <=> (record[t] # <<>> \/ t \in stopped) /\ t \notin lost
      <3>1. CASE t \in Range(queue) \cup ({inflight} \ {NoTurn})
        <4>1. Quiet(t, record, stopped, lost)
          BY <1>3, <3>1
        <4> QED
          BY <1>1, <3>1, <4>1 DEF Quiet
      <3>2. CASE t \notin Range(queue) \cup ({inflight} \ {NoTurn})
        <4>1. t # inflight /\ (t \in lost' <=> t \in lost)
          BY <1>1, <1>3, <3>2
        <4> QED
          BY <1>1, <1>2, <4>1
      <3> QED
        BY <3>1, <3>2
    <2> QED
      BY <2>1, OverIs, OverBecomes
  <1>5. Range(queue') = {} /\ {inflight'} \ {NoTurn} = {}
    <2>1. Range(queue') = {}
      BY <1>1, AgentFacts, QueueRange
    <2> QED
      BY <1>1, <2>1
  <1> QED
    BY <1>1, <1>4, <1>5 DEF Promise!Restart

LEMMA PromiseInit == ASSUME Init PROVE Promise!Init
  <1>1. /\ submitted = 0 /\ queue = <<>> /\ inflight = NoTurn /\ steered = <<>> /\ lost = {}
    BY DEF Init
  <1>2. Range(queue) = {} /\ DOMAIN steered = {}
    BY <1>1 DEF Range
  <1>3. Over = {}
    BY <1>1 DEF Over
  <1> QED
    BY <1>1, <1>2, <1>3 DEF Promise!Init

LEMMA PromiseNext ==
    ASSUME IInv, IInv', [Next]_vars
    PROVE  [Promise!Next]_(Promise!vars)
  <1>1. CASE SubmitMessage \/ SubmitSteerRefused
    <2>1. /\ MayAsk /\ submitted' = NewMessage /\ queue' = Append(queue, NewMessage)
          /\ UNCHANGED <<inflight, steered, record>> /\ stopped' = stopped /\ lost' = lost
      BY <1>1 DEF SubmitMessage, SubmitSteerRefused, history
    <2> QED
      BY <2>1, SubmitAsks DEF Promise!Next
  <1>2. CASE SubmitSteer
    BY <1>2, SteerSteers DEF Promise!Next
  <1>3. CASE SubmitStopPhrase
    <2>1. /\ StopTurn("interrupted") /\ MayAsk /\ submitted' = NewMessage
          /\ queue' = Append(queue, NewMessage)
      BY <1>3 DEF SubmitStopPhrase
    <2> QED
      BY <2>1, StopPromises DEF Promise!Next
  <1>4. CASE Interrupt \/ TurnBoundExpires
    <2>1. PICK kind : StopTurn(kind) /\ UNCHANGED <<queue, submitted>>
      BY <1>4 DEF Interrupt, TurnBoundExpires
    <2> QED
      BY <2>1, StopPromises DEF Promise!Next
  <1>5. CASE StartTurn \/ RefuseTurn
    BY <1>5, StartStarts, RefuseRefuses DEF Promise!Next
  <1>6. CASE ProjectReplyOrTerminal
    BY <1>6, ProjectionPromises DEF Promise!Next
  <1>7. CASE GatewayRestarts \/ GatewayCrashesBeforeMark
    BY <1>7, RestartPromises DEF Promise!Next
  <1>8. ASSUME UNCHANGED <<submitted, queue, inflight, steered, lost, stopped, record>>
        PROVE  [Promise!Next]_(Promise!vars)
    BY <1>8, ThreadStutters
  <1>9. CASE \/ \E a \in Approvals : \E d \in Decisions : ResolveApproval(a, d)
             \/ ProjectApproval \/ DeclineEvent
    <2>1. UNCHANGED <<submitted, queue, inflight, steered, lost, stopped, record>>
      BY <1>9 DEF ResolveApproval, ProjectApproval, DeclineEvent, gatewayMemory, gatewayDisk, history
    <2> QED
      BY <1>8, <2>1
  <1>10. CASE TakeTurn \/ TakeSteer \/ RefuseFrame \/ TakeInterrupt \/ TakeResolution
    <2>1. UNCHANGED <<gatewayMemory, gatewayDisk, history>>
      BY <1>10 DEF TakeTurn, TakeSteer, RefuseFrame, TakeInterrupt, TakeResolution
    <2> QED
      BY <1>8, <2>1 DEF gatewayMemory, gatewayDisk, history
  <1>11. CASE SealInterrupted \/ FinalReply \/ InterimReply \/ FailRun
    <2>1. UNCHANGED <<gatewayMemory, gatewayDisk, history>>
      BY <1>11 DEF SealInterrupted, FinalReply, InterimReply, FailRun
    <2> QED
      BY <1>8, <2>1 DEF gatewayMemory, gatewayDisk, history
  <1>12. CASE \E a \in Approvals : AskApproval(a) \/ LapseApproval(a)
    <2>1. UNCHANGED <<gatewayMemory, gatewayDisk, history>>
      BY <1>12 DEF AskApproval, LapseApproval
    <2> QED
      BY <1>8, <2>1 DEF gatewayMemory, gatewayDisk, history
  <1>13. CASE PluginRestarts \/ UNCHANGED vars
    <2>1. UNCHANGED <<submitted, queue, inflight, steered, lost, stopped, record>>
      BY <1>13 DEF PluginRestarts, vars, gatewayMemory, gatewayDisk, history
    <2> QED
      BY <1>8, <2>1
  <1> QED
    BY <1>1, <1>2, <1>3, <1>4, <1>5, <1>6, <1>7, <1>9, <1>10, <1>11, <1>12, <1>13 DEF Next

\* The runner of turns.ts keeps what a thread promises: every message starts one turn or joins the
\* live one, turns run one at a time in the order of their messages, each ends once, and a restart
\* drops what waited or ran and nothing else.
THEOREM QueueIsImplemented == Spec => ImplementsTurnQueue
  <1>1. IInv /\ IInv' /\ [Next]_vars => [Promise!Next]_(Promise!vars)
    BY PromiseNext
  <1>2. Init => Promise!Init
    BY PromiseInit
  <1> QED
    BY <1>1, <1>2, InvariantHolds, PTL DEF Spec, ImplementsTurnQueue, Promise!Spec
==============================================================================
