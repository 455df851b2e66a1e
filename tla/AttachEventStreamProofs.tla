---------------------- MODULE AttachEventStreamProofs ----------------------
(***************************************************************************)
(* Proofs about AttachEventStream for every window, batch size, kind set,  *)
(* capability sets and bounds.  A spool created anew counts from 1 again,  *)
(* so its numbers meet other events' rows in the gateway's inbox: what     *)
(* relates the two journals holds as long as no spool file has been lost   *)
(* (SpoolKept), and is false afterwards.  What the gateway's journal       *)
(* promises on its own holds through any number of losses.                 *)
(*                                                                         *)
(* The invariant is stated over what is in flight.  A frame on its way up  *)
(* carries the id the spool holds under its number, an ack on its way down *)
(* the id the gateway holds under it, and a gap asks for a suffix in which *)
(* the gateway holds nothing the spool lacks.  Each of these is a set of   *)
(* frames that only grows, so a sequence over it stays one.                *)
(*                                                                         *)
(* Beside it stand the step theorem of EventLog and two invariants about   *)
(* what an id means: every copy that may still be journaled is the event   *)
(* that was issued, whichever spool it came from (LossInv), and events of  *)
(* turns travel in the order in which they were issued, below the terminal *)
(* of their turn (SealsOK).                                                *)
(***************************************************************************)
EXTENDS AttachEventStream, TLAPS, FiniteSetTheorems, SequenceTheorems, WellFoundedInduction

Capabilities == {"draft", "delegation", "media"}

\* What may travel up: the spool's own rows, and hellos.
EventFrames == [kind : {"event"}, sequence : Nat, id : Nat, event : Event]
Carried == {f \in EventFrames : f.sequence \in DOMAIN outbox /\ outbox[f.sequence].id = f.id}
Hellos == [kind : {"hello"}, eventSequence : Nat]

\* What may travel down.
Acks == {f \in [kind : {"ack"}, sequence : Nat, id : Nat] :
            f.sequence \in DOMAIN inbox /\ inbox[f.sequence].id = f.id}
Gaps == {f \in [kind : {"gap"}, requestedAfter : Nat] :
            \A s \in DOMAIN inbox : s > f.requestedAfter => s \in DOMAIN outbox}
HelloAcks == {f \in [kind : {"hello_ack"}, eventSequence : Nat, capabilities : SUBSET Capabilities] :
                f.eventSequence <= lastEventSequence}

NetOK ==
    /\ up \in [Links -> Seq(Hellos \cup Carried)]
    /\ queue \in [Links -> Seq(Carried)]
    /\ down \in [Links -> Seq(Acks \cup Gaps \cup HelloAcks)]

\* The hello_ack is the first reply on a connection, it arrives once, and the
\* cursor has not moved since the hello it answers.
HandshakeOK ==
    /\ \A c \in Links : (c # link \/ ~Connected) => down[c] = <<>>
    /\ \A c \in Links : c > link => server[c] = "none" /\ up[c] = <<>>
    /\ Connected => link \in Links
    /\ current # 0 => current \in Links /\ server[current] = "hello"
    /\ phase = "ready" => server[link] # "open"
    /\ Connected /\ server[link] = "open" => down[link] = <<>>
    /\ phase = "hello" /\ server[link] = "hello" => down[link] # <<>>
    /\ Connected => \A i \in 1..Len(down[link]) :
         (phase = "hello" /\ i = 1) <=> down[link][i].kind = "hello_ack"
    /\ phase = "hello" /\ down[link] # <<>> => down[link][1].eventSequence >= eventCursor

\* Ids are minted once, so a number and its id determine each other, in the
\* spool and across to the inbox.
IdsOK ==
    /\ \A s \in DOMAIN outbox : outbox[s].id \in 1..Len(issued)
    /\ \A s \in DOMAIN inbox : inbox[s].id \in 1..Len(issued)
    /\ \A s, r \in DOMAIN outbox : outbox[s].id = outbox[r].id => s = r
    /\ \A s \in DOMAIN outbox, r \in DOMAIN inbox : outbox[s].id = inbox[r].id => s = r

CursorsOK ==
    /\ lastEventSequence < nextEventSequence
    /\ eventCursor <= lastEventSequence

IInv ==
    /\ TypeOK /\ NetOK /\ HandshakeOK /\ IdsOK /\ CursorsOK
    /\ OneMeaningPerSequence /\ SettledIsDurable /\ NeverRefused

\* Both journals only grow, keep their ids, and what is admitted is in the spool.
JournalsGrow ==
    /\ \A s \in DOMAIN outbox : s \in DOMAIN outbox' /\ outbox'[s].id = outbox[s].id
    /\ \A s \in DOMAIN inbox : s \in DOMAIN inbox' /\ inbox'[s].id = inbox[s].id
    /\ \A s \in DOMAIN inbox' : s \in DOMAIN inbox \/ s \in DOMAIN outbox'
    /\ lastEventSequence <= lastEventSequence'
----------------------------------------------------------------------------
\* A frame that may travel in a state may travel in every later one.
LEMMA FramesGrow ==
    ASSUME JournalsGrow, lastEventSequence \in Nat, lastEventSequence' \in Nat
    PROVE  /\ Carried \subseteq Carried'
           /\ Acks \subseteq Acks'
           /\ Gaps \subseteq Gaps'
           /\ HelloAcks \subseteq HelloAcks'
  <1>1. Carried \subseteq Carried'
    BY DEF JournalsGrow, Carried
  <1>2. Acks \subseteq Acks'
    BY DEF JournalsGrow, Acks
  <1>3. Gaps \subseteq Gaps'
    BY DEF JournalsGrow, Gaps
  <1>4. HelloAcks \subseteq HelloAcks'
    BY DEF JournalsGrow, HelloAcks
  <1> QED
    BY <1>1, <1>2, <1>3, <1>4

\* So a network that is left alone, or that only loses frames, stays well formed.
LEMMA QuietNetwork ==
    ASSUME NetOK, JournalsGrow, lastEventSequence \in Nat, lastEventSequence' \in Nat
    PROVE  /\ up \in [Links -> Seq(Hellos \cup Carried')]
           /\ queue \in [Links -> Seq(Carried')]
           /\ down \in [Links -> Seq(Acks' \cup Gaps' \cup HelloAcks')]
  <1>1. /\ Seq(Hellos \cup Carried) \subseteq Seq(Hellos \cup Carried')
        /\ Seq(Carried) \subseteq Seq(Carried')
        /\ Seq(Acks \cup Gaps \cup HelloAcks) \subseteq Seq(Acks' \cup Gaps' \cup HelloAcks')
    BY FramesGrow
  <1> QED
    BY <1>1 DEF NetOK

\* What the ingress buffers is well typed whatever the spool holds.
LEMMA CarriedAreFrames ==
    ASSUME queue' \in [Links -> Seq(Carried')]
    PROVE  queue' \in [Links -> Seq(EventFrames)]
  <1>1. Carried' \subseteq EventFrames
    BY DEF Carried
  <1>2. Seq(Carried') \subseteq Seq(EventFrames)
    BY <1>1
  <1> QED
    BY <1>2

LEMMA InertIsEvent == Inert \in Event
  BY DEF Inert, Event

\* The ids a gap's holes are given are distinct and run from 1 to their number.
LEMMA RankInjects ==
    ASSUME NEW S \in SUBSET Nat, IsFiniteSet(S)
    PROVE  /\ Cardinality(S) \in Nat
           /\ \A s \in S : Rank(s, S) \in 0..(Cardinality(S) - 1)
           /\ \A s, r \in S : Rank(s, S) = Rank(r, S) => s = r
  <1> DEFINE Below(s) == {r \in S : r < s}
  <1>1. Cardinality(S) \in Nat
    BY FS_CardinalityType
  <1>2. ASSUME NEW s \in S, NEW T \in SUBSET S, IsFiniteSet(T), Below(s) \subseteq T, s \in T
        PROVE  Cardinality(Below(s)) \in Nat /\ Cardinality(Below(s)) < Cardinality(T)
    <2>1. IsFiniteSet(Below(s)) /\ Cardinality(Below(s)) \in Nat /\ Cardinality(T) \in Nat
      BY <1>2, FS_Subset, FS_CardinalityType
    <2>2. Cardinality(Below(s)) <= Cardinality(T)
      BY <1>2, FS_Subset
    <2>3. s \notin Below(s)
      OBVIOUS
    <2>4. Cardinality(Below(s)) # Cardinality(T)
      BY <1>2, <2>3, FS_Subset
    <2> QED
      BY <2>1, <2>2, <2>4
  <1>3. \A s \in S : Rank(s, S) \in 0..(Cardinality(S) - 1)
    BY <1>1, <1>2 DEF Rank
  <1>4. ASSUME NEW s \in S, NEW r \in S, r < s
        PROVE  Rank(r, S) < Rank(s, S)
    <2>1. r \in Below(s) /\ \A x \in S : x < r => x < s
      BY <1>4
    <2>2. Below(s) \in SUBSET S
      OBVIOUS
    <2>3. IsFiniteSet(Below(s))
      BY <2>2, FS_Subset
    <2> QED
      BY <1>2, <2>1, <2>2, <2>3, Below(r) \subseteq Below(s) DEF Rank
  <1>5. ASSUME NEW s \in S, NEW r \in S, Rank(s, S) = Rank(r, S)
        PROVE  s = r
    <2>1. Rank(s, S) \in Nat /\ Rank(r, S) \in Nat
      BY <1>1, <1>3
    <2>2. ~(r < s) /\ ~(s < r)
      BY <1>4, <1>5, <2>1
    <2> QED
      BY <2>2
  <1> QED
    BY <1>1, <1>3, <1>5

\* A nonempty finite set of numbers below a bound has a greatest element.
LEMMA GreatestExists ==
    ASSUME NEW n \in Nat, NEW S \in SUBSET (1..n), S # {}
    PROVE  \E m \in S : \A k \in S : k <= m
  <1> DEFINE D == {n - k : k \in S}
  <1>1. D \subseteq Nat /\ D # {}
    <2>1. \A k \in S : n - k \in Nat
      OBVIOUS
    <2> QED
      BY <2>1
  <1>2. PICK d \in D : \A e \in D : ~(<<e, d>> \in OpToRel(<, Nat))
    BY <1>1, WFMin, NatLessThanWellFounded
  <1>3. \A e \in D : ~(e < d)
    BY <1>1, <1>2 DEF OpToRel
  <1>4. PICK m \in S : d = n - m
    BY <1>2
  <1>5. \A k \in S : n - k \in D /\ ~(n - k < n - m)
    BY <1>3, <1>4
  <1> QED
    BY <1>5
----------------------------------------------------------------------------
(* The invariant holds at the start and survives each step *)

LEMMA BoundsAreNat ==
    /\ LegacyTail \in Nat /\ HealLimit \in Nat /\ MaxSequence \in Nat
    /\ MaxLinks \in Nat
  BY BoundsAssumption

LEMMA InitIInv == Init => IInv
  <1> SUFFICES ASSUME Init PROVE IInv
    OBVIOUS
  <1> USE BoundsAreNat
  <1>1. Inert \in Event
    BY InertIsEvent
  <1>2. PICK rows \in SUBSET (1..LegacyTail) :
          outbox = [s \in rows |-> [id |-> s, event |-> Inert, acked |-> s <= eventCursor]]
    BY DEF Init
  <1>3. /\ DOMAIN outbox \subseteq 1..LegacyTail /\ DOMAIN inbox = 1..lastEventSequence
        /\ lastEventSequence \in 0..LegacyTail /\ eventCursor \in 0..lastEventSequence
        /\ nextEventSequence = LegacyTail + 1
    BY <1>2 DEF Init
  <1>4. issued \in Seq(Event) /\ Len(issued) = LegacyTail
    BY <1>1 DEF Init
  <1>5. \A s \in DOMAIN outbox : outbox[s].id = s /\ (outbox[s].acked => s <= eventCursor)
    BY <1>2
  <1>6. \A s \in DOMAIN inbox : inbox[s].id = s
    BY DEF Init
  <1>7. TypeOK
    <2>1. outbox \in [DOMAIN outbox -> [id : Nat, event : Event, acked : BOOLEAN]]
      BY <1>1, <1>2, <1>3
    <2>2. inbox \in [DOMAIN inbox -> [id : Nat, event : Event,
                                      disposition : {"accepted", "ignored_terminal", "discarded"}]]
      BY <1>1, <1>3 DEF Init
    <2>3. DOMAIN turnTerminals = {} /\ DOMAIN attachTerminals = {}
      BY DEF Init
    <2>4. /\ server \in [Links -> {"none", "open", "hello", "closed", "superseded"}]
          /\ granted \in [Links -> SUBSET {"draft", "delegation", "media"}]
          /\ queue \in [Links -> Seq([kind : {"event"}, sequence : Nat, id : Nat, event : Event])]
      BY DEF Init
    <2>5. /\ link \in 0..MaxLinks /\ current \in 0..MaxLinks /\ phase \in {"closed", "hello", "ready", "stopped"}
          /\ capabilities = {} /\ sentEvents = {} /\ withdrawn = {} /\ refusal = "none"
      BY DEF Init
    <2>6. /\ DOMAIN outbox \subseteq 1..(nextEventSequence - 1) /\ nextEventSequence \in Nat \ {0}
          /\ eventCursor \in Nat /\ lastEventSequence \in Nat
      BY <1>3
    <2>7. projected \in 0..lastEventSequence /\ stripped = {} /\ deleted = {}
      BY <2>6 DEF Init
    <2> QED
      BY <1>3, <1>4, <2>1, <2>2, <2>3, <2>4, <2>5, <2>6, <2>7 DEF TypeOK
  <1>8. NetOK
    BY DEF Init, NetOK, Links
  <1>9. HandshakeOK
    BY DEF Init, HandshakeOK, Connected, Links
  <1>10. IdsOK
    BY <1>3, <1>4, <1>5, <1>6 DEF IdsOK
  <1>11. CursorsOK
    BY <1>3 DEF CursorsOK
  <1>12. OneMeaningPerSequence /\ NeverRefused
    BY <1>5, <1>6 DEF Init, OneMeaningPerSequence, NeverRefused
  <1>13. SettledIsDurable
    BY <1>3, <1>5, <1>6 DEF SettledIsDurable
  <1> QED
    BY <1>7, <1>8, <1>9, <1>10, <1>11, <1>12, <1>13 DEF IInv

\* A step that leaves both journals alone keeps what is said of them.
LEMMA SameJournals ==
    ASSUME IInv, UNCHANGED <<outbox, inbox, lastEventSequence, issued>>
    PROVE  JournalsGrow /\ IdsOK' /\ OneMeaningPerSequence' /\ SettledIsDurable'
  <1>1. JournalsGrow
    BY DEF IInv, TypeOK, JournalsGrow
  <1>2. IdsOK'
    BY DEF IInv, IdsOK
  <1>3. OneMeaningPerSequence' /\ SettledIsDurable'
    BY DEF IInv, OneMeaningPerSequence, SettledIsDurable
  <1> QED
    BY <1>1, <1>2, <1>3

LEMMA EnqueueStep ==
    ASSUME IInv, NEW e \in Event, Enqueue(e)
    PROVE  IInv'
  <1> USE DEF IInv
  <1>1. e \in Event /\ issued \in Seq(Event) /\ issued' = Append(issued, e)
    BY DEF Enqueue, TypeOK
  <1>2. issued' \in Seq(Event) /\ Len(issued') = Len(issued) + 1 /\ Len(issued) \in Nat
    BY <1>1
  <1>3. /\ DOMAIN outbox' = DOMAIN outbox \cup {nextEventSequence}
        /\ outbox'[nextEventSequence] = [id |-> Len(issued) + 1, event |-> e, acked |-> FALSE]
        /\ \A s \in DOMAIN outbox : s # nextEventSequence => outbox'[s] = outbox[s]
        /\ outbox' = [s \in DOMAIN outbox' |-> outbox'[s]]
    BY DEF Enqueue, Put, FreshId
  <1>4. /\ nextEventSequence' = nextEventSequence + 1
        /\ UNCHANGED <<eventCursor, link, phase, capabilities, sentEvents, up, down, server, granted, queue,
                       current, inbox, lastEventSequence, attachTerminals,
                       projected, stripped, deleted, withdrawn, refusal>>
    BY DEF Enqueue, client, ingress, storage
  <1>5. /\ nextEventSequence \notin DOMAIN outbox /\ nextEventSequence \notin DOMAIN inbox
        /\ nextEventSequence \in Nat \ {0} /\ lastEventSequence \in Nat
        /\ DOMAIN outbox \subseteq 1..(nextEventSequence - 1)
    BY DEF TypeOK, CursorsOK
  <1>6. JournalsGrow
    BY <1>3, <1>4, <1>5 DEF JournalsGrow
  <1>7. TypeOK'
    <2>1. outbox' \in [DOMAIN outbox' -> [id : Nat, event : Event, acked : BOOLEAN]]
      <3>1. \A s \in DOMAIN outbox : outbox[s] \in [id : Nat, event : Event, acked : BOOLEAN]
        BY DEF TypeOK
      <3>2. outbox'[nextEventSequence] \in [id : Nat, event : Event, acked : BOOLEAN]
        BY <1>1, <1>2, <1>3
      <3> QED
        BY <3>1, <3>2, <1>3, <1>5
    <2>2. DOMAIN turnTerminals' \subseteq Turns
      BY BoundsAssumption, KindsAssumption, SMTT(30)
      DEF Enqueue, Put, Terminal, TypeOK, Event
    <2>3. /\ DOMAIN outbox' \subseteq 1..(nextEventSequence' - 1)
          /\ sentEvents' \subseteq 1..(nextEventSequence' - 1)
          /\ withdrawn' \subseteq 1..Len(issued')
      BY <1>2, <1>3, <1>4, <1>5, SMTT(30) DEF TypeOK
    <2>4. nextEventSequence' \in Nat \ {0}
      BY <1>4, <1>5
    <2> QED
      BY <1>2, <1>4, <2>1, <2>2, <2>3, <2>4 DEF TypeOK
  <1>8. NetOK'
    BY <1>4, <1>5, <1>6, QuietNetwork DEF NetOK
  <1>9. HandshakeOK'
    BY <1>4 DEF HandshakeOK, Connected
  <1>10. IdsOK'
    BY <1>2, <1>3, <1>4, <1>5 DEF IdsOK
  <1>11. CursorsOK'
    BY <1>4, <1>5 DEF CursorsOK
  <1>12. OneMeaningPerSequence' /\ SettledIsDurable' /\ NeverRefused'
    BY <1>3, <1>4, <1>5 DEF OneMeaningPerSequence, SettledIsDurable, NeverRefused
  <1> QED
    BY <1>7, <1>8, <1>9, <1>10, <1>11, <1>12

\* Withdrawing or compacting a row changes neither its number nor its id.
LEMMA InertStep ==
    ASSUME IInv, NEW s \in DOMAIN outbox, Withdraw(s) \/ Compact(s)
    PROVE  IInv'
  <1> USE DEF IInv
  <1>1. outbox' = [outbox EXCEPT ![s].event = Inert]
    BY DEF Withdraw, Compact
  <1>2. outbox \in [DOMAIN outbox -> [id : Nat, event : Event, acked : BOOLEAN]]
    BY DEF TypeOK
  <1>3. /\ DOMAIN outbox' = DOMAIN outbox
        /\ \A r \in DOMAIN outbox : outbox'[r].id = outbox[r].id /\ outbox'[r].acked = outbox[r].acked
        /\ outbox' \in [DOMAIN outbox' -> [id : Nat, event : Event, acked : BOOLEAN]]
    BY <1>1, <1>2, InertIsEvent
  <1>4. UNCHANGED <<nextEventSequence, eventCursor, turnTerminals, link, phase, capabilities, sentEvents,
                    up, down, server, granted, queue, current, inbox, lastEventSequence, attachTerminals,
                    projected, stripped, deleted,
                    issued, refusal>>
    BY DEF Withdraw, Compact, client, ingress, storage, history
  <1>5. JournalsGrow /\ lastEventSequence \in Nat
    BY <1>3, <1>4 DEF JournalsGrow, TypeOK
  <1>6. TypeOK'
    <2>1. withdrawn' \subseteq 1..Len(issued')
      BY <1>4 DEF Withdraw, Compact, history, TypeOK, IdsOK
    <2> QED
      BY <1>3, <1>4, <2>1 DEF TypeOK
  <1>7. NetOK'
    BY <1>4, <1>5, QuietNetwork DEF NetOK
  <1>8. HandshakeOK'
    BY <1>4 DEF HandshakeOK, Connected
  <1>9. IdsOK' /\ CursorsOK'
    BY <1>3, <1>4 DEF IdsOK, CursorsOK
  <1>10. OneMeaningPerSequence' /\ SettledIsDurable' /\ NeverRefused'
    BY <1>3, <1>4 DEF OneMeaningPerSequence, SettledIsDurable, NeverRefused
  <1> QED
    BY <1>6, <1>7, <1>8, <1>9, <1>10

LEMMA TransmitStep ==
    ASSUME IInv, NEW s \in DOMAIN outbox, Transmit(s)
    PROVE  IInv'
  <1> USE DEF IInv
  <1>1. /\ phase = "ready" /\ link \in Links /\ s \in 1..(nextEventSequence - 1)
        /\ up' = [up EXCEPT ![link] = Append(@, FrameOf(s))]
        /\ sentEvents' = sentEvents \cup {s}
    BY DEF Transmit, Pending, HandshakeOK, Connected, TypeOK
  <1>2. UNCHANGED <<outbox, nextEventSequence, eventCursor, turnTerminals, link, phase, capabilities, down,
                    server, granted, queue, current, inbox, lastEventSequence, attachTerminals,
                    projected, stripped, deleted,
                    issued, withdrawn, refusal>>
    BY DEF Transmit, plugin, ingress, storage, history
  <1>3. FrameOf(s) \in Carried
    <2>1. outbox[s] \in [id : Nat, event : Event, acked : BOOLEAN] /\ s \in Nat
      BY <1>1 DEF TypeOK
    <2> QED
      BY <2>1 DEF FrameOf, Carried, EventFrames
  <1>4. JournalsGrow /\ IdsOK' /\ OneMeaningPerSequence' /\ SettledIsDurable'
    BY <1>2, SameJournals
  <1>5. TypeOK'
    BY <1>1, <1>2 DEF TypeOK
  <1>6. NetOK'
    <2>1. up' \in [Links -> Seq(Hellos \cup Carried)]
      BY <1>1, <1>3 DEF NetOK
    <2> QED
      BY <1>2, <2>1 DEF NetOK, Carried, Acks, Gaps, HelloAcks
  <1>7. HandshakeOK'
    <2>1. \A c \in Links : c > link => up'[c] = up[c]
      BY <1>1 DEF NetOK, Links
    <2> QED
      BY <1>2, <2>1 DEF HandshakeOK, Connected
  <1>8. CursorsOK' /\ NeverRefused'
    BY <1>2 DEF CursorsOK, NeverRefused
  <1> QED
    BY <1>4, <1>5, <1>6, <1>7, <1>8

LEMMA DialStep ==
    ASSUME IInv, Dial
    PROVE  IInv'
  <1> USE DEF IInv
  <1>1. /\ phase = "closed" /\ link < MaxLinks /\ link' = link + 1 /\ phase' = "hello"
        /\ up' = [up EXCEPT ![link + 1] = <<[kind |-> "hello", eventSequence |-> eventCursor]>>]
        /\ server' = [server EXCEPT ![link + 1] = "open"]
        /\ capabilities' = {} /\ sentEvents' = {}
    BY DEF Dial
  <1>2. UNCHANGED <<outbox, nextEventSequence, eventCursor, turnTerminals, down, granted, queue, current,
                    inbox, lastEventSequence, attachTerminals,
                    projected, stripped, deleted, issued, withdrawn, refusal>>
    BY DEF Dial, plugin, storage, history
  <1>3. link \in 0..MaxLinks /\ link + 1 \in Links /\ eventCursor \in Nat /\ MaxLinks \in Nat
    BY <1>1, BoundsAreNat DEF TypeOK, Links
  <1>4. JournalsGrow /\ IdsOK' /\ OneMeaningPerSequence' /\ SettledIsDurable'
    BY <1>2, SameJournals
  <1>5. TypeOK'
    <2>1. server' \in [Links -> {"none", "open", "hello", "closed", "superseded"}]
      BY <1>1 DEF TypeOK
    <2>2. link' \in 0..MaxLinks
      BY <1>1, <1>3
    <2> QED
      BY <1>1, <1>2, <2>1, <2>2 DEF TypeOK
  <1>6. NetOK'
    <2>1. [kind |-> "hello", eventSequence |-> eventCursor] \in Hellos
      BY <1>3 DEF Hellos
    <2>2. up' \in [Links -> Seq(Hellos \cup Carried)]
      BY <1>1, <1>3, <2>1 DEF NetOK
    <2> QED
      BY <1>2, <2>2 DEF NetOK, Carried, Acks, Gaps, HelloAcks
  <1>7. HandshakeOK'
    <2>1. \A c \in Links : down[c] = <<>>
      BY <1>1 DEF HandshakeOK, Connected
    <2>2. current # link + 1
      BY <1>3 DEF HandshakeOK
    <2>3. server'[link + 1] = "open" /\ \A c \in Links : c # link + 1 => server'[c] = server[c] /\ up'[c] = up[c]
      BY <1>1, <1>3 DEF TypeOK, NetOK
    <2>4. \A c \in Links : c > link' => server'[c] = "none" /\ up'[c] = <<>>
      BY <1>1, <1>3, <2>3 DEF HandshakeOK, Links
    <2>5. current' # 0 => current' \in Links /\ server'[current'] = "hello"
      BY <1>2, <2>2, <2>3 DEF HandshakeOK
    <2> QED
      BY <1>1, <1>2, <1>3, <2>1, <2>3, <2>4, <2>5 DEF HandshakeOK, Connected
  <1>8. CursorsOK' /\ NeverRefused'
    BY <1>2 DEF CursorsOK, NeverRefused
  <1> QED
    BY <1>4, <1>5, <1>6, <1>7, <1>8

LEMMA HangupStep ==
    ASSUME IInv, NEW next \in {"closed", "stopped"}, Connected, Hangup(next)
    PROVE  IInv'
  <1> USE DEF IInv
  <1>1. /\ link \in Links /\ phase' = next /\ capabilities' = {}
        /\ down' = [down EXCEPT ![link] = <<>>]
    BY DEF Hangup, HandshakeOK
  <1>2. UNCHANGED <<outbox, nextEventSequence, eventCursor, turnTerminals, link, sentEvents, up, server,
                    granted, queue, current, inbox, lastEventSequence, attachTerminals,
                    projected, stripped, deleted,
                    issued, withdrawn, refusal>>
    BY DEF Hangup, plugin, ingress, storage, history
  <1>3. JournalsGrow /\ IdsOK' /\ OneMeaningPerSequence' /\ SettledIsDurable'
    BY <1>2, SameJournals
  <1>4. TypeOK'
    BY <1>1, <1>2 DEF TypeOK
  <1>5. NetOK'
    <2>1. down' \in [Links -> Seq(Acks \cup Gaps \cup HelloAcks)]
      BY <1>1 DEF NetOK
    <2> QED
      BY <1>2, <2>1 DEF NetOK, Carried, Acks, Gaps, HelloAcks
  <1>6. HandshakeOK'
    <2>1. \A c \in Links : down'[c] = <<>>
      BY <1>1 DEF HandshakeOK, NetOK
    <2>2. phase' \notin {"hello", "ready"}
      BY <1>1
    <2> QED
      BY <1>2, <2>1, <2>2 DEF HandshakeOK, Connected
  <1>7. CursorsOK' /\ NeverRefused'
    BY <1>2 DEF CursorsOK, NeverRefused
  <1> QED
    BY <1>3, <1>4, <1>5, <1>6, <1>7

\* Taking the next frame off the current socket: it is of its own kind, and the
\* rest of the queue holds no hello_ack.
LEMMA TakeFrame ==
    ASSUME IInv, NEW kind \in {"hello_ack", "ack", "gap"}, Inbound(kind)
    PROVE  /\ link \in Links /\ down[link] # <<>> /\ Head(down[link]) = down[link][1]
           /\ kind = "hello_ack" <=> phase = "hello"
           /\ kind = "hello_ack" => Head(down[link]) \in HelloAcks
           /\ kind = "ack" => Head(down[link]) \in Acks
           /\ kind = "gap" => Head(down[link]) \in Gaps
           /\ Tail(down[link]) \in Seq(Acks \cup Gaps \cup HelloAcks)
           /\ \A i \in 1..Len(Tail(down[link])) : Tail(down[link])[i].kind # "hello_ack"
  <1> USE DEF IInv
  <1> DEFINE replies == down[link]
  <1>1. /\ Connected /\ link \in Links /\ replies # <<>> /\ Head(replies).kind = kind
        /\ replies \in Seq(Acks \cup Gaps \cup HelloAcks)
    BY DEF Inbound, HandshakeOK, NetOK
  <1>2. \A i \in 1..Len(replies) : (phase = "hello" /\ i = 1) <=> replies[i].kind = "hello_ack"
    BY <1>1 DEF HandshakeOK
  <1> HIDE DEF replies
  <1>3. /\ Head(replies) \in Acks \cup Gaps \cup HelloAcks /\ Head(replies) = replies[1]
        /\ Tail(replies) \in Seq(Acks \cup Gaps \cup HelloAcks)
        /\ 1 \in 1..Len(replies)
        /\ \A i \in 1..Len(Tail(replies)) : i + 1 \in 1..Len(replies) /\ i + 1 # 1 /\ Tail(replies)[i] = replies[i + 1]
    BY <1>1
  <1>4. \A i \in 1..Len(Tail(replies)) : Tail(replies)[i].kind # "hello_ack"
    BY <1>2, <1>3
  <1>5. kind = "hello_ack" <=> phase = "hello"
    BY <1>1, <1>2, <1>3
  <1>6. /\ kind = "hello_ack" => Head(replies) \in HelloAcks
        /\ kind = "ack" => Head(replies) \in Acks
        /\ kind = "gap" => Head(replies) \in Gaps
    BY <1>1, <1>3 DEF Acks, Gaps, HelloAcks
  <1> QED
    BY <1>1, <1>3, <1>4, <1>5, <1>6 DEF replies

\* The gateway's cursor is one the spool can always follow.
LEMMA ResumeFollows ==
    ASSUME IInv, Inbound("hello_ack")
    PROVE  /\ Head(down[link]).eventSequence \in eventCursor..lastEventSequence
           /\ ~ResumeRefused(Head(down[link]).eventSequence)
  <1> USE DEF IInv
  <1>1. /\ Head(down[link]) \in HelloAcks /\ Head(down[link]) = down[link][1] /\ phase = "hello"
        /\ down[link] # <<>>
    BY TakeFrame
  <1>2. Head(down[link]).eventSequence >= eventCursor
    BY <1>1 DEF HandshakeOK
  <1>3. Head(down[link]).eventSequence \in Nat /\ Head(down[link]).eventSequence <= lastEventSequence
    BY <1>1 DEF HelloAcks
  <1> QED
    BY <1>2, <1>3 DEF ResumeRefused, CursorsOK, TypeOK

LEMMA ReceiveHelloAckStep ==
    ASSUME IInv, ReceiveHelloAck
    PROVE  IInv'
  <1> USE DEF IInv
  <1> DEFINE es == Head(down[link]).eventSequence
  <1>1. Inbound("hello_ack")
    BY DEF ReceiveHelloAck
  <1>2. /\ link \in Links /\ Head(down[link]) \in HelloAcks /\ phase = "hello"
        /\ Tail(down[link]) \in Seq(Acks \cup Gaps \cup HelloAcks)
        /\ \A i \in 1..Len(Tail(down[link])) : Tail(down[link])[i].kind # "hello_ack"
    BY <1>1, TakeFrame
  <1>3. es \in eventCursor..lastEventSequence /\ es \in Nat /\ es < nextEventSequence
    <2>1. /\ eventCursor \in Nat /\ lastEventSequence \in Nat /\ nextEventSequence \in Nat
          /\ lastEventSequence < nextEventSequence
      BY DEF TypeOK, CursorsOK
    <2>2. es \in eventCursor..lastEventSequence
      BY <1>1, ResumeFollows
    <2> HIDE DEF es
    <2> QED
      BY <2>1, <2>2
  <1>4. outbox \in [DOMAIN outbox -> [id : Nat, event : Event, acked : BOOLEAN]]
    BY DEF TypeOK
  <1>5. outbox' = [s \in DOMAIN outbox |-> IF s <= es THEN [outbox[s] EXCEPT !.acked = TRUE] ELSE outbox[s]]
    BY <1>3, SMTT(30) DEF ReceiveHelloAck, AdoptResume, TypeOK
  <1>6. /\ DOMAIN outbox' = DOMAIN outbox
        /\ outbox' \in [DOMAIN outbox' -> [id : Nat, event : Event, acked : BOOLEAN]]
        /\ \A s \in DOMAIN outbox : outbox'[s].id = outbox[s].id
        /\ \A s \in DOMAIN outbox : outbox'[s].acked => outbox[s].acked \/ s <= es
    BY <1>4, <1>5
  <1>7. /\ eventCursor' = es /\ phase' = "ready" /\ capabilities' = Head(down[link]).capabilities
        /\ down' = [down EXCEPT ![link] = Tail(@)]
        /\ UNCHANGED <<nextEventSequence, turnTerminals, link, sentEvents, up, server, granted, queue,
                       current, inbox, lastEventSequence, attachTerminals,
                       projected, stripped, deleted, issued, withdrawn, refusal>>
    BY <1>3 DEF ReceiveHelloAck, AdoptResume, ingress, storage, history, TypeOK
  <1>8. JournalsGrow /\ lastEventSequence \in Nat
    BY <1>6, <1>7 DEF JournalsGrow, TypeOK
  <1>9. TypeOK'
    <2>1. capabilities' \in SUBSET {"draft", "delegation", "media"}
      BY <1>2, <1>7 DEF HelloAcks, Capabilities
    <2> QED
      BY <1>3, <1>6, <1>7, <2>1 DEF TypeOK
  <1>10. NetOK'
    <2>1. down' \in [Links -> Seq(Acks \cup Gaps \cup HelloAcks)]
      BY <1>2, <1>7 DEF NetOK
    <2>2. Seq(Acks \cup Gaps \cup HelloAcks) \subseteq Seq(Acks' \cup Gaps' \cup HelloAcks')
      BY <1>7, <1>8, FramesGrow
    <2> QED
      BY <1>7, <1>8, <2>1, <2>2, QuietNetwork DEF NetOK
  <1>11. HandshakeOK'
    <2>1. down'[link] = Tail(down[link]) /\ \A c \in Links : c # link => down'[c] = down[c]
      BY <1>2, <1>7 DEF NetOK
    <2>2. Connected /\ server[link] # "open"
      BY <1>1 DEF HandshakeOK, Inbound
    <2>3. \A c \in Links : (c # link \/ ~Connected) => down[c] = <<>>
      BY DEF HandshakeOK
    <2>4. \A c \in Links : (c # link' \/ ~Connected') => down'[c] = <<>>
      BY <1>7, <2>1, <2>3 DEF Connected
    <2>5. /\ \A c \in Links : c > link' => server'[c] = "none" /\ up'[c] = <<>>
          /\ current' # 0 => current' \in Links /\ server'[current'] = "hello"
      BY <1>7 DEF HandshakeOK
    <2>6. \A i \in 1..Len(down'[link']) : down'[link'][i].kind # "hello_ack"
      BY <1>2, <1>7, <2>1
    <2>7. /\ phase' = "ready" /\ server'[link'] # "open" /\ link' \in Links
      BY <1>2, <1>7, <2>2
    <2> QED
      BY <2>4, <2>5, <2>6, <2>7 DEF HandshakeOK, Connected
  <1>12. IdsOK' /\ CursorsOK'
    BY <1>3, <1>6, <1>7 DEF IdsOK, CursorsOK
  <1>13. OneMeaningPerSequence' /\ NeverRefused'
    BY <1>6, <1>7 DEF OneMeaningPerSequence, NeverRefused
  <1>14. SettledIsDurable'
    <2>1. ASSUME NEW s \in DOMAIN outbox, s <= es
          PROVE  s \in DOMAIN inbox /\ inbox[s].id = outbox[s].id
      <3>1. s \in 1..lastEventSequence
        BY <1>3, <2>1 DEF TypeOK
      <3> QED
        BY <3>1 DEF TypeOK, OneMeaningPerSequence
    <2> QED
      BY <1>6, <1>7, <2>1 DEF SettledIsDurable
  <1> QED
    BY <1>9, <1>10, <1>11, <1>12, <1>13, <1>14

LEMMA ReceiveAckStep ==
    ASSUME IInv, ReceiveAck
    PROVE  IInv'
  <1> USE DEF IInv
  <1> DEFINE ack == Head(down[link])
  <1>1. /\ link \in Links /\ ack \in Acks /\ phase # "hello"
        /\ Tail(down[link]) \in Seq(Acks \cup Gaps \cup HelloAcks)
        /\ \A i \in 1..Len(Tail(down[link])) : Tail(down[link])[i].kind # "hello_ack"
    BY TakeFrame DEF ReceiveAck
  <1>2. Connected /\ down[link] # <<>> /\ phase = "ready"
    BY <1>1 DEF ReceiveAck, Inbound, Connected
  <1>3. outbox \in [DOMAIN outbox -> [id : Nat, event : Event, acked : BOOLEAN]]
    BY DEF TypeOK
  <1>4. /\ down' = [down EXCEPT ![link] = Tail(@)]
        /\ UNCHANGED <<nextEventSequence, turnTerminals, link, phase, capabilities, up, server, granted,
                       queue, current, inbox, lastEventSequence, attachTerminals,
                       projected, stripped, deleted, issued, withdrawn, refusal>>
    BY DEF ReceiveAck, ingress, storage, history
  <1>5. /\ DOMAIN outbox' = DOMAIN outbox
        /\ outbox' \in [DOMAIN outbox' -> [id : Nat, event : Event, acked : BOOLEAN]]
        /\ \A s \in DOMAIN outbox : outbox'[s].id = outbox[s].id
        /\ \A s \in DOMAIN outbox : outbox'[s].acked =>
             outbox[s].acked \/ (s = ack.sequence /\ outbox[s].id = ack.id)
    <2>1. CASE AckMatches(ack)
      <3>1. outbox' = [outbox EXCEPT ![ack.sequence].acked = TRUE] /\ ack.sequence \in DOMAIN outbox
        BY <2>1 DEF ReceiveAck, AckMatches
      <3>2. outbox[ack.sequence].id = ack.id
        BY <2>1 DEF AckMatches
      <3> HIDE DEF ack
      <3> QED
        BY <1>3, <3>1, <3>2
    <2>2. CASE ~AckMatches(ack)
      <3>1. outbox' = outbox
        BY <2>2 DEF ReceiveAck
      <3> QED
        BY <1>3, <3>1
    <2> QED
      BY <2>1, <2>2
  <1>6. SettledIsDurable'
    BY <1>1, <1>4, <1>5 DEF SettledIsDurable, Acks
  <1>7. sentEvents' \subseteq sentEvents
    BY DEF ReceiveAck
  <1>8. eventCursor' \in Nat /\ eventCursor' <= lastEventSequence
    <2>1. CASE eventCursor' = eventCursor
      BY <2>1 DEF TypeOK, CursorsOK
    <2>2. CASE eventCursor' # eventCursor
      <3> DEFINE S == Settled(outbox')
      <3>1. eventCursor' = Max0(S)
        BY <2>2 DEF ReceiveAck
      <3>2. S \subseteq 1..lastEventSequence /\ lastEventSequence \in Nat
        BY <1>4, <1>6 DEF SettledIsDurable, Settled, TypeOK
      <3>3. ack.sequence \in S
        BY <1>3, <2>2 DEF ReceiveAck, AckMatches, Settled
      <3> HIDE DEF S
      <3>4. S # {}
        BY <3>3
      <3>5. \E m \in S : \A n \in S : n <= m
        BY <3>2, <3>4, GreatestExists
      <3>6. Max0(S) \in S
        BY <3>4, <3>5 DEF Max0
      <3>7. \A m \in S : m \in Nat /\ m <= lastEventSequence
        BY <3>2
      <3> QED
        BY <3>1, <3>6, <3>7
    <2> QED
      BY <2>1, <2>2
  <1>9. JournalsGrow /\ lastEventSequence \in Nat
    BY <1>4, <1>5 DEF JournalsGrow, TypeOK
  <1>10. TypeOK'
    BY <1>4, <1>5, <1>7, <1>8 DEF TypeOK
  <1>11. NetOK'
    <2>1. down' \in [Links -> Seq(Acks \cup Gaps \cup HelloAcks)]
      BY <1>1, <1>4 DEF NetOK
    <2>2. Seq(Acks \cup Gaps \cup HelloAcks) \subseteq Seq(Acks' \cup Gaps' \cup HelloAcks')
      BY <1>4, <1>9, FramesGrow
    <2> QED
      BY <1>4, <1>9, <2>1, <2>2, QuietNetwork DEF NetOK
  <1>12. HandshakeOK'
    <2>1. down'[link] = Tail(down[link]) /\ \A c \in Links : c # link => down'[c] = down[c]
      BY <1>1, <1>4 DEF NetOK
    <2>2. server[link] # "open"
      BY <1>2 DEF HandshakeOK
    <2> QED
      BY <1>1, <1>2, <1>4, <2>1, <2>2 DEF HandshakeOK, Connected
  <1>13. IdsOK' /\ CursorsOK'
    BY <1>4, <1>5, <1>8 DEF IdsOK, CursorsOK
  <1>14. OneMeaningPerSequence' /\ NeverRefused'
    BY <1>4, <1>5 DEF OneMeaningPerSequence, NeverRefused
  <1> QED
    BY <1>6, <1>10, <1>11, <1>12, <1>13, <1>14

\* A faithful gateway's cursor is never refused.
LEMMA RefuseHelloAckStep ==
    ASSUME IInv, RefuseHelloAck
    PROVE  IInv'
  <1>1. Inbound("hello_ack") /\ ResumeRefused(Head(down[link]).eventSequence)
    BY DEF RefuseHelloAck
  <1>2. ~ResumeRefused(Head(down[link]).eventSequence)
    BY <1>1, ResumeFollows
  <1> QED
    BY <1>1, <1>2

\* What a gap asks for and the spool lacks is in neither journal, and a healed
\* row gets an id nothing else has.
LEMMA ReceiveGapStep ==
    ASSUME IInv, ReceiveGap
    PROVE  IInv'
  <1> USE DEF IInv
  <1> DEFINE holes == Holes(Head(down[link]).requestedAfter)
             n == Cardinality(holes)
             last == Len(issued)
  <1>1. /\ link \in Links /\ Head(down[link]) \in Gaps /\ phase # "hello"
        /\ Tail(down[link]) \in Seq(Acks \cup Gaps \cup HelloAcks)
        /\ \A i \in 1..Len(Tail(down[link])) : Tail(down[link])[i].kind # "hello_ack"
    BY TakeFrame DEF ReceiveGap
  <1>2. Connected /\ down[link] # <<>> /\ phase = "ready"
    BY <1>1 DEF ReceiveGap, Inbound, Connected
  <1>3. /\ down' = [down EXCEPT ![link] = Tail(@)] /\ sentEvents' = {}
        /\ issued' = issued \o [i \in 1..n |-> Inert]
        /\ UNCHANGED <<nextEventSequence, eventCursor, turnTerminals, link, phase, capabilities, up, server,
                       granted, queue, current, inbox, lastEventSequence, attachTerminals,
                       projected, stripped, deleted, withdrawn, refusal>>
    BY DEF ReceiveGap, ingress, storage
  <1>4. /\ holes \subseteq 1..(nextEventSequence - 1) /\ holes \cap DOMAIN outbox = {}
        /\ \A s \in holes : s > Head(down[link]).requestedAfter
    BY DEF Holes
  <1>5. holes \cap DOMAIN inbox = {}
    BY <1>1, <1>4 DEF Gaps
  <1>6. /\ nextEventSequence \in Nat \ {0} /\ lastEventSequence \in Nat
        /\ issued \in Seq(Event) /\ last \in Nat
        /\ outbox \in [DOMAIN outbox -> [id : Nat, event : Event, acked : BOOLEAN]]
    BY DEF TypeOK
  <1>7. IsFiniteSet(holes) /\ holes \in SUBSET Nat
    <2> HIDE DEF holes
    <2>1. IsFiniteSet(1..(nextEventSequence - 1))
      BY <1>6, FS_Interval
    <2>2. IsFiniteSet(holes)
      BY <1>4, <2>1, FS_Subset
    <2>3. holes \in SUBSET Nat
      BY <1>4, <1>6
    <2> QED
      BY <2>2, <2>3
  <1>8. /\ n \in Nat /\ \A s \in holes : Rank(s, holes) \in 0..(n - 1)
        /\ \A s, r \in holes : Rank(s, holes) = Rank(r, holes) => s = r
    BY <1>7, RankInjects
  <1>9. /\ DOMAIN outbox' = DOMAIN outbox \cup holes
        /\ outbox' = [s \in DOMAIN outbox' |-> outbox'[s]]
        /\ \A s \in DOMAIN outbox : outbox'[s] = outbox[s]
        /\ \A s \in holes : outbox'[s] = [id |-> last + 1 + Rank(s, holes), event |-> Inert, acked |-> FALSE]
    BY <1>4 DEF ReceiveGap, FreshId
  <1> HIDE DEF holes, n, last
  <1>10. issued' \in Seq(Event) /\ Len(issued') = last + n
    <2> DEFINE healed == [i \in 1..n |-> Inert]
    <2>1. healed \in Seq(Event) /\ Len(healed) = n
      BY <1>8, InertIsEvent
    <2>2. issued' = issued \o healed
      BY <1>3
    <2> HIDE DEF healed
    <2>3. issued \o healed \in Seq(Event) /\ Len(issued \o healed) = Len(issued) + Len(healed)
      BY <1>6, <2>1, ConcatProperties
    <2> QED
      BY <2>1, <2>2, <2>3 DEF last
  <1>11. \A s \in holes : outbox'[s].id \in (last + 1)..(last + n) /\ ~outbox'[s].acked
    BY <1>6, <1>8, <1>9
  <1>12. JournalsGrow
    BY <1>3, <1>6, <1>9 DEF JournalsGrow
  <1>13. TypeOK'
    <2>1. outbox' \in [DOMAIN outbox' -> [id : Nat, event : Event, acked : BOOLEAN]]
      <3>1. \A s \in holes : outbox'[s] \in [id : Nat, event : Event, acked : BOOLEAN]
        <4> SUFFICES ASSUME NEW s \in holes
                     PROVE  outbox'[s] \in [id : Nat, event : Event, acked : BOOLEAN]
          OBVIOUS
        <4>1. last + 1 + Rank(s, holes) \in Nat
          BY <1>6, <1>8
        <4>2. outbox'[s] = [id |-> last + 1 + Rank(s, holes), event |-> Inert, acked |-> FALSE]
          BY <1>9
        <4> QED
          BY <4>1, <4>2, InertIsEvent
      <3> QED
        BY <1>6, <1>9, <3>1
    <2>2. DOMAIN outbox' \subseteq 1..(nextEventSequence' - 1)
      BY <1>3, <1>4, <1>9 DEF TypeOK
    <2>3. withdrawn' \subseteq 1..Len(issued')
      BY <1>3, <1>6, <1>8, <1>10 DEF TypeOK, last
    <2> QED
      BY <1>3, <1>10, <2>1, <2>2, <2>3 DEF TypeOK
  <1>14. NetOK'
    <2>1. down' \in [Links -> Seq(Acks \cup Gaps \cup HelloAcks)]
      BY <1>1, <1>3 DEF NetOK
    <2>2. Seq(Acks \cup Gaps \cup HelloAcks) \subseteq Seq(Acks' \cup Gaps' \cup HelloAcks')
      BY <1>3, <1>6, <1>12, FramesGrow
    <2> QED
      BY <1>3, <1>6, <1>12, <2>1, <2>2, QuietNetwork DEF NetOK
  <1>15. HandshakeOK'
    <2>1. down'[link] = Tail(down[link]) /\ \A c \in Links : c # link => down'[c] = down[c]
      BY <1>1, <1>3 DEF NetOK
    <2>2. server[link] # "open"
      BY <1>2 DEF HandshakeOK
    <2> QED
      BY <1>1, <1>2, <1>3, <2>1, <2>2 DEF HandshakeOK, Connected
  <1>16. IdsOK'
    <2>1. /\ \A s \in DOMAIN outbox : outbox[s].id \in 1..last
          /\ \A s \in DOMAIN inbox : inbox[s].id \in 1..last
          /\ \A s, r \in DOMAIN outbox : outbox[s].id = outbox[r].id => s = r
          /\ \A s \in DOMAIN outbox, r \in DOMAIN inbox : outbox[s].id = inbox[r].id => s = r
      BY DEF IdsOK, last
    <2>2. \A s, r \in holes : outbox'[s].id = outbox'[r].id => s = r
      BY <1>6, <1>8, <1>9
    <2>3. \A s \in DOMAIN outbox' : outbox'[s].id \in 1..Len(issued')
      BY <1>6, <1>8, <1>9, <1>10, <1>11, <2>1
    <2>4. \A s, r \in DOMAIN outbox' : outbox'[s].id = outbox'[r].id => s = r
      BY <1>6, <1>8, <1>9, <1>11, <2>1, <2>2
    <2>5. \A s \in DOMAIN outbox', r \in DOMAIN inbox : outbox'[s].id = inbox[r].id => s = r
      BY <1>6, <1>8, <1>9, <1>11, <2>1
    <2>6. \A s \in DOMAIN inbox : inbox[s].id \in 1..Len(issued')
      BY <1>6, <1>8, <1>10, <2>1
    <2> QED
      BY <1>3, <2>3, <2>4, <2>5, <2>6 DEF IdsOK
  <1>17. CursorsOK' /\ NeverRefused'
    BY <1>3 DEF CursorsOK, NeverRefused
  <1>18. OneMeaningPerSequence' /\ SettledIsDurable'
    BY <1>3, <1>5, <1>9, <1>11 DEF OneMeaningPerSequence, SettledIsDurable
  <1> QED
    BY <1>13, <1>14, <1>15, <1>16, <1>17, <1>18

LEMMA NoticeStep ==
    ASSUME IInv, NoticeClose \/ DropSocket
    PROVE  IInv'
  <1>1. PICK next \in {"closed", "stopped"} : Connected /\ Hangup(next)
    BY DEF NoticeClose, DropSocket
  <1> QED
    BY <1>1, HangupStep

\* What a wire holds is a frame of its own kind.
LEMMA UpFrame ==
    ASSUME IInv, NEW c \in Links, up[c] # <<>>
    PROVE  /\ Tail(up[c]) \in Seq(Hellos \cup Carried)
           /\ Head(up[c]).kind = "event" => Head(up[c]) \in Carried
           /\ c <= link
  <1> USE DEF IInv
  <1>1. up[c] \in Seq(Hellos \cup Carried)
    BY DEF NetOK
  <1>4. c \in Nat /\ link \in Nat /\ ~(c > link)
    BY BoundsAreNat DEF HandshakeOK, Links, TypeOK
  <1>2. Head(up[c]) \in Hellos \cup Carried /\ Tail(up[c]) \in Seq(Hellos \cup Carried)
    BY <1>1
  <1>3. \A f \in Hellos : f.kind # "event"
    BY DEF Hellos
  <1> QED
    BY <1>4, <1>2, <1>3

\* The agent is never given to a number no connection has.
LEMMA CurrentIsLink ==
    ASSUME IInv, NEW c \in Links
    PROVE  /\ c # 0
           /\ current = c => server[c] = "hello"
  BY BoundsAreNat DEF IInv, HandshakeOK, Links

LEMMA HelloStep ==
    ASSUME IInv, NEW c \in Links, Hello(c)
    PROVE  IInv'
  <1> USE DEF IInv
  <1>1. /\ up[c] # <<>> /\ server[c] = "open" /\ current' = c
        /\ server' = [d \in Links |-> CASE d = c -> "hello" [] d = current -> "superseded" [] OTHER -> server[d]]
        /\ queue' = [d \in Links |-> IF d = current THEN <<>> ELSE queue[d]]
        /\ up' = [d \in Links |-> CASE d = c -> Tail(up[c]) [] d = current -> <<>> [] OTHER -> up[d]]
    BY DEF Hello, Arrives
  <1>2. PICK allowed \in CapabilitySets :
          /\ granted' = [granted EXCEPT ![c] = allowed]
          /\ down' = [down EXCEPT ![c] = IF c = link /\ Connected
                       THEN Append(@, [kind |-> "hello_ack", eventSequence |-> lastEventSequence,
                                       capabilities |-> allowed])
                       ELSE @]
    BY DEF Hello
  <1>3. UNCHANGED <<outbox, nextEventSequence, eventCursor, turnTerminals, link, phase, capabilities,
                    sentEvents, inbox, lastEventSequence, attachTerminals,
                    projected, stripped, deleted, issued, withdrawn, refusal>>
    BY DEF Hello, plugin, client, storage, history
  <1>4. JournalsGrow /\ IdsOK' /\ OneMeaningPerSequence' /\ SettledIsDurable'
    BY <1>3, SameJournals
  <1>5. allowed \in SUBSET Capabilities /\ lastEventSequence \in Nat
    BY KindsAssumption DEF Capabilities, TypeOK
  <1>6. c \in 1..MaxLinks /\ c <= link /\ c # current
    BY <1>1, UpFrame DEF HandshakeOK, Links
  <1> DEFINE reply == [kind |-> "hello_ack", eventSequence |-> lastEventSequence, capabilities |-> allowed]
  <1>7. reply \in HelloAcks
    BY <1>5 DEF HelloAcks
  <1>8. /\ reply.kind = "hello_ack" /\ reply.eventSequence = lastEventSequence
        /\ down' = [down EXCEPT ![c] = IF c = link /\ Connected THEN Append(@, reply) ELSE @]
    BY <1>2
  <1> HIDE DEF reply
  <1>9. /\ server' \in [Links -> {"none", "open", "hello", "closed", "superseded"}]
        /\ server'[c] = "hello"
        /\ \A d \in Links : d # c => server'[d] = server[d] \/ (d = current /\ server'[d] = "superseded")
    <2> DEFINE after(d) == CASE d = c -> "hello" [] d = current -> "superseded" [] OTHER -> server[d]
    <2>1. server \in [Links -> {"none", "open", "hello", "closed", "superseded"}]
      BY DEF TypeOK
    <2>2. \A d \in Links : /\ d = c => after(d) = "hello"
                           /\ d # c /\ d = current => after(d) = "superseded"
                           /\ d # c /\ d # current => after(d) = server[d]
      BY <1>6
    <2>3. server' = [d \in Links |-> after(d)]
      BY <1>1
    <2> HIDE DEF after
    <2> QED
      BY <2>1, <2>2, <2>3
  <1>10. NetOK'
    <2>1. up' \in [Links -> Seq(Hellos \cup Carried)]
      BY <1>1, UpFrame DEF NetOK
    <2>2. queue' \in [Links -> Seq(Carried)]
      BY <1>1 DEF NetOK
    <2>3. down' \in [Links -> Seq(Acks \cup Gaps \cup HelloAcks)]
      BY <1>7, <1>8 DEF NetOK
    <2> QED
      BY <1>3, <2>1, <2>2, <2>3 DEF NetOK, Carried, Acks, Gaps, HelloAcks
  <1>11. TypeOK'
    <2>1. queue' \in [Links -> Seq(EventFrames)]
      BY <1>10, CarriedAreFrames DEF NetOK
    <2>2. granted' \in [Links -> SUBSET {"draft", "delegation", "media"}]
      BY <1>2, <1>5 DEF TypeOK, Capabilities
    <2>3. current' \in 0..MaxLinks
      BY <1>1, <1>6
    <2> QED
      BY <1>3, <1>9, <2>1, <2>2, <2>3 DEF TypeOK, EventFrames
  <1>12. HandshakeOK'
    <2>1. \A d \in Links : d # c => down'[d] = down[d]
      BY <1>8 DEF NetOK
    <2>2. ~(c = link /\ Connected) => down'[c] = down[c]
      BY <1>8 DEF NetOK
    <2>3. c = link /\ Connected => phase = "hello" /\ down[c] = <<>> /\ down'[c] = <<reply>>
      <3>1. c = link /\ Connected => phase = "hello" /\ down[c] = <<>>
        BY <1>1 DEF HandshakeOK, Connected
      <3>2. down \in [Links -> Seq(Acks \cup Gaps \cup HelloAcks)]
        BY DEF NetOK
      <3> QED
        BY <1>8, <3>1, <3>2
    <2>4. \A d \in Links : d > link' => server'[d] = "none" /\ up'[d] = <<>>
      BY <1>1, <1>3, <1>6, <1>9 DEF HandshakeOK
    <2>5. \A d \in Links : (d # link' \/ ~Connected') => down'[d] = <<>>
      BY <1>3, <2>1, <2>2 DEF HandshakeOK, Connected
    <2>6. /\ Connected' => link' \in Links
          /\ current' \in Links /\ server'[current'] = "hello"
          /\ phase' = "ready" => server'[link'] # "open"
          /\ Connected' /\ server'[link'] = "open" => down'[link'] = <<>>
      BY <1>1, <1>3, <1>9, <2>1 DEF HandshakeOK, Connected
    <2>7. phase' = "hello" /\ server'[link'] = "hello" => down'[link'] # <<>>
      <3>1. CASE c = link
        BY <1>3, <2>3, <3>1 DEF Connected
      <3>2. CASE c # link
        BY <1>3, <1>9, <2>1, <3>2 DEF HandshakeOK, Connected
      <3> QED
        BY <3>1, <3>2
    <2>8. /\ Connected' => \A i \in 1..Len(down'[link']) :
               (phase' = "hello" /\ i = 1) <=> down'[link'][i].kind = "hello_ack"
          /\ phase' = "hello" /\ down'[link'] # <<>> => down'[link'][1].eventSequence >= eventCursor'
      <3>1. CASE c = link /\ Connected
        <4>1. /\ link' = c /\ phase' = "hello" /\ down'[c] = <<reply>> /\ eventCursor' <= lastEventSequence
              /\ eventCursor' \in Nat
          BY <1>3, <2>3, <3>1 DEF CursorsOK, TypeOK
        <4> QED
          BY <1>5, <1>8, <4>1
      <3>2. CASE ~(c = link /\ Connected)
        <4>1. Connected => down'[link] = down[link]
          BY <2>1, <3>2 DEF HandshakeOK
        <4> QED
          BY <1>3, <4>1 DEF HandshakeOK, Connected
      <3> QED
        BY <3>1, <3>2
    <2> QED
      BY <2>4, <2>5, <2>6, <2>7, <2>8 DEF HandshakeOK
  <1>13. CursorsOK' /\ NeverRefused'
    BY <1>3 DEF CursorsOK, NeverRefused
  <1> QED
    BY <1>4, <1>10, <1>11, <1>12, <1>13

LEMMA BufferStep ==
    ASSUME IInv, NEW c \in Links, Buffer(c)
    PROVE  IInv'
  <1> USE DEF IInv
  <1>1. /\ up[c] # <<>> /\ Head(up[c]).kind = "event"
        /\ queue' = [queue EXCEPT ![c] = Append(@, Head(up[c]))]
        /\ up' = [up EXCEPT ![c] = Tail(@)]
    BY DEF Buffer, Arrives
  <1>2. UNCHANGED <<outbox, nextEventSequence, eventCursor, turnTerminals, link, phase, capabilities,
                    sentEvents, down, server, granted, current, inbox, lastEventSequence, attachTerminals,
                    projected, stripped, deleted,
                    issued, withdrawn, refusal>>
    BY DEF Buffer, plugin, client, storage, history
  <1>3. JournalsGrow /\ IdsOK' /\ OneMeaningPerSequence' /\ SettledIsDurable'
    BY <1>2, SameJournals
  <1>4. Head(up[c]) \in Carried /\ Tail(up[c]) \in Seq(Hellos \cup Carried) /\ c <= link
    BY <1>1, UpFrame
  <1>5. NetOK'
    <2>1. up' \in [Links -> Seq(Hellos \cup Carried)] /\ queue' \in [Links -> Seq(Carried)]
      BY <1>1, <1>4 DEF NetOK
    <2> QED
      BY <1>2, <2>1 DEF NetOK, Carried, Acks, Gaps, HelloAcks
  <1>6. TypeOK'
    <2>1. queue' \in [Links -> Seq(EventFrames)]
      BY <1>5, CarriedAreFrames DEF NetOK
    <2> QED
      BY <1>2, <2>1 DEF TypeOK, EventFrames
  <1>7. HandshakeOK'
    <2>1. \A d \in Links : d > link => up'[d] = up[d]
      BY <1>1, <1>4 DEF NetOK, Links, TypeOK
    <2> QED
      BY <1>2, <2>1 DEF HandshakeOK, Connected
  <1>8. CursorsOK' /\ NeverRefused'
    BY <1>2 DEF CursorsOK, NeverRefused
  <1> QED
    BY <1>3, <1>5, <1>6, <1>7, <1>8

\* A spooled row is never a conflict, and what it is admitted under is its own
\* number.
LEMMA VerdictFollows ==
    ASSUME IInv, NEW frame \in Carried
    PROVE  /\ Verdict(frame) # "conflict"
           /\ Verdict(frame) = "next" =>
                frame.sequence = lastEventSequence + 1 /\ frame.sequence \notin DOMAIN inbox
           /\ Verdict(frame) = "duplicate" =>
                frame.sequence \in DOMAIN inbox /\ inbox[frame.sequence].id = frame.id
  <1> USE DEF IInv
  <1> DEFINE known == {s \in DOMAIN inbox : inbox[s].id = frame.id}
  <1>1. /\ frame.sequence \in DOMAIN outbox /\ outbox[frame.sequence].id = frame.id
        /\ frame.sequence \in Nat \ {0} /\ lastEventSequence \in Nat /\ DOMAIN inbox = 1..lastEventSequence
    BY DEF Carried, TypeOK
  <1>2. \A s \in known : s = frame.sequence
    BY <1>1 DEF IdsOK
  <1>3. frame.sequence <= lastEventSequence => frame.sequence \in known
    BY <1>1 DEF OneMeaningPerSequence
  <1>4. known = {} \/ known = {frame.sequence}
    BY <1>2
  <1>5. /\ known # {} => Verdict(frame) = "duplicate"
        /\ known = {} /\ frame.sequence > lastEventSequence + 1 => Verdict(frame) = "gap"
        /\ known = {} /\ frame.sequence = lastEventSequence + 1 => Verdict(frame) = "next"
    BY <1>1, <1>4 DEF Verdict
  <1>6. known = {} => frame.sequence > lastEventSequence
    BY <1>1, <1>3
  <1>7. known # {} => frame.sequence \in DOMAIN inbox /\ inbox[frame.sequence].id = frame.id
    BY <1>4
  <1> HIDE DEF known
  <1> QED
    BY <1>1, <1>5, <1>6, <1>7

\* A reply other than a hello_ack keeps the replies well formed.
LEMMA ReplyKeeps ==
    ASSUME IInv, NEW c \in Links, server[c] = "hello", NEW R, NEW frame \in R,
           frame.kind # "hello_ack", down \in [Links -> Seq(R)],
           Reply(c, frame) \/ UNCHANGED down
    PROVE  /\ down' \in [Links -> Seq(R)]
           /\ \A d \in Links : (d # link \/ ~Connected) => down'[d] = down[d]
           /\ \A d \in Links : d # c => down'[d] = down[d]
           /\ down[link] # <<>> /\ link \in Links => down'[link] # <<>> /\ down'[link][1] = down[link][1]
           /\ Connected => \A i \in 1..Len(down'[link]) :
                (phase = "hello" /\ i = 1) <=> down'[link][i].kind = "hello_ack"
  <1> USE DEF IInv
  <1>1. /\ \A d \in Links : down[d] \in Seq(R)
        /\ Connected => link \in Links
        /\ Connected => \A i \in 1..Len(down[link]) : (phase = "hello" /\ i = 1) <=> down[link][i].kind = "hello_ack"
        /\ phase = "hello" /\ server[link] = "hello" => down[link] # <<>>
    BY DEF HandshakeOK
  <1>2. CASE c = link /\ Connected /\ down' = [down EXCEPT ![c] = Append(@, frame)]
    <2> DEFINE before == down[link]
    <2>1. before \in Seq(R) /\ (phase = "hello" => before # <<>>) /\ down'[link] = Append(before, frame)
      BY <1>1, <1>2
    <2>2. \A i \in 1..Len(before) : (phase = "hello" /\ i = 1) <=> before[i].kind = "hello_ack"
      BY <1>1, <1>2
    <2>3. /\ down' \in [Links -> Seq(R)]
          /\ \A d \in Links : d # c => down'[d] = down[d]
      BY <1>1, <1>2
    <2> HIDE DEF before
    <2>4. /\ Len(Append(before, frame)) = Len(before) + 1 /\ Len(before) \in Nat
          /\ \A i \in 1..(Len(before) + 1) :
               Append(before, frame)[i] = IF i <= Len(before) THEN before[i] ELSE frame
          /\ before # <<>> => Len(before) >= 1
      BY <2>1
    <2>5. \A i \in 1..Len(Append(before, frame)) :
            (phase = "hello" /\ i = 1) <=> Append(before, frame)[i].kind = "hello_ack"
      <3> SUFFICES ASSUME NEW i \in 1..(Len(before) + 1)
                   PROVE  (phase = "hello" /\ i = 1) <=> Append(before, frame)[i].kind = "hello_ack"
        BY <2>4
      <3>1. CASE i <= Len(before)
        BY <2>2, <2>4, <3>1
      <3>2. CASE ~(i <= Len(before))
        BY <2>1, <2>4, <3>2
      <3> QED
        BY <3>1, <3>2
    <2>6. before # <<>> => Append(before, frame) # <<>> /\ Append(before, frame)[1] = before[1]
      BY <2>1, <2>4, SMTT(30)
    <2>7. \A d \in Links : (d # link \/ ~Connected) => down'[d] = down[d]
      BY <1>2, <2>3
    <2> QED
      BY <2>1, <2>3, <2>5, <2>6, <2>7 DEF before
  <1>3. CASE down' = down
    BY <1>1, <1>3
  <1>4. (c = link /\ Connected /\ down' = [down EXCEPT ![c] = Append(@, frame)]) \/ down' = down
    BY DEF Reply
  <1> QED
    BY <1>2, <1>3, <1>4

\* Admitting a spooled row, wherever it waited.
LEMMA AdmitStep ==
    ASSUME IInv, NEW c \in Links, NEW frame \in Carried, NEW rest \in Seq(Carried),
           current = c, server[c] = "hello", Admit(c, frame, rest),
           UNCHANGED <<plugin, client, granted, issued, withdrawn>>,
           up' \in [Links -> Seq(Hellos \cup Carried)],
           \A d \in Links : d > link => up'[d] = up[d]
    PROVE  IInv'
  <1> USE DEF IInv
  <1>1. UNCHANGED <<outbox, nextEventSequence, eventCursor, turnTerminals, link, phase, capabilities,
                    sentEvents, granted, issued, withdrawn>>
    BY DEF plugin, client
  <1>2. /\ frame.sequence \in DOMAIN outbox /\ outbox[frame.sequence].id = frame.id
        /\ frame.sequence \in Nat /\ frame.id \in Nat /\ frame.event \in Event
        /\ lastEventSequence \in Nat /\ DOMAIN inbox = 1..lastEventSequence
    BY DEF Carried, EventFrames, TypeOK
  <1>3. Verdict(frame) # "conflict"
    BY VerdictFollows
  <1>4. UNCHANGED <<server, current, refusal>>
    BY <1>3 DEF Admit
  <1>5. queue' \in [Links -> Seq(Carried)]
    <2>1. queue' = [queue EXCEPT ![c] = rest] \/ queue' = [queue EXCEPT ![c] = <<>>]
      BY <1>3 DEF Admit
    <2>2. queue \in [Links -> Seq(Carried)] /\ <<>> \in Seq(Carried)
      BY DEF NetOK
    <2>3. CASE queue' = [queue EXCEPT ![c] = rest]
      BY <2>2, <2>3
    <2>4. CASE queue' = [queue EXCEPT ![c] = <<>>]
      BY <2>2, <2>4
    <2> QED
      BY <2>1, <2>3, <2>4
  <1>6. /\ JournalsGrow /\ lastEventSequence' \in Nat /\ DOMAIN inbox' = 1..lastEventSequence'
        /\ lastEventSequence' < nextEventSequence
        /\ \A s \in DOMAIN inbox' : (s \in DOMAIN inbox /\ inbox'[s] = inbox[s])
                                    \/ (s = frame.sequence /\ inbox'[s].id = frame.id)
        /\ inbox' \in [DOMAIN inbox' -> [id : Nat, event : Event,
                                         disposition : {"accepted", "ignored_terminal", "discarded"}]]
        /\ DOMAIN attachTerminals' \subseteq Turns
        /\ UNCHANGED <<projected, stripped, deleted>>
    <2>1. CASE Verdict(frame) = "next"
      <3>1. PICK disposition \in {"accepted", "ignored_terminal", "discarded"} : Store(frame, disposition)
        BY <2>1 DEF Admit, Disposition
      <3>2. frame.sequence = lastEventSequence + 1 /\ frame.sequence \notin DOMAIN inbox
        BY <2>1, VerdictFollows
      <3>3. /\ DOMAIN inbox' = DOMAIN inbox \cup {frame.sequence} /\ lastEventSequence' = frame.sequence
            /\ inbox'[frame.sequence] = [id |-> frame.id, event |-> frame.event, disposition |-> disposition]
            /\ \A s \in DOMAIN inbox : inbox'[s] = inbox[s]
            /\ inbox' = [s \in DOMAIN inbox' |-> inbox'[s]]
        BY <3>1, <3>2 DEF Store, Put
      <3>4. DOMAIN inbox' = 1..lastEventSequence'
        BY <1>2, <3>2, <3>3
      <3>5. lastEventSequence' < nextEventSequence
        BY <1>2, <3>3 DEF TypeOK
      <3>6. inbox' \in [DOMAIN inbox' -> [id : Nat, event : Event,
                                          disposition : {"accepted", "ignored_terminal", "discarded"}]]
        <4>1. inbox'[frame.sequence] \in [id : Nat, event : Event,
                                          disposition : {"accepted", "ignored_terminal", "discarded"}]
          BY <1>2, <3>3
        <4> QED
          BY <3>3, <4>1 DEF TypeOK
      <3>7. DOMAIN attachTerminals' \subseteq Turns
        <4>1. Terminal(frame.event) => frame.event.turn \in Turns
          BY <1>2 DEF Terminal, Event
        <4> QED
          BY <3>1, <4>1 DEF Store, Put, TypeOK
      <3>8. JournalsGrow
        BY <1>1, <1>2, <3>2, <3>3 DEF JournalsGrow
      <3>9. \A s \in DOMAIN inbox' : (s \in DOMAIN inbox /\ inbox'[s] = inbox[s])
                                    \/ (s = frame.sequence /\ inbox'[s].id = frame.id)
        <4>1. inbox'[frame.sequence].id = frame.id
          BY <3>3
        <4> QED
          BY <3>3, <4>1
      <3>10. UNCHANGED <<projected, stripped, deleted>>
        BY <3>1 DEF Store, retention
      <3> QED
        BY <1>2, <3>3, <3>4, <3>5, <3>6, <3>7, <3>8, <3>9, <3>10
    <2>2. CASE Verdict(frame) # "next"
      <3>1. UNCHANGED <<inbox, lastEventSequence, attachTerminals, projected, stripped, deleted>>
        BY <1>3, <2>2 DEF Admit, storage
      <3>2. JournalsGrow
        BY <1>1, <1>2, <3>1 DEF JournalsGrow
      <3>3. lastEventSequence' < nextEventSequence
        BY <3>1 DEF CursorsOK
      <3>4. /\ inbox' \in [DOMAIN inbox' -> [id : Nat, event : Event,
                                            disposition : {"accepted", "ignored_terminal", "discarded"}]]
            /\ DOMAIN attachTerminals' \subseteq Turns
        BY <3>1 DEF TypeOK
      <3> QED
        BY <1>2, <3>1, <3>2, <3>3, <3>4
    <2> QED
      BY <2>1, <2>2
  <1>7. PICK answer \in Acks' \cup Gaps' : answer.kind # "hello_ack" /\ (Reply(c, answer) \/ UNCHANGED down)
    <2>1. Verdict(frame) \in {"next", "duplicate"} =>
            AckOf(frame) \in Acks' /\ AckOf(frame).kind # "hello_ack" /\ Reply(c, AckOf(frame))
      <3>1. Verdict(frame) \in {"next", "duplicate"} =>
              frame.sequence \in DOMAIN inbox' /\ inbox'[frame.sequence].id = frame.id
        <4>1. Verdict(frame) = "next" => frame.sequence \in DOMAIN inbox' /\ inbox'[frame.sequence].id = frame.id
          BY <1>3 DEF Admit, Store, Put
        <4>2. Verdict(frame) = "duplicate" => frame.sequence \in DOMAIN inbox /\ inbox[frame.sequence].id = frame.id
          BY VerdictFollows
        <4> QED
          BY <1>6, <4>1, <4>2 DEF JournalsGrow
      <3>2. Verdict(frame) \in {"next", "duplicate"} => Reply(c, AckOf(frame))
        BY DEF Admit
      <3> QED
        BY <1>2, <3>1, <3>2 DEF Acks, AckOf
    <2>2. Verdict(frame) = "gap" =>
            GapReply \in Gaps' /\ GapReply.kind # "hello_ack" /\ Reply(c, GapReply)
      <3>1. Verdict(frame) = "gap" => lastEventSequence' = lastEventSequence /\ Reply(c, GapReply)
        BY DEF Admit, storage
      <3>2. GapReply \in [kind : {"gap"}, requestedAfter : Nat] /\ GapReply.requestedAfter = lastEventSequence
        BY <1>2 DEF GapReply
      <3> QED
        BY <1>2, <1>6, <3>1, <3>2 DEF Gaps, GapReply
    <2>3. Verdict(frame) \in {"next", "duplicate", "gap", "conflict"}
      BY DEF Verdict
    <2> QED
      BY <1>3, <2>1, <2>2, <2>3
  <1> DEFINE R == Acks' \cup Gaps' \cup HelloAcks'
  <1>8. answer \in R /\ down \in [Links -> Seq(R)]
    BY <1>2, <1>6, <1>7, QuietNetwork
  <1> HIDE DEF R
  <1>9. /\ down' \in [Links -> Seq(R)]
        /\ \A d \in Links : (d # link \/ ~Connected) => down'[d] = down[d]
        /\ \A d \in Links : d # c => down'[d] = down[d]
        /\ down[link] # <<>> /\ link \in Links => down'[link] # <<>> /\ down'[link][1] = down[link][1]
        /\ Connected => \A i \in 1..Len(down'[link]) :
             (phase = "hello" /\ i = 1) <=> down'[link][i].kind = "hello_ack"
    BY <1>7, <1>8, ReplyKeeps
  <1>10. NetOK'
    <2>1. up' \in [Links -> Seq(Hellos \cup Carried')]
      <3>1. Seq(Hellos \cup Carried) \subseteq Seq(Hellos \cup Carried')
        BY <1>2, <1>6, FramesGrow
      <3> QED
        BY <3>1
    <2>2. queue' \in [Links -> Seq(Carried')]
      <3>1. Seq(Carried) \subseteq Seq(Carried')
        BY <1>2, <1>6, FramesGrow
      <3> QED
        BY <1>5, <3>1
    <2>3. down' \in [Links -> Seq(Acks' \cup Gaps' \cup HelloAcks')]
      BY <1>9 DEF R
    <2> QED
      BY <2>1, <2>2, <2>3 DEF NetOK, Hellos
  <1>11. TypeOK'
    <2>1. queue' \in [Links -> Seq(EventFrames)]
      BY <1>10, CarriedAreFrames DEF NetOK
    <2>2. /\ DOMAIN outbox' \subseteq 1..(nextEventSequence' - 1)
          /\ outbox' \in [DOMAIN outbox' -> [id : Nat, event : Event, acked : BOOLEAN]]
          /\ nextEventSequence' \in Nat \ {0} /\ eventCursor' \in Nat /\ DOMAIN turnTerminals' \subseteq Turns
          /\ link' \in 0..MaxLinks /\ phase' \in {"closed", "hello", "ready", "stopped"}
          /\ capabilities' \in SUBSET {"draft", "delegation", "media"}
          /\ sentEvents' \subseteq 1..(nextEventSequence' - 1)
      BY <1>1 DEF TypeOK
    <2>3. /\ server' \in [Links -> {"none", "open", "hello", "closed", "superseded"}]
          /\ granted' \in [Links -> SUBSET {"draft", "delegation", "media"}]
          /\ current' \in 0..MaxLinks /\ refusal' \in {"none", "resume", "conflict"}
          /\ issued' \in Seq(Event) /\ withdrawn' \subseteq 1..Len(issued')
      BY <1>1, <1>4 DEF TypeOK
    <2>4. projected' \in 0..lastEventSequence' /\ stripped' \subseteq DOMAIN inbox' /\ deleted' \subseteq Turns
      BY <1>6 DEF TypeOK, JournalsGrow
    <2> QED
      BY <1>6, <2>1, <2>2, <2>3, <2>4 DEF TypeOK, EventFrames
  <1>12. HandshakeOK'
    <2>1. /\ \A d \in Links : (d # link' \/ ~Connected') => down'[d] = <<>>
          /\ \A d \in Links : d > link' => server'[d] = "none" /\ up'[d] = <<>>
          /\ Connected' => link' \in Links
          /\ current' # 0 => current' \in Links /\ server'[current'] = "hello"
          /\ phase' = "ready" => server'[link'] # "open"
      BY <1>1, <1>4, <1>9 DEF HandshakeOK, Connected
    <2>2. Connected' /\ server'[link'] = "open" => down'[link'] = <<>>
      <3>1. server[link] = "open" => link # c
        OBVIOUS
      <3> QED
        BY <1>1, <1>4, <1>9, <3>1 DEF HandshakeOK, Connected
    <2>3. phase' = "hello" /\ server'[link'] = "hello" => down'[link'] # <<>>
      BY <1>1, <1>4, <1>9 DEF HandshakeOK, Connected
    <2>4. Connected' => \A i \in 1..Len(down'[link']) :
            (phase' = "hello" /\ i = 1) <=> down'[link'][i].kind = "hello_ack"
      BY <1>1, <1>9 DEF Connected
    <2>5. phase' = "hello" /\ down'[link'] # <<>> => down'[link'][1].eventSequence >= eventCursor'
      <3>1. CASE down[link] # <<>>
        BY <1>1, <1>9, <3>1 DEF HandshakeOK, Connected
      <3>2. CASE down[link] = <<>>
        <4>1. phase = "hello" => link \in Links /\ link # c
          BY <3>2 DEF HandshakeOK, Connected
        <4> QED
          BY <1>1, <1>9, <3>2, <4>1
      <3> QED
        BY <3>1, <3>2
    <2> QED
      BY <2>1, <2>2, <2>3, <2>4, <2>5 DEF HandshakeOK
  <1>13. IdsOK'
    <2>1. /\ \A s \in DOMAIN outbox : outbox[s].id \in 1..Len(issued)
          /\ \A s \in DOMAIN inbox : inbox[s].id \in 1..Len(issued)
          /\ \A s, r \in DOMAIN outbox : outbox[s].id = outbox[r].id => s = r
          /\ \A s \in DOMAIN outbox, r \in DOMAIN inbox : outbox[s].id = inbox[r].id => s = r
      BY DEF IdsOK
    <2>2. \A s \in DOMAIN inbox' : inbox'[s].id \in 1..Len(issued)
      BY <1>2, <1>6, <2>1
    <2>3. \A s \in DOMAIN outbox, r \in DOMAIN inbox' : outbox[s].id = inbox'[r].id => s = r
      BY <1>2, <1>6, <2>1
    <2> QED
      BY <1>1, <2>1, <2>2, <2>3 DEF IdsOK
  <1>14. CursorsOK' /\ NeverRefused'
    <2>1. eventCursor' <= lastEventSequence'
      BY <1>1, <1>6 DEF CursorsOK, JournalsGrow, TypeOK
    <2> QED
      BY <1>1, <1>4, <1>6, <2>1 DEF CursorsOK, NeverRefused
  <1>15. OneMeaningPerSequence' /\ SettledIsDurable'
    <2>1. OneMeaningPerSequence'
      BY <1>1, <1>2, <1>6 DEF OneMeaningPerSequence
    <2>2. SettledIsDurable'
      BY <1>1, <1>6 DEF SettledIsDurable, JournalsGrow
    <2> QED
      BY <2>1, <2>2
  <1> QED
    BY <1>10, <1>11, <1>12, <1>13, <1>14, <1>15

\* The three places a frame is admitted from.
LEMMA AdmissionStep ==
    ASSUME IInv, NEW c \in Links, DrainQueue(c) \/ DrainAndDiscard(c) \/ ReceiveEvent(c)
    PROVE  IInv'
  <1> USE DEF IInv
  <1>1. CASE DrainQueue(c) \/ DrainAndDiscard(c)
    <2>1. /\ current = c /\ server[c] = "hello" /\ queue[c] # <<>> /\ queue[c] \in Seq(Carried)
          /\ UNCHANGED <<plugin, client, granted, issued, withdrawn>>
      BY <1>1 DEF DrainQueue, DrainAndDiscard, NetOK
    <2>2. Head(queue[c]) \in Carried /\ Tail(queue[c]) \in Seq(Carried) /\ <<>> \in Seq(Carried)
      BY <2>1
    <2>3. Admit(c, Head(queue[c]), Tail(queue[c])) \/ Admit(c, Head(queue[c]), <<>>)
      BY <1>1 DEF DrainQueue, DrainAndDiscard
    <2>4. /\ up' \in [Links -> Seq(Hellos \cup Carried)]
          /\ \A d \in Links : d > link => up'[d] = up[d]
      <3>1. CASE DrainQueue(c)
        BY <3>1 DEF DrainQueue, NetOK
      <3>2. CASE DrainAndDiscard(c)
        <4>1. up[c] # <<>> /\ up' = [up EXCEPT ![c] = Tail(@)]
          BY <3>2 DEF DrainAndDiscard
        <4>2. Tail(up[c]) \in Seq(Hellos \cup Carried) /\ ~(c > link)
          BY <4>1, UpFrame DEF HandshakeOK
        <4> QED
          BY <4>1, <4>2 DEF NetOK
      <3> QED
        BY <1>1, <3>1, <3>2
    <2> QED
      BY <2>1, <2>2, <2>3, <2>4, AdmitStep
  <1>2. CASE ReceiveEvent(c)
    <2>1. /\ current = c /\ up[c] # <<>> /\ Head(up[c]).kind = "event"
          /\ Admit(c, Head(up[c]), <<>>) /\ up' = [up EXCEPT ![c] = Tail(@)]
          /\ UNCHANGED <<plugin, client, granted, issued, withdrawn>>
      BY <1>2 DEF ReceiveEvent, Arrives
    <2>2. server[c] = "hello"
      BY <2>1, CurrentIsLink
    <2>3. /\ Head(up[c]) \in Carried /\ Tail(up[c]) \in Seq(Hellos \cup Carried) /\ ~(c > link)
          /\ <<>> \in Seq(Carried)
      BY <2>1, UpFrame DEF HandshakeOK
    <2>4. /\ up' \in [Links -> Seq(Hellos \cup Carried)]
          /\ \A d \in Links : d > link => up'[d] = up[d]
      BY <2>1, <2>3 DEF NetOK
    <2> QED
      BY <2>1, <2>2, <2>3, <2>4, AdmitStep
  <1> QED
    BY <1>1, <1>2

LEMMA CloseStep ==
    ASSUME IInv, NEW C \in SUBSET Open, Close(C)
    PROVE  IInv'
  <1> USE DEF IInv
  <1>1. /\ server' = [c \in Links |-> IF c \in C THEN "closed" ELSE server[c]]
        /\ queue' = [c \in Links |-> IF c \in C THEN <<>> ELSE queue[c]]
        /\ up' = [c \in Links |-> IF c \in C THEN <<>> ELSE up[c]]
        /\ current' = IF current \in C THEN 0 ELSE current
    BY DEF Close
  <1>2. UNCHANGED <<outbox, nextEventSequence, eventCursor, turnTerminals, link, phase, capabilities,
                    sentEvents, down, granted, inbox, lastEventSequence, attachTerminals,
                    projected, stripped, deleted,
                    issued, withdrawn, refusal>>
    BY DEF Close, plugin, client, storage, history
  <1>3. JournalsGrow /\ IdsOK' /\ OneMeaningPerSequence' /\ SettledIsDurable'
    BY <1>2, SameJournals
  <1>4. \A c \in C : c \in Links /\ server[c] # "none"
    BY DEF Open
  <1>5. NetOK'
    <2>1. up' \in [Links -> Seq(Hellos \cup Carried)] /\ queue' \in [Links -> Seq(Carried)]
      BY <1>1 DEF NetOK
    <2> QED
      BY <1>2, <2>1 DEF NetOK, Carried, Acks, Gaps, HelloAcks
  <1>6. TypeOK'
    <2>1. queue' \in [Links -> Seq(EventFrames)]
      BY <1>5, CarriedAreFrames DEF NetOK
    <2>2. server' \in [Links -> {"none", "open", "hello", "closed", "superseded"}]
      BY <1>1 DEF TypeOK
    <2>3. current' \in 0..MaxLinks
      BY <1>1, BoundsAreNat DEF TypeOK
    <2> QED
      BY <1>2, <2>1, <2>2, <2>3 DEF TypeOK, EventFrames
  <1>7. HandshakeOK'
    <2>1. \A c \in Links : c > link' => server'[c] = "none" /\ up'[c] = <<>>
      BY <1>1, <1>2, <1>4 DEF HandshakeOK
    <2>2. \A c \in Links : server'[c] \in {"open", "hello"} => server'[c] = server[c]
      BY <1>1
    <2>3. current' # 0 => current' \in Links /\ server'[current'] = "hello"
      BY <1>1 DEF HandshakeOK
    <2> QED
      BY <1>2, <2>1, <2>2, <2>3 DEF HandshakeOK, Connected
  <1>8. CursorsOK' /\ NeverRefused'
    BY <1>2 DEF CursorsOK, NeverRefused
  <1> QED
    BY <1>3, <1>5, <1>6, <1>7, <1>8

\* A step that touches journaled rows again.
Retains ==
    \/ \E s \in DOMAIN inbox : Project(s) \/ CompactInbox(s)
    \/ \E T \in SUBSET Turns : DeleteSession(T)

\* A row of the inbox.
Entries == [id : Nat, event : Event, disposition : {"accepted", "ignored_terminal", "discarded"}]

\* Such a step leaves every number and id, and changes a row only by blanking it with its session.
LEMMA RetentionRows ==
    ASSUME inbox \in [DOMAIN inbox -> Entries], Retains
    PROVE  /\ DOMAIN inbox' = DOMAIN inbox /\ inbox' \in [DOMAIN inbox -> Entries] /\ deleted \subseteq deleted'
           /\ \A s \in DOMAIN inbox :
                /\ inbox'[s].id = inbox[s].id
                /\ \/ inbox'[s] = inbox[s]
                   \/ /\ inbox[s].event.turn \in deleted' \ deleted
                      /\ inbox'[s].event = Inert /\ inbox'[s].disposition = "discarded"
  <1>1. \A s \in DOMAIN inbox : inbox[s] \in Entries
    OBVIOUS
  <1>2. CASE inbox' = inbox /\ deleted' = deleted
    BY <1>2
  <1>3. CASE \E T \in SUBSET Turns : DeleteSession(T)
    <2>1. PICK T \in SUBSET Turns : DeleteSession(T)
      BY <1>3
    <2>2. /\ T \cap deleted = {} /\ deleted' = deleted \cup T
          /\ inbox' = [s \in DOMAIN inbox |->
                         IF inbox[s].event.turn \in T
                           THEN [id |-> inbox[s].id, event |-> Inert, disposition |-> "discarded"] ELSE inbox[s]]
      BY <2>1 DEF DeleteSession
    <2>3. ASSUME NEW s \in DOMAIN inbox
          PROVE  [id |-> inbox[s].id, event |-> Inert, disposition |-> "discarded"] \in Entries
      BY <1>1, InertIsEvent DEF Entries
    <2> QED
      BY <1>1, <2>2, <2>3
  <1> QED
    BY <1>2, <1>3 DEF Retains, Project, CompactInbox

\* Marking, compacting and blanking rows of the inbox keeps the two journals together.
LEMMA RetentionStep ==
    ASSUME IInv, Retains
    PROVE  IInv'
  <1>1. UNCHANGED <<outbox, nextEventSequence, eventCursor, turnTerminals, link, phase, capabilities,
                    sentEvents, up, down, server, granted, queue, current, lastEventSequence,
                    attachTerminals, issued, withdrawn, refusal>>
    BY DEF Retains, Project, CompactInbox, DeleteSession, plugin, client, ingress, history
  <1>2. inbox \in [DOMAIN inbox -> Entries]
    BY DEF IInv, TypeOK, Entries
  <1>3. /\ DOMAIN inbox' = DOMAIN inbox /\ \A s \in DOMAIN inbox : inbox'[s].id = inbox[s].id
        /\ inbox' \in [DOMAIN inbox -> Entries]
    BY <1>2, RetentionRows
  <1>4. projected' \in 0..lastEventSequence' /\ stripped' \subseteq DOMAIN inbox' /\ deleted' \subseteq Turns
    <2>1. /\ projected \in 0..lastEventSequence /\ stripped \subseteq DOMAIN inbox /\ deleted \subseteq Turns
          /\ DOMAIN inbox = 1..lastEventSequence /\ lastEventSequence \in Nat
      BY DEF IInv, TypeOK
    <2>2. ASSUME NEW s \in DOMAIN inbox, Project(s)
          PROVE  projected' \in 0..lastEventSequence /\ UNCHANGED <<stripped, deleted>>
      BY <2>1, <2>2 DEF Project
    <2>3. ASSUME NEW s \in DOMAIN inbox, CompactInbox(s)
          PROVE  stripped' \subseteq DOMAIN inbox /\ UNCHANGED <<projected, deleted>>
      BY <2>1, <2>3 DEF CompactInbox
    <2>4. ASSUME NEW T \in SUBSET Turns, DeleteSession(T)
          PROVE  deleted' \subseteq Turns /\ UNCHANGED <<projected, stripped>>
      BY <2>1, <2>4 DEF DeleteSession
    <2> QED
      BY <1>1, <1>3, <2>1, <2>2, <2>3, <2>4 DEF Retains
  <1>5. TypeOK'
    BY <1>1, <1>3, <1>4 DEF IInv, TypeOK, Entries
  <1>6. /\ Carried' = Carried /\ Acks' = Acks /\ Gaps' = Gaps /\ HelloAcks' = HelloAcks
    BY <1>1, <1>3 DEF Carried, Acks, Gaps, HelloAcks
  <1>7. NetOK' /\ HandshakeOK'
    BY <1>1, <1>6 DEF IInv, NetOK, HandshakeOK, Connected
  <1>8. IdsOK' /\ CursorsOK' /\ OneMeaningPerSequence' /\ SettledIsDurable' /\ NeverRefused'
    BY <1>1, <1>3 DEF IInv, IdsOK, CursorsOK, OneMeaningPerSequence, SettledIsDurable, NeverRefused
  <1> QED
    BY <1>5, <1>7, <1>8 DEF IInv

LEMMA StutterStep ==
    ASSUME IInv, UNCHANGED vars
    PROVE  IInv'
  <1>1. UNCHANGED <<outbox, nextEventSequence, eventCursor, turnTerminals, link, phase, capabilities,
                    sentEvents, up, down, server, granted, queue, current, inbox, lastEventSequence,
                    attachTerminals, projected, stripped, deleted, issued, withdrawn, refusal>>
    BY DEF vars, plugin, client, ingress, storage, history
  <1>2. TypeOK'
    BY <1>1 DEF IInv, TypeOK
  <1>3. NetOK'
    BY <1>1 DEF IInv, NetOK, Carried, Acks, Gaps, HelloAcks
  <1>4. HandshakeOK'
    BY <1>1 DEF IInv, HandshakeOK, Connected
  <1>5. IdsOK' /\ CursorsOK' /\ OneMeaningPerSequence' /\ SettledIsDurable' /\ NeverRefused'
    BY <1>1 DEF IInv, IdsOK, CursorsOK, OneMeaningPerSequence, SettledIsDurable, NeverRefused
  <1> QED
    BY <1>2, <1>3, <1>4, <1>5 DEF IInv

\* No spool file has been lost so far.
SpoolKept == recreations = 0

\* A spool file is lost once and for all: a state before the first loss is reached from one.
LEMMA LossIsForGood ==
    ASSUME recreations \in Nat, [Next]_vars
    PROVE  /\ recreations' \in Nat
           /\ SpoolKept' => SpoolKept /\ ~RecreateSpool
  <1>1. CASE RecreateSpool
    BY <1>1 DEF RecreateSpool, SpoolKept
  <1>2. CASE ~RecreateSpool
    <2>1. recreations' = recreations
      <3>1. CASE UNCHANGED vars
        BY <3>1, SMTT(30) DEF vars, budget
      <3>2. CASE Next
        BY <1>2, <3>2 DEF Next, Enqueue, Withdraw, Compact, Transmit, Dial, NoticeClose, DropSocket, Hangup,
           ReceiveHelloAck, RefuseHelloAck, ReceiveAck, ReceiveGap, Hello, Buffer, DrainQueue, DrainAndDiscard,
           ReceiveEvent, CloseAbandoned, Fault, Close, Project, CompactInbox, DeleteSession, budget
      <3> QED
        BY <3>1, <3>2
    <2> QED
      BY <1>2, <2>1 DEF SpoolKept
  <1> QED
    BY <1>1, <1>2

\* Every other step keeps the invariant.
LEMMA NextIInv ==
    ASSUME IInv, ~RecreateSpool, [Next]_vars
    PROVE  IInv'
  <1>1. CASE UNCHANGED vars
    BY <1>1, StutterStep
  <1>2. ASSUME NEW e \in Event, Enqueue(e) PROVE IInv'
    BY <1>2, EnqueueStep
  <1>3. ASSUME NEW s \in DOMAIN outbox, Withdraw(s) \/ Compact(s) \/ Transmit(s) PROVE IInv'
    BY <1>3, InertStep, TransmitStep
  <1>4. CASE Dial
    BY <1>4, DialStep
  <1>5. CASE NoticeClose \/ DropSocket
    BY <1>5, NoticeStep
  <1>6. CASE ReceiveHelloAck \/ RefuseHelloAck \/ ReceiveAck \/ ReceiveGap
    BY <1>6, ReceiveHelloAckStep, RefuseHelloAckStep, ReceiveAckStep, ReceiveGapStep
  <1>7. ASSUME NEW c \in Links, Hello(c) \/ Buffer(c) PROVE IInv'
    BY <1>7, HelloStep, BufferStep
  <1>8. ASSUME NEW c \in Links, DrainQueue(c) \/ DrainAndDiscard(c) \/ ReceiveEvent(c) PROVE IInv'
    BY <1>8, AdmissionStep
  <1>9. ASSUME NEW c \in Links, CloseAbandoned(c) \/ (c \in Open /\ Fault({c})) PROVE IInv'
    <2>1. {c} \in SUBSET Open /\ Close({c})
      BY <1>9 DEF CloseAbandoned, Fault
    <2> QED
      BY <2>1, CloseStep
  <1>10. CASE Fault(Open)
    BY <1>10, CloseStep DEF Fault
  <1>11. CASE Retains
    BY <1>11, RetentionStep
  <1> QED
    BY <1>1, <1>2, <1>3, <1>4, <1>5, <1>6, <1>7, <1>8, <1>9, <1>10, <1>11 DEF Next, Retains
----------------------------------------------------------------------------
(* The theorems *)

\* The invariant holds until a spool file is lost.
THEOREM InvariantHolds == Spec => [](recreations \in Nat /\ (SpoolKept => IInv))
  <1>1. Init => recreations \in Nat /\ (SpoolKept => IInv)
    BY InitIInv DEF Init
  <1>2. (recreations \in Nat /\ (SpoolKept => IInv)) /\ [Next]_vars => (recreations \in Nat /\ (SpoolKept => IInv))'
    BY NextIInv, LossIsForGood
  <1> QED
    BY <1>1, <1>2, PTL DEF Spec

\* Until a spool file is lost every variable of plugin, wire and gateway stays in its type: no
\* sequence is sent that was not issued, and the gateway's journal has no holes.
THEOREM TypeCorrect == Spec => [](SpoolKept => TypeOK)
  BY InvariantHolds, PTL DEF IInv

\* A sequence number never stands for two events of one spool (acceptAttachEvents and
\* heal_event_gap agree on what a number means), for any window and any legacy spool.
THEOREM MeaningIsShared == Spec => [](SpoolKept => OneMeaningPerSequence)
  BY InvariantHolds, PTL DEF IInv

\* Until a spool file is lost, ack_event and reconcile_server_resume give a row up only when the
\* gateway holds that very event.
THEOREM NothingIsSkipped == Spec => [](SpoolKept => SettledIsDurable)
  BY InvariantHolds, PTL DEF IInv

\* Until a spool file is lost, no late, replayed or duplicated frame is ever a sequence conflict,
\* and no hello_ack is ever a resume conflict.
THEOREM FaithfulPeersAgree == Spec => [](SpoolKept => NeverRefused)
  BY InvariantHolds, PTL DEF IInv
----------------------------------------------------------------------------
(* The log of EventLog                                                        *)

Numbered == [s \in 1..(nextEventSequence - 1) |->
               IF s \in DOMAIN outbox THEN outbox[s].id
               ELSE IF s \in DOMAIN inbox THEN inbox[s].id ELSE 0]
Received == [s \in 1..lastEventSequence |-> inbox[s].id]

LogShape ==
    /\ Numbered \in Seq(Nat) /\ Len(Numbered) = nextEventSequence - 1
    /\ Received \in Seq(Nat \ {0}) /\ Len(Received) = lastEventSequence
    /\ Settled(outbox) \subseteq 1..lastEventSequence
    /\ lastEventSequence \in Nat /\ nextEventSequence \in Nat \ {0}
    /\ lastEventSequence < nextEventSequence
    /\ DOMAIN Numbered = 1..(nextEventSequence - 1) /\ DOMAIN Received = 1..lastEventSequence

LEMMA LogShapeOK == IInv => LogShape
  <1> SUFFICES ASSUME IInv PROVE LogShape
    OBVIOUS
  <1> USE DEF IInv
  <1>1. /\ lastEventSequence \in Nat /\ nextEventSequence \in Nat \ {0}
        /\ lastEventSequence < nextEventSequence /\ DOMAIN inbox = 1..lastEventSequence
    BY DEF TypeOK, CursorsOK
  <1>2. (\A s \in DOMAIN outbox : outbox[s].id \in Nat) /\ (\A s \in DOMAIN inbox : inbox[s].id \in Nat)
    BY DEF TypeOK
  <1>3. \A s \in DOMAIN inbox : inbox[s].id \in Nat \ {0}
    BY <1>2 DEF IdsOK, TypeOK
  <1>4. Numbered \in [1..(nextEventSequence - 1) -> Nat]
    BY <1>1, <1>2 DEF Numbered
  <1>5. Received \in [1..lastEventSequence -> Nat \ {0}]
    BY <1>1, <1>3 DEF Received
  <1>6. Numbered \in Seq(Nat) /\ Len(Numbered) = nextEventSequence - 1
    BY <1>1, <1>4
  <1>7. Received \in Seq(Nat \ {0}) /\ Len(Received) = lastEventSequence
    BY <1>1, <1>5
  <1>8. Settled(outbox) \subseteq 1..lastEventSequence
    BY <1>1 DEF Settled, SettledIsDurable
  <1> QED
    BY <1>1, <1>4, <1>5, <1>6, <1>7, <1>8 DEF LogShape

LEMMA LogShapeNext == IInv' => LogShape'
  BY LogShapeOK, PTL

LEMMA LogInit == Init => Log!Init
  <1> SUFFICES ASSUME Init PROVE Log!Init
    OBVIOUS
  <1>1. IInv
    BY InitIInv
  <1> QED
    BY <1>1, LogShapeOK DEF LogShape, Log!Init, Log!Ids, Log!Missing, Numbered, Received, Settled

\* A step that changes no id, no admission and settles nothing.
LEMMA LogStutters ==
    ASSUME UNCHANGED <<nextEventSequence, inbox, lastEventSequence>>, DOMAIN outbox' = DOMAIN outbox,
           \A s \in DOMAIN outbox : outbox'[s].id = outbox[s].id
    PROVE  Numbered' = Numbered /\ Received' = Received
  BY DEF Numbered, Received

\* A new event gets the next number.
LEMMA LogIssues ==
    ASSUME IInv, NEW e \in Event, Enqueue(e)
    PROVE  Log!Issue
  <1>1. IInv'
    BY EnqueueStep
  <1>2. /\ DOMAIN outbox' = DOMAIN outbox \cup {nextEventSequence}
        /\ outbox'[nextEventSequence] = [id |-> Len(issued) + 1, event |-> e, acked |-> FALSE]
        /\ \A s \in DOMAIN outbox : s # nextEventSequence => outbox'[s] = outbox[s]
        /\ nextEventSequence' = nextEventSequence + 1
        /\ UNCHANGED <<inbox, lastEventSequence>>
    BY DEF Enqueue, Put, FreshId, storage
  <1>3. nextEventSequence \notin DOMAIN outbox /\ issued \in Seq(Event)
    BY LogShapeOK DEF LogShape, IInv, TypeOK
  <1>4. Received' = Received /\ Settled(outbox') = Settled(outbox)
    BY <1>2, <1>3 DEF Received, Settled
  <1>5. /\ Numbered'[nextEventSequence] = Len(issued) + 1
        /\ \A s \in 1..(nextEventSequence - 1) : Numbered'[s] = Numbered[s]
    BY <1>2, <1>3, LogShapeOK, SMTT(30) DEF LogShape, Numbered
  <1>6. /\ Len(Numbered') = Len(Numbered) + 1 /\ Numbered' \in Seq(Nat)
        /\ Len(Numbered) + 1 = nextEventSequence
    BY <1>1, <1>2, LogShapeOK, LogShapeNext, SMTT(30) DEF LogShape
  <1>7. SubSeq(Numbered', 1, Len(Numbered)) = Numbered
    <2>1. Numbered \in Seq(Nat)
      BY LogShapeOK DEF LogShape
    <2>2. \A s \in 1..Len(Numbered) : Numbered'[s] = Numbered[s]
      BY <1>5, LogShapeOK DEF LogShape
    <2> QED
      BY <1>6, <2>1, <2>2
  <1>8. Numbered'[Len(Numbered) + 1] \in Nat \ {0}
    BY <1>3, <1>5, <1>6
  <1> QED
    BY <1>4, <1>6, <1>7, <1>8 DEF Log!Issue, Log!Ids, Log!Missing, Numbered, Received

\* An admitted frame is the one behind the next number.
LEMMA LogReceives ==
    ASSUME IInv, NEW c \in Links, NEW frame \in Carried, NEW rest, Admit(c, frame, rest),
           UNCHANGED <<outbox, nextEventSequence>>
    PROVE  Log!Receive \/ UNCHANGED <<Numbered, Received>>
  <1> USE DEF IInv
  <1>1. CASE Verdict(frame) # "next"
    <2>1. UNCHANGED <<inbox, lastEventSequence>>
      BY <1>1 DEF Admit, storage
    <2> QED
      BY <2>1, LogStutters
  <1>2. CASE Verdict(frame) = "next"
    <2>1. frame.sequence = lastEventSequence + 1 /\ frame.sequence \notin DOMAIN inbox
      BY <1>2, VerdictFollows
    <2>2. /\ DOMAIN inbox' = DOMAIN inbox \cup {frame.sequence} /\ lastEventSequence' = frame.sequence
          /\ inbox'[frame.sequence].id = frame.id
          /\ \A s \in DOMAIN inbox : inbox'[s] = inbox[s]
      BY <1>2, <2>1 DEF Admit, Store, Put
    <2>3. frame.sequence \in DOMAIN outbox /\ outbox[frame.sequence].id = frame.id
      BY DEF Carried
    <2>4. frame.id \in Nat \ {0} /\ DOMAIN outbox \subseteq 1..(nextEventSequence - 1)
      BY <2>3 DEF IdsOK, TypeOK
    <2>5. Numbered' = Numbered
      BY <2>2, <2>3 DEF Numbered
    <2>6. Len(Received) = lastEventSequence /\ Received \in Seq(Nat \ {0}) /\ lastEventSequence \in Nat
          /\ Len(Numbered) = nextEventSequence - 1
      BY LogShapeOK DEF LogShape
    <2>7. Numbered[lastEventSequence + 1] = frame.id
      BY <2>1, <2>3, <2>4 DEF Numbered
    <2>8. Received' = Append(Received, frame.id)
      <3>1. Received' = [s \in 1..(lastEventSequence + 1) |-> IF s = lastEventSequence + 1 THEN frame.id ELSE Received[s]]
        BY <2>1, <2>2, <2>6 DEF Received, TypeOK
      <3> QED
        BY <2>4, <2>6, <3>1
    <2>9. Settled(outbox') = Settled(outbox)
      OBVIOUS
    <2>10. Len(Received) < Len(Numbered) /\ Numbered[Len(Received) + 1] # 0
      BY <2>1, <2>3, <2>4, <2>6, <2>7
    <2>11. Received' = Append(Received, Numbered[Len(Received) + 1])
      BY <2>6, <2>7, <2>8
    <2> QED
      BY <2>5, <2>9, <2>10, <2>11 DEF Log!Receive, Log!Missing, Numbered, Received
  <1> QED
    BY <1>1, <1>2

\* A healed hole was lost to both sides, beyond what was admitted.
LEMMA LogFills ==
    ASSUME IInv, ReceiveGap
    PROVE  Log!Fill
  <1> USE DEF IInv
  <1> DEFINE gap == Head(down[link])
             holes == Holes(gap.requestedAfter)
  <1>1. gap \in Gaps
    BY TakeFrame DEF ReceiveGap
  <1>2. /\ DOMAIN outbox' = DOMAIN outbox \cup holes
        /\ \A s \in DOMAIN outbox : outbox'[s] = outbox[s]
        /\ \A s \in holes : ~outbox'[s].acked
        /\ UNCHANGED <<nextEventSequence, inbox, lastEventSequence>>
    BY DEF ReceiveGap, storage, Holes
  <1>3. \A s \in holes : s \in 1..(nextEventSequence - 1) /\ s \notin DOMAIN outbox /\ s \notin DOMAIN inbox
    BY <1>1 DEF Holes, Gaps, TypeOK
  <1> HIDE DEF holes, gap
  <1>4. IInv'
    BY ReceiveGapStep
  <1>5. Received' = Received /\ Settled(outbox') = Settled(outbox)
    BY <1>2, <1>3 DEF Received, Settled
  <1>6. \A s \in 1..(nextEventSequence - 1) :
          Numbered'[s] # Numbered[s] => Numbered[s] = 0 /\ s > lastEventSequence
    <2>1. ASSUME NEW s \in 1..(nextEventSequence - 1), s \notin holes PROVE Numbered'[s] = Numbered[s]
      BY <1>2, <2>1 DEF Numbered
    <2>2. ASSUME NEW s \in holes PROVE Numbered[s] = 0 /\ s > lastEventSequence
      <3>1. s \notin DOMAIN inbox /\ s \notin DOMAIN outbox /\ s \in 1..(nextEventSequence - 1)
        BY <1>3
      <3> QED
        BY <3>1 DEF Numbered, TypeOK
    <2> QED
      BY <2>1, <2>2
  <1>7. Numbered' \in [DOMAIN Numbered -> Nat]
    <2>1. /\ Numbered' \in Seq(Nat) /\ Len(Numbered') = nextEventSequence' - 1
          /\ DOMAIN Numbered = 1..(nextEventSequence - 1)
      BY <1>4, LogShapeOK, LogShapeNext DEF LogShape
    <2>2. Numbered' \in [1..Len(Numbered') -> Nat]
      BY <2>1
    <2> QED
      BY <1>2, <2>1, <2>2
  <1>8. Len(Received) = lastEventSequence /\ DOMAIN Numbered = 1..(nextEventSequence - 1)
    BY LogShapeOK DEF LogShape
  <1> QED
    BY <1>5, <1>6, <1>7, <1>8 DEF Log!Fill, Log!Missing, Numbered, Received

\* What the gateway says it holds is settled.
LEMMA LogSettles ==
    ASSUME IInv, ReceiveHelloAck \/ ReceiveAck
    PROVE  Log!Settle
  <1> USE DEF IInv
  <1>1. IInv'
    BY ReceiveHelloAckStep, ReceiveAckStep
  <1>2. /\ DOMAIN outbox' = DOMAIN outbox
        /\ \A s \in DOMAIN outbox : outbox'[s].id = outbox[s].id /\ (outbox[s].acked => outbox'[s].acked)
        /\ UNCHANGED <<nextEventSequence, inbox, lastEventSequence>>
    <2>1. outbox \in [DOMAIN outbox -> [id : Nat, event : Event, acked : BOOLEAN]]
      BY DEF TypeOK
    <2>2. CASE ReceiveHelloAck
      <3> DEFINE es == Head(down[link]).eventSequence
      <3>1. es \in eventCursor..lastEventSequence
        BY <2>2, ResumeFollows DEF ReceiveHelloAck
      <3>2. ~(es >= nextEventSequence)
        BY <3>1 DEF TypeOK, CursorsOK
      <3>3. AdoptResume(es) /\ UNCHANGED <<inbox, lastEventSequence>>
        BY <2>2 DEF ReceiveHelloAck, storage
      <3> HIDE DEF es
      <3>4. /\ outbox' = [s \in DOMAIN outbox |-> IF s <= es THEN [outbox[s] EXCEPT !.acked = TRUE] ELSE outbox[s]]
            /\ nextEventSequence' = nextEventSequence
        BY <3>2, <3>3 DEF AdoptResume
      <3> QED
        BY <2>1, <3>3, <3>4
    <2>3. CASE ReceiveAck
      <3> DEFINE ack == Head(down[link])
      <3>1. UNCHANGED <<nextEventSequence, inbox, lastEventSequence>>
        BY <2>3 DEF ReceiveAck, storage
      <3>2. outbox' = outbox \/ outbox' = [outbox EXCEPT ![ack.sequence].acked = TRUE]
        BY <2>3 DEF ReceiveAck
      <3> HIDE DEF ack
      <3> QED
        BY <2>1, <3>1, <3>2
    <2> QED
      BY <2>2, <2>3
  <1>3. Numbered' = Numbered /\ Received' = Received
    BY <1>2, LogStutters
  <1>4. Settled(outbox') \subseteq 1..lastEventSequence' /\ Settled(outbox) \subseteq Settled(outbox')
    <2>1. Settled(outbox') \subseteq 1..lastEventSequence'
      BY <1>1, LogShapeNext DEF LogShape
    <2> QED
      BY <1>2, <2>1 DEF Settled
  <1>5. Len(Received) = lastEventSequence
    BY LogShapeOK DEF LogShape
  <1> QED
    BY <1>2, <1>3, <1>4, <1>5 DEF Log!Settle, Numbered, Received

LEMMA LogNext ==
    ASSUME IInv, ~RecreateSpool, [Next]_vars
    PROVE  [Log!Next]_(Log!vars)
  <1> USE DEF Log!Next
  <1>2. ASSUME UNCHANGED <<outbox, nextEventSequence>>, Log!Receive \/ UNCHANGED <<Numbered, Received>>
        PROVE  [Log!Next]_(Log!vars)
    BY <1>2 DEF Log!vars, Numbered, Received
  <1>3. ASSUME UNCHANGED <<outbox, nextEventSequence, inbox, lastEventSequence>>
        PROVE  [Log!Next]_(Log!vars)
    BY <1>2, <1>3, LogStutters
  <1>4. ASSUME NEW s \in DOMAIN outbox, Withdraw(s) \/ Compact(s) PROVE [Log!Next]_(Log!vars)
    <2>1. outbox' = [outbox EXCEPT ![s].event = Inert] /\ UNCHANGED <<nextEventSequence, inbox, lastEventSequence>>
      BY <1>4 DEF Withdraw, Compact, storage
    <2>2. outbox \in [DOMAIN outbox -> [id : Nat, event : Event, acked : BOOLEAN]]
      BY DEF IInv, TypeOK
    <2>3. /\ DOMAIN outbox' = DOMAIN outbox
          /\ \A r \in DOMAIN outbox : outbox'[r].id = outbox[r].id /\ outbox'[r].acked = outbox[r].acked
      BY <2>1, <2>2
    <2>4. Numbered' = Numbered /\ Received' = Received /\ Settled(outbox') = Settled(outbox)
      BY <2>1, <2>3, LogStutters DEF Settled
    <2> QED
      BY <2>4 DEF Log!vars, Numbered, Received
  <1>5. ASSUME NEW c \in Links, DrainQueue(c) \/ DrainAndDiscard(c) \/ ReceiveEvent(c)
        PROVE  [Log!Next]_(Log!vars)
    <2>1. PICK frame, rest : frame \in Carried /\ Admit(c, frame, rest)
      <3>1. CASE DrainQueue(c) \/ DrainAndDiscard(c)
        <4>1. queue[c] \in Seq(Carried) /\ queue[c] # <<>>
          BY <3>1 DEF IInv, NetOK, DrainQueue, DrainAndDiscard
        <4>2. Head(queue[c]) \in Carried
          BY <4>1
        <4> QED
          BY <3>1, <4>2 DEF DrainQueue, DrainAndDiscard
      <3>2. CASE ReceiveEvent(c)
        <4>1. up[c] # <<>> /\ Head(up[c]).kind = "event" /\ Admit(c, Head(up[c]), <<>>)
          BY <3>2 DEF ReceiveEvent, Arrives
        <4> QED
          BY <4>1, UpFrame
      <3> QED
        BY <1>5, <3>1, <3>2
    <2>2. UNCHANGED <<outbox, nextEventSequence>>
      BY <1>5 DEF DrainQueue, DrainAndDiscard, ReceiveEvent, plugin
    <2> QED
      BY <1>2, <2>1, <2>2, LogReceives
  <1>6. CASE UNCHANGED vars
    BY <1>3, <1>6 DEF vars, plugin, storage
  <1>7. ASSUME NEW s \in DOMAIN outbox, Transmit(s) PROVE [Log!Next]_(Log!vars)
    BY <1>3, <1>7 DEF Transmit, plugin, storage
  <1>8. CASE Dial \/ NoticeClose \/ DropSocket \/ RefuseHelloAck
    BY <1>3, <1>8 DEF Dial, NoticeClose, DropSocket, Hangup, RefuseHelloAck, plugin, storage
  <1>9. CASE Fault(Open)
    BY <1>3, <1>9 DEF Fault, Close, plugin, storage
  <1>10. ASSUME NEW c \in Links, Hello(c) \/ Buffer(c) \/ CloseAbandoned(c) \/ Fault({c})
         PROVE  [Log!Next]_(Log!vars)
    BY <1>3, <1>10 DEF Hello, Buffer, CloseAbandoned, Fault, Close, plugin, storage
  <1>11. ASSUME NEW e \in Event, Enqueue(e) PROVE [Log!Next]_(Log!vars)
    BY <1>11, LogIssues
  <1>12. CASE ReceiveHelloAck \/ ReceiveAck \/ ReceiveGap
    BY <1>12, LogSettles, LogFills
  <1>13. CASE Retains
    <2>1. UNCHANGED <<outbox, nextEventSequence, lastEventSequence>>
      BY <1>13 DEF Retains, Project, CompactInbox, DeleteSession, plugin
    <2>2. DOMAIN inbox' = DOMAIN inbox /\ \A s \in DOMAIN inbox : inbox'[s].id = inbox[s].id
      BY <1>13, RetentionRows DEF IInv, TypeOK, Entries
    <2>3. DOMAIN inbox = 1..lastEventSequence
      BY DEF IInv, TypeOK
    <2> QED
      BY <2>1, <2>2, <2>3 DEF Log!vars, Numbered, Received
  <1> HIDE DEF Log!Next
  <1> QED
    BY <1>4, <1>5, <1>6, <1>7, <1>8, <1>9, <1>10, <1>11, <1>12, <1>13 DEF Next, Retains

\* The spool, the wire and the gateway's inbox are one ordered log: queue_event issues, a healed gap
\* fills what was lost, an admission receives, an ACK or a hello_ack settles, and every other step
\* of either side is invisible, in every behaviour that loses no spool file.
THEOREM LogIsImplemented == Spec /\ []SpoolKept => ImplementsLog
  <1>1. recreations \in Nat /\ IInv /\ SpoolKept' /\ [Next]_vars => [Log!Next]_(Log!vars)
    BY LogNext, LossIsForGood
  <1> QED
    BY <1>1, LogInit, InvariantHolds, PTL DEF Spec, ImplementsLog, Log!Spec
----------------------------------------------------------------------------
(* What an id means, whichever spool minted it                             *)

\* What an id may still carry: the event it was minted for, or nothing once a
\* media cleanup took the payload back.
Faithful(id, e) ==
    id \in 1..Len(issued) /\ (e = issued[id] \/ (e = Inert /\ id \in withdrawn))

FaithfulFrames == {f \in EventFrames : Faithful(f.id, f.event)}

\* A row of the inbox may also have been blanked with its session.
Journaled(id, e) ==
    id \in 1..Len(issued) /\ (\/ e = issued[id] \/ (e = Inert /\ id \in withdrawn)
                             \/ (e = Inert /\ issued[id].turn \in deleted))

\* Every copy that may still reach the inbox is faithful.
PayloadsOK ==
    /\ \A s \in DOMAIN outbox : ~outbox[s].acked => Faithful(outbox[s].id, outbox[s].event)
    /\ \A s \in DOMAIN inbox : Journaled(inbox[s].id, inbox[s].event)
    /\ up \in [Links -> Seq(Hellos \cup FaithfulFrames)]
    /\ queue \in [Links -> Seq(FaithfulFrames)]

\* What was minted stays minted, and what was withdrawn stays withdrawn.
IdsGrow ==
    /\ Len(issued) <= Len(issued') /\ withdrawn \subseteq withdrawn'
    /\ \A i \in 1..Len(issued) : issued'[i] = issued[i]

\* What travels down, whatever either side holds by then.
Replies ==
    [kind : {"ack"}, sequence : Nat, id : Nat] \cup [kind : {"gap"}, requestedAfter : Nat]
      \cup [kind : {"hello_ack"}, eventSequence : Nat, capabilities : CapabilitySets]

\* A row of the spool.
Rows == [id : Nat, event : Event, acked : BOOLEAN]

\* The typing that does not depend on which spool the numbers came from.
JournalsOK ==
    /\ nextEventSequence \in Nat \ {0} /\ DOMAIN outbox \subseteq 1..(nextEventSequence - 1)
    /\ outbox \in [DOMAIN outbox -> Rows] /\ eventCursor \in Nat
    /\ lastEventSequence \in Nat /\ DOMAIN inbox = 1..lastEventSequence
    /\ inbox \in [DOMAIN inbox -> Entries]
    /\ issued \in Seq(Event)
    /\ link \in 0..MaxLinks /\ (Connected => link \in Links)
    /\ down \in [Links -> Seq(Replies)]

\* The invariant that outlives the spool file.
LossInv == JournalsOK /\ PayloadsOK

\* One step of JournalKept.
Keeps ==
    /\ \A s \in DOMAIN inbox :
         /\ s \in DOMAIN inbox' /\ inbox'[s].id = inbox[s].id
         /\ \/ inbox'[s] = inbox[s]
            \/ /\ inbox[s].event.turn \in deleted' \ deleted
               /\ inbox'[s].event = Inert /\ inbox'[s].disposition = "discarded"
    /\ \A t \in DOMAIN attachTerminals :
         t \in DOMAIN attachTerminals' /\ attachTerminals'[t] = attachTerminals[t]

\* What was faithful stays faithful, alone and on its way.
LEMMA FaithfulGrows ==
    ASSUME issued \in Seq(Event), issued' \in Seq(Event), IdsGrow
    PROVE  /\ \A id, e : Faithful(id, e) => Faithful(id, e)'
           /\ Seq(FaithfulFrames) \subseteq Seq(FaithfulFrames')
           /\ Seq(Hellos \cup FaithfulFrames) \subseteq Seq(Hellos \cup FaithfulFrames')
  <1>0. Len(issued) \in Nat /\ Len(issued') \in Nat
    OBVIOUS
  <1>1. \A id, e : Faithful(id, e) => Faithful(id, e)'
    <2> SUFFICES ASSUME NEW id, NEW e, Faithful(id, e)
                 PROVE  id \in 1..Len(issued') /\ (e = issued'[id] \/ (e = Inert /\ id \in withdrawn'))
      BY DEF Faithful
    <2> QED
      BY <1>0 DEF Faithful, IdsGrow
  <1>2. FaithfulFrames \subseteq FaithfulFrames'
    BY <1>1 DEF FaithfulFrames
  <1> HIDE DEF FaithfulFrames
  <1> QED
    BY <1>1, <1>2

\* A step that journals nothing at the gateway keeps every payload if the rows it leaves pending
\* and the frames it leaves on the way are faithful.
LEMMA PayloadsStay ==
    ASSUME JournalsOK, PayloadsOK, issued' \in Seq(Event), IdsGrow, inbox' = inbox,
           deleted' = deleted,
           \A s \in DOMAIN outbox' : ~outbox'[s].acked =>
             \/ outbox'[s].id \in 1..Len(issued') /\ outbox'[s].event = issued'[outbox'[s].id]
             \/ outbox'[s].id \in 1..Len(issued') /\ outbox'[s].event = Inert /\ outbox'[s].id \in withdrawn'
             \/ Faithful(outbox'[s].id, outbox'[s].event),
           up' \in [Links -> Seq(Hellos \cup FaithfulFrames)], queue' \in [Links -> Seq(FaithfulFrames)]
    PROVE  PayloadsOK'
  <1>1. /\ \A id, e : Faithful(id, e) => Faithful(id, e)'
        /\ up' \in [Links -> Seq(Hellos \cup FaithfulFrames')] /\ queue' \in [Links -> Seq(FaithfulFrames')]
    BY FaithfulGrows DEF JournalsOK
  <1>2. ASSUME NEW s \in DOMAIN outbox', ~outbox'[s].acked
        PROVE  /\ outbox'[s].id \in 1..Len(issued')
               /\ outbox'[s].event = issued'[outbox'[s].id]
                  \/ (outbox'[s].event = Inert /\ outbox'[s].id \in withdrawn')
    BY <1>1, <1>2 DEF Faithful
  <1>3. ASSUME NEW s \in DOMAIN inbox
        PROVE  /\ inbox[s].id \in 1..Len(issued')
               /\ \/ inbox[s].event = issued'[inbox[s].id]
                  \/ (inbox[s].event = Inert /\ inbox[s].id \in withdrawn')
                  \/ (inbox[s].event = Inert /\ issued'[inbox[s].id].turn \in deleted)
    <2>1. inbox[s].id \in 1..Len(issued) /\ issued'[inbox[s].id] = issued[inbox[s].id]
          /\ Len(issued) <= Len(issued') /\ Len(issued) \in Nat /\ Len(issued') \in Nat
          /\ withdrawn \subseteq withdrawn'
      BY <1>3 DEF PayloadsOK, Journaled, IdsGrow, JournalsOK
    <2>2. \/ inbox[s].event = issued[inbox[s].id] \/ (inbox[s].event = Inert /\ inbox[s].id \in withdrawn)
          \/ (inbox[s].event = Inert /\ issued[inbox[s].id].turn \in deleted)
      BY <1>3 DEF PayloadsOK, Journaled
    <2>3. inbox[s].id \in 1..Len(issued')
      BY <2>1
    <2> QED
      BY <2>1, <2>2, <2>3
  <1> QED
    BY <1>1, <1>2, <1>3 DEF PayloadsOK, Faithful, Journaled

\* _queue_event journals what it mints.
LEMMA EnqueueKeeps ==
    ASSUME LossInv, NEW e \in Event, Enqueue(e)
    PROVE  LossInv'
  <1> USE DEF LossInv
  <1>1. /\ issued \in Seq(Event) /\ issued' \in Seq(Event) /\ Len(issued) \in Nat /\ Len(issued') = Len(issued) + 1
        /\ issued'[Len(issued) + 1] = e /\ \A i \in 1..Len(issued) : issued'[i] = issued[i]
    BY DEF Enqueue, JournalsOK
  <1>2. /\ DOMAIN outbox' = DOMAIN outbox \cup {nextEventSequence}
        /\ outbox'[nextEventSequence] = [id |-> Len(issued) + 1, event |-> e, acked |-> FALSE]
        /\ \A s \in DOMAIN outbox : s < nextEventSequence /\ outbox'[s] = outbox[s]
    BY SMTT(30) DEF Enqueue, Put, FreshId, JournalsOK
  <1>3. UNCHANGED <<eventCursor, link, phase, inbox, lastEventSequence, deleted, up, down, queue, withdrawn>>
    BY DEF Enqueue, storage, ingress, client
  <1>4. IdsGrow
    BY <1>1, <1>3 DEF IdsGrow
  <1>5. outbox' \in [DOMAIN outbox' -> Rows]
    <2>1. outbox'[nextEventSequence] \in Rows
      BY <1>1, <1>2 DEF Rows
    <2>2. \A s \in DOMAIN outbox' : outbox'[s] \in Rows
      BY <1>2, <2>1 DEF JournalsOK
    <2>3. outbox' = [s \in DOMAIN outbox' |-> outbox'[s]]
      BY DEF Enqueue, Put
    <2> QED
      BY <2>2, <2>3
  <1>9. nextEventSequence' = nextEventSequence + 1 /\ Connected' = Connected
    BY <1>3 DEF Enqueue, Connected
  <1>10. /\ nextEventSequence' \in Nat \ {0} /\ DOMAIN outbox' \subseteq 1..(nextEventSequence' - 1)
    BY <1>2, <1>9 DEF JournalsOK
  <1>6. JournalsOK'
    BY <1>1, <1>3, <1>5, <1>9, <1>10 DEF JournalsOK
  <1>7. \A s \in DOMAIN outbox' : ~outbox'[s].acked =>
             \/ outbox'[s].id \in 1..Len(issued') /\ outbox'[s].event = issued'[outbox'[s].id]
             \/ Faithful(outbox'[s].id, outbox'[s].event)
    BY <1>1, <1>2 DEF PayloadsOK
  <1>8. PayloadsOK'
    BY <1>1, <1>3, <1>4, <1>7, PayloadsStay DEF PayloadsOK
  <1> QED
    BY <1>6, <1>8

\* A step that leaves the spool's rows in place but for their payload or their settling.
LEMMA RowsKeep ==
    ASSUME LossInv, UNCHANGED <<inbox, lastEventSequence, deleted, issued, link>>,
           withdrawn \subseteq withdrawn', Connected' => Connected,
           nextEventSequence' \in Nat, nextEventSequence <= nextEventSequence', eventCursor' \in Nat,
           DOMAIN outbox' = DOMAIN outbox, outbox' \in [DOMAIN outbox -> Rows],
           \A s \in DOMAIN outbox : ~outbox'[s].acked =>
             \/ outbox'[s].id = outbox[s].id /\ outbox'[s].event = outbox[s].event /\ ~outbox[s].acked
             \/ outbox'[s].event = Inert /\ outbox'[s].id \in 1..Len(issued) /\ outbox'[s].id \in withdrawn',
           down' \in [Links -> Seq(Replies)],
           up' \in [Links -> Seq(Hellos \cup FaithfulFrames)], queue' \in [Links -> Seq(FaithfulFrames)]
    PROVE  LossInv'
  <1> USE DEF LossInv
  <1>1. JournalsOK'
    BY DEF JournalsOK
  <1>2. IdsGrow /\ issued' \in Seq(Event) /\ inbox' = inbox
    BY DEF IdsGrow, JournalsOK
  <1>3. \A s \in DOMAIN outbox' : ~outbox'[s].acked =>
             \/ outbox'[s].id \in 1..Len(issued') /\ outbox'[s].event = Inert /\ outbox'[s].id \in withdrawn'
             \/ Faithful(outbox'[s].id, outbox'[s].event)
    BY DEF PayloadsOK
  <1>4. PayloadsOK'
    BY <1>2, <1>3, PayloadsStay
  <1> QED
    BY <1>1, <1>4

\* Withdrawing or compacting a row: a pending row loses its payload only to a cleanup.
LEMMA InertKeeps ==
    ASSUME LossInv, NEW s \in DOMAIN outbox, Withdraw(s) \/ Compact(s)
    PROVE  LossInv'
  <1> USE DEF LossInv
  <1>1. /\ outbox' = [outbox EXCEPT ![s].event = Inert]
        /\ UNCHANGED <<inbox, lastEventSequence, deleted, issued, link, phase, nextEventSequence, eventCursor, down, up, queue>>
        /\ withdrawn \subseteq withdrawn'
        /\ ~outbox[s].acked => outbox[s].id \in withdrawn'
    BY DEF Withdraw, Compact, storage, ingress, history, client
  <1>2. outbox \in [DOMAIN outbox -> [id : Nat, event : Event, acked : BOOLEAN]]
    BY DEF JournalsOK, Rows
  <1>3. /\ DOMAIN outbox' = DOMAIN outbox
        /\ \A r \in DOMAIN outbox : outbox'[r].id = outbox[r].id /\ outbox'[r].acked = outbox[r].acked
        /\ \A r \in DOMAIN outbox : r # s => outbox'[r].event = outbox[r].event
        /\ outbox'[s].event = Inert /\ outbox' \in [DOMAIN outbox -> [id : Nat, event : Event, acked : BOOLEAN]]
    BY <1>1, <1>2, InertIsEvent
  <1>4. \A r \in DOMAIN outbox : ~outbox'[r].acked =>
             \/ outbox'[r].id = outbox[r].id /\ outbox'[r].event = outbox[r].event /\ ~outbox[r].acked
             \/ outbox'[r].event = Inert /\ outbox'[r].id \in 1..Len(issued) /\ outbox'[r].id \in withdrawn'
    BY <1>1, <1>3 DEF PayloadsOK, Faithful
  <1>5. outbox' \in [DOMAIN outbox -> Rows]
    BY <1>3 DEF Rows
  <1>6. Connected' = Connected
    BY <1>1 DEF Connected
  <1>7. /\ up' \in [Links -> Seq(Hellos \cup FaithfulFrames)] /\ queue' \in [Links -> Seq(FaithfulFrames)]
        /\ down' \in [Links -> Seq(Replies)] /\ eventCursor' \in Nat
        /\ nextEventSequence' \in Nat /\ nextEventSequence <= nextEventSequence'
    BY <1>1 DEF PayloadsOK, JournalsOK
  <1> QED
    BY <1>1, <1>3, <1>4, <1>5, <1>6, <1>7, RowsKeep

\* A step of the wire: the spool and the inbox stay as they are.
LEMMA WireKeeps ==
    ASSUME LossInv,
           UNCHANGED <<outbox, nextEventSequence, eventCursor, inbox, lastEventSequence, deleted, issued, withdrawn>>,
           link' \in 0..MaxLinks, Connected' => link' \in Links,
           down' \in [Links -> Seq(Replies)],
           up' \in [Links -> Seq(Hellos \cup FaithfulFrames)], queue' \in [Links -> Seq(FaithfulFrames)]
    PROVE  LossInv'
  <1> USE DEF LossInv
  <1>1. JournalsOK'
    BY DEF JournalsOK
  <1>2. IdsGrow /\ issued' \in Seq(Event) /\ inbox' = inbox
    BY DEF IdsGrow, JournalsOK
  <1>3. \A s \in DOMAIN outbox' : ~outbox'[s].acked => Faithful(outbox'[s].id, outbox'[s].event)
    BY DEF PayloadsOK
  <1>4. PayloadsOK'
    BY <1>2, <1>3, PayloadsStay
  <1> QED
    BY <1>1, <1>4

\* Only pending rows are sent, and those are faithful.
LEMMA TransmitKeeps ==
    ASSUME LossInv, NEW s \in DOMAIN outbox, Transmit(s)
    PROVE  LossInv'
  <1> USE DEF LossInv
  <1>1. /\ up' = [up EXCEPT ![link] = Append(@, FrameOf(s))] /\ ~outbox[s].acked
        /\ UNCHANGED <<outbox, nextEventSequence, eventCursor, inbox, lastEventSequence, deleted, issued, withdrawn,
                       queue, down, link, phase>>
    BY DEF Transmit, Pending, plugin, storage, ingress, history
  <1>2. FrameOf(s) \in FaithfulFrames
    <2>1. s \in Nat /\ outbox[s].id \in Nat /\ outbox[s].event \in Event
      BY SMTT(30) DEF JournalsOK, Rows
    <2>2. FrameOf(s) \in EventFrames /\ FrameOf(s).id = outbox[s].id /\ FrameOf(s).event = outbox[s].event
      BY <2>1 DEF FrameOf, EventFrames
    <2> QED
      BY <1>1, <2>2 DEF FaithfulFrames, PayloadsOK
  <1>3. up' \in [Links -> Seq(Hellos \cup FaithfulFrames)]
    <2>1. up \in [Links -> Seq(Hellos \cup FaithfulFrames)]
      BY DEF PayloadsOK
    <2> HIDE DEF FaithfulFrames
    <2>2. ASSUME link \in Links PROVE Append(up[link], FrameOf(s)) \in Seq(Hellos \cup FaithfulFrames)
      BY <1>2, <2>1, <2>2
    <2> QED
      BY <1>1, <2>1, <2>2
  <1>4. link' \in 0..MaxLinks /\ (Connected' => link' \in Links)
    BY <1>1 DEF JournalsOK, Connected
  <1>5. down' \in [Links -> Seq(Replies)] /\ queue' \in [Links -> Seq(FaithfulFrames)]
    BY <1>1 DEF PayloadsOK, JournalsOK
  <1> QED
    BY <1>1, <1>3, <1>4, <1>5, WireKeeps

\* What the plugin takes from its socket is a reply.
LEMMA ReplyTaken ==
    ASSUME JournalsOK, NEW kind, Inbound(kind)
    PROVE  /\ Head(down[link]) \in Replies /\ Head(down[link]).kind = kind
           /\ [down EXCEPT ![link] = Tail(@)] \in [Links -> Seq(Replies)]
  <1>1. link \in Links /\ down \in [Links -> Seq(Replies)] /\ down[link] # <<>> /\ Head(down[link]).kind = kind
    BY DEF JournalsOK, Inbound
  <1> HIDE DEF Replies
  <1>2. Head(down[link]) \in Replies /\ Tail(down[link]) \in Seq(Replies)
    BY <1>1
  <1> QED
    BY <1>1, <1>2

\* Adopting a cursor settles rows and may move the next number up, whichever spool it was meant for.
LEMMA HelloAckKeeps ==
    ASSUME LossInv, ReceiveHelloAck
    PROVE  LossInv'
  <1> USE DEF LossInv
  <1> DEFINE es == Head(down[link]).eventSequence
  <1>1. /\ UNCHANGED <<inbox, lastEventSequence, deleted, issued, link, withdrawn, up, queue>>
        /\ eventCursor' = es /\ down' = [down EXCEPT ![link] = Tail(@)] /\ Inbound("hello_ack") /\ AdoptResume(es)
    BY DEF ReceiveHelloAck, storage, ingress, history
  <1>2. es \in Nat /\ down' \in [Links -> Seq(Replies)]
    <2>1. Head(down[link]) \in Replies /\ Head(down[link]).kind = "hello_ack" /\ down' \in [Links -> Seq(Replies)]
      BY <1>1, ReplyTaken
    <2> QED
      BY <2>1 DEF Replies
  <1> HIDE DEF es
  <1>3. outbox \in [DOMAIN outbox -> [id : Nat, event : Event, acked : BOOLEAN]] /\ nextEventSequence \in Nat
    BY DEF JournalsOK, Rows
  <1>4. /\ outbox' = outbox
           \/ outbox' = [s \in DOMAIN outbox |-> IF s <= es THEN [outbox[s] EXCEPT !.acked = TRUE] ELSE outbox[s]]
        /\ nextEventSequence' \in Nat /\ nextEventSequence <= nextEventSequence'
    BY <1>1, <1>2, <1>3 DEF AdoptResume
  <1>5. /\ DOMAIN outbox' = DOMAIN outbox /\ outbox' \in [DOMAIN outbox -> [id : Nat, event : Event, acked : BOOLEAN]]
        /\ \A s \in DOMAIN outbox :
             /\ outbox'[s].id = outbox[s].id /\ outbox'[s].event = outbox[s].event
             /\ outbox[s].acked => outbox'[s].acked
    BY <1>3, <1>4
  <1>6. /\ outbox' \in [DOMAIN outbox -> Rows] /\ Connected
        /\ up' \in [Links -> Seq(Hellos \cup FaithfulFrames)] /\ queue' \in [Links -> Seq(FaithfulFrames)]
    BY <1>1, <1>5 DEF Rows, Inbound, PayloadsOK
  <1> QED
    BY <1>1, <1>2, <1>4, <1>5, <1>6, RowsKeep

\* The cursor of an empty outbox is 0, of any other its greatest settled number.
LEMMA GreatestIsNat ==
    ASSUME NEW n \in Nat, NEW S \in SUBSET (1..n)
    PROVE  Max0(S) \in Nat
  <1>1. CASE S = {}
    BY <1>1 DEF Max0
  <1>2. CASE S # {}
    <2>1. \E m \in S : \A k \in S : k <= m
      BY <1>2, GreatestExists
    <2>2. Max0(S) = CHOOSE m \in S : \A k \in S : k <= m
      BY <1>2 DEF Max0
    <2>3. Max0(S) \in S
      BY <2>1, <2>2
    <2>4. \A k \in S : k \in Nat
      OBVIOUS
    <2> QED
      BY <2>3, <2>4
  <1> QED
    BY <1>1, <1>2

\* An ack settles a row and moves the cursor.
LEMMA AckKeeps ==
    ASSUME LossInv, ReceiveAck
    PROVE  LossInv'
  <1> USE DEF LossInv
  <1> DEFINE ack == Head(down[link])
  <1>1. /\ UNCHANGED <<inbox, lastEventSequence, deleted, issued, link, withdrawn, up, queue, nextEventSequence>>
        /\ down' = [down EXCEPT ![link] = Tail(@)] /\ Inbound("ack")
        /\ \/ outbox' = [outbox EXCEPT ![ack.sequence].acked = TRUE] /\ AckMatches(ack)
              /\ eventCursor' = Max0(Settled(outbox'))
           \/ UNCHANGED <<outbox, eventCursor>>
    BY DEF ReceiveAck, storage, ingress, history
  <1>2. down' \in [Links -> Seq(Replies)]
    BY <1>1, ReplyTaken
  <1> HIDE DEF ack
  <1>3. /\ outbox \in [DOMAIN outbox -> [id : Nat, event : Event, acked : BOOLEAN]] /\ nextEventSequence \in Nat \ {0}
        /\ eventCursor \in Nat /\ DOMAIN outbox \subseteq 1..(nextEventSequence - 1)
    BY DEF JournalsOK, Rows
  <1>5. /\ DOMAIN outbox' = DOMAIN outbox /\ outbox' \in [DOMAIN outbox -> [id : Nat, event : Event, acked : BOOLEAN]]
        /\ \A s \in DOMAIN outbox :
             /\ outbox'[s].id = outbox[s].id /\ outbox'[s].event = outbox[s].event
             /\ outbox[s].acked => outbox'[s].acked
    <2>1. CASE outbox' = outbox
      BY <1>3, <2>1
    <2>2. CASE outbox' = [outbox EXCEPT ![ack.sequence].acked = TRUE] /\ AckMatches(ack)
      <3>1. ack.sequence \in DOMAIN outbox
        BY <2>2 DEF AckMatches
      <3> QED
        BY <1>3, <2>2, <3>1
    <2> QED
      BY <1>1, <2>1, <2>2
  <1>6. /\ outbox' \in [DOMAIN outbox -> Rows] /\ Connected
        /\ up' \in [Links -> Seq(Hellos \cup FaithfulFrames)] /\ queue' \in [Links -> Seq(FaithfulFrames)]
    BY <1>1, <1>5 DEF Rows, Inbound, PayloadsOK
  <1>7. Max0(Settled(outbox')) \in Nat
    <2>1. Settled(outbox') \in SUBSET (1..(nextEventSequence - 1)) /\ nextEventSequence - 1 \in Nat
      BY <1>3, <1>5 DEF Settled
    <2> QED
      BY <2>1, GreatestIsNat
  <1>8. eventCursor' \in Nat /\ nextEventSequence' \in Nat /\ nextEventSequence <= nextEventSequence'
    BY <1>1, <1>3, <1>7
  <1> QED
    BY <1>1, <1>2, <1>5, <1>6, <1>8, RowsKeep

\* A healed hole carries a fresh id and nothing else.
LEMMA GapKeeps ==
    ASSUME LossInv, ReceiveGap
    PROVE  LossInv'
  <1> USE DEF LossInv
  <1> DEFINE holes == Holes(Head(down[link]).requestedAfter)
             n == Cardinality(holes)
             last == Len(issued)
             healed == [i \in 1..n |-> Inert]
  <1>1. /\ issued' = issued \o healed
        /\ UNCHANGED <<inbox, lastEventSequence, deleted, nextEventSequence, eventCursor, link, phase, withdrawn,
                       up, queue>>
        /\ Inbound("gap") /\ down' = [down EXCEPT ![link] = Tail(@)]
    BY DEF ReceiveGap, storage, ingress
  <1>2. nextEventSequence \in Nat /\ issued \in Seq(Event) /\ last \in Nat
    BY DEF JournalsOK
  <1>3. holes \subseteq 1..(nextEventSequence - 1) /\ holes \cap DOMAIN outbox = {}
    BY DEF Holes
  <1>4. IsFiniteSet(holes) /\ holes \in SUBSET Nat
    <2> HIDE DEF holes
    <2>1. IsFiniteSet(1..(nextEventSequence - 1))
      BY <1>2, FS_Interval
    <2>2. IsFiniteSet(holes)
      BY <1>3, <2>1, FS_Subset
    <2>3. holes \in SUBSET Nat
      BY <1>2, <1>3
    <2> QED
      BY <2>2, <2>3
  <1>5. n \in Nat /\ \A s \in holes : Rank(s, holes) \in 0..(n - 1)
    BY <1>4, RankInjects
  <1>6. /\ DOMAIN outbox' = DOMAIN outbox \cup holes
        /\ \A s \in DOMAIN outbox : outbox'[s] = outbox[s]
        /\ \A s \in holes : outbox'[s] = [id |-> last + 1 + Rank(s, holes), event |-> Inert, acked |-> FALSE]
        /\ outbox' = [s \in DOMAIN outbox' |-> outbox'[s]]
    BY <1>3 DEF ReceiveGap, FreshId
  <1> HIDE DEF holes, n
  <1>7. healed \in Seq({Inert}) /\ Len(healed) = n /\ \A i \in 1..n : healed[i] = Inert
    BY <1>5
  <1> HIDE DEF last, healed
  <1>8. /\ Len(issued') = last + n /\ \A i \in 1..last : issued'[i] = issued[i]
        /\ \A i \in (last + 1)..(last + n) : issued'[i] = Inert /\ issued' \in Seq(Event)
        /\ issued' \in Seq(Event)
    <2>1. healed \in Seq(Event) /\ issued \in Seq(Event)
      BY <1>2, <1>7, InertIsEvent
    <2>2. /\ Len(issued \o healed) = Len(issued) + Len(healed)
          /\ \A i \in 1..(Len(issued) + Len(healed)) :
               (issued \o healed)[i] = IF i <= Len(issued) THEN issued[i] ELSE healed[i - Len(issued)]
          /\ issued \o healed \in Seq(Event)
      BY <2>1, ConcatProperties
    <2> QED
      BY <1>1, <1>2, <1>5, <1>7, <2>2 DEF last
  <1>9. \A s \in holes : outbox'[s].id \in (last + 1)..(last + n) /\ outbox'[s].event = Inert
    BY <1>2, <1>5, <1>6
  <1>10. IdsGrow
    BY <1>1, <1>2, <1>5, <1>8 DEF IdsGrow, last
  <1>11. outbox' \in [DOMAIN outbox' -> Rows]
    <2>1. ASSUME NEW s \in holes PROVE outbox'[s] \in Rows
      <3>1. PICK i \in Nat : i = last + 1 + Rank(s, holes)
        BY <1>2, <1>5
      <3>2. outbox'[s] = [id |-> i, event |-> Inert, acked |-> FALSE]
        BY <1>6, <3>1
      <3> QED
        BY <3>2, InertIsEvent DEF Rows
    <2>2. \A s \in DOMAIN outbox' : outbox'[s] \in Rows
      BY <1>6, <2>1 DEF JournalsOK
    <2> QED
      BY <1>6, <2>2
  <1>12. down' \in [Links -> Seq(Replies)]
    BY <1>1, ReplyTaken
  <1>13. Connected' = Connected
    BY <1>1 DEF Connected
  <1>14. JournalsOK'
    BY <1>1, <1>3, <1>6, <1>8, <1>11, <1>12, <1>13 DEF JournalsOK
  <1>15. \A s \in DOMAIN outbox' : ~outbox'[s].acked =>
             \/ outbox'[s].id \in 1..Len(issued') /\ outbox'[s].event = issued'[outbox'[s].id]
             \/ Faithful(outbox'[s].id, outbox'[s].event)
    <2> SUFFICES ASSUME NEW s \in DOMAIN outbox', ~outbox'[s].acked
                 PROVE  \/ outbox'[s].id \in 1..Len(issued') /\ outbox'[s].event = issued'[outbox'[s].id]
                        \/ Faithful(outbox'[s].id, outbox'[s].event)
      OBVIOUS
    <2>1. CASE s \in holes
      <3>1. outbox'[s].id \in (last + 1)..(last + n) /\ outbox'[s].event = Inert
        BY <1>9, <2>1
      <3>2. issued'[outbox'[s].id] = Inert
        BY <1>8, <3>1
      <3> QED
        BY <1>2, <1>5, <1>8, <3>1, <3>2
    <2>2. CASE s \in DOMAIN outbox
      BY <1>6, <2>2 DEF PayloadsOK
    <2> QED
      BY <1>6, <2>1, <2>2
  <1>16. PayloadsOK'
    <2>1. up' \in [Links -> Seq(Hellos \cup FaithfulFrames)] /\ queue' \in [Links -> Seq(FaithfulFrames)]
          /\ inbox' = inbox /\ deleted' = deleted
      BY <1>1 DEF PayloadsOK
    <2> QED
      BY <1>8, <1>10, <1>15, <2>1, PayloadsStay
  <1> QED
    BY <1>14, <1>16

\* The spool file is lost: what is on its way, buffered or journaled keeps its meaning.
LEMMA RecreateKeeps ==
    ASSUME LossInv, RecreateSpool
    PROVE  LossInv'
  <1> USE DEF LossInv
  <1>1. /\ outbox' = [s \in {} |-> 0] /\ nextEventSequence' = 1 /\ eventCursor' = 0
        /\ UNCHANGED <<inbox, lastEventSequence, deleted, issued, link, phase, withdrawn, down, up, queue>>
    BY DEF RecreateSpool, client, ingress, storage, history
  <1>2. Connected' = Connected
    BY <1>1 DEF Connected
  <1>3. DOMAIN outbox' = {} /\ outbox' \in [DOMAIN outbox' -> Rows]
    BY <1>1
  <1>4. JournalsOK'
    BY <1>1, <1>2, <1>3 DEF JournalsOK
  <1>5. IdsGrow /\ issued' \in Seq(Event) /\ inbox' = inbox /\ deleted' = deleted
        /\ up' \in [Links -> Seq(Hellos \cup FaithfulFrames)] /\ queue' \in [Links -> Seq(FaithfulFrames)]
    BY <1>1 DEF IdsGrow, JournalsOK, PayloadsOK
  <1>6. PayloadsOK'
    BY <1>3, <1>5, PayloadsStay
  <1> QED
    BY <1>4, <1>6

\* A new number is one the inbox does not hold, whoever sent the frame.
LEMMA NextIsNew ==
    ASSUME JournalsOK, NEW frame \in EventFrames, Verdict(frame) = "next"
    PROVE  frame.sequence = lastEventSequence + 1 /\ frame.sequence \notin DOMAIN inbox
  <1>1. frame.sequence \in Nat /\ lastEventSequence \in Nat /\ DOMAIN inbox = 1..lastEventSequence
    BY DEF JournalsOK, EventFrames
  <1>2. ~(frame.sequence <= lastEventSequence) /\ ~(frame.sequence > lastEventSequence + 1)
    BY Zenon DEF Verdict
  <1> QED
    BY <1>1, <1>2

\* #admitEvents journals a faithful frame under the next number, or nothing.
LEMMA AdmitKeeps ==
    ASSUME LossInv, NEW c \in Links, NEW frame \in FaithfulFrames,
           NEW rest \in Seq(FaithfulFrames), Admit(c, frame, rest),
           UNCHANGED <<plugin, client, issued, withdrawn>>,
           up' \in [Links -> Seq(Hellos \cup FaithfulFrames)]
    PROVE  LossInv' /\ Keeps /\ UNCHANGED <<projected, stripped>>
  <1> USE DEF LossInv
  <1>1. frame \in EventFrames /\ Faithful(frame.id, frame.event)
    BY DEF FaithfulFrames
  <1>2. queue' \in [Links -> Seq(FaithfulFrames)]
    <2>1. queue' = [queue EXCEPT ![c] = rest] \/ queue' = [queue EXCEPT ![c] = <<>>]
      BY DEF Admit
    <2>2. queue \in [Links -> Seq(FaithfulFrames)] /\ <<>> \in Seq(FaithfulFrames)
      BY DEF PayloadsOK
    <2> HIDE DEF FaithfulFrames
    <2> QED
      BY <2>1, <2>2
  <1>3. down' \in [Links -> Seq(Replies)]
    <2>1. down' = down \/ \E reply \in {AckOf(frame), GapReply} : Reply(c, reply)
      BY DEF Admit
    <2>2. AckOf(frame) \in Replies /\ GapReply \in Replies
      BY <1>1 DEF AckOf, GapReply, Replies, EventFrames, JournalsOK
    <2>3. down \in [Links -> Seq(Replies)]
      BY DEF JournalsOK
    <2>4. ASSUME NEW reply \in Replies, Reply(c, reply) PROVE down' \in [Links -> Seq(Replies)]
      <3>1. \/ down' = down
            \/ down' = [down EXCEPT ![c] = IF c = link /\ Connected THEN Append(@, reply) ELSE @]
        BY <2>4 DEF Reply
      <3> HIDE DEF Replies
      <3>2. Append(down[c], reply) \in Seq(Replies)
        BY <2>3
      <3> QED
        BY <2>3, <3>1, <3>2
    <2> QED
      BY <2>1, <2>2, <2>3, <2>4
  <1>4. UNCHANGED <<outbox, nextEventSequence, eventCursor, issued, link, phase, withdrawn>>
    BY DEF plugin, client
  <1>5. link' \in 0..MaxLinks /\ (Connected' => link' \in Links)
    BY <1>4 DEF JournalsOK, Connected
  <1>6. CASE Verdict(frame) # "next"
    <2>1. UNCHANGED <<inbox, lastEventSequence, attachTerminals, projected, stripped, deleted>>
      BY <1>6 DEF Admit, storage
    <2> QED
      BY <1>2, <1>3, <1>4, <1>5, <2>1, WireKeeps DEF Keeps
  <1>7. CASE Verdict(frame) = "next"
    <2>1. PICK authorized : Store(frame, Disposition(c, frame, authorized))
      BY <1>7 DEF Admit
    <2> DEFINE disposition == Disposition(c, frame, authorized)
    <2>2. disposition \in {"accepted", "ignored_terminal", "discarded"}
      BY DEF Disposition
    <2> HIDE DEF disposition
    <2>3. frame.sequence = lastEventSequence + 1 /\ frame.sequence \notin DOMAIN inbox
      BY <1>1, <1>7, NextIsNew
    <2>4. /\ DOMAIN inbox' = DOMAIN inbox \cup {frame.sequence}
          /\ inbox'[frame.sequence] = [id |-> frame.id, event |-> frame.event, disposition |-> disposition]
          /\ \A s \in DOMAIN inbox : inbox'[s] = inbox[s]
          /\ lastEventSequence' = lastEventSequence + 1
          /\ inbox' = [s \in DOMAIN inbox' |-> inbox'[s]]
          /\ UNCHANGED <<projected, stripped, deleted>>
      BY <2>1, <2>3 DEF Store, Put, disposition, retention
    <2>5. /\ lastEventSequence' \in Nat /\ DOMAIN inbox' = 1..lastEventSequence'
      BY <2>3, <2>4 DEF JournalsOK
    <2>6. inbox' \in [DOMAIN inbox' -> Entries]
      <3>1. inbox'[frame.sequence] \in Entries
        BY <1>1, <2>2, <2>4 DEF Entries, EventFrames
      <3>2. \A s \in DOMAIN inbox' : inbox'[s] \in Entries
        BY <2>4, <3>1 DEF JournalsOK
      <3> QED
        BY <2>4, <3>2
    <2>7. JournalsOK'
      BY <1>3, <1>4, <1>5, <2>5, <2>6 DEF JournalsOK
    <2>8. IdsGrow /\ issued \in Seq(Event) /\ issued' \in Seq(Event)
      BY <1>4 DEF JournalsOK, IdsGrow
    <2>9. /\ \A id, e : Faithful(id, e) => Faithful(id, e)'
          /\ up' \in [Links -> Seq(Hellos \cup FaithfulFrames')]
          /\ queue' \in [Links -> Seq(FaithfulFrames')]
      BY <1>2, <2>8, FaithfulGrows
    <2>10. ASSUME NEW s \in DOMAIN outbox', ~outbox'[s].acked
           PROVE  /\ outbox'[s].id \in 1..Len(issued')
                  /\ outbox'[s].event = issued'[outbox'[s].id]
                     \/ (outbox'[s].event = Inert /\ outbox'[s].id \in withdrawn')
      BY <1>4, <2>10 DEF PayloadsOK, Faithful
    <2>11. ASSUME NEW s \in DOMAIN inbox'
           PROVE  /\ inbox'[s].id \in 1..Len(issued')
                  /\ \/ inbox'[s].event = issued'[inbox'[s].id]
                     \/ (inbox'[s].event = Inert /\ inbox'[s].id \in withdrawn')
                     \/ (inbox'[s].event = Inert /\ issued'[inbox'[s].id].turn \in deleted')
      <3>1. CASE s = frame.sequence
        BY <1>1, <1>4, <2>4, <3>1 DEF Faithful
      <3>2. CASE s \in DOMAIN inbox
        BY <1>4, <2>4, <3>2 DEF PayloadsOK, Journaled
      <3> QED
        BY <2>4, <2>11, <3>1, <3>2
    <2>12. PayloadsOK'
      BY <2>9, <2>10, <2>11 DEF PayloadsOK, Faithful, Journaled
    <2>13. Keeps
      BY <2>1, <2>4 DEF Keeps, Store, Put
    <2> QED
      BY <2>4, <2>7, <2>12, <2>13
  <1> QED
    BY <1>6, <1>7

\* What travels up a connection is a hello or a faithful frame.
LEMMA UpTaken ==
    ASSUME PayloadsOK, NEW c \in Links, up[c] # <<>>
    PROVE  /\ [up EXCEPT ![c] = Tail(@)] \in [Links -> Seq(Hellos \cup FaithfulFrames)]
           /\ Tail(up[c]) \in Seq(Hellos \cup FaithfulFrames)
           /\ Head(up[c]).kind = "event" => Head(up[c]) \in FaithfulFrames
  <1>1. up \in [Links -> Seq(Hellos \cup FaithfulFrames)]
    BY DEF PayloadsOK
  <1>2. \A f \in Hellos : f.kind # "event"
    BY DEF Hellos
  <1> HIDE DEF FaithfulFrames, Hellos
  <1>3. Head(up[c]) \in Hellos \cup FaithfulFrames /\ Tail(up[c]) \in Seq(Hellos \cup FaithfulFrames)
    BY <1>1
  <1>4. [up EXCEPT ![c] = Tail(@)] \in [Links -> Seq(Hellos \cup FaithfulFrames)]
    BY <1>1, <1>3
  <1> QED
    BY <1>2, <1>3, <1>4

\* Wherever the frame waited.
LEMMA AdmissionKeeps ==
    ASSUME LossInv, NEW c \in Links, DrainQueue(c) \/ DrainAndDiscard(c) \/ ReceiveEvent(c)
    PROVE  LossInv' /\ Keeps /\ UNCHANGED <<projected, stripped>>
  <1>1. UNCHANGED <<plugin, client, issued, withdrawn>>
    BY DEF DrainQueue, DrainAndDiscard, ReceiveEvent
  <1>2. up \in [Links -> Seq(Hellos \cup FaithfulFrames)] /\ queue \in [Links -> Seq(FaithfulFrames)]
        /\ <<>> \in Seq(FaithfulFrames)
    BY DEF LossInv, PayloadsOK
  <1>3. CASE DrainQueue(c) \/ DrainAndDiscard(c)
    <2>1. queue[c] # <<>>
      BY <1>3 DEF DrainQueue, DrainAndDiscard
    <2>2. Head(queue[c]) \in FaithfulFrames /\ Tail(queue[c]) \in Seq(FaithfulFrames)
      <3> HIDE DEF FaithfulFrames
      <3> QED
        BY <1>2, <2>1
    <2>3. Admit(c, Head(queue[c]), Tail(queue[c])) \/ Admit(c, Head(queue[c]), <<>>)
      BY <1>3 DEF DrainQueue, DrainAndDiscard
    <2>4. up' \in [Links -> Seq(Hellos \cup FaithfulFrames)]
      BY <1>2, <1>3, UpTaken DEF DrainQueue, DrainAndDiscard, LossInv
    <2> QED
      BY <1>1, <1>2, <2>2, <2>3, <2>4, AdmitKeeps
  <1>4. CASE ReceiveEvent(c)
    <2>1. /\ up[c] # <<>> /\ Head(up[c]).kind = "event"
          /\ Admit(c, Head(up[c]), <<>>) /\ up' = [up EXCEPT ![c] = Tail(@)]
      BY <1>4 DEF ReceiveEvent, Arrives
    <2> QED
      BY <1>1, <1>2, <2>1, UpTaken, AdmitKeeps DEF LossInv
  <1> QED
    BY <1>3, <1>4

\* Dialing, greeting, buffering and losing a connection only move frames or drop them.
LEMMA NetworkKeeps ==
    ASSUME LossInv,
           \/ Dial \/ NoticeClose \/ DropSocket \/ RefuseHelloAck \/ Fault(Open)
           \/ \E c \in Links : Hello(c) \/ Buffer(c) \/ CloseAbandoned(c) \/ Fault({c})
    PROVE  LossInv'
  <1> USE DEF LossInv
  <1>1. UNCHANGED <<outbox, nextEventSequence, eventCursor, inbox, lastEventSequence, deleted, issued, withdrawn>>
    BY DEF Dial, NoticeClose, DropSocket, Hangup, RefuseHelloAck, Fault, Close, CloseAbandoned, Hello, Buffer,
           plugin, storage, history
  <1>2. /\ up \in [Links -> Seq(Hellos \cup FaithfulFrames)]
        /\ queue \in [Links -> Seq(FaithfulFrames)]
        /\ down \in [Links -> Seq(Replies)]
        /\ link \in 0..MaxLinks /\ MaxLinks \in Nat /\ (Connected => link \in Links)
        /\ <<>> \in Seq(FaithfulFrames) /\ <<>> \in Seq(Hellos \cup FaithfulFrames) /\ <<>> \in Seq(Replies)
    BY BoundsAreNat DEF PayloadsOK, JournalsOK
  <1> HIDE DEF FaithfulFrames, Replies, LossInv
  <1>3. CASE Dial
    <2>1. eventCursor \in Nat
      BY DEF LossInv, JournalsOK
    <2>2. <<[kind |-> "hello", eventSequence |-> eventCursor]>> \in Seq(Hellos \cup FaithfulFrames)
      BY <2>1 DEF Hellos
    <2>3. up' = [up EXCEPT ![link + 1] = <<[kind |-> "hello", eventSequence |-> eventCursor]>>]
          /\ queue' = queue /\ down' = down /\ link' = link + 1 /\ link < MaxLinks
      BY <1>3 DEF Dial
    <2>4. up' \in [Links -> Seq(Hellos \cup FaithfulFrames)] /\ queue' \in [Links -> Seq(FaithfulFrames)]
          /\ down' \in [Links -> Seq(Replies)]
      BY <1>2, <2>2, <2>3
    <2>5. link' \in 0..MaxLinks /\ link' \in Links
      BY <1>2, <2>3 DEF Links
    <2> QED
      BY <1>1, <2>4, <2>5, WireKeeps
  <1>4. CASE NoticeClose \/ DropSocket \/ RefuseHelloAck
    <2>1. UNCHANGED <<up, queue, link>> /\ down' = [down EXCEPT ![link] = <<>>] /\ ~Connected'
      BY <1>4 DEF NoticeClose, DropSocket, Hangup, RefuseHelloAck, ingress, Connected
    <2>2. down' \in [Links -> Seq(Replies)]
      BY <1>2, <2>1
    <2> QED
      BY <1>1, <1>2, <2>1, <2>2, WireKeeps
  <1>5. ASSUME UNCHANGED <<link, phase>>
        PROVE  link' \in 0..MaxLinks /\ (Connected' => link' \in Links)
    BY <1>2, <1>5 DEF Connected
  <1>6. ASSUME NEW C, Close(C) PROVE LossInv'
    <2>1. up' \in [Links -> Seq(Hellos \cup FaithfulFrames)] /\ queue' \in [Links -> Seq(FaithfulFrames)]
          /\ down' \in [Links -> Seq(Replies)]
      BY <1>2, <1>6 DEF Close
    <2>2. UNCHANGED <<link, phase>>
      BY <1>6 DEF Close, client
    <2> QED
      BY <1>1, <1>5, <2>1, <2>2, WireKeeps
  <1>7. ASSUME NEW c \in Links, Hello(c) PROVE LossInv'
    <2>1. Tail(up[c]) \in Seq(Hellos \cup FaithfulFrames)
      BY <1>7, UpTaken DEF Hello, Arrives, LossInv
    <2>2. up' \in [Links -> Seq(Hellos \cup FaithfulFrames)] /\ queue' \in [Links -> Seq(FaithfulFrames)]
      BY <1>2, <1>7, <2>1 DEF Hello
    <2>3. PICK allowed \in CapabilitySets :
            down' = [down EXCEPT ![c] = IF c = link /\ Connected
                       THEN Append(@, [kind |-> "hello_ack", eventSequence |-> lastEventSequence,
                                       capabilities |-> allowed])
                       ELSE @]
      BY <1>7 DEF Hello
    <2>4. [kind |-> "hello_ack", eventSequence |-> lastEventSequence, capabilities |-> allowed] \in Replies
      BY DEF Replies, LossInv, JournalsOK
    <2>5. Append(down[c], [kind |-> "hello_ack", eventSequence |-> lastEventSequence, capabilities |-> allowed])
            \in Seq(Replies)
      BY <1>2, <2>4
    <2>6. down' \in [Links -> Seq(Replies)]
      BY <1>2, <2>3, <2>5
    <2>7. UNCHANGED <<link, phase>>
      BY <1>7 DEF Hello, client
    <2> QED
      BY <1>1, <1>5, <2>2, <2>6, <2>7, WireKeeps
  <1>8. ASSUME NEW c \in Links, Buffer(c) PROVE LossInv'
    <2>1. /\ up[c] # <<>> /\ Head(up[c]).kind = "event" /\ up' = [up EXCEPT ![c] = Tail(@)]
          /\ queue' = [queue EXCEPT ![c] = Append(@, Head(up[c]))] /\ down' = down
          /\ UNCHANGED <<link, phase>>
      BY <1>8 DEF Buffer, Arrives, client
    <2>2. up' \in [Links -> Seq(Hellos \cup FaithfulFrames)] /\ Head(up[c]) \in FaithfulFrames
      BY <2>1, UpTaken DEF LossInv
    <2>3. Append(queue[c], Head(up[c])) \in Seq(FaithfulFrames)
      BY <1>2, <2>2
    <2>4. queue' \in [Links -> Seq(FaithfulFrames)] /\ down' \in [Links -> Seq(Replies)]
      BY <1>2, <2>1, <2>3
    <2> QED
      BY <1>1, <1>5, <2>1, <2>2, <2>4, WireKeeps
  <1> QED
    BY <1>3, <1>4, <1>6, <1>7, <1>8 DEF CloseAbandoned, Fault

\* A projected, compacted or blanked row keeps its id, and is blanked only with its session.
LEMMA RetentionKeeps ==
    ASSUME LossInv, Retains
    PROVE  LossInv' /\ Keeps
  <1> USE DEF LossInv
  <1>1. UNCHANGED <<outbox, nextEventSequence, eventCursor, link, phase, up, down, queue, lastEventSequence,
                    attachTerminals, issued, withdrawn>>
    BY DEF Retains, Project, CompactInbox, DeleteSession, plugin, client, ingress, history
  <1>2. /\ DOMAIN inbox' = DOMAIN inbox /\ inbox' \in [DOMAIN inbox -> Entries] /\ deleted \subseteq deleted'
        /\ \A s \in DOMAIN inbox :
             /\ inbox'[s].id = inbox[s].id
             /\ \/ inbox'[s] = inbox[s]
                \/ /\ inbox[s].event.turn \in deleted' \ deleted
                   /\ inbox'[s].event = Inert /\ inbox'[s].disposition = "discarded"
    BY RetentionRows DEF JournalsOK
  <1>3. JournalsOK'
    BY <1>1, <1>2 DEF JournalsOK, Connected
  <1>4. Keeps
    BY <1>1, <1>2 DEF Keeps
  <1>6. deleted' \ deleted \subseteq Turns
    BY DEF Retains, Project, CompactInbox, DeleteSession
  <1>5. ASSUME NEW s \in DOMAIN inbox
        PROVE  /\ inbox'[s].id \in 1..Len(issued)
               /\ \/ inbox'[s].event = issued[inbox'[s].id]
                  \/ (inbox'[s].event = Inert /\ inbox'[s].id \in withdrawn)
                  \/ (inbox'[s].event = Inert /\ issued[inbox'[s].id].turn \in deleted')
    <2>1. Journaled(inbox[s].id, inbox[s].event)
      BY DEF PayloadsOK
    <2>2. CASE inbox'[s] = inbox[s]
      BY <1>2, <2>1, <2>2 DEF Journaled
    <2>3. CASE inbox[s].event.turn \in deleted' \ deleted /\ inbox'[s].event = Inert
      <3>1. inbox[s].event.turn \in Turns
        BY <2>3, <1>6
      <3>2. inbox[s].event # Inert
        BY <3>1, BoundsAssumption DEF Inert
      <3> QED
        BY <1>2, <2>1, <2>3, <3>2 DEF Journaled
    <2> QED
      BY <1>2, <2>2, <2>3
  <1>7. PayloadsOK'
    BY <1>1, <1>2, <1>5 DEF PayloadsOK, Journaled, Faithful, FaithfulFrames
  <1> QED
    BY <1>3, <1>4, <1>7

\* Every step keeps the invariant, the loss of the spool included, and rewrites no row of the journal.
LEMMA NextKeeps ==
    ASSUME LossInv, [Next]_vars
    PROVE  LossInv' /\ Keeps /\ (Retains \/ UNCHANGED <<projected, stripped>>)
  <1>1. CASE UNCHANGED vars
    <2>1. /\ UNCHANGED <<outbox, nextEventSequence, eventCursor, inbox, lastEventSequence, attachTerminals,
                         projected, stripped, deleted, issued, withdrawn, link, phase, up, down, queue>>
      BY <1>1 DEF vars, plugin, client, ingress, storage, history
    <2>2. /\ link' \in 0..MaxLinks /\ (Connected' => link' \in Links)
          /\ down' \in [Links -> Seq(Replies)]
          /\ up' \in [Links -> Seq(Hellos \cup FaithfulFrames)] /\ queue' \in [Links -> Seq(FaithfulFrames)]
      BY <2>1 DEF LossInv, JournalsOK, PayloadsOK, Connected
    <2> QED
      BY <2>1, <2>2, WireKeeps DEF Keeps
  <1>2. UNCHANGED <<inbox, attachTerminals>> => Keeps
    BY DEF Keeps
  <1>3. ASSUME NEW e \in Event, Enqueue(e) PROVE LossInv' /\ Keeps /\ UNCHANGED <<projected, stripped>>
    BY <1>2, <1>3, EnqueueKeeps DEF Enqueue, storage
  <1>4. ASSUME NEW s \in DOMAIN outbox, Withdraw(s) \/ Compact(s) \/ Transmit(s)
        PROVE  LossInv' /\ Keeps /\ UNCHANGED <<projected, stripped>>
    BY <1>2, <1>4, InertKeeps, TransmitKeeps DEF Withdraw, Compact, Transmit, storage
  <1>5. CASE ReceiveHelloAck \/ ReceiveAck \/ ReceiveGap \/ RecreateSpool
    BY <1>2, <1>5, HelloAckKeeps, AckKeeps, GapKeeps, RecreateKeeps
    DEF ReceiveHelloAck, ReceiveAck, ReceiveGap, RecreateSpool, storage
  <1>6. ASSUME NEW c \in Links, DrainQueue(c) \/ DrainAndDiscard(c) \/ ReceiveEvent(c)
        PROVE  LossInv' /\ Keeps /\ UNCHANGED <<projected, stripped>>
    BY <1>6, AdmissionKeeps
  <1>7. CASE \/ Dial \/ NoticeClose \/ DropSocket \/ RefuseHelloAck \/ Fault(Open)
             \/ \E c \in Links : Hello(c) \/ Buffer(c) \/ CloseAbandoned(c) \/ Fault({c})
    <2>1. LossInv'
      BY <1>7, NetworkKeeps
    <2>2. UNCHANGED <<inbox, attachTerminals, projected, stripped>>
      BY <1>7 DEF Dial, NoticeClose, DropSocket, Hangup, RefuseHelloAck, Fault, Close, CloseAbandoned, Hello, Buffer,
         storage
    <2> QED
      BY <1>2, <2>1, <2>2
  <1>8. CASE Retains
    BY <1>8, RetentionKeeps
  <1> QED
    BY <1>1, <1>3, <1>4, <1>5, <1>6, <1>7, <1>8 DEF Next, Retains

\* What the retention sweep takes content from was projected, and its turn is sealed.
StrippedOK ==
    /\ projected \in Nat /\ stripped \subseteq DOMAIN inbox
    /\ \A s \in stripped : s <= projected /\ inbox[s].event.turn \in DOMAIN attachTerminals \cup {NoTurn}

LEMMA NextStripped ==
    ASSUME LossInv, StrippedOK, [Next]_vars
    PROVE  StrippedOK'
  <1>1. Keeps /\ (Retains \/ UNCHANGED <<projected, stripped>>)
    BY NextKeeps
  <1>2. ASSUME NEW s \in DOMAIN inbox, inbox[s].event.turn \in DOMAIN attachTerminals \cup {NoTurn}
        PROVE  s \in DOMAIN inbox' /\ inbox'[s].event.turn \in DOMAIN attachTerminals' \cup {NoTurn}
    BY <1>1, <1>2 DEF Keeps, Inert
  <1>3. \A s \in DOMAIN inbox : s \in Nat
    BY DEF LossInv, JournalsOK
  <1>4. CASE UNCHANGED <<projected, stripped>>
    BY <1>2, <1>4 DEF StrippedOK
  <1>5. ASSUME NEW s \in DOMAIN inbox, Project(s) PROVE StrippedOK'
    BY <1>2, <1>3, <1>5 DEF StrippedOK, Project
  <1>6. ASSUME NEW s \in DOMAIN inbox, CompactInbox(s) PROVE StrippedOK'
    BY <1>2, <1>6 DEF StrippedOK, CompactInbox
  <1>7. ASSUME NEW T \in SUBSET Turns, DeleteSession(T) PROVE StrippedOK'
    BY <1>2, <1>4, <1>7 DEF DeleteSession
  <1> QED
    BY <1>1, <1>4, <1>5, <1>6, <1>7 DEF Retains

LEMMA InitPayloads == Init => PayloadsOK
  <1> SUFFICES ASSUME Init PROVE PayloadsOK
    OBVIOUS
  <1>1. LegacyTail \in Nat /\ IInv
    BY BoundsAreNat, BoundsAssumption, InitIInv
  <1>2. /\ issued = [i \in 1..LegacyTail |-> Inert] /\ Len(issued) = LegacyTail
        /\ DOMAIN turnTerminals = {} /\ DOMAIN attachTerminals = {}
        /\ up = [c \in Links |-> <<>>] /\ queue = [c \in Links |-> <<>>]
    BY <1>1 DEF Init
  <1>3. /\ \A s \in DOMAIN outbox : outbox[s].id \in 1..Len(issued) /\ outbox[s].event = Inert
        /\ \A s \in DOMAIN inbox :
             inbox[s].id \in 1..Len(issued) /\ inbox[s].event = Inert /\ inbox[s].disposition = "accepted"
    BY <1>1 DEF Init, IInv, IdsOK
  <1>4. up \in [Links -> Seq(Hellos \cup FaithfulFrames)] /\ queue \in [Links -> Seq(FaithfulFrames)]
    <2> HIDE DEF FaithfulFrames
    <2> QED
      BY <1>2
  <1>5. PayloadsOK
    BY <1>2, <1>3, <1>4 DEF PayloadsOK, Faithful, Journaled
  <1> QED
    BY <1>5

LEMMA InitKeeps == Init => LossInv
  <1> SUFFICES ASSUME Init PROVE LossInv
    OBVIOUS
  <1>1. PayloadsOK /\ TypeOK /\ IInv
    BY InitPayloads, InitIInv DEF IInv
  <1>2. down = [c \in Links |-> <<>>] /\ ~Connected
    BY DEF Init, Connected
  <1>3. down \in [Links -> Seq(Replies)]
    <2> HIDE DEF Replies
    <2> QED
      BY <1>2
  <1> QED
    BY <1>1, <1>2, <1>3 DEF LossInv, JournalsOK, TypeOK, Rows, Entries

\* It holds of every behaviour, through any number of lost spool files.
THEOREM LossInvariant == Spec => []LossInv
  <1>1. LossInv /\ [Next]_vars => LossInv'
    BY NextKeeps
  <1> QED
    BY <1>1, InitKeeps, PTL DEF Spec

\* Whatever becomes of the spool, no replay, compaction or deletion moves a journaled event to another
\* id or number, a row changes only when the deletion of its session discards it, and no later event
\* changes what sealed a turn.
THEOREM JournalGrows == Spec => JournalKept
  <1>1. LossInv /\ [Next]_vars => [Keeps]_vars
    BY NextKeeps
  <1> QED
    BY <1>1, LossInvariant, PTL DEF Spec, JournalKept, Keeps

\* The gateway journals the event that was issued, but for a media payload its cleanup withdrew and for
\* the rows of a deleted session: no replay, compaction, healed hole or new spool puts anything else under
\* an id.  The gateway's own sweep never takes the content of a row before the row was projected and its
\* turn was sealed.
THEOREM PayloadsKept == Spec => []PayloadKept
  <1>1. Init => StrippedOK
    BY InitKeeps DEF Init, StrippedOK, LossInv, JournalsOK
  <1>2. LossInv /\ StrippedOK => PayloadKept
    BY DEF LossInv, PayloadsOK, PayloadKept, Journaled, StrippedOK
  <1>3. LossInv /\ StrippedOK /\ [Next]_vars => StrippedOK'
    BY NextStripped
  <1> QED
    BY <1>1, <1>2, <1>3, LossInvariant, PTL DEF Spec
----------------------------------------------------------------------------
(* Seals                                                                   *)

\* The plugin seals a turn with its only terminal, after which it issues none
\* of the turn's events; events of turns travel in the order of their ids, so
\* a turn the gateway has sealed has nothing left to arrive.
SealsOK ==
    /\ \A i \in 1..Len(issued) : Terminal(issued[i]) =>
         issued[i].turn \in DOMAIN turnTerminals /\ turnTerminals[issued[i].turn] = i
    /\ \A i \in 1..Len(issued) :
         issued[i].kind # "delegation" /\ issued[i].turn \in DOMAIN turnTerminals =>
           i <= turnTerminals[issued[i].turn]
    /\ \A s, r \in DOMAIN outbox :
         s < r /\ issued[outbox[s].id].turn # NoTurn /\ issued[outbox[r].id].turn # NoTurn =>
           outbox[s].id < outbox[r].id
    /\ \A t \in DOMAIN attachTerminals :
         /\ t \in DOMAIN turnTerminals /\ turnTerminals[t] = attachTerminals[t]
         /\ \E s \in DOMAIN inbox \cap DOMAIN outbox :
              outbox[s].id = attachTerminals[t] /\ issued[outbox[s].id].turn = t
    /\ \A s \in DOMAIN inbox : inbox[s].disposition # "ignored_terminal"

\* A step that mints no event and admits none.
LEMMA QuietStep ==
    ASSUME IInv, SealsOK, UNCHANGED <<inbox, issued, turnTerminals, attachTerminals>>,
           DOMAIN outbox' = DOMAIN outbox, \A s \in DOMAIN outbox : outbox'[s].id = outbox[s].id
    PROVE  SealsOK'
  BY DEF SealsOK, Terminal

\* _queue_event mints the last id under the last number, and none for a turn it has sealed.
LEMMA EnqueueSeals ==
    ASSUME IInv, SealsOK, NEW e \in Event, Enqueue(e)
    PROVE  SealsOK'
  <1> DEFINE last == Len(issued)
  <1>1. /\ issued \in Seq(Event) /\ issued' \in Seq(Event) /\ last \in Nat /\ Len(issued') = last + 1
        /\ issued'[last + 1] = e /\ \A i \in 1..last : issued'[i] = issued[i]
    BY DEF Enqueue, IInv, TypeOK
  <1>2. /\ DOMAIN outbox' = DOMAIN outbox \cup {nextEventSequence}
        /\ outbox'[nextEventSequence] = [id |-> last + 1, event |-> e, acked |-> FALSE]
        /\ \A s \in DOMAIN outbox : s < nextEventSequence /\ outbox'[s] = outbox[s]
        /\ nextEventSequence \in Nat /\ DOMAIN outbox \subseteq Nat
    BY SMTT(30) DEF Enqueue, Put, FreshId, IInv, TypeOK
  <1>3. UNCHANGED <<inbox, attachTerminals>>
    BY DEF Enqueue, storage
  <1>4. turnTerminals' = IF Terminal(e) THEN Put(turnTerminals, e.turn, last + 1) ELSE turnTerminals
    BY DEF Enqueue, FreshId
  <1>5. e.kind # "delegation" => e.turn \notin DOMAIN turnTerminals
    BY DEF Enqueue, SealedBy
  <1>6. /\ \A s \in DOMAIN outbox : outbox[s].id \in 1..last
        /\ \A s \in DOMAIN inbox : inbox[s].id \in 1..last
    BY DEF IInv, IdsOK
  <1> HIDE DEF last
  <1>7. \A i \in 1..Len(issued') : Terminal(issued'[i]) =>
           issued'[i].turn \in DOMAIN turnTerminals' /\ turnTerminals'[issued'[i].turn] = i
    <2> SUFFICES ASSUME NEW i \in 1..(last + 1), Terminal(issued'[i])
                 PROVE  issued'[i].turn \in DOMAIN turnTerminals' /\ turnTerminals'[issued'[i].turn] = i
      BY <1>1
    <2>1. CASE i = last + 1
      BY <1>1, <1>4, <2>1 DEF Put
    <2>2. CASE i \in 1..last
      <3>1. issued'[i] = issued[i] /\ Terminal(issued[i])
        BY <1>1, <2>2
      <3>2. issued[i].turn \in DOMAIN turnTerminals /\ turnTerminals[issued[i].turn] = i
        BY <2>2, <3>1 DEF SealsOK, last
      <3> QED
        BY <1>4, <1>5, <3>1, <3>2 DEF Put, Terminal
    <2> QED
      BY <1>1, <2>1, <2>2
  <1>8. \A i \in 1..Len(issued') :
           issued'[i].kind # "delegation" /\ issued'[i].turn \in DOMAIN turnTerminals' =>
             i <= turnTerminals'[issued'[i].turn]
    <2> SUFFICES ASSUME NEW i \in 1..(last + 1), issued'[i].kind # "delegation",
                        issued'[i].turn \in DOMAIN turnTerminals'
                 PROVE  i <= turnTerminals'[issued'[i].turn]
      BY <1>1
    <2>1. CASE Terminal(e) /\ issued'[i].turn = e.turn
      BY <1>1, <1>4, <2>1 DEF Put
    <2>2. CASE ~(Terminal(e) /\ issued'[i].turn = e.turn)
      <3>1. /\ issued'[i].turn \in DOMAIN turnTerminals
            /\ turnTerminals'[issued'[i].turn] = turnTerminals[issued'[i].turn]
        BY <1>4, <2>2 DEF Put
      <3>2. i \in 1..last
        BY <1>1, <1>5, <3>1
      <3> QED
        BY <1>1, <3>1, <3>2 DEF SealsOK, last
    <2> QED
      BY <2>1, <2>2
  <1>9. \A s, r \in DOMAIN outbox' :
           s < r /\ issued'[outbox'[s].id].turn # NoTurn /\ issued'[outbox'[r].id].turn # NoTurn =>
             outbox'[s].id < outbox'[r].id
    <2> SUFFICES ASSUME NEW s \in DOMAIN outbox', NEW r \in DOMAIN outbox', s < r,
                        issued'[outbox'[s].id].turn # NoTurn, issued'[outbox'[r].id].turn # NoTurn
                 PROVE  outbox'[s].id < outbox'[r].id
      OBVIOUS
    <2>1. s \in DOMAIN outbox
      BY <1>2
    <2>2. outbox'[s].id \in 1..last /\ outbox'[s] = outbox[s]
      BY <1>2, <1>6, <2>1
    <2>3. CASE r = nextEventSequence
      BY <1>1, <1>2, <2>2, <2>3
    <2>4. CASE r \in DOMAIN outbox
      BY <1>1, <1>2, <1>6, <2>1, <2>2, <2>4, SMTT(30) DEF SealsOK
    <2> QED
      BY <1>2, <2>3, <2>4
  <1>10. \A t \in DOMAIN attachTerminals' :
           /\ t \in DOMAIN turnTerminals' /\ turnTerminals'[t] = attachTerminals'[t]
           /\ \E s \in DOMAIN inbox' \cap DOMAIN outbox' :
                outbox'[s].id = attachTerminals'[t] /\ issued'[outbox'[s].id].turn = t
    <2> SUFFICES ASSUME NEW t \in DOMAIN attachTerminals
                 PROVE  /\ t \in DOMAIN turnTerminals' /\ turnTerminals'[t] = attachTerminals[t]
                        /\ \E s \in DOMAIN inbox \cap DOMAIN outbox' :
                             outbox'[s].id = attachTerminals[t] /\ issued'[outbox'[s].id].turn = t
      BY <1>3
    <2>1. t \in DOMAIN turnTerminals /\ turnTerminals[t] = attachTerminals[t]
      BY DEF SealsOK
    <2>2. PICK s \in DOMAIN inbox \cap DOMAIN outbox :
            outbox[s].id = attachTerminals[t] /\ issued[outbox[s].id].turn = t
      BY DEF SealsOK
    <2>3. outbox'[s].id = attachTerminals[t] /\ issued'[outbox'[s].id].turn = t
      BY <1>1, <1>2, <1>6, <2>2
    <2>4. t \in DOMAIN turnTerminals' /\ turnTerminals'[t] = attachTerminals[t]
      BY <1>4, <1>5, <2>1 DEF Put, Terminal
    <2> QED
      BY <1>2, <2>2, <2>3, <2>4
  <1> QED
    BY <1>3, <1>7, <1>8, <1>9, <1>10 DEF SealsOK

\* Withdrawing or compacting a row leaves its id.
LEMMA InertSeals ==
    ASSUME IInv, SealsOK, NEW s \in DOMAIN outbox, Withdraw(s) \/ Compact(s)
    PROVE  SealsOK'
  <1>1. /\ outbox' = [outbox EXCEPT ![s].event = Inert]
        /\ UNCHANGED <<inbox, issued, turnTerminals, attachTerminals>>
    BY DEF Withdraw, Compact, storage, history
  <1>2. outbox \in [DOMAIN outbox -> [id : Nat, event : Event, acked : BOOLEAN]]
    BY DEF IInv, TypeOK
  <1>3. DOMAIN outbox' = DOMAIN outbox /\ \A r \in DOMAIN outbox : outbox'[r].id = outbox[r].id
    BY <1>1, <1>2
  <1> QED
    BY <1>1, <1>3, QuietStep

\* The spool stays as it is while frames are sent, buffered or lost.
LEMMA WireSeals ==
    ASSUME IInv, SealsOK, UNCHANGED <<outbox, inbox, issued, turnTerminals, attachTerminals>>
    PROVE  SealsOK'
  BY QuietStep

\* What the gateway already holds is settled: every row keeps its id.
LEMMA AckSeals ==
    ASSUME IInv, SealsOK, ReceiveHelloAck \/ ReceiveAck
    PROVE  SealsOK'
  <1>1. outbox \in [DOMAIN outbox -> [id : Nat, event : Event, acked : BOOLEAN]]
    BY DEF IInv, TypeOK
  <1>2. UNCHANGED <<inbox, issued, turnTerminals, attachTerminals>>
    BY DEF ReceiveHelloAck, ReceiveAck, storage, history
  <1>3. /\ DOMAIN outbox' = DOMAIN outbox
        /\ \A s \in DOMAIN outbox : outbox'[s].id = outbox[s].id
    <2>1. CASE ReceiveHelloAck
      <3> DEFINE es == Head(down[link]).eventSequence
      <3>1. outbox' = outbox
            \/ outbox' = [s \in DOMAIN outbox |-> IF s <= es THEN [outbox[s] EXCEPT !.acked = TRUE] ELSE outbox[s]]
        BY <2>1 DEF ReceiveHelloAck, AdoptResume
      <3> HIDE DEF es
      <3> QED
        BY <1>1, <3>1
    <2>2. CASE ReceiveAck
      <3> DEFINE ack == Head(down[link])
      <3>1. outbox' = outbox \/ outbox' = [outbox EXCEPT ![ack.sequence].acked = TRUE]
        BY <2>2 DEF ReceiveAck
      <3> HIDE DEF ack
      <3> QED
        BY <1>1, <3>1
    <2> QED
      BY <2>1, <2>2
  <1> QED
    BY <1>2, <1>3, QuietStep

\* A healed hole is an event of no turn.
LEMMA GapSeals ==
    ASSUME IInv, SealsOK, ReceiveGap
    PROVE  SealsOK'
  <1> DEFINE holes == Holes(Head(down[link]).requestedAfter)
             n == Cardinality(holes)
             last == Len(issued)
             healed == [i \in 1..n |-> Inert]
  <1>1. /\ issued' = issued \o healed
        /\ UNCHANGED <<inbox, turnTerminals, attachTerminals>>
    BY DEF ReceiveGap, storage
  <1>2. /\ nextEventSequence \in Nat /\ issued \in Seq(Event) /\ last \in Nat
    BY DEF IInv, TypeOK
  <1>3. holes \subseteq 1..(nextEventSequence - 1) /\ holes \cap DOMAIN outbox = {}
    BY DEF Holes
  <1>4. IsFiniteSet(holes) /\ holes \in SUBSET Nat
    <2> HIDE DEF holes
    <2>1. IsFiniteSet(1..(nextEventSequence - 1))
      BY <1>2, FS_Interval
    <2>2. IsFiniteSet(holes)
      BY <1>3, <2>1, FS_Subset
    <2>3. holes \in SUBSET Nat
      BY <1>2, <1>3
    <2> QED
      BY <2>2, <2>3
  <1>5. n \in Nat /\ \A s \in holes : Rank(s, holes) \in 0..(n - 1)
    BY <1>4, RankInjects
  <1>6. /\ DOMAIN outbox' = DOMAIN outbox \cup holes
        /\ \A s \in DOMAIN outbox : outbox'[s] = outbox[s]
        /\ \A s \in holes : outbox'[s] = [id |-> last + 1 + Rank(s, holes), event |-> Inert, acked |-> FALSE]
    BY <1>3 DEF ReceiveGap, FreshId
  <1> HIDE DEF holes, n
  <1>7. healed \in Seq({Inert}) /\ Len(healed) = n /\ \A i \in 1..n : healed[i] = Inert
    BY <1>5
  <1> HIDE DEF last, healed
  <1>8. /\ Len(issued') = last + n /\ \A i \in 1..last : issued'[i] = issued[i]
        /\ \A i \in (last + 1)..(last + n) : issued'[i] = Inert
    <2>1. healed \in Seq(Event) /\ issued \in Seq(Event)
      BY <1>2, <1>7, InertIsEvent
    <2>2. /\ Len(issued \o healed) = Len(issued) + Len(healed)
          /\ \A i \in 1..(Len(issued) + Len(healed)) :
               (issued \o healed)[i] = IF i <= Len(issued) THEN issued[i] ELSE healed[i - Len(issued)]
      BY <2>1, ConcatProperties
    <2> QED
      BY <1>1, <1>2, <1>5, <1>7, <2>2 DEF last
  <1>9. \A s \in holes : outbox'[s].id \in (last + 1)..(last + n) /\ outbox'[s].event = Inert
    BY <1>2, <1>5, <1>6
  <1>10. /\ \A s \in DOMAIN outbox : outbox[s].id \in 1..last
         /\ \A s \in DOMAIN inbox : inbox[s].id \in 1..last
    BY DEF IInv, IdsOK, last
  <1>11. ASSUME NEW i \in 1..Len(issued')
         PROVE  /\ Terminal(issued'[i]) =>
                     issued'[i].turn \in DOMAIN turnTerminals' /\ turnTerminals'[issued'[i].turn] = i
                /\ issued'[i].kind # "delegation" /\ issued'[i].turn \in DOMAIN turnTerminals' =>
                     i <= turnTerminals'[issued'[i].turn]
    <2>1. CASE i \in 1..last
      BY <1>1, <1>8, <2>1 DEF SealsOK, last
    <2>2. CASE i \in (last + 1)..(last + n)
      <3>1. issued'[i] = Inert
        BY <1>8, <2>2
      <3>2. NoTurn \notin DOMAIN turnTerminals
        BY BoundsAssumption DEF IInv, TypeOK
      <3> QED
        BY <1>1, <3>1, <3>2 DEF Inert, Terminal
    <2> QED
      BY <1>2, <1>5, <1>8, <2>1, <2>2
  <1>12. \A s \in holes : issued'[outbox'[s].id].turn = NoTurn
    BY <1>8, <1>9 DEF Inert
  <1>13. \A s, r \in DOMAIN outbox' :
           s < r /\ issued'[outbox'[s].id].turn # NoTurn /\ issued'[outbox'[r].id].turn # NoTurn =>
             outbox'[s].id < outbox'[r].id
    <2> SUFFICES ASSUME NEW s \in DOMAIN outbox', NEW r \in DOMAIN outbox', s < r,
                        issued'[outbox'[s].id].turn # NoTurn, issued'[outbox'[r].id].turn # NoTurn
                 PROVE  outbox'[s].id < outbox'[r].id
      OBVIOUS
    <2>1. s \in DOMAIN outbox /\ r \in DOMAIN outbox /\ outbox'[s] = outbox[s] /\ outbox'[r] = outbox[r]
      BY <1>6, <1>12
    <2>2. issued'[outbox[s].id] = issued[outbox[s].id] /\ issued'[outbox[r].id] = issued[outbox[r].id]
      BY <1>8, <1>10, <2>1
    <2> QED
      BY <2>1, <2>2 DEF SealsOK
  <1>14. \A t \in DOMAIN attachTerminals :
           \E s \in DOMAIN inbox \cap DOMAIN outbox' :
             outbox'[s].id = attachTerminals[t] /\ issued'[outbox'[s].id].turn = t
    <2> SUFFICES ASSUME NEW t \in DOMAIN attachTerminals
                 PROVE  \E s \in DOMAIN inbox \cap DOMAIN outbox' :
                          outbox'[s].id = attachTerminals[t] /\ issued'[outbox'[s].id].turn = t
      OBVIOUS
    <2>1. PICK s \in DOMAIN inbox \cap DOMAIN outbox :
            outbox[s].id = attachTerminals[t] /\ issued[outbox[s].id].turn = t
      BY DEF SealsOK
    <2>2. outbox'[s] = outbox[s] /\ issued'[outbox[s].id] = issued[outbox[s].id] /\ s \in DOMAIN outbox'
      BY <1>6, <1>8, <1>10, <2>1
    <2> QED
      BY <2>1, <2>2
  <1> QED
    BY <1>1, <1>11, <1>13, <1>14 DEF SealsOK

\* A faithful frame that still has to be admitted is of no turn the gateway has sealed.
LEMMA NothingForTheSealed ==
    ASSUME IInv, SealsOK, NEW frame \in Carried, Faithful(frame.id, frame.event), Verdict(frame) = "next"
    PROVE  /\ ~SealedBy(frame.event, attachTerminals)
           /\ Terminal(frame.event) =>
                /\ frame.event = issued[frame.id] /\ frame.event.turn # NoTurn
                /\ frame.event.turn \in DOMAIN turnTerminals
                /\ turnTerminals[frame.event.turn] = frame.id
  <1>1. /\ frame.sequence \in DOMAIN outbox /\ outbox[frame.sequence].id = frame.id
        /\ frame.sequence = lastEventSequence + 1 /\ frame.event \in Event /\ frame.id \in 1..Len(issued)
        /\ DOMAIN inbox = 1..lastEventSequence /\ lastEventSequence \in Nat /\ Len(issued) \in Nat
    <2>1. frame.sequence = lastEventSequence + 1
      BY VerdictFollows
    <2>2. frame \in EventFrames /\ frame.sequence \in DOMAIN outbox /\ outbox[frame.sequence].id = frame.id
      BY DEF Carried
    <2>3. DOMAIN inbox = 1..lastEventSequence /\ lastEventSequence \in Nat /\ issued \in Seq(Event)
      BY DEF IInv, TypeOK
    <2>4. frame.event \in Event /\ frame.id \in 1..Len(issued)
      BY <2>2 DEF EventFrames, Faithful
    <2> QED
      BY <2>1, <2>2, <2>3, <2>4
  <1>2. Terminal(frame.event) =>
          frame.event = issued[frame.id] /\ frame.event.turn # NoTurn
    BY <1>1 DEF Faithful, Inert, Terminal, Event
  <1>3. ~SealedBy(frame.event, attachTerminals)
    <2> SUFFICES ASSUME SealedBy(frame.event, attachTerminals) PROVE FALSE
      OBVIOUS
    <2>1. frame.event.turn \in DOMAIN attachTerminals /\ frame.event.kind # "delegation"
      BY DEF SealedBy
    <2>2. frame.event.turn # NoTurn
      BY <2>1, BoundsAssumption DEF IInv, TypeOK
    <2>3. frame.event = issued[frame.id]
      BY <2>2 DEF Faithful, Inert
    <2> DEFINE t == frame.event.turn
    <2>4. /\ t \in DOMAIN turnTerminals /\ turnTerminals[t] = attachTerminals[t]
      BY <2>1 DEF SealsOK
    <2>5. PICK s \in DOMAIN inbox \cap DOMAIN outbox :
            outbox[s].id = attachTerminals[t] /\ issued[outbox[s].id].turn = t
      BY <2>1 DEF SealsOK
    <2>6. frame.id <= turnTerminals[t]
      BY <1>1, <2>1, <2>3, <2>4 DEF SealsOK
    <2>7. outbox[s].id < frame.id
      <3>1. s < frame.sequence
        BY <1>1, <2>5
      <3>2. issued[outbox[s].id].turn # NoTurn /\ issued[outbox[frame.sequence].id].turn # NoTurn
        BY <1>1, <2>2, <2>3, <2>5
      <3> QED
        BY <1>1, <2>5, <3>1, <3>2 DEF SealsOK
    <2>8. outbox[s].id \in Nat
      BY <2>5 DEF IInv, TypeOK
    <2> QED
      BY <1>1, <2>4, <2>5, <2>6, <2>7, <2>8
  <1>4. Terminal(frame.event) =>
          frame.event.turn \in DOMAIN turnTerminals /\ turnTerminals[frame.event.turn] = frame.id
    BY <1>1, <1>2 DEF SealsOK
  <1> QED
    BY <1>2, <1>3, <1>4

\* Admitting a faithful frame seals a turn the spool has sealed with it, and ignores nothing.
LEMMA AdmitSeals ==
    ASSUME IInv, SealsOK, NEW c \in Links, NEW frame \in Carried \cap FaithfulFrames,
           NEW rest, Admit(c, frame, rest), UNCHANGED <<outbox, turnTerminals, issued>>
    PROVE  SealsOK'
  <1>1. CASE Verdict(frame) # "next"
    <2>1. UNCHANGED <<inbox, attachTerminals>>
      BY <1>1 DEF Admit, storage
    <2> QED
      BY <2>1, WireSeals
  <1>2. CASE Verdict(frame) = "next"
    <2>1. Faithful(frame.id, frame.event)
      BY DEF FaithfulFrames
    <2>2. PICK authorized : Store(frame, Disposition(c, frame, authorized))
      BY <1>2 DEF Admit
    <2>3. /\ ~SealedBy(frame.event, attachTerminals)
          /\ Terminal(frame.event) =>
                /\ frame.event = issued[frame.id] /\ frame.event.turn # NoTurn
                /\ frame.event.turn \in DOMAIN turnTerminals
                /\ turnTerminals[frame.event.turn] = frame.id
      BY <1>2, <2>1, NothingForTheSealed
    <2> DEFINE disposition == Disposition(c, frame, authorized)
    <2>4. disposition # "ignored_terminal"
      BY <2>3 DEF Disposition
    <2> HIDE DEF disposition
    <2>5. frame.sequence \notin DOMAIN inbox /\ frame.sequence \in DOMAIN outbox
          /\ outbox[frame.sequence].id = frame.id
      BY <1>2, VerdictFollows DEF Carried
    <2>6. /\ DOMAIN inbox' = DOMAIN inbox \cup {frame.sequence}
          /\ inbox'[frame.sequence] = [id |-> frame.id, event |-> frame.event, disposition |-> disposition]
          /\ \A s \in DOMAIN inbox : inbox'[s] = inbox[s]
      BY <2>2, <2>5 DEF Store, Put, disposition
    <2>7. attachTerminals' = attachTerminals
          \/ (Terminal(frame.event) /\ attachTerminals' = Put(attachTerminals, frame.event.turn, frame.id))
      BY <2>2 DEF Store
    <2>8. \A t \in DOMAIN attachTerminals' :
             /\ t \in DOMAIN turnTerminals /\ turnTerminals[t] = attachTerminals'[t]
             /\ \E s \in DOMAIN inbox' \cap DOMAIN outbox :
                  outbox[s].id = attachTerminals'[t] /\ issued[outbox[s].id].turn = t
      <3> SUFFICES ASSUME NEW t \in DOMAIN attachTerminals'
                   PROVE  /\ t \in DOMAIN turnTerminals /\ turnTerminals[t] = attachTerminals'[t]
                          /\ \E s \in DOMAIN inbox' \cap DOMAIN outbox :
                               outbox[s].id = attachTerminals'[t] /\ issued[outbox[s].id].turn = t
        OBVIOUS
      <3>1. CASE t \in DOMAIN attachTerminals /\ attachTerminals'[t] = attachTerminals[t]
        BY <2>6, <3>1 DEF SealsOK
      <3>2. CASE Terminal(frame.event) /\ t = frame.event.turn /\ attachTerminals'[t] = frame.id
        BY <2>3, <2>5, <2>6, <3>2
      <3> QED
        BY <2>7, <3>1, <3>2 DEF Put
    <2>9. \A s \in DOMAIN inbox' : inbox'[s].disposition # "ignored_terminal"
      BY <2>4, <2>6 DEF SealsOK
    <2>10. /\ \A i \in 1..Len(issued') : Terminal(issued'[i]) =>
                issued'[i].turn \in DOMAIN turnTerminals' /\ turnTerminals'[issued'[i].turn] = i
           /\ \A i \in 1..Len(issued') :
                issued'[i].kind # "delegation" /\ issued'[i].turn \in DOMAIN turnTerminals' =>
                  i <= turnTerminals'[issued'[i].turn]
           /\ \A s, r \in DOMAIN outbox' :
                s < r /\ issued'[outbox'[s].id].turn # NoTurn /\ issued'[outbox'[r].id].turn # NoTurn =>
                  outbox'[s].id < outbox'[r].id
      BY DEF SealsOK
    <2> QED
      BY <2>8, <2>9, <2>10 DEF SealsOK
  <1> QED
    BY <1>1, <1>2

\* Wherever the frame waited.
LEMMA AdmissionSeals ==
    ASSUME IInv, PayloadsOK, SealsOK, NEW c \in Links,
           DrainQueue(c) \/ DrainAndDiscard(c) \/ ReceiveEvent(c)
    PROVE  SealsOK'
  <1>1. UNCHANGED <<outbox, turnTerminals, issued>>
    BY DEF DrainQueue, DrainAndDiscard, ReceiveEvent, plugin
  <1>2. CASE DrainQueue(c) \/ DrainAndDiscard(c)
    <2>1. queue[c] # <<>> /\ queue[c] \in Seq(Carried) /\ queue[c] \in Seq(FaithfulFrames)
      BY <1>2 DEF DrainQueue, DrainAndDiscard, IInv, NetOK, PayloadsOK
    <2>2. Head(queue[c]) \in Carried
      BY <2>1
    <2>3. Head(queue[c]) \in FaithfulFrames
      <3> HIDE DEF FaithfulFrames
      <3> QED
        BY <2>1
    <2> QED
      BY <1>1, <1>2, <2>2, <2>3, AdmitSeals DEF DrainQueue, DrainAndDiscard
  <1>3. CASE ReceiveEvent(c)
    <2>1. up[c] # <<>> /\ Head(up[c]).kind = "event" /\ Admit(c, Head(up[c]), <<>>)
      BY <1>3 DEF ReceiveEvent, Arrives
    <2> QED
      BY <1>1, <2>1, UpFrame, UpTaken, AdmitSeals
  <1> QED
    BY <1>2, <1>3

LEMMA NextSeals ==
    ASSUME ~RecreateSpool, IInv, PayloadsOK, SealsOK, [Next]_vars
    PROVE  SealsOK'
  <1>1. CASE UNCHANGED vars
    BY <1>1, WireSeals DEF vars, plugin, storage, history
  <1>2. ASSUME NEW e \in Event, Enqueue(e) PROVE SealsOK'
    BY <1>2, EnqueueSeals
  <1>3. ASSUME NEW s \in DOMAIN outbox, Withdraw(s) \/ Compact(s) PROVE SealsOK'
    BY <1>3, InertSeals
  <1>4. CASE ReceiveHelloAck \/ ReceiveAck \/ ReceiveGap
    BY <1>4, AckSeals, GapSeals
  <1>5. ASSUME NEW c \in Links, DrainQueue(c) \/ DrainAndDiscard(c) \/ ReceiveEvent(c)
        PROVE  SealsOK'
    BY <1>5, AdmissionSeals
  <1>6. CASE \/ Dial \/ NoticeClose \/ DropSocket \/ RefuseHelloAck \/ Fault(Open)
             \/ \E s \in DOMAIN outbox : Transmit(s)
             \/ \E c \in Links : Hello(c) \/ Buffer(c) \/ CloseAbandoned(c) \/ Fault({c})
    <2>1. UNCHANGED <<outbox, inbox, issued, turnTerminals, attachTerminals>>
      BY <1>6 DEF Dial, NoticeClose, DropSocket, Hangup, RefuseHelloAck, Fault, Close, CloseAbandoned, Transmit,
         Hello, Buffer, plugin, storage, history
    <2> QED
      BY <2>1, WireSeals
  <1>7. CASE Retains
    <2>1. UNCHANGED <<outbox, issued, turnTerminals, attachTerminals>>
      BY <1>7 DEF Retains, Project, CompactInbox, DeleteSession, plugin, history
    <2>2. /\ DOMAIN inbox' = DOMAIN inbox
          /\ \A s \in DOMAIN inbox : inbox'[s] = inbox[s] \/ inbox'[s].disposition = "discarded"
      BY <1>7, RetentionRows DEF IInv, TypeOK, Entries
    <2> QED
      BY <2>1, <2>2 DEF SealsOK
  <1> QED
    BY <1>1, <1>2, <1>3, <1>4, <1>5, <1>6, <1>7 DEF Next, Retains

LEMMA InitSeals == Init => SealsOK
  <1> SUFFICES ASSUME Init PROVE SealsOK
    OBVIOUS
  <1>1. LegacyTail \in Nat /\ IInv
    BY BoundsAreNat, BoundsAssumption, InitIInv
  <1>2. /\ issued = [i \in 1..LegacyTail |-> Inert] /\ Len(issued) = LegacyTail
        /\ DOMAIN turnTerminals = {} /\ DOMAIN attachTerminals = {}
    BY <1>1 DEF Init
  <1>3. /\ \A s \in DOMAIN outbox : outbox[s].id \in 1..Len(issued)
        /\ \A s \in DOMAIN inbox : inbox[s].disposition = "accepted"
    BY <1>1 DEF Init, IInv, IdsOK
  <1> QED
    BY <1>2, <1>3 DEF SealsOK, Terminal, Inert

\* Until a spool file is lost, both journals seal a turn with the same terminal, and no event of a
\* sealed turn is ever ignored: the spool seals the turn first and the wire keeps its order.
THEOREM SealsAreShared == Spec => [](SpoolKept => SealsAgree)
  <1>1. /\ recreations \in Nat /\ (SpoolKept => IInv) /\ LossInv /\ (SpoolKept => SealsOK) /\ [Next]_vars
        => (SpoolKept => SealsOK)'
    BY NextSeals, LossIsForGood DEF LossInv
  <1>2. Init => (SpoolKept => SealsOK)
    BY InitSeals
  <1>3. (SpoolKept => SealsOK) => (SpoolKept => SealsAgree)
    BY DEF SealsOK, SealsAgree
  <1> QED
    BY <1>1, <1>2, <1>3, InvariantHolds, LossInvariant, PTL DEF Spec
=============================================================================
