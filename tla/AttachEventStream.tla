------------------------- MODULE AttachEventStream -------------------------
(***************************************************************************)
(* The plugin -> gateway half of attach-v1 for one agent: the event outbox *)
(* of the plugin's SQLite spool (attach_spool.py), the socket loop that    *)
(* drains it (attach_client_v1.py), the gateway's ingress (ingress-v1.ts)  *)
(* and the durable inbox it admits frames into (storage.ts).               *)
(*                                                                         *)
(* Both databases survive every fault; everything else is lost with the    *)
(* connection or the process that held it.  A fresh dial gets a fresh      *)
(* connection number, so frames of an old socket may still reach the       *)
(* gateway after the plugin has dialed again, as they do in the code.      *)
(*                                                                         *)
(* Frames are admitted one at a time.  acceptAttachEvents commits a whole  *)
(* batch, but where a batch ends depends only on a zero-delay timer, so a  *)
(* rolled-back tail leaves what a shorter batch would have left.           *)
(* Scheduled deliveries, which also bind a delivery id when they are       *)
(* admitted, are not among the kinds.                                      *)
(*                                                                         *)
(* Two writers touch a journaled row again: the retention sweep, which     *)
(* takes the content out of a projected row, and the deletion of a chat    *)
(* session, which blanks every row of it.  Deleting a bot deletes its      *)
(* stream, the inbox with it, and is left out.                             *)
(*                                                                         *)
(* A definition that only breaks one of the code's rules, and that no      *)
(* specification here uses, stands before the definition it would replace: *)
(* it is the bug the properties are tested against.                        *)
(***************************************************************************)
EXTENDS Naturals, Sequences, FiniteSets

CONSTANTS
    Turns,            \* turn ids an event may name
    NoTurn,           \* the turn of an event that names none
    Kinds,            \* the event kinds the plugin may journal
    CapabilitySets,   \* what a gateway may negotiate on a connection
    MaxInFlightEvents,\* negotiated unacked-frame window
    AdmissionBatch,   \* ATTACH_V1_EVENT_ADMISSION_BATCH
    HealLimit,        \* MAX_HEALED_SEQUENCE_HOLES
    LegacyTail,       \* sequences an older plugin had issued at the start
    MaxSequence,      \* bound: the last sequence the plugin issues
    MaxLinks,         \* bound: connections ever dialed
    MaxFaults,        \* bound: closes that are nobody's decision
    MaxDrops,         \* bound: replies lost to socket backpressure
    MaxOvertaken,     \* bound: frames discarded with the buffer they forced out
    MaxRecreations,   \* bound: times the spool file is lost
    MaxProjected,     \* bound: the last sequence the projection takes
    MaxDeleted        \* bound: turns of deleted sessions

ASSUME BoundsAssumption ==
    /\ MaxInFlightEvents \in Nat \ {0}
    /\ AdmissionBatch \in Nat \ {0}
    /\ {HealLimit, LegacyTail, MaxSequence, MaxLinks, MaxFaults, MaxDrops,
       MaxOvertaken, MaxRecreations, MaxProjected, MaxDeleted} \subseteq Nat
    /\ LegacyTail <= MaxSequence
    /\ NoTurn \notin Turns

ASSUME KindsAssumption ==
    /\ Kinds \subseteq {"draft", "commit", "interim", "delegation", "media", "presence"}
    /\ CapabilitySets \subseteq SUBSET {"draft", "delegation", "media"}

Links == 1..MaxLinks

\* Media and presence events carry no turnId; every other kind names its turn.
Event == {e \in [kind : Kinds \cup {"presence"}, turn : Turns \cup {NoTurn}] :
             (e.turn = NoTurn) <=> (e.kind \in {"media", "presence"})}

\* The frame a withdrawn or missing sequence number wears: admitted with no
\* capability, names no turn, projects to nothing.
Inert == [kind |-> "presence", turn |-> NoTurn]

\* The same table on both sides of the wire.
EventCapabilities(e) ==
    CASE e.kind = "presence"   -> {}
      [] e.kind = "media"      -> {"media"}
      [] e.kind = "delegation" -> {"delegation"}
      [] OTHER                 -> {"draft"}

\* A commit that does not continue, or any other final event of a turn.
Terminal(e) == e.kind = "commit"

\* A delegation leg may outlive its turn.
NeverSealedBy(e, terminals) == FALSE

SealedBy(e, terminals) == e.turn \in DOMAIN terminals /\ e.kind # "delegation"

\* Kinds the ingress buffers and admits in a batch.
Batched(e) == e.kind = "draft"

VARIABLES
    \* plugin, durable: the spool
    outbox,             \* sequence -> [id, event, acked]
    nextEventSequence,
    eventCursor,        \* highest sequence known durable at the gateway
    turnTerminals,      \* turn -> id of its terminal event
    \* plugin, volatile: the client
    link,               \* the connection last dialed, 0 before the first
    phase,              \* "closed", "hello" (sent), "ready", or "stopped" for good
    capabilities,       \* as negotiated by hello_ack
    sentEvents,         \* sequences occupying a window slot
    \* the sockets
    up, down,           \* per connection, frames in flight
    \* gateway, volatile: the ingress
    server,             \* per connection: "none", "open", "hello", "closed", "superseded"
    granted,            \* per connection, capabilities negotiated
    queue,              \* per connection, buffered ephemeral frames
    current,            \* the connection that owns the agent, 0 for none
    \* gateway, durable: storage
    inbox,              \* sequence -> [id, event, disposition]
    lastEventSequence,
    attachTerminals,    \* turn -> id of the terminal admitted first
    projected,          \* the last accepted sequence marked applied
    stripped,           \* sequences whose content the retention sweep removed
    deleted,            \* turns of deleted chat sessions
    \* history and bounds
    issued,             \* id -> the event it was minted for
    withdrawn,          \* ids whose payload a media cleanup took back
    refusal,            \* the first refusal by either side, or "none"
    faults, drops, overtaken, recreations

plugin == <<outbox, nextEventSequence, eventCursor, turnTerminals>>
client == <<link, phase, capabilities, sentEvents>>
ingress == <<server, granted, queue, current>>
retention == <<projected, stripped, deleted>>
storage == <<inbox, lastEventSequence, attachTerminals, projected, stripped, deleted>>
budget == <<faults, drops, overtaken, recreations>>
history == <<issued, withdrawn, refusal>>
vars == <<plugin, client, up, down, ingress, storage, history, budget>>

Connected == phase \in {"hello", "ready"}
Pending == {s \in DOMAIN outbox : ~outbox[s].acked}
FrameOf(s) == [kind |-> "event", sequence |-> s, id |-> outbox[s].id, event |-> outbox[s].event]

Max0(S) == IF S = {} THEN 0 ELSE CHOOSE m \in S : \A n \in S : n <= m

(***************************************************************************)
(* An older plugin deleted outbox rows, so a spool may start with holes in *)
(* its numbering, before or after the part the gateway already admitted;   *)
(* its ids are the numbers 1..LegacyTail.                                  *)
(***************************************************************************)
Init ==
    /\ issued = [i \in 1..LegacyTail |-> Inert]
    /\ nextEventSequence = LegacyTail + 1
    /\ lastEventSequence \in 0..LegacyTail
    /\ eventCursor \in 0..lastEventSequence
    /\ \E rows \in SUBSET (1..LegacyTail) :
         outbox = [s \in rows |-> [id |-> s, event |-> Inert, acked |-> s <= eventCursor]]
    /\ inbox = [s \in 1..lastEventSequence |-> [id |-> s, event |-> Inert, disposition |-> "accepted"]]
    /\ turnTerminals = [t \in {} |-> 0] /\ attachTerminals = [t \in {} |-> 0]
    /\ projected = lastEventSequence /\ stripped = {} /\ deleted = {}
    /\ link = 0 /\ phase = "closed" /\ capabilities = {} /\ sentEvents = {}
    /\ up = [c \in Links |-> <<>>] /\ down = [c \in Links |-> <<>>]
    /\ server = [c \in Links |-> "none"] /\ granted = [c \in Links |-> {}]
    /\ queue = [c \in Links |-> <<>>] /\ current = 0
    /\ withdrawn = {} /\ refusal = "none"
    /\ faults = 0 /\ drops = 0 /\ overtaken = 0 /\ recreations = 0

----------------------------------------------------------------------------
(* The spool and the plugin's client *)

Put(f, x, v) == [y \in DOMAIN f \cup {x} |-> IF y = x THEN v ELSE f[y]]
FreshId == Len(issued) + 1

\* _queue_event: refused once the turn is sealed, and while connected when the
\* peer has not negotiated the kind; journaled, connected or not, otherwise.
\* Its trailing drain is Transmit: every frame sent is an await of its own, and
\* a drain already under way makes this one wait for the flow lock.
Enqueue(e) ==
    /\ nextEventSequence <= MaxSequence
    /\ phase = "ready" => EventCapabilities(e) \subseteq capabilities
    /\ ~SealedBy(e, turnTerminals)
    /\ outbox' = Put(outbox, nextEventSequence, [id |-> FreshId, event |-> e, acked |-> FALSE])
    /\ turnTerminals' = IF Terminal(e) THEN Put(turnTerminals, e.turn, FreshId) ELSE turnTerminals
    /\ nextEventSequence' = nextEventSequence + 1
    /\ issued' = Append(issued, e)
    /\ UNCHANGED <<eventCursor, client, up, down, ingress, storage, withdrawn, refusal, budget>>

\* begin_media_cleanup: the descriptor of an abandoned upload is withdrawn in
\* place, whether or not the row was sent or acked; number and id stay.
Withdraw(s) ==
    /\ s \in DOMAIN outbox /\ outbox[s].event.kind = "media"
    /\ outbox' = [outbox EXCEPT ![s].event = Inert]
    /\ withdrawn' = withdrawn \cup {outbox[s].id}
    /\ UNCHANGED <<nextEventSequence, eventCursor, turnTerminals, client, up, down, ingress, storage,
                   issued, refusal, budget>>

\* compact_acked_payloads, on a heartbeat: old acked rows lose their payload.
\* The retention age is left open and the pass taken a row at a time.
CompactPending(s) ==
    /\ Connected
    /\ s \in DOMAIN outbox
    /\ outbox[s].event.kind \in {"draft", "commit", "interim"}
    /\ outbox' = [outbox EXCEPT ![s].event = Inert]
    /\ UNCHANGED <<nextEventSequence, eventCursor, turnTerminals, client, up, down, ingress, storage,
                   history, budget>>

Compact(s) ==
    /\ Connected
    /\ s \in DOMAIN outbox /\ outbox[s].acked
    /\ outbox[s].event.kind \in {"draft", "commit", "interim"}
    /\ outbox' = [outbox EXCEPT ![s].event = Inert]
    /\ UNCHANGED <<nextEventSequence, eventCursor, turnTerminals, client, up, down, ingress, storage,
                   history, budget>>

\* connect and _open: the previous socket is fully closed first; the hello
\* carries the spool's event cursor.
Dial ==
    /\ phase = "closed" /\ link < MaxLinks
    /\ link' = link + 1 /\ phase' = "hello" /\ capabilities' = {} /\ sentEvents' = {}
    /\ up' = [up EXCEPT ![link + 1] = <<[kind |-> "hello", eventSequence |-> eventCursor]>>]
    /\ server' = [server EXCEPT ![link + 1] = "open"]
    /\ UNCHANGED <<plugin, down, granted, queue, current, storage, history, budget>>

\* One frame of _drain_events: the lowest pending row not in the window.  A
\* row whose capability was not negotiated stops the drain at that row.
Negotiated(s) == EventCapabilities(outbox[s].event) \subseteq capabilities

Transmit(s) ==
    /\ phase = "ready" /\ s \in Pending \ sentEvents
    /\ Cardinality(sentEvents) < MaxInFlightEvents
    /\ \A r \in Pending : r < s => r \in sentEvents
    /\ \A r \in Pending : r <= s => Negotiated(r)
    /\ up' = [up EXCEPT ![link] = Append(@, FrameOf(s))]
    /\ sentEvents' = sentEvents \cup {s}
    /\ UNCHANGED <<plugin, link, phase, capabilities, down, ingress, storage, history, budget>>

\* Connections the gateway still listens on.
Open == {c \in Links : server[c] \in {"open", "hello"}}

\* watch, _dispatch_inbound: the next frame of the current socket.
Inbound(kind) ==
    /\ Connected /\ down[link] # <<>> /\ Head(down[link]).kind = kind

\* The first refusal is what the history remembers.
Refuse(reason) == refusal' = IF refusal = "none" THEN reason ELSE refusal

\* reconcile_server_resume: the gateway's cursor is authoritative.  A cursor
\* that moves back, or runs past the issued tail over pending rows, refuses
\* the resume and the socket is dropped.
ResumeRefused(eventSequence) ==
    \/ eventSequence < eventCursor
    \/ eventSequence >= nextEventSequence /\ Pending # {}

AdoptResumeTooFar(eventSequence) ==
    /\ outbox' = [s \in DOMAIN outbox |->
                    IF s <= eventSequence + 1 THEN [outbox[s] EXCEPT !.acked = TRUE] ELSE outbox[s]]
    /\ UNCHANGED nextEventSequence

AdoptResume(eventSequence) ==
    IF eventSequence >= nextEventSequence
      THEN nextEventSequence' = eventSequence + 1 /\ UNCHANGED outbox
      ELSE /\ outbox' = [s \in DOMAIN outbox |->
                            IF s <= eventSequence THEN [outbox[s] EXCEPT !.acked = TRUE] ELSE outbox[s]]
           /\ UNCHANGED nextEventSequence

ReceiveHelloAck ==
    /\ Inbound("hello_ack")
    /\ ~ResumeRefused(Head(down[link]).eventSequence)
    /\ AdoptResume(Head(down[link]).eventSequence)
    /\ eventCursor' = Head(down[link]).eventSequence
    /\ capabilities' = Head(down[link]).capabilities
    /\ phase' = "ready"
    /\ down' = [down EXCEPT ![link] = Tail(@)]
    /\ UNCHANGED <<turnTerminals, link, sentEvents, up, ingress, storage, history, budget>>

RefuseHelloAck ==
    /\ Inbound("hello_ack")
    /\ ResumeRefused(Head(down[link]).eventSequence)
    /\ Refuse("resume")
    /\ phase' = "closed" /\ capabilities' = {}
    /\ down' = [down EXCEPT ![link] = <<>>]
    /\ UNCHANGED <<plugin, link, sentEvents, up, ingress, storage, issued, withdrawn, budget>>

\* An ack counts only for a sequence in the window whose row carries that id
\* and is still unacked; the cursor becomes the greatest acked sequence.
AckMatches(ack) ==
    /\ ack.sequence \in sentEvents \cap DOMAIN outbox
    /\ outbox[ack.sequence].id = ack.id
    /\ ~outbox[ack.sequence].acked

Settled(box) == {s \in DOMAIN box : box[s].acked}

ReceiveAck ==
    /\ Inbound("ack")
    /\ LET ack == Head(down[link])
           box == [outbox EXCEPT ![ack.sequence].acked = TRUE]
       IN IF AckMatches(ack)
            THEN /\ outbox' = box
                 /\ eventCursor' = Max0(Settled(box))
                 /\ sentEvents' = sentEvents \ {ack.sequence}
            ELSE UNCHANGED <<outbox, eventCursor, sentEvents>>
    /\ down' = [down EXCEPT ![link] = Tail(@)]
    /\ UNCHANGED <<nextEventSequence, turnTerminals, link, phase, capabilities, up, ingress, storage,
                   history, budget>>

\* A gap first heals what the spool no longer has, each hole with a fresh id,
\* among the sequences already issued; then the whole window is replayed.
HolesAndRows(requestedAfter) ==
    {s \in 1..(nextEventSequence - 1) : s > requestedAfter /\ s <= requestedAfter + HealLimit}

HolesUnhealed(requestedAfter) == {}

Holes(requestedAfter) ==
    {s \in 1..(nextEventSequence - 1) :
        s > requestedAfter /\ s <= requestedAfter + HealLimit /\ s \notin DOMAIN outbox}

Rank(s, S) == Cardinality({r \in S : r < s})

ReceiveGap ==
    /\ Inbound("gap")
    /\ LET holes == Holes(Head(down[link]).requestedAfter)
           n == Cardinality(holes)
       IN /\ outbox' = [s \in DOMAIN outbox \cup holes |->
                           IF s \in holes
                             THEN [id |-> FreshId + Rank(s, holes), event |-> Inert, acked |-> FALSE]
                             ELSE outbox[s]]
          /\ issued' = issued \o [i \in 1..n |-> Inert]
    /\ sentEvents' = {}
    /\ down' = [down EXCEPT ![link] = Tail(@)]
    /\ UNCHANGED <<nextEventSequence, eventCursor, turnTerminals, link, phase, capabilities, up, ingress,
                   storage, withdrawn, refusal, budget>>

\* The watch loop ends: the gateway closed the socket, or the network or the
\* plugin's process failed.  What was sent may still reach the gateway.  A
\* superseded adapter disconnects and never dials again.
Hangup(next) ==
    /\ phase' = next /\ capabilities' = {}
    /\ down' = [down EXCEPT ![link] = <<>>]
    /\ UNCHANGED <<plugin, link, sentEvents, up, ingress, storage, history, drops, overtaken, recreations>>

NoticeClose ==
    /\ Connected /\ link \notin Open
    /\ Hangup(IF server[link] = "superseded" THEN "stopped" ELSE "closed")
    /\ UNCHANGED faults

DropSocket ==
    /\ Connected /\ link \in Open /\ faults < MaxFaults
    /\ faults' = faults + 1
    /\ Hangup("closed")

\* The spool file is lost and created again; the gateway keeps its stream.
RecreateSpool ==
    /\ phase = "closed" /\ recreations < MaxRecreations
    /\ recreations' = recreations + 1
    /\ outbox' = [s \in {} |-> 0] /\ turnTerminals' = [t \in {} |-> 0]
    /\ nextEventSequence' = 1 /\ eventCursor' = 0
    /\ UNCHANGED <<client, up, down, ingress, storage, history, faults, drops, overtaken>>

----------------------------------------------------------------------------
(* The ingress and its storage *)

Arrives(c, kind) == c \in Open /\ up[c] # <<>> /\ Head(up[c]).kind = kind

\* #send drops a frame, silently, when the socket's buffer is over the limit.
Reply(c, frame) ==
    \/ down' = [down EXCEPT ![c] = IF c = link /\ Connected THEN Append(@, frame) ELSE @]
       /\ UNCHANGED drops
    \/ drops < MaxDrops /\ drops' = drops + 1 /\ UNCHANGED down

\* A hello supersedes the previous socket, takes the agent, negotiates and
\* answers with the durable event cursor.
Hello(c) ==
    /\ Arrives(c, "hello") /\ server[c] = "open"
    /\ server' = [d \in Links |-> CASE d = c -> "hello" [] d = current -> "superseded" [] OTHER -> server[d]]
    /\ queue' = [d \in Links |-> IF d = current THEN <<>> ELSE queue[d]]
    /\ current' = c
    /\ \E allowed \in CapabilitySets :
         /\ granted' = [granted EXCEPT ![c] = allowed]
         /\ down' = [down EXCEPT ![c] = IF c = link /\ Connected
                       THEN Append(@, [kind |-> "hello_ack", eventSequence |-> lastEventSequence,
                                       capabilities |-> allowed])
                       ELSE @]
    /\ up' = [d \in Links |-> CASE d = c -> Tail(up[c]) [] d = current -> <<>> [] OTHER -> up[d]]
    /\ UNCHANGED <<plugin, client, storage, history, budget>>

\* #acceptAttachEvent: what one frame is, before anything is written.
VerdictBySequence(frame) ==
    IF frame.sequence <= lastEventSequence THEN "conflict"
    ELSE IF frame.sequence > lastEventSequence + 1 THEN "gap"
    ELSE "next"

VerdictWithoutGap(frame) ==
    IF \E s \in DOMAIN inbox : inbox[s].id = frame.id THEN "duplicate"
    ELSE IF frame.sequence <= lastEventSequence THEN "conflict"
    ELSE "next"

Verdict(frame) ==
    LET known == {s \in DOMAIN inbox : inbox[s].id = frame.id}
    IN IF known # {} THEN (IF known = {frame.sequence} THEN "duplicate" ELSE "conflict")
       ELSE IF frame.sequence <= lastEventSequence THEN "conflict"
       ELSE IF frame.sequence > lastEventSequence + 1 THEN "gap"
       ELSE "next"

\* canAcceptEvent is another component's answer about the frame's thread;
\* media and presence name none and are always acceptable.  The thread of a
\* deleted session is nobody's.
Answers(e) ==
    IF e.turn = NoTurn THEN {TRUE} ELSE IF e.turn \in deleted THEN {FALSE} ELSE BOOLEAN

Disposition(c, frame, authorized) ==
    IF ~(EventCapabilities(frame.event) \subseteq granted[c]) \/ ~authorized THEN "discarded"
    ELSE IF SealedBy(frame.event, attachTerminals) THEN "ignored_terminal"
    ELSE "accepted"

StoreOverwriting(frame, disposition) ==
    /\ inbox' = Put(inbox, frame.sequence,
                     [id |-> frame.id, event |-> frame.event, disposition |-> disposition])
    /\ lastEventSequence' = frame.sequence
    /\ attachTerminals' = IF disposition # "discarded" /\ Terminal(frame.event)
         THEN Put(attachTerminals, frame.event.turn, frame.id) ELSE attachTerminals
    /\ UNCHANGED retention

Store(frame, disposition) ==
    /\ inbox' = Put(inbox, frame.sequence,
                     [id |-> frame.id, event |-> frame.event, disposition |-> disposition])
    /\ lastEventSequence' = frame.sequence
    /\ attachTerminals' =
         IF disposition # "discarded" /\ Terminal(frame.event) /\ frame.event.turn \notin DOMAIN attachTerminals
           THEN Put(attachTerminals, frame.event.turn, frame.id) ELSE attachTerminals
    /\ UNCHANGED retention

AckOf(frame) == [kind |-> "ack", sequence |-> frame.sequence, id |-> frame.id]
GapReply == [kind |-> "gap", requestedAfter |-> lastEventSequence]

\* #admitEvents for one frame.  A discarded frame is journaled, acked and never
\* projected.  A gap empties the buffer, a conflict also closes the socket.
Admit(c, frame, rest) ==
    \/ /\ Verdict(frame) = "next"
       /\ \E authorized \in Answers(frame.event) : Store(frame, Disposition(c, frame, authorized))
       /\ Reply(c, AckOf(frame))
       /\ queue' = [queue EXCEPT ![c] = rest]
       /\ UNCHANGED <<server, current, refusal>>
    \/ /\ Verdict(frame) = "duplicate"
       /\ Reply(c, AckOf(frame))
       /\ queue' = [queue EXCEPT ![c] = rest]
       /\ UNCHANGED <<server, current, storage, refusal>>
    \/ /\ Verdict(frame) = "gap"
       /\ Reply(c, GapReply)
       /\ queue' = [queue EXCEPT ![c] = <<>>]
       /\ UNCHANGED <<server, current, storage, refusal>>
    \/ /\ Verdict(frame) = "conflict"
       /\ Refuse("conflict")
       /\ server' = [server EXCEPT ![c] = "closed"]
       /\ queue' = [queue EXCEPT ![c] = <<>>]
       /\ current' = 0
       /\ UNCHANGED <<storage, down, drops>>

\* An ephemeral frame joins the buffer, which is drained first when it is full.
Buffer(c) ==
    /\ Arrives(c, "event") /\ current = c /\ Batched(Head(up[c]).event)
    /\ Len(queue[c]) < AdmissionBatch
    /\ queue' = [queue EXCEPT ![c] = Append(@, Head(up[c]))]
    /\ up' = [up EXCEPT ![c] = Tail(@)]
    /\ UNCHANGED <<plugin, client, down, server, granted, current, storage, history, budget>>

\* #drainEventQueue, from its zero-delay timer or because the next frame must
\* not overtake the buffer.
DrainQueue(c) ==
    /\ current = c /\ server[c] = "hello" /\ queue[c] # <<>>
    /\ Admit(c, Head(queue[c]), Tail(queue[c]))
    /\ UNCHANGED <<plugin, client, up, granted, issued, withdrawn, faults, overtaken, recreations>>

\* When the drain the next frame forced meets a gap, that frame goes too, even
\* if it is the one that was missing.
DrainAndDiscard(c) ==
    /\ current = c /\ server[c] = "hello" /\ queue[c] # <<>> /\ up[c] # <<>>
    /\ Verdict(Head(queue[c])) = "gap"
    /\ overtaken < MaxOvertaken /\ overtaken' = overtaken + 1
    /\ Admit(c, Head(queue[c]), <<>>)
    /\ up' = [up EXCEPT ![c] = Tail(@)]
    /\ UNCHANGED <<plugin, client, granted, issued, withdrawn, faults, recreations>>

\* Any other event is a wire-order boundary: the buffer is empty before it.
ReceiveEvent(c) ==
    /\ Arrives(c, "event") /\ current = c /\ queue[c] = <<>>
    /\ ~Batched(Head(up[c]).event)
    /\ Admit(c, Head(up[c]), <<>>)
    /\ up' = [up EXCEPT ![c] = Tail(@)]
    /\ UNCHANGED <<plugin, client, granted, issued, withdrawn, faults, overtaken, recreations>>

\* The close handler; frames still in flight on that socket are lost.
Close(C) ==
    /\ server' = [c \in Links |-> IF c \in C THEN "closed" ELSE server[c]]
    /\ queue' = [c \in Links |-> IF c \in C THEN <<>> ELSE queue[c]]
    /\ up' = [c \in Links |-> IF c \in C THEN <<>> ELSE up[c]]
    /\ current' = IF current \in C THEN 0 ELSE current
    /\ UNCHANGED <<plugin, client, down, granted, storage, history, drops, overtaken, recreations>>

\* The peer is gone: the gateway learns of it at some later time.
CloseAbandoned(c) ==
    /\ c \in Open /\ (c # link \/ ~Connected)
    /\ Close({c}) /\ UNCHANGED faults

\* Silence past the heartbeat timeout, a failed admission transaction (1011) or
\* a network fault closes one socket; a gateway restart closes them all.
Fault(C) ==
    /\ C # {} /\ faults < MaxFaults
    /\ faults' = faults + 1
    /\ Close(C)

\* #projectPending marks the accepted rows applied in the order of their
\* numbers; a row that fails is retried, and holds back those behind it.  The
\* legacy rows were projected before the start.
Project(s) ==
    /\ s \in DOMAIN inbox /\ s > projected /\ s <= MaxProjected
    /\ inbox[s].disposition = "accepted"
    /\ \A r \in DOMAIN inbox : r > projected /\ r < s => inbox[r].disposition # "accepted"
    /\ projected' = s
    /\ UNCHANGED <<plugin, client, up, down, ingress, inbox, lastEventSequence, attachTerminals, stripped,
                   deleted, history, budget>>

\* compactAttachPayloads removes the content of an applied row and keeps what
\* it is: its id, kind and turn.  A row of a turn waits for the turn's seal.
\* The retention age and the session's active turn, which is another
\* component's, are left open, and the pass is taken a row at a time.
CompactInbox(s) ==
    /\ s \in DOMAIN inbox \ stripped
    /\ inbox[s].disposition = "accepted" /\ s <= projected
    /\ inbox[s].event.kind \in {"draft", "commit", "delegation", "media"}
    /\ inbox[s].event.turn \in DOMAIN attachTerminals \cup {NoTurn}
    /\ stripped' = stripped \cup {s}
    /\ UNCHANGED <<plugin, client, up, down, ingress, inbox, lastEventSequence, attachTerminals, projected,
                   deleted, history, budget>>

\* deleteNativeBotSession: the rows of a session's turns, projected or not,
\* keep number and id, wear the inert frame and are discarded; the seals stay.
\* Which turns a session has, and that none of them is active, is another
\* component's and left open.
DeleteSession(T) ==
    /\ T # {} /\ T \cap deleted = {} /\ Cardinality(deleted \cup T) <= MaxDeleted
    /\ deleted' = deleted \cup T
    /\ inbox' = [s \in DOMAIN inbox |->
                   IF inbox[s].event.turn \in T
                     THEN [id |-> inbox[s].id, event |-> Inert, disposition |-> "discarded"] ELSE inbox[s]]
    /\ UNCHANGED <<plugin, client, up, down, ingress, lastEventSequence, attachTerminals, projected, stripped,
                   history, budget>>

----------------------------------------------------------------------------
Next ==
    \/ \E e \in Event : Enqueue(e)
    \/ \E s \in DOMAIN outbox : Withdraw(s) \/ Compact(s) \/ Transmit(s)
    \/ Dial \/ NoticeClose \/ DropSocket \/ RecreateSpool
    \/ ReceiveHelloAck \/ RefuseHelloAck \/ ReceiveAck \/ ReceiveGap
    \/ \E c \in Links : Hello(c) \/ Buffer(c) \/ DrainQueue(c) \/ DrainAndDiscard(c) \/ ReceiveEvent(c)
                       \/ CloseAbandoned(c) \/ (c \in Open /\ Fault({c}))
    \/ Fault(Open)
    \/ \E s \in DOMAIN inbox : Project(s) \/ CompactInbox(s)
    \/ \E T \in SUBSET Turns : DeleteSession(T)

Spec == Init /\ [][Next]_vars

\* The event loops on both sides keep running, a supervisor keeps dialing, and
\* a heartbeat every 15 s repeats the drain.  Nothing obliges the bot to issue
\* events, the network to fail or a cleanup to run.
Fairness ==
    /\ WF_vars(Dial) /\ WF_vars(NoticeClose)
    /\ WF_vars(ReceiveHelloAck) /\ WF_vars(ReceiveAck) /\ WF_vars(ReceiveGap)
    /\ WF_vars(\E s \in DOMAIN outbox : Transmit(s))
    /\ \A c \in Links : WF_vars(Hello(c)) /\ WF_vars(Buffer(c)) /\ WF_vars(DrainQueue(c))
                       /\ WF_vars(ReceiveEvent(c)) /\ WF_vars(CloseAbandoned(c))

FairSpec == Spec /\ Fairness
----------------------------------------------------------------------------
(* Properties *)

TypeOK ==
    /\ DOMAIN outbox \subseteq 1..(nextEventSequence - 1)
    /\ outbox \in [DOMAIN outbox -> [id : Nat, event : Event, acked : BOOLEAN]]
    /\ nextEventSequence \in Nat \ {0} /\ eventCursor \in Nat
    /\ DOMAIN turnTerminals \subseteq Turns /\ DOMAIN attachTerminals \subseteq Turns
    /\ link \in 0..MaxLinks /\ phase \in {"closed", "hello", "ready", "stopped"}
    /\ capabilities \in SUBSET {"draft", "delegation", "media"}
    /\ sentEvents \subseteq 1..(nextEventSequence - 1)
    /\ server \in [Links -> {"none", "open", "hello", "closed", "superseded"}]
    /\ granted \in [Links -> SUBSET {"draft", "delegation", "media"}]
    /\ queue \in [Links -> Seq([kind : {"event"}, sequence : Nat, id : Nat, event : Event])]
    /\ current \in 0..MaxLinks
    /\ lastEventSequence \in Nat /\ DOMAIN inbox = 1..lastEventSequence
    /\ inbox \in [DOMAIN inbox -> [id : Nat, event : Event,
                                   disposition : {"accepted", "ignored_terminal", "discarded"}]]
    /\ projected \in 0..lastEventSequence /\ stripped \subseteq DOMAIN inbox /\ deleted \subseteq Turns
    /\ issued \in Seq(Event) /\ withdrawn \subseteq 1..Len(issued)
    /\ refusal \in {"none", "resume", "conflict"}

\* A sequence number never stands for two different events: what the gateway
\* journaled under a number is what the spool holds under it, across replays,
\* healed holes, media withdrawals and reconnects.
OneMeaningPerSequence ==
    \A s \in DOMAIN outbox \cap DOMAIN inbox : outbox[s].id = inbox[s].id

\* "Locally pending events are never skipped": the spool gives up a row only
\* when that very event is in the gateway's inbox.
SettledIsDurable ==
    \A s \in DOMAIN outbox : outbox[s].acked =>
        s \in DOMAIN inbox /\ inbox[s].id = outbox[s].id

\* Two faithful peers never refuse each other: no replay, duplicate or late
\* frame of an old socket closes a connection with a sequence conflict, and no
\* hello_ack moves a cursor the plugin cannot follow.
NeverRefused == refusal = "none"

\* What the gateway journals is the event the plugin issued, unless a media
\* cleanup took the payload back or its session was deleted: the plugin's
\* retention never reaches a row that still has to be delivered.  The gateway's
\* own retention takes the content of a row only when the projection has read
\* it and nothing more of its turn can come.
PayloadKept ==
    /\ \A s \in DOMAIN inbox :
         \/ inbox[s].event = issued[inbox[s].id]
         \/ inbox[s].event = Inert /\ inbox[s].id \in withdrawn
         \/ inbox[s].event = Inert /\ issued[inbox[s].id].turn \in deleted
    /\ \A s \in stripped : s <= projected /\ inbox[s].event.turn \in DOMAIN attachTerminals \cup {NoTurn}

\* Both journals seal a turn with the same terminal event, and nothing the
\* plugin issues arrives for a turn the gateway has sealed.
SealsAgree ==
    /\ \A t \in DOMAIN attachTerminals :
         t \in DOMAIN turnTerminals /\ turnTerminals[t] = attachTerminals[t]
    /\ \A s \in DOMAIN inbox : inbox[s].disposition # "ignored_terminal"

\* The spool, the wire and the inbox together are one ordered log: nothing is
\* received twice or out of order, a number keeps its event, and the sender
\* forgets only what was received.
Log == INSTANCE EventLog WITH
    numbered <- [s \in 1..(nextEventSequence - 1) |->
                   IF s \in DOMAIN outbox THEN outbox[s].id
                   ELSE IF s \in DOMAIN inbox THEN inbox[s].id ELSE 0],
    received <- [s \in 1..lastEventSequence |-> inbox[s].id],
    settled  <- Settled(outbox)

ImplementsLog == Log!Spec

\* Every event the spool holds is eventually known durable at the gateway, past
\* whatever holes an older spool left before it, unless a reply was lost to
\* backpressure (the slot it occupies is then freed only by a reconnect) or a
\* late hello of an abandoned socket superseded the adapter for good.
EventuallyDurable ==
    []((drops = 0) /\ phase # "stopped") =>
        \A s \in 1..MaxSequence : (s \in DOMAIN outbox) ~> (s <= eventCursor)

\* A number of the gateway's journal keeps its id, whatever becomes of the
\* plugin's spool, and its row stays as it was admitted, until the deletion of
\* its session discards and blanks it; a row that was discarded never comes
\* back, and a turn keeps the terminal that sealed it first.
JournalKept ==
    [][/\ \A s \in DOMAIN inbox :
            /\ s \in DOMAIN inbox' /\ inbox'[s].id = inbox[s].id
            /\ \/ inbox'[s] = inbox[s]
               \/ /\ inbox[s].event.turn \in deleted' \ deleted
                  /\ inbox'[s].event = Inert /\ inbox'[s].disposition = "discarded"
       /\ \A t \in DOMAIN attachTerminals :
            t \in DOMAIN attachTerminals' /\ attachTerminals'[t] = attachTerminals[t]]_vars
=============================================================================
