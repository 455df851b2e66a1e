------------------------ MODULE AttachCommandStream ------------------------
(***************************************************************************)
(* The gateway -> plugin half of attach-v1 for one agent: the command      *)
(* outbox of the gateway (storage.ts), the flush that keeps a window of it *)
(* on the wire and the ACK handling (ingress-v1.ts), the plugin's command  *)
(* inbox (attach_spool.py) and the loop that journals, acknowledges and    *)
(* then executes each command (attach_client_v1.py, adapter.py).           *)
(*                                                                         *)
(* Both databases survive a crash, a dial gets a fresh connection number,  *)
(* and frames of an abandoned socket may reach the gateway late.  Byte     *)
(* budgets are left to the frame window; a send refused by a full socket   *)
(* is a drop.  commandCursor of the ingress only ever repeats what the     *)
(* acked column says and has no variable of its own.                       *)
(*                                                                         *)
(* Command kinds stand for what the code does with them: "turn" is handed  *)
(* to a background task, "resolve" is awaited and may raise, "action" is   *)
(* marked done by its own terminal event, "deletion" is never replaced by  *)
(* a discard.                                                              *)
(*                                                                         *)
(* A definition that only breaks one of the code's rules, and that no      *)
(* specification here uses, stands before the definition it would replace. *)
(***************************************************************************)
EXTENDS Naturals, Sequences, FiniteSets

CONSTANTS
    Kinds,            \* the command kinds the gateway may queue
    CapabilitySets,   \* what a plugin build may offer and the gateway allow
    MaxInFlight,      \* negotiated unacked-frame window
    PriorCommands,    \* commands the plugin took from a gateway database since lost
    MaxSequence,      \* bound: the last sequence the gateway issues
    MaxLinks,         \* bound: connections ever dialed
    MaxFaults,        \* bound: closes and crashes that are nobody's decision
    MaxDrops,         \* bound: command frames refused by a full socket
    MaxRaises,        \* bound: handlers that raise
    MaxCancels,       \* bound: turns cancelled before their ACK arrived
    MaxRecreations    \* bound: times the spool file is lost

ASSUME BoundsAssumption ==
    /\ MaxInFlight \in Nat \ {0}
    /\ {PriorCommands, MaxSequence, MaxLinks, MaxFaults, MaxDrops, MaxRaises,
       MaxCancels, MaxRecreations} \subseteq Nat

AllCapabilities == {"draft", "approvals", "session_deletion", "cozyapps"}

ASSUME KindsAssumption ==
    /\ Kinds \subseteq {"turn", "resolve", "deletion", "action"}
    /\ CapabilitySets \subseteq SUBSET AllCapabilities

Links == 1..MaxLinks

\* commandCapabilities
CommandCapabilities(command) ==
    CASE command = "discard"  -> {}
      [] command = "resolve"  -> {"approvals"}
      [] command = "deletion" -> {"session_deletion"}
      [] command = "action"   -> {"cozyapps"}
      [] OTHER                -> {"draft"}

VARIABLES
    \* gateway, durable
    rows,               \* sequence -> [id, command, acked, cancelled]
    streamed,           \* whether attach_streams has a row for the agent
    nextCommandSequence,
    deletionCapability, \* as remembered from the last hello
    \* plugin, durable: the spool
    inbox,              \* sequence -> [id, command, processed]
    commandCursor,
    \* plugin, volatile
    link, phase,        \* as in the event stream: "closed", "hello", "ready", "stopped"
    capabilities,
    backlog,            \* sequences journaled and waiting for their handler
    running,            \* <<sequence, n>>: its n-th execution, not yet returned
    \* the sockets
    up, down,
    \* gateway, volatile
    server, granted, current,
    sent,               \* per connection, sequences occupying a window slot
    sendCursor,
    \* history and bounds
    issued,             \* id -> the command it was minted for
    taken,              \* <<id, command>> as the plugin ever journaled it
    ran,                \* id -> times its handler started
    reopened,           \* ids whose native interaction was made answerable again
    refusal,            \* the first refusal by either side, or "none"
    lateHello,          \* whether a hello was read after that of a later dial
    faults, drops, raises, cancels, recreations

outbox == <<rows, streamed, nextCommandSequence, deletionCapability>>
spool == <<inbox, commandCursor>>
client == <<link, phase, capabilities, backlog, running>>
ingress == <<server, granted, current, sent, sendCursor>>
history == <<issued, taken, ran, reopened, refusal, lateHello>>
budget == <<faults, drops, raises, cancels, recreations>>
vars == <<outbox, spool, client, up, down, ingress, history, budget>>

Connected == phase \in {"hello", "ready"}
Open == {c \in Links : server[c] \in {"open", "hello"}}
Max0(S) == IF S = {} THEN 0 ELSE CHOOSE m \in S : \A n \in S : n <= m
Min(S) == CHOOSE m \in S : \A n \in S : m <= n
Rank(s, S) == Cardinality({r \in S : r < s})
Ascending(S) == [i \in 1..Cardinality(S) |-> CHOOSE s \in S : Rank(s, S) = i - 1]
Refuse(reason) == refusal' = IF refusal = "none" THEN reason ELSE refusal

Init ==
    /\ rows = [s \in {} |-> 0] /\ streamed = FALSE /\ nextCommandSequence = 1
    /\ deletionCapability = FALSE
    /\ inbox = [s \in 1..PriorCommands |-> [id |-> s, command |-> "turn", processed |-> TRUE]]
    /\ commandCursor = PriorCommands
    /\ link = 0 /\ phase = "closed" /\ capabilities = {} /\ backlog = <<>> /\ running = {}
    /\ up = [c \in Links |-> <<>>] /\ down = [c \in Links |-> <<>>]
    /\ server = [c \in Links |-> "none"] /\ granted = [c \in Links |-> {}] /\ current = 0
    /\ sent = [c \in Links |-> {}] /\ sendCursor = [c \in Links |-> 0]
    /\ issued = [i \in 1..PriorCommands |-> "turn"]
    /\ taken = {<<i, "turn">> : i \in 1..PriorCommands}
    /\ ran = [i \in 1..PriorCommands |-> 1]
    /\ reopened = {} /\ refusal = "none" /\ lateHello = FALSE
    /\ faults = 0 /\ drops = 0 /\ raises = 0 /\ cancels = 0 /\ recreations = 0

----------------------------------------------------------------------------
(* The gateway's outbox and the flush *)

EveryRow(table) == DOMAIN table

Unacked(table) == {s \in DOMAIN table : ~table[s].acked}

AckCursorOrZero(table, next) == IF Unacked(table) # {} THEN Min(Unacked(table)) - 1 ELSE 0

\* attachCommandCursor: just below the first unacked row, or the issued tail.
AckCursor(table, next) == IF Unacked(table) # {} THEN Min(Unacked(table)) - 1 ELSE next - 1

\* pendingAttachCommands reads a cancelled row as the discard of its command.
WireCommand(row) == IF row.cancelled THEN "discard" ELSE row.command
CommandFrame(table, s) ==
    [kind |-> "command", sequence |-> s, id |-> table[s].id, command |-> WireCommand(table[s])]

Lacks(row, allowed) == ~(CommandCapabilities(WireCommand(row)) \subseteq allowed)

\* #flush up to the row it stops at: the lowest unacked rows above the send
\* cursor that the window has room for, never past a deletion the peer cannot
\* take.
BatchPastDeletion(table, allowed, cursor, slots) ==
    LET waiting == {s \in Unacked(table) : s > cursor}
    IN {s \in waiting : Rank(s, waiting) < slots}

BatchBeyondWindow(table, allowed, cursor, slots) == {s \in Unacked(table) : s > cursor}

Batch(table, allowed, cursor, slots) ==
    LET waiting == {s \in Unacked(table) : s > cursor}
        stuck == {s \in waiting : table[s].command = "deletion" /\ Lacks(table[s], allowed)}
    IN {s \in waiting : Rank(s, waiting) < slots /\ \A r \in stuck : s < r}

\* discardAttachCommandAndReopenNativeInteraction for every row of S.
Downgrade(table, S) ==
    [s \in DOMAIN table |-> IF s \in S THEN [table[s] EXCEPT !.cancelled = TRUE] ELSE table[s]]

\* #flush: what a full socket refuses, and everything after it, is not sent;
\* the row it refused may already have been turned into a discard.
Flush(c, table, allowed, occupied, cursor, wire) ==
    LET batch == Batch(table, allowed, cursor, MaxInFlight - Cardinality(occupied))
        Outcome(tried, gone) ==
            LET lacking == {s \in tried : Lacks(table[s], allowed)}
                after == Downgrade(table, lacking)
            IN /\ rows' = after
               /\ reopened' = reopened \cup {table[s].id : s \in {r \in lacking : table[r].command = "resolve"}}
               /\ sent' = [sent EXCEPT ![c] = occupied \cup gone]
               /\ sendCursor' = [sendCursor EXCEPT ![c] = Max0(gone \cup {cursor})]
               /\ down' = [down EXCEPT ![c] = IF c = link /\ Connected
                     THEN wire \o [i \in 1..Cardinality(gone) |-> CommandFrame(after, Ascending(gone)[i])]
                     ELSE @]
    IN \/ Outcome(batch, batch) /\ UNCHANGED drops
       \/ /\ drops < MaxDrops /\ drops' = drops + 1
          /\ \E refused \in batch : Outcome({s \in batch : s <= refused}, {s \in batch : s < refused})

FlushCurrent(table) ==
    IF current # 0
      THEN Flush(current, table, granted[current], sent[current], sendCursor[current], down[current])
      ELSE rows' = table /\ UNCHANGED <<reopened, sent, sendCursor, down, drops>>

\* enqueueAttachCommand for an id the outbox does not hold.
Queued(command) ==
    [s \in DOMAIN rows \cup {nextCommandSequence} |->
        IF s = nextCommandSequence
          THEN [id |-> Len(issued) + 1, command |-> command, acked |-> FALSE, cancelled |-> FALSE]
          ELSE rows[s]]

\* #enqueue, the native resolution and the session deletion: a row is appended
\* whether or not the peer is connected, but never for a peer known to lack
\* the capability; then the window is refilled.
Enqueue(command) ==
    /\ nextCommandSequence <= MaxSequence
    /\ IF command = "deletion" THEN deletionCapability
       ELSE current # 0 => CommandCapabilities(command) \subseteq granted[current]
    /\ streamed' = TRUE /\ nextCommandSequence' = nextCommandSequence + 1
    /\ issued' = Append(issued, command) /\ ran' = Append(ran, 0)
    /\ FlushCurrent(Queued(command))
    /\ UNCHANGED <<deletionCapability, spool, client, up, server, granted, current, taken,
                   refusal, lateHello, faults, raises, cancels, recreations>>

\* flushQueuedCommands, or #enqueue of a command id already in the outbox.
FlushQueued ==
    /\ current # 0 /\ FlushCurrent(rows)
    /\ UNCHANGED <<streamed, nextCommandSequence, deletionCapability, spool, client, up, server, granted,
                   current, issued, taken, ran, refusal, lateHello, faults, raises, cancels, recreations>>

\* cancelUnackedTurn and its callers: the Task is told the turn was discarded.
\* Nothing is flushed.
Cancel(s) ==
    /\ cancels < MaxCancels
    /\ s \in DOMAIN rows /\ rows[s].command = "turn" /\ ~rows[s].acked /\ ~rows[s].cancelled
    /\ rows' = [rows EXCEPT ![s].cancelled = TRUE]
    /\ cancels' = cancels + 1
    /\ UNCHANGED <<streamed, nextCommandSequence, deletionCapability, spool, client, up, down, ingress, issued,
                   taken, ran, reopened, refusal, lateHello, faults, drops, raises, recreations>>

Arrives(c, kind) == c \in Open /\ up[c] # <<>> /\ Head(up[c]).kind = kind

\* A mutant: the cursor names the next command, not the last one taken.
ReconcileTooFar(table, resume) ==
    [s \in DOMAIN table |-> IF s <= resume + 1 THEN [table[s] EXCEPT !.acked = TRUE] ELSE table[s]]

\* reconcileAttachResume for a stream this gateway has: everything up to the
\* plugin's cursor is acknowledged, sent or not.
Reconcile(table, resume) ==
    [s \in DOMAIN table |-> IF s <= resume THEN [table[s] EXCEPT !.acked = TRUE] ELSE table[s]]

Supersede(c) == [d \in Links |-> CASE d = c -> "hello" [] d = current -> "superseded" [] OTHER -> server[d]]

Outdated(c) == \E d \in Links : d > c /\ server[d] \notin {"none", "open"}

\* A hello takes the agent from the socket that had it, reconciles, negotiates,
\* answers with the ACK cursor and refills the window.
Hello(c) ==
    /\ Arrives(c, "hello") /\ server[c] = "open"
    /\ LET hello == Head(up[c])
           next == IF streamed THEN nextCommandSequence ELSE hello.commandSequence + 1
           table == Reconcile(rows, hello.commandSequence)
           cursor == AckCursor(table, next)
       IN /\ hello.commandSequence < next
          /\ streamed' = TRUE /\ nextCommandSequence' = next
          /\ deletionCapability' = ("session_deletion" \in hello.capabilities)
          /\ granted' = [granted EXCEPT ![c] = hello.capabilities]
          /\ server' = Supersede(c) /\ current' = c
          /\ up' = [d \in Links |-> CASE d = c -> Tail(up[c]) [] d = current -> <<>> [] OTHER -> up[d]]
          /\ Flush(c, table, hello.capabilities, {}, cursor,
                   Append(down[c], [kind |-> "hello_ack", commandSequence |-> cursor,
                                    capabilities |-> hello.capabilities]))
    /\ lateHello' = (lateHello \/ Outdated(c))
    /\ UNCHANGED <<spool, client, issued, taken, ran, refusal, faults, raises, cancels, recreations>>

\* A resume cursor beyond the issued tail is refused; by then the previous
\* socket has already been told it is superseded.
RefuseHello(c) ==
    /\ Arrives(c, "hello") /\ server[c] = "open"
    /\ streamed /\ Head(up[c]).commandSequence >= nextCommandSequence
    /\ Refuse("gateway_resume")
    /\ server' = [Supersede(c) EXCEPT ![c] = "closed"]
    /\ up' = [d \in Links |-> IF d \in {c, current} THEN <<>> ELSE up[d]]
    /\ current' = 0
    /\ UNCHANGED <<outbox, spool, client, down, granted, sent, sendCursor, issued, taken, ran,
                   reopened, lateHello, budget>>

\* An ACK counts for a sequence in the connection's window that still carries
\* that id, and frees its slot.
ReceiveAck(c) ==
    /\ Arrives(c, "ack") /\ c = current
    /\ LET ack == Head(up[c])
           known == ack.sequence \in sent[c] \cap DOMAIN rows /\ rows[ack.sequence].id = ack.id
       IN IF known
            THEN Flush(c, [rows EXCEPT ![ack.sequence].acked = TRUE], granted[c],
                       sent[c] \ {ack.sequence}, sendCursor[c], down[c])
            ELSE UNCHANGED <<rows, reopened, sent, sendCursor, down, drops>>
    /\ up' = [up EXCEPT ![c] = Tail(@)]
    /\ UNCHANGED <<streamed, nextCommandSequence, deletionCapability, spool, client, server, granted, current,
                   issued, taken, ran, refusal, lateHello, faults, raises, cancels, recreations>>

\* The close handler; frames still in flight to the gateway are lost.
Close(C) ==
    /\ server' = [c \in Links |-> IF c \in C THEN "closed" ELSE server[c]]
    /\ up' = [c \in Links |-> IF c \in C THEN <<>> ELSE up[c]]
    /\ current' = IF current \in C THEN 0 ELSE current
    /\ UNCHANGED <<outbox, spool, client, down, granted, sent, sendCursor, history, drops, raises, cancels,
                   recreations>>

CloseAbandoned(c) ==
    /\ c \in Open /\ (c # link \/ ~Connected)
    /\ Close({c}) /\ UNCHANGED faults

\* A network fault or a heartbeat timeout closes a socket.  A gateway restart
\* closes them all.
Fault(C) ==
    /\ C # {} /\ faults < MaxFaults
    /\ faults' = faults + 1
    /\ Close(C)

----------------------------------------------------------------------------
(* The plugin *)

EverythingTaken == DOMAIN inbox
NothingAgain == {}
Unprocessed == {s \in DOMAIN inbox : ~inbox[s].processed}

\* connect: the hello carries the spool's command cursor, and every command
\* journaled but not executed is handed to its handler again before the socket
\* is read.
Dial ==
    /\ phase = "closed" /\ link < MaxLinks
    /\ link' = link + 1 /\ phase' = "hello" /\ capabilities' = {}
    /\ backlog' = Ascending(Unprocessed)
    /\ \E offered \in CapabilitySets :
         up' = [up EXCEPT ![link + 1] =
                  <<[kind |-> "hello", commandSequence |-> commandCursor, capabilities |-> offered]>>]
    /\ server' = [server EXCEPT ![link + 1] = "open"]
    /\ UNCHANGED <<outbox, spool, running, down, granted, current, sent, sendCursor, history, budget>>

\* The socket loop reads a frame only when the previous one is dealt with.
Inbound(kind) ==
    /\ Connected /\ backlog = <<>>
    /\ down[link] # <<>> /\ Head(down[link]).kind = kind

\* reconcile_server_resume: the gateway's cursor is adopted, unless it moved
\* back, which drops the socket.
ReceiveHelloAck ==
    /\ Inbound("hello_ack")
    /\ LET ack == Head(down[link])
       IN \/ /\ ack.commandSequence >= commandCursor
             /\ commandCursor' = ack.commandSequence /\ capabilities' = ack.capabilities /\ phase' = "ready"
             /\ down' = [down EXCEPT ![link] = Tail(@)]
             /\ UNCHANGED refusal
          \/ /\ ack.commandSequence < commandCursor
             /\ Refuse("plugin_resume")
             /\ phase' = "closed" /\ capabilities' = {}
             /\ down' = [down EXCEPT ![link] = <<>>]
             /\ UNCHANGED commandCursor
    /\ UNCHANGED <<outbox, inbox, link, backlog, running, up, ingress, issued, taken, ran, reopened,
                   lateHello, budget>>

\* accept_command, before anything is written.
Verdict(frame) ==
    LET known == {s \in DOMAIN inbox : inbox[s].id = frame.id}
    IN IF known # {} THEN (IF known = {frame.sequence} THEN "duplicate" ELSE "conflict")
       ELSE IF frame.sequence = commandCursor + 1 THEN "accepted"
       ELSE IF frame.sequence > commandCursor + 1 THEN "gap"
       ELSE "conflict"

Journal(frame) ==
    /\ inbox' = [s \in DOMAIN inbox \cup {frame.sequence} |->
                   IF s = frame.sequence
                     THEN [id |-> frame.id, command |-> frame.command, processed |-> FALSE]
                     ELSE inbox[s]]
    /\ commandCursor' = frame.sequence
    /\ taken' = taken \cup {<<frame.id, frame.command>>}

AckOf(frame) == [kind |-> "ack", sequence |-> frame.sequence, id |-> frame.id]

\* A new command is journaled, acknowledged, and then dispatched; a known one
\* only acknowledged.  A gap or a conflict is what two faithful peers never
\* meet: only its occurrence is recorded, not the gap frame it would cost.
ReceiveCommand ==
    /\ Inbound("command")
    /\ LET frame == Head(down[link])
           verdict == Verdict(frame)
       IN /\ IF verdict = "accepted" THEN Journal(frame) /\ backlog' = <<frame.sequence>>
             ELSE UNCHANGED <<spool, taken, backlog>>
          /\ up' = IF verdict \in {"accepted", "duplicate"} /\ link \in Open
                     THEN [up EXCEPT ![link] = Append(@, AckOf(frame))] ELSE up
          /\ IF verdict \in {"gap", "conflict"} THEN Refuse(verdict) ELSE UNCHANGED refusal
    /\ down' = [down EXCEPT ![link] = Tail(@)]
    /\ UNCHANGED <<outbox, link, phase, capabilities, running, ingress, issued, ran, reopened, lateHello,
                   budget>>

\* The ACK is an await on a socket the gateway may have closed: it raises, the
\* loop ends, and the command journaled just before has not been dispatched.
Hangup(next) ==
    /\ phase' = next /\ capabilities' = {}
    /\ down' = [down EXCEPT ![link] = <<>>]
    /\ UNCHANGED <<link, outbox, up, ingress, issued, ran, reopened, refusal, lateHello, drops, raises, cancels,
                   recreations>>

HangupPhase == IF server[link] = "superseded" THEN "stopped" ELSE "closed"

ReceiveCommandUnanswered ==
    /\ Inbound("command") /\ link \notin Open
    /\ Verdict(Head(down[link])) = "accepted"
    /\ Journal(Head(down[link]))
    /\ Hangup(HangupPhase) /\ backlog' = <<>>
    /\ UNCHANGED <<running, faults>>

MarkProcessed(s) == inbox' = [r \in DOMAIN inbox |-> IF r = s THEN [inbox[r] EXCEPT !.processed = TRUE] ELSE inbox[r]]

Start(s) == ran' = [ran EXCEPT ![inbox[s].id] = @ + 1]
Execution(s) == <<s, ran[inbox[s].id] + 1>>

\* _dispatch_command for one journaled command.  A turn is handed to a task and
\* recorded in one stretch of synchronous code; a discard or a deletion has no
\* handler; an awaited resolution keeps the loop until it returns; an app action
\* runs on its own and is recorded when it ends.
Dispatch ==
    /\ backlog # <<>>
    /\ LET s == Head(backlog)
           command == inbox[s].command
       IN \/ /\ command \in {"discard", "deletion"}
             /\ MarkProcessed(s) /\ backlog' = Tail(backlog)
             /\ UNCHANGED <<running, ran>>
          \/ /\ command = "turn"
             /\ Start(s) /\ MarkProcessed(s) /\ backlog' = Tail(backlog)
             /\ UNCHANGED running
          \/ /\ command = "resolve" /\ \A e \in running : e[1] # s
             /\ Start(s) /\ running' = running \cup {Execution(s)}
             /\ UNCHANGED <<inbox, backlog>>
          \/ /\ command = "action"
             /\ Start(s) /\ running' = running \cup {Execution(s)} /\ backlog' = Tail(backlog)
             /\ UNCHANGED inbox
    /\ UNCHANGED <<outbox, commandCursor, link, phase, capabilities, up, down, ingress, issued, taken,
                   reopened, refusal, lateHello, budget>>

\* The awaited handler returns, or raises and leaves the command unrecorded
\* until the next connect.
FinishResolve(e) ==
    /\ e \in running /\ inbox[e[1]].command = "resolve"
    /\ running' = running \ {e} /\ backlog' = Tail(backlog)
    /\ \/ MarkProcessed(e[1]) /\ UNCHANGED raises
       \/ raises < MaxRaises /\ raises' = raises + 1 /\ UNCHANGED inbox
    /\ UNCHANGED <<outbox, commandCursor, link, phase, capabilities, up, down, ingress, history, faults, drops,
                   cancels, recreations>>

\* finish_cozyapp_action: the terminal event is journaled first, which a
\* connection that has not negotiated it refuses.
FinishAction(e) ==
    /\ e \in running /\ inbox[e[1]].command = "action"
    /\ running' = running \ {e}
    /\ IF phase = "ready" /\ "cozyapps" \notin capabilities THEN UNCHANGED inbox ELSE MarkProcessed(e[1])
    /\ UNCHANGED <<outbox, commandCursor, link, phase, capabilities, backlog, up, down, ingress, history, budget>>

\* The watch loop notices that the gateway closed, or loses the network; the
\* process and what it runs survive.
NoticeClose ==
    /\ Connected /\ backlog = <<>> /\ link \notin Open
    /\ Hangup(HangupPhase)
    /\ UNCHANGED <<spool, backlog, running, taken, faults>>

DropSocket ==
    /\ Connected /\ backlog = <<>> /\ link \in Open /\ faults < MaxFaults
    /\ faults' = faults + 1
    /\ Hangup("closed")
    /\ UNCHANGED <<spool, backlog, running, taken>>

\* The plugin's process dies and a supervisor starts it again.
Crash ==
    /\ Connected /\ faults < MaxFaults
    /\ faults' = faults + 1
    /\ Hangup("closed") /\ backlog' = <<>> /\ running' = {}
    /\ UNCHANGED <<spool, taken>>

\* The spool file is gone when the process starts again.
RecreateSpool ==
    /\ phase = "closed" /\ recreations < MaxRecreations
    /\ recreations' = recreations + 1
    /\ inbox' = [s \in {} |-> 0] /\ commandCursor' = 0
    /\ running' = {}
    /\ UNCHANGED <<outbox, link, phase, capabilities, backlog, up, down, ingress, history, faults, drops, raises,
                   cancels>>

----------------------------------------------------------------------------
Next ==
    \/ \E command \in Kinds : Enqueue(command)
    \/ FlushQueued
    \/ \E s \in DOMAIN rows : Cancel(s)
    \/ \E c \in Links : Hello(c) \/ RefuseHello(c) \/ ReceiveAck(c) \/ CloseAbandoned(c)
                       \/ (c \in Open /\ Fault({c}))
    \/ Fault(Open)
    \/ Dial \/ ReceiveHelloAck \/ ReceiveCommand \/ ReceiveCommandUnanswered \/ Dispatch
    \/ \E e \in running : FinishResolve(e) \/ FinishAction(e)
    \/ NoticeClose \/ DropSocket \/ Crash \/ RecreateSpool

Spec == Init /\ [][Next]_vars

\* Both event loops keep running, a supervisor keeps dialing and a handler that
\* was started returns.  Nobody has to queue, cancel or fail anything, and a
\* window that a full socket left short waits for the next enqueue or ACK.
Fairness ==
    /\ WF_vars(Dial) /\ WF_vars(ReceiveHelloAck) /\ WF_vars(ReceiveCommand) /\ WF_vars(Dispatch)
    /\ WF_vars(NoticeClose)
    /\ WF_vars(\E e \in running : FinishResolve(e)) /\ WF_vars(\E e \in running : FinishAction(e))
    /\ \A c \in Links : WF_vars(Hello(c)) /\ WF_vars(ReceiveAck(c)) /\ WF_vars(CloseAbandoned(c))

FairSpec == Spec /\ Fairness

----------------------------------------------------------------------------
(* Properties *)

Row == [id : Nat, command : Kinds, acked : BOOLEAN, cancelled : BOOLEAN]

TypeOK ==
    /\ DOMAIN rows \subseteq 1..(nextCommandSequence - 1) /\ rows \in [DOMAIN rows -> Row]
    /\ {streamed, lateHello} \subseteq BOOLEAN /\ deletionCapability \in BOOLEAN /\ nextCommandSequence \in Nat \ {0}
    /\ DOMAIN inbox \subseteq 1..commandCursor
    /\ inbox \in [DOMAIN inbox -> [id : Nat, command : Kinds \cup {"discard", "turn"}, processed : BOOLEAN]]
    /\ commandCursor \in Nat
    /\ link \in 0..MaxLinks /\ phase \in {"closed", "hello", "ready", "stopped"}
    /\ capabilities \in SUBSET AllCapabilities
    /\ backlog \in Seq(DOMAIN inbox) /\ running \subseteq (DOMAIN inbox) \X Nat
    /\ server \in [Links -> {"none", "open", "hello", "closed", "superseded"}]
    /\ granted \in [Links -> SUBSET AllCapabilities] /\ current \in 0..MaxLinks
    /\ sent \in [Links -> SUBSET DOMAIN rows] /\ sendCursor \in [Links -> Nat]
    /\ \A c \in Links : Cardinality(sent[c]) <= MaxInFlight
    /\ issued \in Seq(Kinds \cup {"turn"}) /\ Len(ran) = Len(issued)
    /\ reopened \subseteq 1..Len(issued)
    /\ refusal \in {"none", "gateway_resume", "plugin_resume", "gap", "conflict"}

\* Nothing is carried out twice.  A turn starts at most once, however often ACKs,
\* sockets and processes are lost between journaling it and recording that it ran;
\* and a card shown as answerable again belongs to a resolution that never reached
\* a handler, so a person who answers again does not answer twice.  The hello of
\* an abandoned socket, read after its successor's and naming fewer capabilities,
\* is the exception: its cursor predates what the successor delivered.
NothingRunsTwice ==
    /\ \A i \in DOMAIN issued : issued[i] = "turn" => ran[i] <= 1
    /\ lateHello \/ \A i \in reopened : ran[i] = 0

\* A new or recreated spool is never driven into a gap or a sequence conflict by
\* the commands that follow its hello.
NoGapLoop == refusal \notin {"gap", "conflict", "plugin_resume"}

\* A committed deletion survives every reconnect of an older peer: it is retired
\* only after a capable plugin took it as the deletion it is.  A hello sent before
\* the spool was lost and read after its successor's still carries the old cursor.
DeletionIsDelivered ==
    \A s \in DOMAIN rows :
        rows[s].command = "deletion" /\ rows[s].acked => lateHello \/ <<rows[s].id, "deletion">> \in taken

\* "Without replaying an already-ACKed command": what the plugin once took and the
\* gateway retired is not handed over again, even when the spool that took it is
\* gone.  A hello sent before the loss and read after its successor's retires what
\* the successor's connection is still handing over.
RetiredNeverReplayed ==
    [][lateHello' \/ \A s \in DOMAIN inbox' : s \notin DOMAIN inbox =>
         ~\E r \in DOMAIN rows : /\ rows[r].id = inbox'[s].id /\ rows[r].acked
                                /\ \E t \in taken : t[1] = rows[r].id]_vars

\* The outbox, the wire and the inbox are one ordered log: the plugin takes
\* commands in order and the gateway forgets only what was taken.
Log == INSTANCE EventLog WITH
    numbered <- [s \in 1..(nextCommandSequence - 1) |-> rows[s].id],
    received <- [s \in 1..commandCursor |-> inbox[s].id],
    settled  <- {s \in DOMAIN rows : rows[s].acked}

ImplementsLog == Log!Spec

\* Every queued command is eventually carried out and recorded by the plugin,
\* unless a full socket refused a frame, a handler raised, or the adapter was
\* superseded for good.
EventuallyCarriedOut ==
    [](drops = 0 /\ raises = 0 /\ phase # "stopped") =>
        \A s \in 1..MaxSequence :
            (s \in DOMAIN rows) ~> (s \in DOMAIN inbox /\ inbox[s].processed)
=============================================================================
