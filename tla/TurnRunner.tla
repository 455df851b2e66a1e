---------------------------- MODULE TurnRunner ----------------------------
(* The turns of one core thread, from the message a person sends to the words *)
(* that reach the transcript: the TurnRunner (turns.ts), the attach adapter    *)
(* whose session it drives (adapters/attach/adapter.ts), the sink that         *)
(* projects the events no live turn claims (adapters/attach/native-sink.ts),   *)
(* the ordered projection with its dead-letter barrier (ingress-v1.ts), and    *)
(* the plugin that runs the turns (adapter.py).                                *)
(*                                                                             *)
(* The gateway and the plugin speak through two durable streams, modelled here *)
(* as what they promise (see EventLog): every command, every event, once and  *)
(* in order.                                                                   *)
(*                                                                             *)
(* One step is one macrotask of the gateway's event loop.  Between the         *)
(* settling of send() and the finally of #runTurn only microtasks run, so no   *)
(* request and no frame comes between them: a turn's end is one step.          *)
(*                                                                             *)
(* A message is a number, and the turn that answers it carries its number.     *)
EXTENDS Naturals, Sequences, SequencesExt, FiniteSets

CONSTANTS
  Approvals,        \* the approvals the agent may ask for
  Decisions,        \* what a device may answer: "approved", "denied"
  MaxMessages,      \* how many messages the person sends
  MaxReplies,       \* how many replies the agent sends in all
  ApprovalMemory,   \* APPROVAL_MEMORY: records the runner keeps for the thread
  TurnBound,        \* whether turnTimeoutSeconds is set
  MaxRestarts       \* how often the gateway or the plugin restarts

ASSUME ConstantsAssumption ==
  /\ {MaxMessages, MaxReplies, MaxRestarts} \subseteq Nat
  /\ ApprovalMemory \in Nat \ {0}
  /\ TurnBound \in BOOLEAN
  /\ Decisions \subseteq {"approved", "denied"}

VARIABLES
  \* --- the gateway, in memory
  queue,       \* #queues: messages waiting for their turn, oldest first
  inflight,    \* #inflight and the adapter's inflightByThread: the live turn
  approvals,   \* #approvals: the remembered records, oldest first
  \* --- the gateway, on disk
  submitted,   \* messages stored: 1..submitted
  steered,     \* a function from the messages sent as a steer to their turn
  record,      \* per turn, what was appended to the transcript for it
  blocked,     \* the event at the head of the inbox is a dead letter
  \* --- the two streams between the gateway and the plugin
  outbox,      \* commands the plugin has not taken
  inbox,       \* events the gateway has not projected
  \* --- the plugin
  active,      \* _active_turn of the thread
  held,        \* turns the harness is running
  sealed,      \* turn_terminals: turns whose terminal the spool journaled
  stopping,    \* turns waiting in _seal_interrupted
  asks,        \* per approval, the harness's own view of it
  heard,       \* what reached the agent: pairs of a message and a turn
  said,        \* per turn, the replies the agent sent: whether each has words
  \* --- what happened (no code reads these)
  frames,      \* per approval, the frames the clients saw
  stopped,     \* turns a person or the bound asked to stop
  lost,        \* messages a gateway restart dropped from memory
  crashed,     \* turns with an event projected but not marked at a crash
  restarts

gatewayMemory == <<queue, inflight, approvals>>
gatewayDisk == <<submitted, steered, record, blocked>>
peer == <<active, held, sealed, stopping, asks, heard, said>>
history == <<frames, stopped, lost, crashed, restarts>>
vars == <<gatewayMemory, gatewayDisk, outbox, inbox, peer, history>>

Messages == 1..MaxMessages
Turns == Messages
NoTurn == 0
Outcomes == {"approved", "denied", "expired"}

\* What a turn may leave in the transcript: its user message apart.
Marker(kind) == [kind |-> kind, reply |-> 0, keyed |-> FALSE]
Reply(n, keyed) == [kind |-> "reply", reply |-> n, keyed |-> keyed]

CommandRecord(kind, turn, message, approval, decision) ==
  [kind |-> kind, turn |-> turn, message |-> message,
   approval |-> approval, decision |-> decision]
TurnCommand(m) == CommandRecord("turn", m, m, "none", "none")
SteerCommand(m, t) == CommandRecord("steer", t, m, "none", "none")
InterruptCommand(t) == CommandRecord("interrupt", t, 0, "none", "none")
ResolveCommand(t, a, d) == CommandRecord("resolve_approval", t, 0, a, d)

EventRecord(kind, turn, reply, blocks, approval, status) ==
  [kind |-> kind, turn |-> turn, reply |-> reply, blocks |-> blocks,
   approval |-> approval, status |-> status]
CommitEvent(t, n, blocks) == EventRecord("commit", t, n, blocks, "none", "none")
TerminalEvent(t, kind) == EventRecord(kind, t, 0, FALSE, "none", "none")
ApprovalEvent(t, a, status) == EventRecord("approval", t, 0, FALSE, a, status)

------------------------------------------------------------------------------
(* The runner's approvals.                                                     *)

Remembered(a) == \E i \in DOMAIN approvals : approvals[i].id = a
Pending(a) == \E i \in DOMAIN approvals :
                 approvals[i].id = a /\ approvals[i].state = "pending"
PendingIn(t) == {a \in Approvals : \E i \in DOMAIN approvals :
                   /\ approvals[i].id = a
                   /\ approvals[i].turn = t
                   /\ approvals[i].state = "pending"}

\* #settleApproval, for each of a set of pending approvals.
SettleApprovals(as, outcome) ==
  /\ approvals' = [i \in DOMAIN approvals |->
       IF approvals[i].id \in as
       THEN [approvals[i] EXCEPT !.state = outcome] ELSE approvals[i]]
  /\ frames' = [a \in Approvals |->
       IF a \in as THEN Append(frames[a], outcome) ELSE frames[a]]

\* #raiseApproval: a second call for an id it remembers is ignored; the oldest
\* record makes room for the newest.
RaiseApproval(a, t) ==
  IF Remembered(a)
  THEN UNCHANGED <<approvals, frames>>
  ELSE LET all == Append(approvals, [id |-> a, turn |-> t, state |-> "pending"])
       IN /\ approvals' = IF Len(all) > ApprovalMemory THEN Tail(all) ELSE all
          /\ frames' = [frames EXCEPT ![a] = Append(@, "pending")]

\* #backendResolvedApproval.
BackendResolvedApproval(a, outcome) ==
  IF Pending(a) THEN SettleApprovals({a}, outcome)
                ELSE UNCHANGED <<approvals, frames>>

\* A mutant: a turn's end leaves its approvals alone.
NothingLapses(t) == {}

\* The approvals #expirePendingApprovals settles when turn t ends.
Lapsing(t) == PendingIn(t)

\* The end of #runTurn for turn t: the live record goes, what is still pending
\* lapses.
EndTurn(t) == /\ inflight' = NoTurn
              /\ SettleApprovals(Lapsing(t), "expired")

AppendTo(t, entries) == record' = [record EXCEPT ![t] = @ \o entries]

------------------------------------------------------------------------------
(* What a person does.                                                         *)

Init == /\ queue = <<>> /\ inflight = NoTurn /\ approvals = <<>>
        /\ submitted = 0 /\ steered = <<>> /\ blocked = FALSE
        /\ record = [t \in Turns |-> <<>>]
        /\ outbox = <<>> /\ inbox = <<>>
        /\ active = NoTurn
        /\ held = {} /\ sealed = {} /\ stopping = {} /\ heard = {}
        /\ asks = [a \in Approvals |-> [state |-> "unasked", turn |-> NoTurn]]
        /\ said = [t \in Turns |-> <<>>]
        /\ frames = [a \in Approvals |-> <<>>]
        /\ stopped = {} /\ lost = {} /\ crashed = {}
        /\ restarts = 0

NewMessage == submitted + 1
MayAsk == submitted < MaxMessages

\* submitUserMessage with no live turn: #commitAndQueue.  Turns may be waiting
\* for startSession.
SubmitMessage ==
  /\ MayAsk /\ inflight = NoTurn
  /\ submitted' = NewMessage
  /\ queue' = Append(queue, NewMessage)
  /\ UNCHANGED <<inflight, approvals, steered, record, blocked, outbox, inbox,
                 peer, history>>

\* submitUserMessage with a live turn: the session's steer queues the command.
SubmitSteer ==
  /\ MayAsk /\ inflight # NoTurn
  /\ submitted' = NewMessage
  /\ steered' = [m \in DOMAIN steered \cup {NewMessage} |->
                   IF m = NewMessage THEN inflight ELSE steered[m]]
  /\ outbox' = Append(outbox, SteerCommand(NewMessage, inflight))
  /\ UNCHANGED <<gatewayMemory, record, blocked, inbox, peer, history>>

\* ... or does not (the endpoint refuses, or throws): the message falls back to
\* a turn of its own.
SubmitSteerRefused ==
  /\ MayAsk /\ inflight # NoTurn
  /\ submitted' = NewMessage
  /\ queue' = Append(queue, NewMessage)
  /\ UNCHANGED <<inflight, approvals, steered, record, blocked, outbox, inbox,
                 peer, history>>

\* #dispatchInterrupt and the session's interrupt: the command goes out, then
\* the turn fails here and now, with the marker the runner's flags select.
StopTurn(kind) ==
  /\ inflight # NoTurn
  /\ outbox' = Append(outbox, InterruptCommand(inflight))
  /\ AppendTo(inflight, <<Marker(kind)>>)
  /\ EndTurn(inflight)
  /\ stopped' = stopped \cup {inflight}
  /\ UNCHANGED <<steered, blocked, inbox, peer, lost, crashed, restarts>>

\* POST /threads/:id/interrupt.
Interrupt == StopTurn("interrupted") /\ UNCHANGED <<queue, submitted>>

\* A whole-message "stop": interrupts, and waits for a turn of its own.
SubmitStopPhrase == /\ MayAsk
                    /\ StopTurn("interrupted")
                    /\ submitted' = NewMessage
                    /\ queue' = Append(queue, NewMessage)

\* A mutant: the bound sends the interrupt and leaves the turn to the agent.
TurnBoundOnlyAsks == /\ TurnBound /\ inflight # NoTurn /\ inflight \notin stopped
                     /\ outbox' = Append(outbox, InterruptCommand(inflight))
                     /\ stopped' = stopped \cup {inflight}
                     /\ UNCHANGED <<gatewayMemory, gatewayDisk, inbox, peer, frames,
                                    lost, crashed, restarts>>

\* The wall-clock bound of #runTurn.
TurnBoundExpires == /\ TurnBound
                    /\ StopTurn("timeLimit")
                    /\ UNCHANGED <<queue, submitted>>

\* resolveApproval by a device, for an approval the runner holds pending.  Any
\* other answer (unknown, not_pending, expired, unsupported) changes nothing.
ResolveApproval(a, decision) ==
  /\ Pending(a) /\ inflight # NoTurn
  /\ outbox' = Append(outbox, ResolveCommand(inflight, a, decision))
  /\ SettleApprovals({a}, decision)
  /\ UNCHANGED <<queue, inflight, gatewayDisk, inbox, peer,
                 stopped, lost, crashed, restarts>>

------------------------------------------------------------------------------
(* #runTurn.                                                                   *)

\* A mutant: the turn does not wait for the one before it.
StartTurnAtOnce ==
  /\ queue # <<>>
  /\ queue' = Tail(queue)
  /\ inflight' = Head(queue)
  /\ outbox' = Append(outbox, TurnCommand(Head(queue)))
  /\ UNCHANGED <<approvals, gatewayDisk, inbox, peer, history>>

\* send(): the turn command is journaled and the turn is live.
StartTurn ==
  /\ inflight = NoTurn /\ queue # <<>>
  /\ queue' = Tail(queue)
  /\ inflight' = Head(queue)
  /\ outbox' = Append(outbox, TurnCommand(Head(queue)))
  /\ UNCHANGED <<approvals, gatewayDisk, inbox, peer, history>>

\* The profile cannot queue it: send() rejects, the turn has failed.
RefuseTurn ==
  /\ inflight = NoTurn /\ queue # <<>>
  /\ queue' = Tail(queue)
  /\ AppendTo(Head(queue), <<Marker("failed")>>)
  /\ UNCHANGED <<inflight, approvals, submitted, steered, blocked, outbox, inbox,
                 peer, history>>

------------------------------------------------------------------------------
(* The projection: #projectPending hands the head of the inbox to the adapter  *)
(* of a live turn (handleV1Event), else to the sink (AttachNativeSink.handle). *)

IsLive(event) == event.turn = inflight
IsTerminal(event) == event.kind \in {"failed", "interrupted"}

\* The sink knows a reply it has appended by its external id.
IsKeyed(event) == Reply(event.reply, TRUE) \in Range(record[event.turn])

\* A mutant: a reply no live turn waits for is dropped.
AppendedWhenLive(event) ==
  CASE event.kind = "commit" /\ IsLive(event) ->
         IF event.blocks THEN <<Reply(event.reply, FALSE)>> ELSE <<Marker("failed")>>
    [] IsTerminal(event) /\ IsLive(event) -> <<Marker("failed")>>
    [] IsTerminal(event) /\ ~IsLive(event) -> <<Marker(event.kind)>>
    [] OTHER -> <<>>

\* What projecting the event appends to the transcript.
Appended(event) ==
  CASE event.kind = "commit" /\ IsLive(event) ->
         IF event.blocks THEN <<Reply(event.reply, FALSE)>> ELSE <<Marker("failed")>>
    [] event.kind = "commit" /\ ~IsLive(event) ->
         IF IsKeyed(event) THEN <<>> ELSE <<Reply(event.reply, TRUE)>>
    [] IsTerminal(event) /\ IsLive(event) -> <<Marker("failed")>>
    [] IsTerminal(event) /\ ~IsLive(event) -> <<Marker(event.kind)>>
    [] OTHER -> <<>>

\* Nobody claims it: not the adapter, whose turn is over; not the sink, which
\* takes replies with blocks and terminals only; and the turn's command and
\* thread still exist, so it is no orphan either.
IsDeclined(event) == /\ ~IsLive(event)
                     /\ \/ event.kind = "approval"
                        \/ event.kind = "commit" /\ ~event.blocks

Projects(event) == inbox # <<>> /\ event = Head(inbox) /\ ~blocked

\* The adapter's commit, failed, cancelled and interrupted cases, and the
\* sink's: a commit ends the live turn whether or not it says it continues.
ProjectReplyOrTerminal ==
  \E event \in Range(inbox) :
    /\ Projects(event) /\ ~IsDeclined(event) /\ event.kind # "approval"
    /\ AppendTo(event.turn, Appended(event))
    /\ IF IsLive(event) THEN EndTurn(event.turn)
                        ELSE UNCHANGED <<inflight, approvals, frames>>
    /\ inbox' = Tail(inbox)
    /\ UNCHANGED <<queue, submitted, steered, blocked, outbox, peer,
                   stopped, lost, crashed, restarts>>

\* The adapter's approval case.
ProjectApproval ==
  \E event \in Range(inbox) :
    /\ Projects(event) /\ ~IsDeclined(event) /\ event.kind = "approval"
    /\ IF event.status = "pending"
       THEN RaiseApproval(event.approval, event.turn)
       ELSE BackendResolvedApproval(event.approval, event.status)
    /\ inbox' = Tail(inbox)
    /\ UNCHANGED <<queue, inflight, gatewayDisk, outbox, peer,
                   stopped, lost, crashed, restarts>>

\* A turn that is over is never live again, so every retry is declined too, and
\* the event becomes the dead letter that holds back what follows it.  Releasing
\* it retries it, and it is declined again.
DeclineEvent ==
  /\ \E event \in Range(inbox) : Projects(event) /\ IsDeclined(event)
  /\ blocked' = TRUE
  /\ UNCHANGED <<gatewayMemory, submitted, steered, record, outbox, inbox,
                 peer, history>>

\* The process ends: everything in memory is gone, and the inbox is projected
\* again from its first unmarked event.
ForgetMemory == /\ restarts < MaxRestarts
                /\ restarts' = restarts + 1
                /\ queue' = <<>>
                /\ inflight' = NoTurn
                /\ approvals' = <<>>
                /\ lost' = lost \cup Range(queue) \cup ({inflight} \ {NoTurn})
                /\ UNCHANGED <<submitted, steered, blocked, outbox, inbox, peer,
                               frames, stopped>>

GatewayRestarts == ForgetMemory /\ UNCHANGED <<record, crashed>>

\* ... after the callback appended to the transcript and before the event was
\* marked applied.
GatewayCrashesBeforeMark ==
  /\ ForgetMemory
  /\ \E event \in Range(inbox) :
       /\ Projects(event) /\ ~IsDeclined(event)
       /\ AppendTo(event.turn, Appended(event))
       /\ crashed' = crashed \cup {event.turn}

------------------------------------------------------------------------------
(* The plugin.                                                                 *)

\* The spool takes no event of a turn after its terminal.
Emits(event) == inbox' = IF event.turn \in sealed THEN inbox ELSE Append(inbox, event)

Takes(kind) == outbox # <<>> /\ Head(outbox).kind = kind /\ outbox' = Tail(outbox)

\* _on_turn, _handle_turn.
TakeTurn == /\ Takes("turn")
            /\ LET command == Head(outbox)
               IN /\ active' = command.turn
                  /\ held' = held \cup {command.turn}
                  /\ heard' = heard \cup {<<command.message, command.turn>>}
            /\ UNCHANGED <<gatewayMemory, gatewayDisk, inbox, sealed, stopping,
                           asks, said, history>>

\* _holds_turn: a frame that names another turn than the thread's own.
IsHeld(command) == active = command.turn

\* _handle_steer: the words join the running turn ...
TakeSteer == /\ Takes("steer") /\ IsHeld(Head(outbox))
             /\ heard' = heard \cup {<<Head(outbox).message, active>>}
             /\ UNCHANGED <<gatewayMemory, gatewayDisk, inbox, active, held, sealed,
                            stopping, asks, said, history>>

\* ... or, like an interrupt, the frame is answered on the turn it names.
RefuseFrame == /\ Takes("steer") \/ Takes("interrupt")
               /\ ~IsHeld(Head(outbox))
               /\ Emits(TerminalEvent(Head(outbox).turn, "failed"))
               /\ sealed' = sealed \cup {Head(outbox).turn}
               /\ UNCHANGED <<gatewayMemory, gatewayDisk, active, held, stopping,
                              asks, heard, said, history>>

\* _handle_interrupt: "/stop" is injected, and the seal waits out its grace.
TakeInterrupt == /\ Takes("interrupt") /\ IsHeld(Head(outbox))
                 /\ stopping' = stopping \cup {active}
                 /\ UNCHANGED <<gatewayMemory, gatewayDisk, inbox, active, held,
                                sealed, asks, heard, said, history>>

\* _cleanup_turn.
Cleanup(t) == /\ held' = held \ {t}
              /\ active' = IF active = t THEN NoTurn ELSE active

\* A mutant: after the grace, it seals the turn the thread is running by then.
SealWhateverRuns ==
  \E t \in stopping :
    /\ stopping' = stopping \ {t}
    /\ IF active # NoTurn
       THEN /\ Emits(TerminalEvent(active, "interrupted"))
            /\ sealed' = sealed \cup {active}
            /\ Cleanup(active)
       ELSE UNCHANGED <<inbox, active, held, sealed>>
    /\ UNCHANGED <<gatewayMemory, gatewayDisk, outbox, asks, heard, said, history>>

\* _seal_interrupted.
SealInterrupted ==
  \E t \in stopping :
    /\ stopping' = stopping \ {t}
    /\ IF active = t
       THEN /\ Emits(TerminalEvent(t, "interrupted"))
            /\ sealed' = sealed \cup {t}
            /\ Cleanup(t)
       ELSE UNCHANGED <<inbox, active, held, sealed>>
    /\ UNCHANGED <<gatewayMemory, gatewayDisk, outbox, asks, heard, said, history>>

Waits(t) == \E a \in Approvals : asks[a].state = "waiting" /\ asks[a].turn = t

RepliesSaid == Cardinality({pair \in Turns \X (1..MaxReplies) : pair[2] <= Len(said[pair[1]])})

\* send_draft and send_done.
Says(t, blocks) ==
  /\ said' = IF t \in sealed THEN said ELSE [said EXCEPT ![t] = Append(@, blocks)]
  /\ Emits(CommitEvent(t, Len(said[t]) + 1, blocks))

\* send: the reply that ends the turn.  It has blocks, or media only.
FinalReply ==
  \E t \in held, blocks \in BOOLEAN :
    /\ RepliesSaid < MaxReplies /\ ~Waits(t)
    /\ Says(t, blocks)
    /\ sealed' = sealed \cup {t}
    /\ Cleanup(t)
    /\ UNCHANGED <<gatewayMemory, gatewayDisk, outbox, stopping, asks, heard, history>>

\* send, for a reply part-way through the run ("continues").
InterimReply ==
  /\ active \in held \ sealed /\ RepliesSaid < MaxReplies
  /\ Says(active, TRUE)
  /\ UNCHANGED <<gatewayMemory, gatewayDisk, outbox, active, held, sealed, stopping,
                 asks, heard, history>>

\* _safe_failed, send_cancelled: the run ends with nothing to say.
FailRun ==
  \E t \in held :
    /\ Emits(TerminalEvent(t, "failed"))
    /\ sealed' = sealed \cup {t}
    /\ Cleanup(t)
    /\ UNCHANGED <<gatewayMemory, gatewayDisk, outbox, stopping, asks, heard, said,
                   history>>

\* pre_approval_request: the harness parks the request and the card is raised.
AskApproval(a) ==
  /\ active \in held /\ asks[a].state = "unasked"
  /\ asks' = [asks EXCEPT ![a] = [state |-> "waiting", turn |-> active]]
  /\ Emits(ApprovalEvent(active, a, "pending"))
  /\ UNCHANGED <<gatewayMemory, gatewayDisk, outbox, active, held, sealed, stopping,
                 heard, said, history>>

\* post_approval_response: observe_approval_event names the thread's active turn.
Answers(a, outcome) ==
  /\ asks' = [asks EXCEPT ![a].state = outcome]
  /\ IF active = NoTurn THEN UNCHANGED inbox
                       ELSE Emits(ApprovalEvent(active, a, outcome))

\* The harness's own deadline, or a stop, ends the wait.
LapseApproval(a) ==
  /\ asks[a].state = "waiting"
  /\ Answers(a, "expired")
  /\ UNCHANGED <<gatewayMemory, gatewayDisk, outbox, active, held, sealed, stopping,
                 heard, said, history>>

\* _handle_approval_command injects "/approve" or "/deny" into the thread: the
\* harness answers a request of the thread that is waiting, if there is one.
TakeResolution ==
  /\ Takes("resolve_approval")
  /\ IF \E a \in Approvals : asks[a].state = "waiting"
     THEN \E a \in Approvals : /\ asks[a].state = "waiting"
                               /\ Answers(a, Head(outbox).decision)
     ELSE UNCHANGED <<asks, inbox>>
  /\ UNCHANGED <<gatewayMemory, gatewayDisk, active, held, sealed, stopping,
                 heard, said, history>>

\* The plugin's process ends with every run it carried.
PluginRestarts ==
  /\ restarts < MaxRestarts
  /\ restarts' = restarts + 1
  /\ active' = NoTurn
  /\ held' = {}
  /\ stopping' = {}
  /\ asks' = [a \in Approvals |->
       IF asks[a].state = "waiting" THEN [asks[a] EXCEPT !.state = "expired"]
                                    ELSE asks[a]]
  /\ UNCHANGED <<gatewayMemory, gatewayDisk, outbox, inbox, sealed, heard, said,
                 frames, stopped, lost, crashed>>

------------------------------------------------------------------------------
Next ==
  \/ SubmitMessage \/ SubmitSteer \/ SubmitSteerRefused \/ SubmitStopPhrase
  \/ Interrupt \/ TurnBoundExpires
  \/ \E a \in Approvals : \E d \in Decisions : ResolveApproval(a, d)
  \/ StartTurn \/ RefuseTurn
  \/ ProjectReplyOrTerminal \/ ProjectApproval \/ DeclineEvent
  \/ GatewayRestarts \/ GatewayCrashesBeforeMark
  \/ TakeTurn \/ TakeSteer \/ RefuseFrame \/ TakeInterrupt \/ TakeResolution
  \/ SealInterrupted \/ FinalReply \/ InterimReply \/ FailRun
  \/ \E a \in Approvals : AskApproval(a) \/ LapseApproval(a)
  \/ PluginRestarts

Spec == Init /\ [][Next]_vars

\* The runner chains the next turn by itself, and the timer of the bound fires.
FairSpec == Spec /\ WF_vars(StartTurn \/ RefuseTurn) /\ WF_vars(TurnBoundExpires)

------------------------------------------------------------------------------
(* Properties.                                                                 *)

ApprovalRecord == [id : Approvals, turn : Turns, state : Outcomes \cup {"pending"}]
Entry == [kind : {"reply", "failed", "interrupted", "timeLimit"},
          reply : 0..MaxReplies, keyed : BOOLEAN]

\* Every variable has its type.
TypeOK ==
  /\ submitted \in 0..MaxMessages
  /\ queue \in Seq(1..submitted)
  /\ inflight \in {NoTurn} \cup (1..submitted)
  /\ approvals \in Seq(ApprovalRecord) /\ Len(approvals) <= ApprovalMemory
  /\ DOMAIN steered \subseteq 1..submitted /\ Range(steered) \subseteq 1..submitted
  /\ \A t \in Turns : record[t] \in Seq(Entry)
  /\ blocked \in BOOLEAN
  /\ active \in {NoTurn} \cup held
  /\ held \subseteq 1..submitted /\ sealed \subseteq 1..submitted
  /\ stopping \subseteq stopped
  /\ \A a \in Approvals : asks[a].state \in Outcomes \cup {"unasked", "waiting"}
  /\ \A t \in Turns : said[t] \in Seq(BOOLEAN) /\ Len(said[t]) <= MaxReplies

\* turns.ts: every message starts one turn or joins the live one, turns run one
\* at a time in the order of their messages, and none runs twice.
Over == {t \in 1..submitted : record[t] # <<>> \/ t \in stopped}
          \ ({inflight} \cup Range(queue) \cup lost)
Promise == INSTANCE TurnQueue WITH
  asked <- submitted, waiting <- Range(queue),
  running <- {inflight} \ {NoTurn},
  over <- Over, steered <- DOMAIN steered
ImplementsTurnQueue == Promise!Spec

\* Every reply the agent sent with words in it is in the transcript of its turn
\* or still in the inbox: what the adapter of a live turn does not claim, the
\* sink commits (native-sink.ts, "a gateway restart does not orphan a reply").
\* And it is there once: only a reply the live turn appended (without the
\* external id) just before the gateway died, its event not yet marked, is
\* appended a second time, by the sink.
EveryReplyOnce ==
  /\ \A t \in Turns : \A n \in DOMAIN said[t] : said[t][n] =>
       \/ \E i \in DOMAIN record[t] : record[t][i].reply = n
       \/ \E i \in DOMAIN inbox : inbox[i].turn = t /\ inbox[i].reply = n
  /\ \A t \in Turns : \A i, j \in DOMAIN record[t] :
       i # j /\ record[t][i].reply = record[t][j].reply /\ record[t][i].reply # 0 =>
         t \in crashed /\ record[t][i].keyed # record[t][j].keyed

\* "No approval outlives its turn" (turns.ts): a card is announced once and
\* settled once, and while the runner remembers it, it is pending only as long
\* as its turn is live.
CardsAreSettled ==
  /\ \A a \in Approvals : frames[a] \in {<<>>, <<"pending">>}
                             \cup {<<"pending", outcome>> : outcome \in Outcomes}
  /\ \A i \in DOMAIN approvals :
       /\ approvals[i].state = "pending" => approvals[i].turn = inflight
       /\ Len(frames[approvals[i].id]) = IF approvals[i].state = "pending" THEN 1 ELSE 2

\* A steer or an interrupt acts on the turn it was sent for and on no other:
\* words reach the agent only in the turn their message started or joined, and
\* a turn is sealed or marked interrupted only if somebody asked to stop it,
\* though the seal waits out a grace in which the thread may move on.
CommandsHitTheirTurn ==
  /\ \A pair \in heard :
       pair[2] = IF pair[1] \in DOMAIN steered THEN steered[pair[1]] ELSE pair[1]
  /\ \A i \in DOMAIN inbox : inbox[i].kind = "interrupted" => inbox[i].turn \in stopped
  /\ \A t \in Turns : Marker("interrupted") \in Range(record[t]) => t \in stopped

\* Every message is answered, joins a turn, or was dropped by a restart.
EveryMessageSettles ==
  \A m \in Messages :
    m <= submitted ~> (m \in DOMAIN steered \/ m \in Over \/ m \in lost)
=============================================================================
