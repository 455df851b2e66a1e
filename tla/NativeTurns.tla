---------------------------- MODULE NativeTurns ----------------------------
(* The turns of one native bot (native-data-plane.ts): a person writes in the  *)
(* bot's selected conversation, the first words open a turn, words sent while  *)
(* it runs steer it.  The agent that runs the turn may lose it; what is left   *)
(* of the turn is then ended by its own frames, by the hello of the agent that *)
(* comes back, or by a sweep, and the steers nobody answered are asked again   *)
(* as a new turn (promotion) or noted in the conversation as undelivered.      *)
(*                                                                             *)
(* Messages are numbered in the order they are sent.  A turn has the number of *)
(* the message its command carries: a message opens at most one turn.          *)
(*                                                                             *)
(* The attach lanes are the ones of AttachCommandStream and AttachEventStream, *)
(* taken here at their promise: commands are taken in order, once, and events  *)
(* arrive in order, once.  Times are not measured: a lease or a ceiling may be *)
(* over whenever the sweep looks.                                              *)
EXTENDS Naturals, Sequences, FiniteSets

CONSTANTS
  MaxMessages,    \* messages the person sends
  MediaMessages,  \* those that carry a photo or a file
  MaxSessions,    \* conversations of the bot
  MaxLosses,      \* how often the agent process restarts without its turns
  MaxAbsences,    \* how often its socket is lost
  MaxRestarts,    \* how often the gateway restarts
  MaxActs,        \* how often the person stops, clears or changes conversations
  MaxFrames,      \* drafts and interim replies the agent emits
  MaxEvents       \* how many of all these happen in one behaviour

ASSUME NativeTurnsAssumption ==
  /\ {MaxMessages, MaxSessions} \subseteq Nat \ {0}
  /\ MediaMessages \subseteq 1..MaxMessages
  /\ {MaxLosses, MaxAbsences, MaxRestarts, MaxActs, MaxFrames, MaxEvents} \subseteq Nat

VARIABLES
  gw,        \* the gateway, on disk: see Init
  lost,      \* #turnOwnerLost: turns on the owner-loss lease
  stopping,  \* #interruptAcked: turns a person asked to stop
  preparing, \* sends that await prepareContext: <<message, session>>
  live,      \* the agent's socket is up
  media,     \* ... and negotiated the media capability
  declares,  \* the agent names its turns in its hello and refuses frames of others
  holds,     \* _active_turn: per conversation, the turn the agent runs
  context,   \* per conversation, the messages that run has heard
  sealed,    \* _sealed_turns: turns this agent process ended
  uplink,    \* events on their way to the gateway, oldest first
  heard,     \* messages some run of the agent heard
  used       \* how often each bounded thing happened

memory == <<lost, stopping, preparing>>
agent == <<declares, holds, context, sealed, heard>>
vars == <<gw, memory, live, media, agent, uplink, used>>

Messages == 1..MaxMessages
Turns == Messages
Sessions == 1..MaxSessions
None == 0

Command(kind, t, m) == [kind |-> kind, turn |-> t, msg |-> m]
Event(kind, s, t, ms) == [kind |-> kind, session |-> s, turn |-> t, msgs |-> ms]

Use(what, bound) ==
  /\ used[what] < bound
  /\ used.losses + used.absences + used.restarts + used.acts + used.frames + used.sends
       < MaxEvents
  /\ used' = [used EXCEPT ![what] = @ + 1]

\* The numbers in ns, smallest first.
Ascending(ns) == [i \in 1..Cardinality(ns) |->
                    CHOOSE n \in ns : Cardinality({k \in ns : k <= n}) = i]

------------------------------------------------------------------------------
(* The gateway's rows.                                                         *)

\* Queued commands are cancelled, the others stay in their order.
Remaining(outbox, cancelled) ==
  LET kept == Ascending({i \in DOMAIN outbox : outbox[i] \notin cancelled})
  IN [i \in DOMAIN kept |-> outbox[kept[i]]]

Queued(g, t) == \E i \in DOMAIN g.outbox : g.outbox[i] = Command("turn", t, t)

\* nativeBotTurnDelivery: undefined for a turn whose command was cancelled.
Carried(g, t) == Queued(g, t) \/ t \in g.acked

\* pendingNativeSteers of one turn: rows nothing has settled, oldest first.
OpenSteers(g, t) == {m \in Messages : g.pending[m] = t}

\* settlePendingNativeSteers, for a turn or a whole conversation.
Settled(g, ms) == [g EXCEPT !.pending = [m \in Messages |-> IF m \in ms THEN None ELSE @[m]]]

\* clearNativeBotTurn and recordNativeBotTerminal, the durable part of #finish.
Finished(g, t, status) ==
  LET s == g.home[t]
  IN IF g.active[s] # t THEN g
     ELSE [g EXCEPT !.active[s] = None, !.terminal[t] = status]

\* A mutant: steers still queued for the dead turn stay queued.
NothingCancelled(g, ms) == g.outbox

\* #cancelUndeliveredSteer for each of ms: what the agent has not taken goes.
Undelivered(g, ms) ==
  Remaining(g.outbox, {Command("steer", t, m) : t \in Turns, m \in ms})

\* The rows behind a promotion: the first steer is settled, the others move.
Rows(g, open, first) ==
  [m \in Messages |-> IF m = first THEN None
                      ELSE IF m \in open THEN first ELSE g.pending[m]]

\* #promoteSteer: the oldest open steer of a dead turn becomes a turn, those
\* behind it steer that turn.  Where the conversation is not the selected one
\* they are noted as undelivered (#failSteerDelivery), their commands kept.
Promoted(g, t) ==
  LET s == g.home[t]
      open == OpenSteers(g, t)
      steers == Ascending(open)
      first == steers[1]
      commands == [i \in DOMAIN steers |-> IF i = 1 THEN Command("turn", first, first)
                                           ELSE Command("steer", first, steers[i])]
  IN IF open = {} THEN g
     ELSE IF g.selected # s \/ g.active[s] # None
     THEN [Settled(g, open) EXCEPT !.noted = @ \cup open]
     ELSE [g EXCEPT
       !.outbox = Undelivered(g, open) \o commands,
       !.pending = Rows(g, open, first),
       !.active[s] = first,
       !.promoted = @ \cup {first}]

\* A mutant: the seal has a status no app knows.
LostToOwner(g, t) == Promoted(Finished(g, t, "owner_lost"), t)

\* #sealOwnerLoss.
OwnerLost(g, t) == Promoted(Finished(g, t, "failed"), t)

\* #sealOwnerLoss for each of a set of active turns.  Only the one of the selected
\* conversation can be promoted, so their order does not matter.
OwnersLost(g, ts) ==
  LET t == g.active[g.selected]
      others == ts \ {t}
      open == {m \in Messages : g.pending[m] \in others}
      h == [Settled(g, open) EXCEPT
              !.active = [s \in Sessions |-> IF @[s] \in others THEN None ELSE @[s]],
              !.terminal = [u \in Turns |-> IF u \in others THEN "failed" ELSE @[u]],
              !.noted = @ \cup open]
  IN IF t \in ts THEN OwnerLost(h, t) ELSE h

\* A mutant: a turn the agent never took counts as one it could have lost.
AnyActive == {gw.active[s] : s \in Sessions} \ {None}

\* #reconcilableTurns: the active turns, of every conversation, that the agent
\* took.
Reconcilable == {gw.active[s] : s \in Sessions} \cap gw.acked

------------------------------------------------------------------------------
Init ==
  /\ gw = [selected |-> 1, sessions |-> 1,
           home |-> [m \in Messages |-> None],      \* the conversation of a sent message
           active |-> [s \in Sessions |-> None],    \* active_turn_id
           outbox |-> <<>>,                         \* commands not yet taken
           acked |-> {},                            \* turns the agent took
           pending |-> [m \in Messages |-> None],   \* open bot_native_pending_steers
           terminal |-> [t \in Turns |-> "none"],   \* bot_native_turn_terminals
           steers |-> {}, promoted |-> {},          \* messages sent as steers, made turns
           noted |-> {},                            \* marked as undelivered
           answered |-> {}]                         \* heard by a run whose reply is stored
  /\ lost = {} /\ stopping = {} /\ preparing = {}
  /\ live = FALSE /\ media = FALSE
  /\ declares \in BOOLEAN
  /\ holds = [s \in Sessions |-> None]
  /\ context = [s \in Sessions |-> {}]
  /\ sealed = {} /\ heard = {}
  /\ uplink = <<>>
  /\ used = [losses |-> 0, absences |-> 0, restarts |-> 0, acts |-> 0, frames |-> 0, sends |-> 0]

------------------------------------------------------------------------------
(* The person.                                                                 *)

Reachable(m) == m \in MediaMessages /\ live => media

\* #send and #sendAttachment up to the await: no turn is active yet.
Prepare ==
  /\ gw.active[gw.selected] = None
  /\ Use("sends", MaxMessages)
  /\ preparing' = preparing \cup {<<used.sends + 1, gw.selected>>}
  /\ UNCHANGED <<gw, lost, stopping, live, media, agent, uplink>>

\* A mutant: the chat is not read again after the await.
StillFree(s) == TRUE

\* The chat is the one that was read before the await, and still free.
Unchanged(s) == gw.selected = s /\ gw.active[s] = None

\* The send goes on: it opens its turn, or it is refused.
OpenTurn ==
  \E p \in preparing :
    LET m == p[1]
        s == p[2]
    IN /\ preparing' = preparing \ {p}
       /\ gw' = IF Unchanged(s) /\ Reachable(m)
                THEN [gw EXCEPT !.home[m] = s, !.active[s] = m,
                                !.outbox = Append(@, Command("turn", m, m))]
                ELSE gw
       /\ UNCHANGED <<lost, stopping, live, media, agent, uplink, used>>

\* #send while a turn runs: a steer, remembered until something proves it heard.
Steer ==
  LET m == used.sends + 1
      s == gw.selected
      t == gw.active[s]
  IN /\ t # None /\ m \notin MediaMessages
     /\ Use("sends", MaxMessages)
     /\ gw' = [gw EXCEPT !.home[m] = s, !.pending[m] = t, !.steers = @ \cup {m},
                         !.outbox = Append(@, Command("steer", t, m))]
     /\ UNCHANGED <<memory, live, media, agent, uplink>>

Interrupted(g, t) == [g EXCEPT !.outbox = Append(@, Command("interrupt", t, None))]

\* #stop.
Stop ==
  LET t == gw.active[gw.selected]
  IN /\ t # None
     /\ Use("acts", MaxActs)
     /\ gw' = Interrupted(gw, t)
     /\ stopping' = stopping \cup {t}
     /\ UNCHANGED <<lost, preparing, live, media, agent, uplink>>

\* #newSession, and #reset, which also interrupts the turn it leaves behind: the
\* turn stays the old conversation's active turn.
NewSession(clear) ==
  LET t == gw.active[gw.selected]
      left == IF clear /\ t # None THEN Interrupted(gw, t) ELSE gw
  IN /\ gw.sessions < MaxSessions
     /\ Use("acts", MaxActs)
     /\ gw' = [left EXCEPT !.sessions = @ + 1, !.selected = gw.sessions + 1]
     /\ UNCHANGED <<memory, live, media, agent, uplink>>

\* #adoptSession: back to another conversation.
AdoptSession ==
  \E s \in 1..gw.sessions :
    /\ s # gw.selected
    /\ Use("acts", MaxActs)
    /\ gw' = [gw EXCEPT !.selected = s]
    /\ UNCHANGED <<memory, live, media, agent, uplink>>

------------------------------------------------------------------------------
(* The agent takes the next command.                                           *)

Next1 == Head(gw.outbox)
Taken(g) == [g EXCEPT !.outbox = Tail(@)]

\* _handle_turn.
TakeTurn ==
  /\ live /\ gw.outbox # <<>> /\ Next1.kind = "turn"
  /\ Reachable(Next1.msg)
  /\ LET t == Next1.turn
         s == gw.home[t]
     IN /\ gw' = [Taken(gw) EXCEPT !.acked = @ \cup {t}]
        /\ holds' = [holds EXCEPT ![s] = t]
        /\ context' = [context EXCEPT ![s] = @ \cup {t}]
        /\ heard' = heard \cup {t}
  /\ UNCHANGED <<memory, live, media, declares, sealed, uplink, used>>

\* #flush: a turn the connection cannot carry is cancelled in the outbox.
DiscardTurn ==
  /\ live /\ gw.outbox # <<>> /\ Next1.kind = "turn"
  /\ ~Reachable(Next1.msg)
  /\ gw' = Taken(gw)
  /\ UNCHANGED <<memory, live, media, agent, uplink, used>>

Emit(e) == uplink' = Append(uplink, e)

\* _handle_steer: an agent that does not hold the turn says so; one from before
\* _holds_turn starts a reply of its own, on a turn the gateway never issued.
TakeSteer ==
  /\ live /\ gw.outbox # <<>> /\ Next1.kind = "steer"
  /\ gw' = Taken(gw)
  /\ LET t == Next1.turn
         m == Next1.msg
         s == gw.home[m]
     IN \/ /\ holds[s] = t
           /\ context' = [context EXCEPT ![s] = @ \cup {m}]
           /\ heard' = heard \cup {m}
           /\ UNCHANGED uplink
        \/ /\ holds[s] # t /\ declares
           /\ Emit(Event("unknown_turn", s, t, {}))
           /\ UNCHANGED <<context, heard>>
        \/ /\ holds[s] # t /\ ~declares
           /\ heard' = heard \cup {m}
           /\ Emit(Event("orphan", s, None, {m}))
           /\ UNCHANGED context
  /\ UNCHANGED <<memory, live, media, declares, holds, sealed, used>>

\* The run of conversation s is over.
Over(s) ==
  /\ sealed' = sealed \cup {holds[s]}
  /\ holds' = [holds EXCEPT ![s] = None]
  /\ context' = [context EXCEPT ![s] = {}]

\* _handle_interrupt.
TakeInterrupt ==
  /\ live /\ gw.outbox # <<>> /\ Next1.kind = "interrupt"
  /\ gw' = Taken(gw)
  /\ LET t == Next1.turn
         s == gw.home[t]
     IN \/ /\ holds[s] = t
           /\ Over(s)
           /\ Emit(Event("interrupted", s, t, {}))
        \/ /\ holds[s] # t
           /\ IF declares /\ t \notin sealed
              THEN Emit(Event("unknown_turn", s, t, {})) ELSE UNCHANGED uplink
           /\ UNCHANGED <<holds, context, sealed>>
  /\ UNCHANGED <<memory, live, media, declares, heard, used>>

------------------------------------------------------------------------------
(* The agent runs a turn.  Its events are spooled whether or not it is         *)
(* connected.                                                                  *)

\* A draft or a tool step, or a reply in the middle of the run.
Progress ==
  \E s \in Sessions, kind \in {"draft", "interim"} :
    /\ holds[s] # None
    /\ Use("frames", MaxFrames)
    /\ Emit(Event(kind, s, holds[s], IF kind = "interim" THEN context[s] ELSE {}))
    /\ UNCHANGED <<gw, memory, live, media, agent>>

\* The final reply, or the failure of the run.
EndRun ==
  \E s \in Sessions, kind \in {"commit", "failed"} :
    /\ holds[s] # None
    /\ Over(s)
    /\ Emit(Event(kind, s, holds[s], IF kind = "commit" THEN context[s] ELSE {}))
    /\ UNCHANGED <<gw, memory, live, media, declares, heard, used>>

------------------------------------------------------------------------------
(* handle(): the gateway applies the next event.                               *)

\* A reply is stored, once per message id.
Replied(g, e) == [g EXCEPT !.answered = @ \cup e.msgs]

\* Any frame but unknown_turn is taken as proof the turn's steers were heard.
Heard(g, e) == IF e.kind = "unknown_turn" THEN g ELSE Settled(g, OpenSteers(g, e.turn))

\* A reply of a turn the gateway has no command for is stored all the same and
\* settles the whole conversation; of an ended turn it is stored and no more.
Handled(g, e) ==
  LET reply == e.kind \in {"commit", "interim", "orphan"}
      h == Heard(g, e)
  IN IF e.turn # None /\ g.terminal[e.turn] # "none"
     THEN IF reply /\ e.turn \in g.acked THEN Replied(g, e) ELSE g
     ELSE IF e.turn = None \/ ~Carried(g, e.turn)
     THEN IF reply THEN Settled(Replied(g, e), {m \in Messages : g.home[m] = e.session})
                   ELSE g
     ELSE CASE e.kind = "draft" -> h
            [] e.kind = "interim" -> Replied(h, e)
            [] e.kind = "commit" -> Finished(Replied(h, e), e.turn, "completed")
            [] e.kind = "unknown_turn" -> OwnerLost(h, e.turn)
            [] e.kind = "failed" -> Finished(h, e.turn, "failed")
            [] OTHER -> Finished(h, e.turn, "interrupted")

\* A frame takes its turn off the lease; what #finish forgets, it forgets.
Deliver ==
  /\ live /\ uplink # <<>>
  /\ LET e == Head(uplink)
     IN /\ gw' = Handled(gw, e)
        /\ lost' = IF e.kind = "unknown_turn" /\ gw.terminal[e.turn] = gw'.terminal[e.turn]
                   THEN lost ELSE lost \ {e.turn}
        /\ stopping' = {t \in stopping : gw'.terminal[t] = "none"}
  /\ uplink' = Tail(uplink)
  /\ UNCHANGED <<preparing, live, media, agent, used>>

------------------------------------------------------------------------------
(* Presence.                                                                   *)

\* handleAttachPresence "absent": the turns the agent took go on the lease.
Disconnect ==
  /\ live
  /\ Use("absences", MaxAbsences)
  /\ live' = FALSE
  /\ lost' = lost \cup Reconcilable
  /\ UNCHANGED <<gw, stopping, preparing, media, agent, uplink>>

\* handleAttachHello: a turn the agent declares is off the lease, one it leaves
\* out is sealed; of an agent that declares nothing all are on the lease.
Hello ==
  /\ ~live
  /\ live' = TRUE
  /\ media' \in IF MediaMessages = {} THEN {FALSE} ELSE BOOLEAN
  /\ LET held == {holds[s] : s \in Sessions}
         gone == Reconcilable \ held
     IN IF declares
        THEN /\ gw' = OwnersLost(gw, gone)
             /\ lost' = lost \ (held \cup gone)
             /\ stopping' = stopping \ gone
        ELSE /\ lost' = lost \cup Reconcilable
             /\ UNCHANGED <<gw, stopping>>
  /\ UNCHANGED <<preparing, agent, uplink, used>>

\* The agent process restarts; its spool survives, its turns do not.
AgentRestart ==
  /\ Use("losses", MaxLosses)
  /\ holds' = [s \in Sessions |-> None]
  /\ context' = [s \in Sessions |-> {}]
  /\ sealed' = {}
  /\ live' = FALSE
  /\ lost' = IF live THEN lost \cup Reconcilable ELSE lost
  /\ UNCHANGED <<gw, stopping, preparing, media, declares, heard, uplink>>

\* The gateway restarts: leases, stop requests and sends in progress are gone.
GatewayRestart ==
  /\ Use("restarts", MaxRestarts)
  /\ lost' = {} /\ stopping' = {} /\ preparing' = {}
  /\ live' = FALSE
  /\ UNCHANGED <<gw, media, agent, uplink>>

------------------------------------------------------------------------------
(* #sweepStaleTurns, of the selected conversation only.                        *)

Forget(t) == lost' = lost \ {t} /\ stopping' = stopping \ {t}

\* The owner-loss lease of a turn nobody carries is over.
ReapUnowned ==
  LET t == gw.active[gw.selected]
  IN /\ t \in lost
     /\ gw' = OwnerLost(gw, t)
     /\ Forget(t)
     /\ UNCHANGED <<preparing, live, media, agent, uplink, used>>

\* A stop was asked and silence followed.
ReapStopped ==
  LET t == gw.active[gw.selected]
  IN /\ t \in stopping
     /\ gw' = Finished(gw, t, "interrupted")
     /\ Forget(t)
     /\ UNCHANGED <<preparing, live, media, agent, uplink, used>>

\* A mutant: a turn the agent never took has no ceiling.
EndedByCeiling(g, t) ==
  IF t \notin g.acked THEN g ELSE Finished(Interrupted(g, t), t, "timed_out")

\* #timeoutTurn: nothing happens to a turn without a command.
TimedOut(g, t) ==
  IF ~Carried(g, t) THEN g
  ELSE IF t \in g.acked THEN Finished(Interrupted(g, t), t, "timed_out")
  ELSE Finished([g EXCEPT !.outbox = Remaining(@, {Command("turn", t, t)})],
                t, "timed_out")

\* Silence up to the ceiling.
ReapSilent ==
  LET t == gw.active[gw.selected]
  IN /\ t # None
     /\ gw' = TimedOut(gw, t)
     /\ gw' # gw
     /\ Forget(t)
     /\ UNCHANGED <<preparing, live, media, agent, uplink, used>>

\* The sweep's bookkeeping of turns that are not the selected conversation's.
ForgetOthers ==
  LET t == gw.active[gw.selected]
  IN /\ lost' = lost \cap {t} /\ stopping' = stopping \cap {t}
     /\ <<lost, stopping>>' # <<lost, stopping>>
     /\ UNCHANGED <<gw, preparing, live, media, agent, uplink, used>>

------------------------------------------------------------------------------
Next ==
  \/ Prepare \/ OpenTurn \/ Steer \/ Stop
  \/ \E clear \in BOOLEAN : NewSession(clear)
  \/ AdoptSession
  \/ TakeTurn \/ DiscardTurn \/ TakeSteer \/ TakeInterrupt
  \/ Progress \/ EndRun \/ Deliver
  \/ Disconnect \/ Hello \/ AgentRestart \/ GatewayRestart
  \/ ReapUnowned \/ ReapStopped \/ ReapSilent \/ ForgetOthers

Spec == Init /\ [][Next]_vars

\* The sweep is an interval timer that runs while a turn is open; the agent may
\* stay away or stay silent for ever.
FairSpec == Spec /\ WF_vars(ReapSilent)

------------------------------------------------------------------------------
TypeOK ==
  /\ gw.selected \in 1..gw.sessions /\ gw.sessions \in Sessions
  /\ gw.home \in [Messages -> {None} \cup Sessions]
  /\ gw.active \in [Sessions -> {None} \cup Turns]
  /\ gw.outbox \in Seq([kind : {"turn", "steer", "interrupt"}, turn : Turns,
                        msg : {None} \cup Messages])
  /\ gw.acked \subseteq Turns
  /\ gw.pending \in [Messages -> {None} \cup Turns]
  /\ gw.terminal \in [Turns -> {"none", "completed", "failed", "interrupted", "timed_out"}]
  /\ {gw.steers, gw.promoted, gw.noted, gw.answered, heard} \subseteq SUBSET Messages
  /\ {lost, stopping, sealed} \subseteq SUBSET Turns
  /\ preparing \subseteq Messages \X Sessions
  /\ {live, media, declares} \subseteq BOOLEAN
  /\ holds \in [Sessions -> {None} \cup Turns]
  /\ context \in [Sessions -> SUBSET Messages]
  /\ uplink \in Seq([kind : {"draft", "interim", "commit", "failed", "interrupted",
                             "unknown_turn", "orphan"},
                     session : Sessions, turn : {None} \cup Turns, msgs : SUBSET Messages])

\* A turn whose command is queued or was taken is its conversation's active turn
\* until it has a terminal: two sends, a promotion and a terminal may race, and
\* a turn that is neither active nor ended is one no hello and no sweep sees.
NoTurnIsDropped ==
  \A t \in Turns : Carried(gw, t) /\ gw.terminal[t] = "none" => gw.active[gw.home[t]] = t

\* "Each steer is accounted for exactly once": no two queued commands ask the same
\* words, so a steer the agent never took off the wire does not arrive after the
\* turn that replaced it (#promoteSteer); a steer is made a turn or noted as
\* undelivered, never both, with no row left that a later seal would promote again.
SteersCountOnce ==
  /\ \A i, j \in DOMAIN gw.outbox :
       gw.outbox[i].msg # None /\ gw.outbox[i].msg = gw.outbox[j].msg => i = j
  /\ gw.promoted \cap gw.noted = {}
  /\ \A m \in gw.promoted \cup gw.noted : gw.pending[m] = None

\* A turn the agent never took is not sealed as lost by its owner: the gateway
\* accepts turns for a sleeping bot so that they run when it wakes.
QueuedTurnsWait ==
  [][\A t \in Turns : Queued(gw, t) => gw'.terminal[t] # "failed"]_vars

\* The selected conversation's turn ends, or the person goes to another
\* conversation, or its command is cancelled: a turn nothing will ever
\* terminalize is a phone that shows "thinking" for ever.
TurnsEnd ==
  \A t \in Turns :
    (gw.active[gw.selected] = t) ~> (gw.active[gw.selected] # t \/ ~Carried(gw, t))

\* A steer that counts as accounted for was heard by the agent, became a turn,
\* is on record as undelivered, or is still to be taken.  The code does not keep
\* this: any frame of the turn settles its steers, heard or not.
SteersAreHeard ==
  \A m \in gw.steers :
    gw.pending[m] = None =>
      \/ m \in heard \cup gw.promoted \cup gw.noted
      \/ \E i \in DOMAIN gw.outbox : gw.outbox[i].msg = m
=============================================================================
