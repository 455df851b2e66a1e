----------------------------- MODULE GroupRooms -----------------------------
(* Group chats: hermes-bridge/group-rooms.ts with group-turn.ts, the round    *)
(* rules of group-protocol.ts and the bot_group_* tables of storage.ts.       *)
(*                                                                            *)
(* One room name.  A user message opens a drive: an asynchronous loop that    *)
(* gives the members of the room a turn one after the other, for at most      *)
(* MaxRounds rounds.  Drives of one room are chained: each waits for the one  *)
(* before it.  A member's turn is an attach command whose answer arrives as   *)
(* an event; while the loop waits, messages, a stop, a compress, the deletion *)
(* and the recreation of the room under its old name may all come.  A restart *)
(* forgets the loops and keeps the tables.                                    *)
(*                                                                            *)
(* What a member says is one of Spoke (a reply) and Quiet (a pass, a failure, *)
(* a cancellation, an interruption: the loop treats them alike).  A loop that *)
(* does not wait runs before any other callback, as the event loop has it; it *)
(* waits for the drive before it, for a fresh look at the roster and for a    *)
(* turn, and only there do other handlers run.                                *)
EXTENDS Integers, Sequences, FiniteSets, SequencesExt, FiniteSetsExt

CONSTANTS
  NumMembers,     \* members of the room, seated 1..NumMembers
  Hidden,         \* members the cached roster does not list (memberKnown = false)
  UserMessages,   \* what a user may say: [names, everyone, stop]
  MaxRounds,      \* GROUP_MAX_ROUNDS
  MaxPosts,       \* GROUP_MAX_MESSAGES
  MaxSends,       \* bound: user messages, over all lives of the room
  MaxReplies,     \* bound: turns that are answered with a reply
  MaxActs         \* bound: stops, compresses, outside messages, deletions, restarts and
                  \* events of a turn that was answered before

Member == 1..NumMembers
Thread == 0..MaxSends          \* 0 is the legacy thread, the empty id
User == 0                      \* the author of a user's entry

ASSUME RoomAssumption ==
  /\ NumMembers \in Nat \ {0} /\ Hidden \subseteq Member
  /\ MaxRounds \in Nat \ {0} /\ MaxPosts \in Nat \ {0}
  /\ UserMessages \subseteq [names: SUBSET Member, everyone: BOOLEAN,
                             stop: {"adjacent", "distant", "none"}]
  /\ MaxSends \in Nat /\ MaxReplies \in Nat /\ MaxActs \in Nat

VARIABLES
  room,       \* the durable room, or NoRoom
  life,       \* how often the name was deleted: the generation
  turns,      \* bot_group_turns: the rows, in the order they were begun
  chain,      \* the drives of the name: the first runs, the last is #drives' entry
  queue,      \* #queues' entry, or Unset
  compress,   \* the compress request in flight, or NoCompress
  drafts,     \* the turns with an open live bubble
  inherited,  \* rows begun before this process started
  used        \* what the bounds count

roomVars == <<room, life, turns, chain, queue, compress, drafts, inherited>>
vars == <<roomVars, used>>

NoRoom == [exists |-> FALSE]
NoCompress == [turn |-> 0, life |-> 0]
Unset == <<-1>>

Largest(S, floor) == Max(S \cup {floor})

(* --------------------------- tables and readers --------------------------- *)

\* A room as it is created: epoch 0 and the first seq to give is 1.
FreshRoom ==
  [exists |-> TRUE, epoch |-> 0, log |-> <<>>,
   watermark |-> [m \in Member |-> 0],
   marks |-> [t \in Thread |-> [m \in Member |-> 0]],
   holds |-> {}, held |-> [m \in Member |-> {}], queue |-> <<>>]

\* The log is never trimmed here (its limit is 96): an entry's seq is its place.
AppendEntry(r, by, thread, names, turn) ==
  [r EXCEPT !.log = Append(@, [by |-> by, thread |-> thread, names |-> names,
                               turn |-> turn])]

Entries(r, thread) == {s \in DOMAIN r.log : r.log[s].thread = thread}

\* What a loop keeps of a room it read before an await.
Meta(r) == [marks |-> r.marks, holds |-> r.holds, held |-> r.held]

\* #mark: thread marks, and the legacy watermark for the legacy thread.
Mark(meta, r, thread, m) == IF thread = 0 THEN r.watermark[m] ELSE meta.marks[thread][m]

\* #setMark: the mark only grows, the watermark of the legacy thread may not.
SetMark(r, thread, m, seq) ==
  LET w == IF thread = 0 \/ seq > r.watermark[m]
           THEN [r EXCEPT !.watermark[m] = seq] ELSE r
  IN IF thread = 0 THEN w
     ELSE [w EXCEPT !.marks[thread][m] = Largest({seq}, @)]

\* resolveResponders: everyone, unless someone is named since the last user entry.
Responders(r, thread) ==
  LET es == Entries(r, thread)
      byUser == {s \in es : r.log[s].by = User}
      slice == {s \in es : s >= Largest(byUser, 0)}
      named == UNION {r.log[s].names : s \in slice}
  IN IF named = {} THEN Member ELSE named

\* The seats in S, smallest first.
Ascending(S) ==
  [i \in 1..Cardinality(S) |-> CHOOSE m \in S : Cardinality({k \in S : k <= m}) = i]

\* rotateSpeakers: in seating order, turned left by the round.
Rotated(S, round) ==
  LET order == Ascending(S)
      k == IF order = <<>> THEN 0 ELSE round % Len(order)
  IN SubSeq(order, k + 1, Len(order)) \o SubSeq(order, 1, k)

\* applyHoldDirective over what classifyHoldDirective reads in a message.
AppliedHolds(holds, msg) ==
  CASE msg.stop = "adjacent" -> holds \cup (IF msg.everyone THEN Member ELSE msg.names)
    [] msg.stop = "none" /\ msg.everyone -> {}
    [] msg.stop = "none" -> holds \ msg.names
    [] OTHER -> holds

\* (Mutant of Claimed: the row is read without being consumed.)
ReadOnly(row) ==
  [row EXCEPT !.answered = TRUE, !.cause = 0, !.watermark = 0,
              !.state = IF @ = "spoke" THEN @ ELSE "quiet"]

\* consumeBotGroupTurn: nobody else acts on the row any more, and the model keeps of it
\* only whether it is a reply and for which room.
Claimed(row) ==
  [row EXCEPT !.consumed = TRUE, !.answered = TRUE, !.cause = 0, !.watermark = 0,
              !.state = IF @ = "spoke" THEN @ ELSE "quiet"]

Pending == {t \in DOMAIN turns : turns[t].state = "pending"}

\* Who waits for a turn: the running drive or the compress request.
Awaited(t) ==
  \/ chain # <<>> /\ chain[1].at = "turn" /\ chain[1].turn = t
  \/ compress.turn = t

\* #driving: the map's entry belongs to this room and to its epoch.
Driving ==
  /\ chain # <<>> /\ room.exists
  /\ Last(chain).life = life /\ Last(chain).epoch = room.epoch

\* #queue: hydrated from the room's meta when this process has not read it.
LiveQueue == IF queue # Unset THEN queue ELSE IF room.exists THEN room.queue ELSE <<>>

\* #startDrive: chained behind whatever drive holds the name.
Chained(ch, epoch, thread) ==
  Append(ch, [life |-> life, epoch |-> epoch, thread |-> thread, at |-> "waiting",
              round |-> 0, posted |-> 0, spoke |-> 0, left |-> <<>>,
              turn |-> 0, upto |-> 0, replay |-> {}, seen |-> NoRoom])

CancelPending(ts) ==
  [t \in DOMAIN ts |-> IF ts[t].state = "pending" THEN [ts[t] EXCEPT !.state = "quiet"]
                       ELSE ts[t]]

Init ==
  /\ room = FreshRoom /\ life = 1 /\ turns = <<>> /\ chain = <<>> /\ queue = <<>>
  /\ compress = NoCompress /\ drafts = {} /\ inherited = 0
  /\ used = [sends |-> 0, replies |-> 0, acts |-> 0]

Act == used.acts < MaxActs /\ used' = [used EXCEPT !.acts = @ + 1]

(* ------------------------------ the requests ------------------------------ *)

\* create, under the same name; #queues and #drives are not touched.
CreateRoom ==
  /\ ~room.exists
  /\ room' = FreshRoom
  /\ UNCHANGED <<life, turns, chain, queue, compress, drafts, inherited, used>>

\* remove: pending turns are cancelled, the generation moves, drives are left to see it.
DeleteRoom ==
  /\ room.exists /\ Act
  /\ room' = NoRoom /\ life' = life + 1 /\ turns' = CancelPending(turns)
  /\ UNCHANGED <<chain, queue, compress, drafts, inherited>>

\* send: behind a live drive or a compress the thread is queued, else it opens a
\* drive under a new epoch.  The client names the thread or opens one.
Send(msg, thread) ==
  LET live == Driving \/ compress # NoCompress
      epoch == IF live THEN room.epoch ELSE room.epoch + 1
      held == AppliedHolds(room.holds, msg)
      names == IF msg.everyone THEN Member ELSE msg.names
      said == AppendEntry([room EXCEPT !.epoch = epoch, !.holds = held], User, thread, names, 0)
      q == IF Contains(LiveQueue, thread) THEN LiveQueue ELSE Append(LiveQueue, thread)
  IN /\ room.exists /\ used.sends < MaxSends
     /\ \/ thread = used.sends + 1
        \/ thread > 0 /\ Entries(room, thread) # {}
     /\ used' = [used EXCEPT !.sends = @ + 1]
     /\ IF live
        THEN queue' = q /\ room' = [said EXCEPT !.queue = q] /\ chain' = chain
        ELSE queue' = queue /\ room' = said /\ chain' = Chained(chain, epoch, thread)
     /\ UNCHANGED <<life, turns, compress, drafts, inherited>>

\* stop: a new epoch, no queue, no pending turn, and everyone held.
Stop ==
  /\ room.exists /\ Act
  /\ room' = [room EXCEPT !.epoch = @ + 1, !.holds = Member, !.queue = <<>>]
  /\ queue' = <<>>
  /\ turns' = CancelPending(turns) /\ drafts' = drafts \ Pending
  /\ UNCHANGED <<life, chain, compress, inherited>>

\* startNativeMemberTurn: the row is written first, and only one may be pending.
TurnRow(m, epoch, cause, purpose) ==
  [member |-> m, epoch |-> epoch, cause |-> cause, purpose |-> purpose,
   watermark |-> room.watermark[m], life |-> life, state |-> "pending",
   answered |-> FALSE, consumed |-> FALSE, resettled |-> FALSE]

Compress(m) ==
  /\ room.exists /\ ~Driving /\ compress = NoCompress /\ Pending = {} /\ Act
  /\ turns' = Append(turns, TurnRow(m, room.epoch, 0, "compress"))
  /\ compress' = [turn |-> Len(turns) + 1, life |-> life]
  /\ UNCHANGED <<room, life, chain, queue, drafts, inherited>>

\* (Mutant of ReleaseRoom: the compress lets go of the room and drives nothing.)
ReleasedOnly(ts) ==
  /\ compress' = NoCompress /\ turns' = ts /\ drafts' = drafts \ {compress.turn}
  /\ UNCHANGED <<room, life, chain, queue, inherited, used>>

\* compress' finally: whatever was queued behind it gets its drive.
ReleaseRoom(ts) ==
  LET q == LiveQueue
      r == [room EXCEPT !.queue = IF q = <<>> THEN q ELSE Tail(q),
                        !.epoch = IF q = <<>> THEN @ ELSE @ + 1]
  IN /\ compress' = NoCompress /\ turns' = ts
     /\ drafts' = drafts \ {compress.turn}
     /\ IF ~Driving /\ room.exists
        THEN /\ room' = r /\ queue' = r.queue
             /\ chain' = IF q = <<>> THEN chain ELSE Chained(chain, r.epoch, Head(q))
        ELSE UNCHANGED <<room, queue, chain>>
     /\ UNCHANGED <<life, inherited, used>>

\* #waitForTurn of the compress: settled and consumed, timed out, or abandoned.
CompressEnds ==
  LET t == compress.turn
      state == IF t # 0 /\ turns[t].state = "pending" THEN "timeout" ELSE turns[t].state
  IN /\ compress # NoCompress
     /\ IF compress.life = life
        THEN ReleaseRoom([turns EXCEPT ![t] = Claimed([@ EXCEPT !.state = state])])
        ELSE ReleaseRoom(turns)

(* -------------------------------- the events ------------------------------- *)

\* The thread of the entry that caused a turn, looked up in the room that is there
\* now; a turn without a cause, or whose entry is gone, falls into the legacy thread.
CauseThread(t) ==
  IF turns[t].cause \in DOMAIN room.log THEN room.log[turns[t].cause].thread ELSE 0

\* What #recoverSettledTurn makes of the room: the reply is posted, or the member is
\* marked as having seen its thread.
Recovered(t, state) ==
  LET m == turns[t].member
      thread == CauseThread(t)
      posted == AppendEntry(room, m, thread, {}, t)
  IN IF state = "spoke" THEN SetMark(posted, thread, m, Len(posted.log))
     ELSE SetMark(room, thread, m, Largest(Entries(room, thread), turns[t].watermark))

\* #recoverSettledTurn goes past its early returns.
Recoverable(t, state) ==
  /\ state # "timeout" /\ ~turns[t].consumed /\ turns[t].purpose # "compress"
  /\ room.exists /\ room.epoch = turns[t].epoch

\* handleAttachEvent for a commit or another end of a turn, of which a turn may send
\* several: a row that is pending is settled, the first event wakes the loop that waits,
\* and when none waits the turn is recovered.  The wake takes the waiter away, so the
\* next event recovers a turn whose loop has not resumed yet, or was lost before it did.
\* (What a settled row is told is not read, and a consumed one is not looked at.)
Answer(t, said) ==
  LET state == IF turns[t].state = "pending" THEN said ELSE turns[t].state
      waits == Awaited(t) /\ ~turns[t].answered
      row == [turns[t] EXCEPT !.state = state, !.answered = TRUE,
                             !.resettled = @ \/ (turns[t].answered /\ (Awaited(t) \/ t <= inherited))]
  IN /\ ~turns[t].consumed
     /\ said = "spoke" => turns[t].state = "pending" /\ used.replies < MaxReplies
     /\ IF turns[t].answered THEN Act
        ELSE used' = IF said = "spoke" THEN [used EXCEPT !.replies = @ + 1] ELSE used
     /\ turns' = [turns EXCEPT ![t] = IF waits \/ state = "timeout" THEN row
                                     ELSE Claimed(row)]
     /\ drafts' = drafts \ {t}
     /\ IF ~waits /\ Recoverable(t, state)
        THEN /\ room' = Recovered(t, state)
             /\ chain' = Chained(chain, room.epoch, CauseThread(t))
        ELSE UNCHANGED <<room, chain>>
     /\ UNCHANGED <<life, queue, compress, inherited>>

\* #emitDraft: only a pending turn of the room's epoch opens a bubble.
Draft(t) ==
  /\ turns[t].state = "pending" /\ turns[t].purpose # "compress"
  /\ room.exists /\ room.epoch = turns[t].epoch
  /\ drafts' = drafts \cup {t}
  /\ UNCHANGED <<room, life, turns, chain, queue, compress, inherited, used>>

\* #mirrorExternal: a commit no turn owns, in a member's thread, goes once into the
\* thread the member last wrote in, or else into the log's last one.
Mirror(m) ==
  LET own == {s \in DOMAIN room.log : room.log[s].by = m}
      last == Largest(IF own # {} THEN own ELSE DOMAIN room.log, 0)
      thread == IF last = 0 THEN 0 ELSE room.log[last].thread
      said == AppendEntry(room, m, thread, {}, 0)
  IN /\ room.exists /\ Act
     /\ room' = SetMark(said, thread, m, Len(said.log))
     /\ UNCHANGED <<life, turns, chain, queue, compress, drafts, inherited>>

(* -------------------------------- the drive -------------------------------- *)

Drive == chain[1]
SetDrive(d) == chain' = [chain EXCEPT ![1] = d]
Current == room.exists /\ Drive.life = life
Superseded == ~Current \/ room.epoch # Drive.epoch

\* The thread's loop is left: #runRounds returns.
Ended(d) == [d EXCEPT !.at = "over", !.left = <<>>, !.round = 0, !.posted = 0, !.spoke = 0,
                      !.turn = 0, !.upto = 0, !.replay = {}, !.seen = NoRoom]
Left == Ended(Drive)

\* The top of a round: a superseded loop ends, else who answers is read anew.
RoundOf(d, round) ==
  IF Superseded THEN Ended(d)
  ELSE [d EXCEPT !.at = "member", !.round = round, !.spoke = 0,
                 !.left = Rotated(Responders(room, d.thread), round)]

\* #startDrive's wait is over; a drive of a deleted room does not start.
Begin ==
  /\ chain # <<>> /\ Drive.at = "waiting"
  /\ SetDrive(RoundOf(Drive, 0))
  /\ UNCHANGED <<room, life, turns, queue, compress, drafts, inherited, used>>

\* (Mutant of RoundEnds: one round too many.)
EndsLate ==
  /\ chain # <<>> /\ Drive.at = "member" /\ Drive.left = <<>>
  /\ SetDrive(IF Drive.spoke = 0 \/ Drive.round = MaxRounds THEN Left
              ELSE RoundOf(Drive, Drive.round + 1))
  /\ UNCHANGED <<room, life, turns, queue, compress, drafts, inherited, used>>

\* The end of a round: a quiet one settles the thread, and so does the last.
RoundEnds ==
  /\ chain # <<>> /\ Drive.at = "member" /\ Drive.left = <<>>
  /\ SetDrive(IF Drive.spoke = 0 \/ Drive.round + 1 = MaxRounds THEN Left
              ELSE RoundOf(Drive, Drive.round + 1))
  /\ UNCHANGED <<room, life, turns, queue, compress, drafts, inherited, used>>

Skipped(d) == [d EXCEPT !.at = "member", !.left = Tail(@), !.seen = NoRoom]

\* What a finished turn does to the room and to the loop.
Settled(r, d, m, outcome, t) ==
  LET marked == SetMark(r, d.thread, m, d.upto)
      given == IF d.replay = {} THEN marked ELSE [marked EXCEPT !.held[m] = {}]
      posted == AppendEntry(given, m, d.thread, {}, t)
  IN IF outcome = "spoke"
     THEN [room |-> SetMark(posted, d.thread, m, Len(posted.log)),
           drive |-> [Skipped(d) EXCEPT !.posted = @ + 1, !.spoke = @ + 1,
                                        !.turn = 0, !.upto = 0, !.replay = {}]]
     ELSE [room |-> given,
           drive |-> [Skipped(d) EXCEPT !.turn = 0, !.upto = 0, !.replay = {}]]

\* A member's place in the round, with the room the loop has read (meta is a stale
\* copy when the loop awaited memberExists in between).
TakeTurn(m, meta) ==
  LET mark == Mark(meta, room, Drive.thread, m)
      delta == {s \in Entries(room, Drive.thread) : s > mark}
      upto == Largest(Entries(room, Drive.thread), mark)
      replay == meta.held[m] \cap DOMAIN room.log
      d == [Drive EXCEPT !.upto = upto, !.replay = meta.held[m], !.seen = NoRoom]
      row == TurnRow(m, Drive.epoch, Largest(replay \cup delta, 0), "group")
  IN CASE ~room.exists -> SetDrive(Left) /\ UNCHANGED <<room, turns>>
       [] room.exists /\ delta = {} -> SetDrive(Skipped(Drive)) /\ UNCHANGED <<room, turns>>
       [] room.exists /\ delta # {} /\ m \in meta.holds ->
            /\ SetDrive(Skipped(Drive)) /\ turns' = turns
            /\ room' = [SetMark(room, Drive.thread, m, upto) EXCEPT
                          !.held[m] = @ \cup delta, !.holds = @ \cup {m}]
       [] room.exists /\ delta # {} /\ m \notin meta.holds /\ ~Current ->
            SetDrive(Left) /\ UNCHANGED <<room, turns>>
       [] OTHER ->
            \* #turn: with another turn pending the member fails; else it is asked.
            IF Pending # {}
            THEN LET after == Settled(room, d, m, "quiet", 0)
                 IN /\ turns' = turns
                    /\ IF room.epoch # Drive.epoch
                       THEN SetDrive(Left) /\ room' = room
                       ELSE SetDrive(after.drive) /\ room' = after.room
            ELSE /\ turns' = Append(turns, row) /\ room' = room
                 /\ SetDrive([d EXCEPT !.at = "turn", !.turn = Len(turns) + 1])

\* The next member: the boundary's checks, then its turn, or the fresh read that a
\* member missing from the cached roster needs.
NextMember ==
  /\ chain # <<>> /\ Drive.at = "member" /\ Drive.left # <<>>
  /\ IF Superseded \/ Drive.posted >= MaxPosts
     THEN SetDrive(Left) /\ UNCHANGED <<room, turns>>
     ELSE IF Head(Drive.left) \in Hidden
     THEN /\ SetDrive([Drive EXCEPT !.at = "checking", !.seen = Meta(room)])
          /\ UNCHANGED <<room, turns>>
     ELSE TakeTurn(Head(Drive.left), Meta(room))
  /\ UNCHANGED <<life, queue, compress, drafts, inherited, used>>

\* memberExists answers.  Only the answer "gone" looks at the room again.
MemberChecked(exists) ==
  /\ chain # <<>> /\ Drive.at = "checking"
  /\ IF exists THEN TakeTurn(Head(Drive.left), Drive.seen)
     ELSE /\ SetDrive(IF Superseded THEN Left ELSE Skipped(Drive))
          /\ UNCHANGED <<room, turns>>
  /\ UNCHANGED <<life, queue, compress, drafts, inherited, used>>

\* #waitForTurn returns: the turn is settled, or the room was deleted.  A stopped turn
\* leaves nothing but a reply that landed.
TurnEnds ==
  LET t == Drive.turn
      m == Head(Drive.left)
      after == Settled(room, Drive, m, turns[t].state, t)
      leaves == ~Current \/ (room.epoch # Drive.epoch /\ turns[t].state # "spoke")
  IN /\ chain # <<>> /\ Drive.at = "turn"
     /\ Drive.life # life \/ turns[t].state # "pending"
     /\ turns' = IF Drive.life = life THEN [turns EXCEPT ![t] = Claimed(@)] ELSE turns
     /\ drafts' = IF Drive.life = life THEN drafts ELSE drafts \ {t}
     /\ IF leaves THEN SetDrive(Left) /\ room' = room
        ELSE SetDrive(after.drive) /\ room' = after.room
     /\ UNCHANGED <<life, queue, compress, inherited, used>>

\* The deadline passes first: the loop seals the turn and claims it at once.
TurnTimesOut ==
  LET t == Drive.turn
      after == Settled(room, Drive, Head(Drive.left), "quiet", 0)
  IN /\ chain # <<>> /\ Drive.at = "turn"
     /\ Drive.life = life /\ turns[t].state = "pending"
     /\ turns' = [turns EXCEPT ![t] = Claimed([@ EXCEPT !.state = "timeout"])]
     /\ drafts' = drafts \ {t}
     /\ IF Superseded THEN SetDrive(Left) /\ room' = room
        ELSE SetDrive(after.drive) /\ room' = after.room
     /\ UNCHANGED <<life, queue, compress, inherited, used>>

\* #drive after a thread: the next queued one, unless the drive is superseded.  The
\* last drive of the chain still starts what it finds in the queue as it leaves.
ThreadEnds ==
  LET q == LiveQueue
      popped == IF q = <<>> THEN q ELSE Tail(q)
      saved == IF room.exists /\ q # <<>> THEN [room EXCEPT !.queue = popped] ELSE room
  IN /\ chain # <<>> /\ Drive.at = "over"
     /\ CASE ~Superseded /\ q # <<>> ->
               /\ SetDrive(RoundOf([Drive EXCEPT !.thread = Head(q), !.posted = 0], 0))
               /\ queue' = popped /\ room' = saved
          [] Len(chain) > 1 /\ (Superseded \/ q = <<>>) ->
               chain' = Tail(chain) /\ UNCHANGED <<queue, room>>
          [] Len(chain) = 1 /\ (Superseded \/ q = <<>>) ->
               /\ queue' = popped /\ room' = saved
               /\ chain' = IF q # <<>> /\ room.exists
                           THEN Chained(<<>>, room.epoch, Head(q)) ELSE <<>>
     /\ UNCHANGED <<life, turns, compress, drafts, inherited, used>>

\* The loop that waits has been woken: its turn is settled.
Woken ==
  chain # <<>> /\ Drive.at = "turn" /\ Drive.life = life /\ Drive.turn \notin Pending

\* A new process: the loops, the queue's copy and the bubbles are gone.  If the process
\* died before the event that woke the loop was marked as applied, the event is
\* projected again before anything else, and finds no loop.
Restart(again) ==
  LET t == Drive.turn
  IN /\ Act
     /\ again => Woken /\ turns[t].answered
     /\ queue' = Unset /\ compress' = NoCompress /\ drafts' = {} /\ inherited' = Len(turns)
     /\ turns' = IF again THEN [turns EXCEPT ![t] = Claimed(@)] ELSE turns
     /\ IF again /\ Recoverable(t, turns[t].state)
        THEN /\ room' = Recovered(t, turns[t].state)
             /\ chain' = Chained(<<>>, room.epoch, CauseThread(t))
        ELSE room' = room /\ chain' = <<>>
     /\ life' = life

\* A loop that has not come to its next wait runs before anything else; one that was
\* woken runs before any request.
Running == chain # <<>> /\ Drive.at \in {"member", "over"}
Due == Running \/ Woken
  \/ (compress # NoCompress /\ compress.life = life /\ compress.turn \notin Pending)

Loops ==
  \/ Begin
  \/ RoundEnds
  \/ NextMember
  \/ \E exists \in BOOLEAN : MemberChecked(exists)
  \/ TurnEnds
  \/ TurnTimesOut
  \/ ThreadEnds

Requests ==
  \/ CreateRoom
  \/ DeleteRoom
  \/ \E msg \in UserMessages, thread \in Thread : Send(msg, thread)
  \/ Stop
  \/ \E m \in Member : Compress(m)

Events ==
  \/ \E m \in Member : Mirror(m)
  \/ \E t \in DOMAIN turns :
       Draft(t) \/ \E said \in {"spoke", "quiet"} : Answer(t, said)

Next ==
  \/ Loops
  \/ CompressEnds
  \/ ~Due /\ Requests
  \/ ~Running /\ Events
  \/ \E again \in BOOLEAN : Restart(again)

Spec == Init /\ [][Next]_vars

(* ------------------------------- properties ------------------------------- *)

DriveRecord ==
  [life: 1..life, epoch: Nat, thread: Thread,
   at: {"waiting", "member", "checking", "turn", "over"},
   round: 0..(MaxRounds - 1), posted: 0..MaxPosts, spoke: 0..NumMembers,
   left: Seq(Member), turn: 0..Len(turns), upto: Nat, replay: SUBSET Nat,
   seen: {NoRoom} \cup {Drive.seen}]

\* Every variable has its type; no loop posts past its limits, and only the loop that
\* runs is past its wait.
TypeOK ==
  /\ room.exists => /\ room.epoch \in Nat /\ room.holds \subseteq Member
                    /\ \A s \in DOMAIN room.log : room.log[s].by \in Member \cup {User}
  /\ life \in 1..(MaxActs + 1) /\ compress.turn \in 0..Len(turns) /\ drafts \subseteq DOMAIN turns
  /\ inherited \in 0..Len(turns)
  /\ queue = Unset \/ (queue \in Seq(Thread) /\ IsInjective(queue))
  /\ \A i \in DOMAIN chain : chain[i] \in DriveRecord
  /\ \A i \in DOMAIN chain : i > 1 => chain[i].at = "waiting"

\* consumeBotGroupTurn "atomically assigns a completed settlement to one orchestrator":
\* a turn's reply is in the transcript at most once, in the room the turn was begun for
\* and not in a later one of its name, and only if it came before the deadline.  The
\* exception is a resettled turn: an event after the one that settled it was handled
\* before the woken loop resumed, or when that loop was lost with its process.  The
\* recovery then claims the turn, and the loop posts the reply all the same.
RepliesPostOnce ==
  room.exists =>
    \A s \in DOMAIN room.log : LET t == room.log[s].turn IN t # 0 =>
      /\ turns[t].state = "spoke" /\ turns[t].purpose = "group"
      /\ \/ turns[t].resettled
         \/ /\ turns[t].life = life
            /\ \A r \in DOMAIN room.log : room.log[r].turn = t => r = s

\* Nothing is left behind.  A turn that is pending, or whose live bubble is open, was
\* begun by an earlier process or has the loop that will settle it and close the bubble;
\* and while one of the room's threads is queued, a loop is there that takes it on when
\* it lets go of the room, a drive or a compress (after a restart that is true once the
\* process has read the queue).
WorkHasALoop ==
  /\ \A t \in Pending \cup drafts : t <= inherited \/ Awaited(t)
  /\ room.exists /\ (\E thread \in Thread \ {0} :
                       Contains(queue, thread) /\ Entries(room, thread) # {})
       => chain # <<>> \/ compress # NoCompress
=============================================================================
