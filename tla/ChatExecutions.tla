--------------------------- MODULE ChatExecutions ---------------------------
(* A chat on another computer: chat-executions.ts (the driver), lane.ts (the   *)
(* computer's stream), chat-configuration.ts, the chat_executions and          *)
(* configuration rows of storage.ts and the sends of native-data-plane.ts.     *)
(*                                                                             *)
(* A chat runs on its bot's own profile ("home") or in a workspace of a paired *)
(* computer, where an execution of its own attaches with its own token.  A     *)
(* send first prepares the workspace it read, one send of the chat at a time;  *)
(* the turn is admitted only if the choice still stands, and the first one     *)
(* locks it.  Executions that lost their chat or their workspace are torn down *)
(* by commands and receipts, repeated by a sweep and at every hello.           *)
(*                                                                             *)
(* One chat and one computer.  A callback of the gateway runs to its end, with *)
(* the promise continuations it releases: so the end of a preparation and the  *)
(* admission of its turn are one step, and the next preparation in line begins *)
(* before anything else does.  The computer's program is not in the            *)
(* repository: it starts, stops and reports what it is told, in order.         *)
EXTENDS Integers, Sequences, FiniteSets, SequencesExt

CONSTANTS
  Workspaces,     \* workspaces of the paired computer
  Home,           \* null: the bot's own profile, and its peer
  None,           \* no turn, no execution
  MaxSends,       \* bound: what a person sends
  MaxExecutions,  \* bound: executions created
  MaxChoices,     \* bound: changes of the workspace
  MaxVisits,      \* bound: times the conversation is left
  MaxBreaks,      \* bound: sockets lost or replaced, processes ended
  MaxFrames       \* bound: frames on one direction of the computer's stream

ASSUME ExecutionAssumption ==
  /\ Home \notin Workspaces \cup Nat /\ None \notin Workspaces \cup Nat \cup {Home}
  /\ MaxSends \in Nat /\ MaxExecutions \in Nat /\ MaxFrames \in Nat \ {0}

Sends == 1..MaxSends
Execs == 1..MaxExecutions
Choice == Workspaces \cup {Home}

VARIABLES
  session,   \* "open" (selected), "left" or "deleted"
  chosen,    \* the workspaces chosen, the last of them the chat's
  touched,   \* explicitly_configured
  locked,    \* workspace_locked
  active,    \* active_turn_id: the send that opened it, or None
  call,      \* a send: [at, ws (the choice it read), row, peer]
  line,      \* #preparations: the sends of the chat in preparation
  row,       \* chat_executions: [stage, ws]
  tokens,    \* attachTokens: the executions that may attach
  peer,      \* an execution's attach socket: "none", "dialing" or "attached"
  link,      \* the computer's stream is in #connections
  commands,  \* commands on it
  receipts,  \* receipts on it
  stale,     \* receipts on the socket it superseded
  proc,      \* the computer's processes: "none", "booting" or "up"
  used       \* what the bounds count

chatVars == <<session, chosen, touched, locked, active>>
gateVars == <<row, tokens>>
laneVars == <<link, commands, receipts, stale>>
vars == <<chatVars, call, line, gateVars, peer, laneVars, proc, used>>

Workspace == Last(chosen)
Pending == {"line", "local", "models", "profile", "waiting", "configuring"}
Taken == {"turn", "steer"}
Dead == {"none", "deleted", "gone"}

\* chatExecution: the chat's live row.  (#prepare keeps it unique; None: no row.)
Live == {e \in Execs : row[e].stage \notin Dead}
Current(rows) ==
  LET live == {e \in Execs : rows[e].stage \notin Dead} IN
  IF live = {} THEN None ELSE CHOOSE e \in live : \A f \in live : f <= e

\* #executionPeer, None if the chat's execution is not ready.
ExecutionPeer(rows) ==
  LET e == Current(rows) IN
  IF e = None THEN Home ELSE IF rows[e].stage = "ready" THEN e ELSE None

\* canQueue: the bot's own profile is configured for good, an execution by its token.
Serves(to) == to = Home \/ to \in tokens

\* #retire for the executions of a set: the row stays until a receipt releases it.
Retired(rows, gone) == [e \in Execs |-> IF e \in gone THEN [rows[e] EXCEPT !.stage = "deleted"] ELSE rows[e]]
Disconnected(gone) == [e \in Execs |-> IF e \in gone /\ peer[e] = "attached" THEN "none" ELSE peer[e]]

\* sendChatCommand: only to a computer that is there.  A command already on the way
\* is not added again (it would be carried out again to no effect).
Sent(there, queue, frame) == IF there /\ ~Contains(queue, frame) THEN Append(queue, frame) ELSE queue
Command(kind, e) == [kind |-> kind, execution |-> e]

(* ------------------------------- the chat --------------------------------- *)

\* updateNativeChatConfiguration.
Configure(ws) ==
  /\ session = "open" /\ Len(chosen) <= MaxChoices
  /\ locked => ws = Workspace
  /\ ws # Workspace \/ ~touched
  /\ chosen' = (IF ws = Workspace THEN chosen ELSE Append(chosen, ws))
  /\ touched' = TRUE
  /\ UNCHANGED <<session, locked, active, call, line, gateVars, peer, laneVars, proc, used>>

\* #newSession and #adoptSession: the conversation and its turn stay behind.
Leave ==
  /\ session = "open" /\ used.visits < MaxVisits
  /\ session' = "left" /\ used' = [used EXCEPT !.visits = @ + 1]
  /\ UNCHANGED <<chosen, touched, locked, active, call, line, gateVars, peer, laneVars, proc>>
Return ==
  /\ session = "left" /\ session' = "open"
  /\ UNCHANGED <<chosen, touched, locked, active, call, line, gateVars, peer, laneVars, proc, used>>

\* #deleteSession: the executions stay for the sweep to find.
DeleteSession ==
  /\ session = "left" /\ active = None /\ ExecutionPeer(row) # None
  /\ session' = "deleted"
  /\ UNCHANGED <<chosen, touched, locked, active, call, line, gateVars, peer, laneVars, proc, used>>

TurnEnds ==
  /\ active # None /\ active' = None
  /\ UNCHANGED <<session, chosen, touched, locked, call, line, gateVars, peer, laneVars, proc, used>>

(* -------------------------------- sending --------------------------------- *)

Over(c) == call' = [call EXCEPT ![c].at = "over"]
Refuse(c) == Over(c) /\ UNCHANGED chatVars

\* A mutant: the choice is not read again after the preparation.
AdmitUnread(c, rows) ==
  LET to == ExecutionPeer(rows) IN
  IF session # "open" \/ active # None \/ ~Serves(to) THEN Refuse(c)
  ELSE /\ call' = [call EXCEPT ![c].at = "turn", ![c].peer = to]
       /\ active' = c /\ locked' = TRUE
       /\ UNCHANGED <<session, chosen, touched>>

\* The rest of prepareContext and #send, once the preparation is through: the choice is
\* read again, then the peer, and the first turn locks the workspace.
Admit(c, rows) ==
  LET to == ExecutionPeer(rows)
      stands == /\ session = "open" /\ Workspace = call[c].ws /\ active = None
                /\ Serves(to)
  IN IF ~stands THEN Refuse(c)
     ELSE /\ call' = [call EXCEPT ![c].at = "turn", ![c].peer = to]
          /\ active' = c /\ locked' = TRUE
          /\ UNCHANGED <<session, chosen, touched>>

\* #send with no turn running: a chat nobody configured is not prepared at all.
Send(c) ==
  /\ session = "open" /\ active = None
  /\ call[c].at = "new" /\ \A d \in 1..(c - 1) : call[d].at # "new"
  /\ IF Workspace = Home /\ ~touched /\ Current(row) = None
     THEN /\ call' = [call EXCEPT ![c] = [@ EXCEPT !.at = "turn", !.ws = Home, !.peer = Home]]
          /\ active' = c /\ locked' = TRUE
          /\ UNCHANGED <<session, chosen, touched, line>>
     ELSE /\ call' = [call EXCEPT ![c].at = "line", ![c].ws = Workspace]
          /\ line' = Append(line, c)
          /\ UNCHANGED chatVars
  /\ UNCHANGED <<gateVars, peer, laneVars, proc, used>>

\* #send while a turn runs: the words steer it.
Steer(c) ==
  /\ session = "open" /\ active # None
  /\ call[c].at = "new" /\ \A d \in 1..(c - 1) : call[d].at # "new"
  /\ call' = [call EXCEPT ![c] =
       IF ~Serves(ExecutionPeer(row)) THEN [@ EXCEPT !.at = "over"]
       ELSE [@ EXCEPT !.at = "steer", !.ws = Workspace, !.peer = ExecutionPeer(row)]]
  /\ UNCHANGED <<chatVars, line, gateVars, peer, laneVars, proc, used>>

(* ------------------------------ preparation ------------------------------- *)

Heads(c, at) == line # <<>> /\ c = Head(line) /\ call[c].at = at
GoesOn(c, at) == call' = [call EXCEPT ![c].at = at] /\ UNCHANGED <<chatVars, line>>
Leaves(c) == line' = Tail(line)

\* #prepare up to its first await.
Begin(c) ==
  LET e == Current(row)
      other == e # None /\ row[e].ws # call[c].ws
      gone == IF other THEN {e} ELSE {}
  IN
  /\ Heads(c, "line")
  /\ IF session = "deleted" \/ (other /\ locked)
     THEN Refuse(c) /\ Leaves(c) /\ UNCHANGED <<gateVars, peer, commands>>
     ELSE /\ row' = Retired(row, gone) /\ tokens' = tokens \ gone
          /\ peer' = Disconnected(gone)
          /\ commands' = (IF other THEN Sent(link, commands, Command("delete", e)) ELSE commands)
          /\ IF call[c].ws = Home \/ (Current(row') = None /\ ~link) THEN GoesOn(c, "local")
             ELSE IF ~link THEN Refuse(c) /\ Leaves(c)
             ELSE GoesOn(c, "models")
  /\ UNCHANGED <<link, receipts, stale, proc, used>>

\* The bot's own profile prepares its default context; it knows no other computer's
\* workspaces, and it may not answer.
LocalAnswers(c, prepared) ==
  /\ Heads(c, "local")
  /\ prepared => call[c].ws = Home
  /\ IF prepared THEN Admit(c, row) ELSE Refuse(c)
  /\ Leaves(c)
  /\ UNCHANGED <<gateVars, peer, laneVars, proc, used>>

\* The loop that waits for the execution to attach, at one look.
Look(c, e) ==
  IF peer[e] = "attached" THEN "configuring"
  ELSE IF session = "deleted" \/ row[e].stage = "failed" \/ ~link THEN "over"
  ELSE "waiting"
Goes(c, e, at) ==
  /\ call' = [call EXCEPT ![c].at = at, ![c].row = e]
  /\ line' = (IF at = "over" THEN Tail(line) ELSE line)
  /\ UNCHANGED chatVars

\* The model is known: an execution is started again, or its profile is read.
ModelsRead(c) ==
  LET e == Current(row) IN
  /\ Heads(c, "models")
  /\ IF e = None THEN GoesOn(c, "profile") /\ UNCHANGED commands
     ELSE IF session = "deleted" THEN Refuse(c) /\ Leaves(c) /\ UNCHANGED commands
     ELSE /\ commands' = Sent(link, commands, Command("create", e))
          /\ Goes(c, e, Look(c, e))
  /\ UNCHANGED <<gateVars, peer, link, receipts, stale, proc, used>>

\* The profile is read: the execution is recorded, may attach, and is started.
ProfileRead(c) ==
  /\ Heads(c, "profile")
  /\ IF session = "deleted" THEN Refuse(c) /\ Leaves(c) /\ UNCHANGED <<gateVars, commands>>
     ELSE \E e \in Execs :
       /\ row[e].stage = "none" /\ \A f \in 1..(e - 1) : row[f].stage # "none"
       /\ row' = [row EXCEPT ![e] = [stage |-> "starting", ws |-> call[c].ws]]
       /\ tokens' = tokens \cup {e}
       /\ commands' = Sent(link, commands, Command("create", e))
       /\ Goes(c, e, IF link THEN "waiting" ELSE "over")
  /\ UNCHANGED <<peer, link, receipts, stale, proc, used>>

\* A read of the model or of the profile fails.
ReadFails(c) ==
  /\ Heads(c, "models") \/ Heads(c, "profile")
  /\ Refuse(c) /\ Leaves(c)
  /\ UNCHANGED <<gateVars, peer, laneVars, proc, used>>

\* The next look finds something.
Poll(c) ==
  /\ Heads(c, "waiting") /\ Look(c, call[c].row) # "waiting"
  /\ Goes(c, call[c].row, Look(c, call[c].row))
  /\ UNCHANGED <<gateVars, peer, laneVars, proc, used>>

\* The 65 s are over.
TimesOut(c) ==
  /\ Heads(c, "waiting") /\ peer[call[c].row] # "attached"
  /\ Refuse(c) /\ Leaves(c)
  /\ UNCHANGED <<gateVars, peer, laneVars, proc, used>>

\* The execution answers the configuration request (only while it is attached), or the
\* request fails.  The row is marked ready whatever it says by now.
Configured(c, prepared) ==
  LET e == call[c].row
      ready == [row EXCEPT ![e].stage = IF @ = "gone" THEN @ ELSE "ready"]
  IN
  /\ Heads(c, "configuring")
  /\ prepared => peer[e] = "attached"
  /\ IF prepared /\ session # "deleted"
     THEN row' = ready /\ Admit(c, ready)
     ELSE Refuse(c) /\ UNCHANGED row
  /\ Leaves(c)
  /\ UNCHANGED <<tokens, peer, laneVars, proc, used>>

(* --------------------------- executions and peers ------------------------- *)

\* What lost its chat, or was retired and has no receipt yet.
Lost(e) == row[e].stage = "deleted" \/ (row[e].stage \notin Dead /\ session = "deleted")

\* Executions in the order of their creation.
Listed(S) == {list \in [1..Cardinality(S) -> S] : \A i, j \in DOMAIN list : i < j => list[i] < list[j]}

\* A mutant: a retired execution is not told again.
ReconcileLive(there, queue) ==
  LET gone == {e \in Live : Lost(e)}
      again == {e \in Live \ gone : peer[e] # "attached"}
      Order(e) == Command(IF e \in gone THEN "delete" ELSE "create", e)
      told == {e \in gone \cup again : there /\ ~Contains(queue, Order(e))}
  IN
  /\ row' = Retired(row, gone) /\ tokens' = tokens \ gone
  /\ peer' = Disconnected(gone)
  /\ \E list \in Listed(told) : commands' = queue \o [i \in DOMAIN list |-> Order(list[i])]

\* #reconcile, by the 10 s sweep or at a hello: what lost its chat is torn down, again
\* until a receipt says so, and what is not attached is started again.
Reconcile(there, queue) ==
  LET gone == {e \in Execs : Lost(e)}
      again == {e \in Live \ gone : peer[e] # "attached"}
      Order(e) == Command(IF e \in gone THEN "delete" ELSE "create", e)
      told == {e \in gone \cup again : there /\ ~Contains(queue, Order(e))}
  IN
  /\ row' = Retired(row, gone) /\ tokens' = tokens \ gone
  /\ peer' = Disconnected(gone)
  /\ \E list \in Listed(told) : commands' = queue \o [i \in DOMAIN list |-> Order(list[i])]

Sweep ==
  /\ Reconcile(link, commands)
  /\ UNCHANGED <<chatVars, call, line, link, receipts, stale, proc, used>>

\* The child dials with its token.
Dial(e) ==
  /\ proc[e] # "none" /\ peer[e] = "none" /\ e \in tokens
  /\ peer' = [peer EXCEPT ![e] = "dialing"]
  /\ UNCHANGED <<chatVars, call, line, gateVars, laneVars, proc, used>>

\* A mutant: the token is looked up at the upgrade only.
HelloTrusted(e) ==
  /\ peer[e] = "dialing" /\ peer' = [peer EXCEPT ![e] = "attached"]
  /\ UNCHANGED <<chatVars, call, line, gateVars, laneVars, proc, used>>

\* Its first message looks the token up again: it may be withdrawn by then.
Hello(e) ==
  /\ peer[e] = "dialing"
  /\ peer' = [peer EXCEPT ![e] = IF e \in tokens THEN "attached" ELSE "none"]
  /\ UNCHANGED <<chatVars, call, line, gateVars, laneVars, proc, used>>
Breaks == used.breaks < MaxBreaks /\ used' = [used EXCEPT !.breaks = @ + 1]
PeerDrops(e) ==
  /\ peer[e] # "none" /\ Breaks /\ peer' = [peer EXCEPT ![e] = "none"]
  /\ UNCHANGED <<chatVars, call, line, gateVars, laneVars, proc>>

(* --------------------------- the computer's stream ------------------------ *)

Receipt(op, e, stage) == [op |-> op, execution |-> e, stage |-> stage]

\* #receive: a receipt counts only for the operation the row is waiting on.
Received(rows, r) ==
  LET e == r.execution IN
  IF rows[e].stage \in {"none", "gone"} THEN rows
  ELSE IF rows[e].stage = "deleted"
       THEN IF r.op = "delete" /\ r.stage = "deleted" THEN [rows EXCEPT ![e].stage = "gone"] ELSE rows
       ELSE IF r.op = "create" THEN [rows EXCEPT ![e].stage = r.stage] ELSE rows

Receive ==
  /\ receipts # <<>>
  /\ row' = Received(row, Head(receipts)) /\ receipts' = Tail(receipts)
  /\ UNCHANGED <<chatVars, call, line, tokens, peer, link, commands, stale, proc, used>>
\* Frames of a superseded socket are still handed to the listeners until it closes.
ReceiveStale ==
  /\ stale # <<>>
  /\ row' = Received(row, Head(stale)) /\ stale' = Tail(stale)
  /\ UNCHANGED <<chatVars, call, line, tokens, peer, link, commands, receipts, proc, used>>
StaleCloses ==
  /\ stale # <<>> /\ stale' = <<>>
  /\ UNCHANGED <<chatVars, call, line, gateVars, peer, link, commands, receipts, proc, used>>

\* An authenticated hello, on the first socket or one that supersedes another.
RunnerHello ==
  /\ ~link /\ link' = TRUE /\ Reconcile(TRUE, <<>>)
  /\ UNCHANGED <<chatVars, call, line, receipts, stale, proc, used>>
RunnerSupersedes ==
  /\ link /\ Breaks /\ Reconcile(TRUE, <<>>)
  /\ stale' = receipts /\ receipts' = <<>>
  /\ UNCHANGED <<chatVars, call, line, link, proc>>
\* The gateway sees the socket close, or 45 s of silence.
RunnerCloses ==
  /\ link /\ Breaks /\ link' = FALSE /\ commands' = <<>> /\ receipts' = <<>>
  /\ UNCHANGED <<chatVars, call, line, gateVars, peer, stale, proc>>

(* ------------------------------ the computer ------------------------------ *)

Stopped(e) == [proc EXCEPT ![e] = "none"]
Unplugged(e) == [peer EXCEPT ![e] = "none"]

\* The next command: a process is started once, a second create tells how it is.
RunnerTakes ==
  /\ link /\ commands # <<>> /\ Len(receipts) < MaxFrames
  /\ commands' = Tail(commands)
  /\ LET e == Head(commands).execution IN
     IF Head(commands).kind = "delete"
     THEN /\ proc' = Stopped(e) /\ peer' = Unplugged(e)
          /\ receipts' = Append(receipts, Receipt("delete", e, "deleted"))
     ELSE /\ proc' = [proc EXCEPT ![e] = IF @ = "none" THEN "booting" ELSE @]
          /\ receipts' = Append(receipts,
               Receipt("create", e, IF proc[e] = "up" THEN "ready" ELSE "starting"))
          /\ UNCHANGED peer
  /\ UNCHANGED <<chatVars, call, line, gateVars, link, stale, used>>
\* A process is healthy, or is given up.
Boots(e) ==
  /\ proc[e] = "booting" /\ Len(receipts) < MaxFrames
  /\ \/ /\ proc' = [proc EXCEPT ![e] = "up"] /\ UNCHANGED peer
        /\ receipts' = (IF link THEN Append(receipts, Receipt("create", e, "ready")) ELSE receipts)
     \/ /\ proc' = Stopped(e) /\ peer' = Unplugged(e)
        /\ receipts' = (IF link THEN Append(receipts, Receipt("create", e, "failed")) ELSE receipts)
  /\ UNCHANGED <<chatVars, call, line, gateVars, link, commands, stale, used>>
\* The program ends, and its children with it.
RunnerDies ==
  /\ Breaks
  /\ proc' = [e \in Execs |-> "none"] /\ peer' = [e \in Execs |-> "none"]
  /\ link' = FALSE /\ commands' = <<>> /\ receipts' = <<>> /\ stale' = <<>>
  /\ UNCHANGED <<chatVars, call, line, gateVars>>

\* The gateway restarts: preparations and sockets are gone, and the tokens are those of
\* the live rows that have a conversation.
GatewayRestarts ==
  /\ Breaks
  /\ call' = [c \in Sends |-> IF call[c].at \in Pending THEN [call[c] EXCEPT !.at = "over"] ELSE call[c]]
  /\ line' = <<>> /\ peer' = [e \in Execs |-> "none"]
  /\ tokens' = (IF session = "deleted" THEN {} ELSE Live)
  /\ link' = FALSE /\ commands' = <<>> /\ receipts' = <<>> /\ stale' = <<>>
  /\ UNCHANGED <<chatVars, row, proc>>

(* ------------------------------ specification ----------------------------- *)

Init ==
  /\ session = "open" /\ chosen = <<Home>> /\ touched = FALSE /\ locked = FALSE
  /\ active = None
  /\ call = [c \in Sends |-> [at |-> "new", ws |-> Home, row |-> None, peer |-> None]]
  /\ line = <<>>
  /\ row = [e \in Execs |-> [stage |-> "none", ws |-> Home]] /\ tokens = {}
  /\ peer = [e \in Execs |-> "none"]
  /\ link = TRUE /\ commands = <<>> /\ receipts = <<>> /\ stale = <<>>
  /\ proc = [e \in Execs |-> "none"]
  /\ used = [visits |-> 0, breaks |-> 0]

Prepares(c) ==
  \/ \E prepared \in BOOLEAN : LocalAnswers(c, prepared) \/ Configured(c, prepared)
  \/ ModelsRead(c) \/ ProfileRead(c) \/ ReadFails(c) \/ Poll(c) \/ TimesOut(c)
Person ==
  \/ \E ws \in Choice : Configure(ws)
  \/ Leave \/ Return \/ DeleteSession \/ TurnEnds
  \/ \E c \in Sends : Send(c) \/ Steer(c)
Lane == Receive \/ ReceiveStale \/ StaleCloses \/ RunnerHello \/ RunnerSupersedes \/ RunnerCloses
Computer == RunnerTakes \/ RunnerDies \/ \E e \in Execs : Boots(e) \/ Dial(e) \/ Hello(e) \/ PeerDrops(e)

\* The head of the line begins before another callback runs.
Due == line # <<>> /\ call[Head(line)].at = "line"
Next ==
  \/ \E c \in Sends : Begin(c)
  \/ ~Due /\ (Person \/ Sweep \/ Lane \/ Computer \/ GatewayRestarts \/ \E c \in Sends : Prepares(c))
Spec == Init /\ [][Next]_vars

\* The sweep's timer goes on, the event loop reads what has arrived, and a computer
\* that is running dials again and carries out what it is sent.
FairSpec ==
  /\ Spec /\ WF_vars(\E c \in Sends : Begin(c))
  /\ WF_vars(~Due /\ Sweep) /\ WF_vars(~Due /\ Receive) /\ WF_vars(~Due /\ RunnerHello)
  /\ WF_vars(~Due /\ RunnerTakes)

(* ------------------------------- properties ------------------------------- *)

TypeOK ==
  /\ session \in {"open", "left", "deleted"} /\ chosen \in Seq(Choice) /\ chosen # <<>>
  /\ {touched, locked, link} \subseteq BOOLEAN /\ active \in Sends \cup {None}
  /\ call \in [Sends -> [at : {"new", "over"} \cup Pending \cup Taken, ws : Choice,
                         row : Execs \cup {None}, peer : Execs \cup {Home, None}]]
  /\ line \in Seq(Sends) /\ IsInjective(line)
  /\ \A c \in Sends : call[c].at \in Pending <=> Contains(line, c)
  /\ row \in [Execs -> [stage : {"starting", "ready", "failed"} \cup Dead, ws : Choice]]
  /\ tokens \subseteq Execs /\ peer \in [Execs -> {"none", "dialing", "attached"}]
  /\ proc \in [Execs -> {"none", "booting", "up"}]

\* A send's words run where the chat is locked to run.
GoesToWorkspace(c) ==
  /\ locked /\ call[c].ws = Workspace
  /\ IF Workspace = Home THEN call[c].peer = Home
     ELSE call[c].peer \in Execs /\ row[call[c].peer].ws = Workspace

\* The bot's own profile was given up for a workspace, which a send read, and taken back
\* before an earlier send that had read the profile was admitted.
TakenBack ==
  \E c, d \in Sends :
    /\ c < d /\ call[c].at = "turn" /\ call[c].ws = Home
    /\ call[d].at # "new" /\ call[d].ws # Home

\* Every word of a chat goes to one place, the workspace the chat is locked to: a turn
\* admitted after the choice changed, or a steer that takes another way than the turn it
\* joins, would run in the wrong files.  A turn does so whatever the person chooses in the
\* meantime; a steer does unless the profile was taken back while sends prepared: then the
\* later send still starts its workspace's execution, and steers go there (see the README).
RunsWhereChosen ==
  \A c \in Sends :
    \/ call[c].at \notin Taken \/ GoesToWorkspace(c)
    \/ call[c].at = "steer" /\ TakenBack

\* A chat has one execution at most, only it is attached, and no process of the computer
\* outlives the row that would have it stopped.
OneExecution ==
  /\ Cardinality(Live) <= 1
  /\ \A e \in Execs : peer[e] = "attached" => e \in Live
  /\ \A e \in Execs : proc[e] # "none" => row[e].stage # "gone"

\* What lost its chat or its workspace is torn down, through lost commands and receipts,
\* replaced sockets and restarts of either side.
TornDown == (\E e \in Execs : Lost(e)) ~> ~\E e \in Execs : Lost(e)
=============================================================================
