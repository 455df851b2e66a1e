------------------------------- MODULE Tasks -------------------------------
(* One durable task (tasks.ts): the outcome a person asked for, carried out by *)
(* a chain of runs, each run one turn of the agent.  The task's state is what  *)
(* its append-only event stream says; runs reach the agent through the task's  *)
(* own dispatch outbox and then the attach command outbox; the native data     *)
(* plane (native-data-plane.ts) ends, on its own clock, the turns the agent    *)
(* never ends.                                                                 *)
(*                                                                             *)
(* The three do not share a lock or a clock.  Each action is one handler or    *)
(* one timer of the gateway, or one frame of the agent: SQLite transactions    *)
(* are synchronous, so a handler is one step.                                  *)
(*                                                                             *)
(* A run is a number; run n + 1 is always made from the current run n, which   *)
(* is its predecessor.  The first run is queued with the task (admit).         *)
EXTENDS Naturals, FiniteSets, FiniteSetsExt

CONSTANTS
  MaxRuns,        \* runs the task may have
  MaxWaits,       \* approvals and device requests the agent raises, numbered
  DeviceWaits,    \* the numbers of the device requests among them
  Budget,         \* automaticRetryBudget
  MaxAbsences,    \* how often the agent's socket is lost
  MaxLosses,      \* how often the agent process restarts without its runs
  MaxRestarts,    \* how often the gateway restarts
  MaxCommands,    \* how often a person pauses, resumes, retries or rescopes
  MaxRequests,    \* how often the agent asks, declares or verifies
  MaxEvents       \* how many of all these happen in one behaviour

ASSUME TasksAssumption ==
  /\ MaxRuns \in Nat \ {0}
  /\ DeviceWaits \subseteq 1..MaxWaits
  /\ {MaxWaits, Budget, MaxAbsences, MaxLosses, MaxRestarts,
      MaxCommands, MaxRequests, MaxEvents} \subseteq Nat

VARIABLES
  \* --- the gateway, on disk
  task,      \* what the task's event stream says
  waits,     \* task_waits: per id, the run it belongs to and whether it is open
  absence,   \* task_absences: per run, the open episode and whether it is 120 s old
  need,      \* per run, its declared artifact
  dispatch,  \* task_dispatches: per kind and run, "open", "sent" or "void"
  command,   \* attach_command_outbox: per run, its turn command
  active,    \* bot_native_sessions.active_turn_id of the session
  native,    \* bot_native_turn_terminals: runs the native data plane ended
  \* --- the gateway, in memory
  live,      \* #live: the agent's socket is up
  \* --- the agent and what is on its way to it
  downlink,  \* interrupts and steers queued for the agent
  exec,      \* per run, what the agent does with it
  \* --- bounds
  used       \* how often each bounded thing happened

gateway == <<task, waits, absence, need, dispatch, command, active, native>>
vars == <<gateway, live, downlink, exec, used>>

Runs == 1..MaxRuns
Waits == 1..MaxWaits
NoRun == 0

Terminal == {"completed", "failed", "cancelled"}
WaitStates == {"waiting_for_approval", "waiting_for_user_input", "waiting_for_device"}
Executing == {"running", "verifying"} \cup WaitStates
States == {"queued", "blocked"} \cup Executing \cup Terminal

\* The reasons after which event() takes no further terminal of the run, and
\* those after which nativeTerminal() takes none.
FailureReasons == {"run_timed_out", "run_failed", "run_interrupted", "effects_uncertain"}
OutcomeReasons == FailureReasons \cup
  {"run_completed", "awaiting_artifacts", "user_cancelled", "user_paused"}
\* The reasons that settle or replace a pending cancel or pause.
IntentReasons == {"user_cancelled", "user_paused", "run_completed", "run_failed",
                  "run_interrupted", "run_timed_out"}
Reasons == OutcomeReasons \cup
  {"task_created", "run_started", "cancel_requested", "pause_requested",
   "user_resumed", "retry_requested", "auto_retry", "command_discarded",
   "approval_requested", "device_requested", "wait_settled",
   "verification_started", "verification_failed", "terminal_proof_recorded",
   "artifact_commit_failed", "owner_unreachable", "owner_reattached", "owner_deleted"}

------------------------------------------------------------------------------
(* The event stream.                                                           *)

\* An appended event, as every later read of the stream sees it: nothing is
\* appended after a terminal state.  from and reason are those of the last
\* event that changed the state; intent is the cancel or pause not yet landed;
\* failed and settled are the runs whose outcome is recorded.
Appended(t, to, reason) ==
  IF t.state \in Terminal THEN t
  ELSE [t EXCEPT
    !.state = to,
    !.from = IF to = t.state THEN @ ELSE t.state,
    !.reason = IF to = t.state THEN @ ELSE reason,
    !.intent = CASE reason = "cancel_requested" -> "cancel"
                 [] reason = "pause_requested" -> "pause"
                 [] reason \in IntentReasons -> "none"
                 [] OTHER -> @,
    !.failed = IF reason \in FailureReasons THEN @ \cup {t.run} ELSE @,
    !.settled = IF reason \in OutcomeReasons THEN @ \cup {t.run} ELSE @,
    !.awaiting = IF reason = "awaiting_artifacts" THEN @ \cup {t.run} ELSE @,
    !.base = IF /\ reason \in {"approval_requested", "device_requested"}
                /\ t.state \in {"running", "verifying"}
             THEN t.state ELSE @]

\* A new run made from the current one.
NextRun(t, reason) ==
  Appended([t EXCEPT !.run = @ + 1, !.retries = IF reason = "auto_retry" THEN @ + 1 ELSE @],
           "queued", reason)

\* The agent ended the run: its terminal is in attach_turn_terminals.
Sealed(r) == exec[r] = "sealed"

\* #executionEnded: the last run of the chain that reached the command outbox
\* was sealed by the agent or never delivered to it.
EndedIn(cmd, r) ==
  LET queued == {q \in 1..r : cmd[q] # "none"}
  IN queued # {} => Sealed(Max(queued)) \/ cmd[Max(queued)] = "cancelled"
Ended(r) == EndedIn(command, r)

OpenWaits(ws, r) == {w \in Waits : ws[w].run = r /\ ws[w].status = "open"}
WaitState(w) == IF w \in DeviceWaits THEN "waiting_for_device" ELSE "waiting_for_approval"

------------------------------------------------------------------------------
(* Waits: approvals and device requests that suspend a run.                    *)

\* wait() with status pending.
Waiting(t, w) ==
  IF t.state \in Executing
  THEN Appended(t, IF t.state \in WaitStates THEN t.state ELSE WaitState(w),
                IF w \in DeviceWaits THEN "device_requested" ELSE "approval_requested")
  ELSE t

\* A mutant: an answer resumes a task whose run has ended.
ResumedWhenEnded(t, ws, w) ==
  IF t.state \notin WaitStates \/ ~ws[w].noted THEN t
  ELSE Appended(t, t.base, "wait_settled")

\* wait() of the current run with any other status, ws the rows after the wait
\* was settled: a run that ended, a task that is not waiting, or a request that
\* left no event gets the settlement recorded and nothing else.
Resumed(t, ws, w) ==
  IF \/ t.state \notin WaitStates
     \/ ~ws[w].noted
     \/ Ended(t.run)
  THEN t
  ELSE LET next == OpenWaits(ws, t.run)
       IN Appended(t, IF next = {} THEN t.base ELSE WaitState(Min(next)),
                   "wait_settled")

SettledWait(ws, w) == [ws EXCEPT ![w].status = "settled"]

------------------------------------------------------------------------------
(* Artifacts a run declared.                                                   *)

\* #settleRequirements.
Requirements(t, nd) ==
  IF t.run \notin t.awaiting \/ t.state # "verifying" THEN t
  ELSE CASE nd[t.run] = "failed" -> Appended(t, "blocked", "artifact_commit_failed")
         [] nd[t.run] = "committed" -> Appended(t, "completed", "terminal_proof_recorded")
         [] OTHER -> t

------------------------------------------------------------------------------
(* reconcile(), which runs on every heartbeat, presence change, read and       *)
(* command.                                                                    *)

\* What reattachment gives back to a task that lost its owner.
Restored(t, ws) ==
  LET next == OpenWaits(ws, t.run)
  IN IF t.from \notin WaitStates THEN t.from
     ELSE IF next = {} THEN t.base ELSE WaitState(Min(next))

\* A pending cancel or pause whose run has ended.
Landed(t) == Appended(t, IF t.intent = "cancel" THEN "cancelled" ELSE "waiting_for_user_input",
                      IF t.intent = "cancel" THEN "user_cancelled" ELSE "user_paused")
IntentLands(t) == t.intent # "none" /\ Ended(t.run)

\* The 120 s lease of an artifact that is declared and never proved.
Unproven(t, late) ==
  late /\ t.state = "verifying" /\ Ended(t.run) /\ need[t.run] = "declared"

\* A lost owner is measured only while a run executes and nobody paused it.
Leased(t) == ~Ended(t.run) /\ t.state \in Executing /\ t.reason # "user_paused"

\* The task and its absence after one pass, up being the agent's presence and
\* late whether an unproven artifact's lease is over.
ReconciledTask(t, ws, up, late) ==
  LET proved == Requirements(t, need)
  IN IF t.state \in Terminal THEN t
     ELSE IF IntentLands(t) THEN Landed(t)
     ELSE IF Unproven(proved, late) THEN Appended(proved, "failed", "verification_failed")
     ELSE IF /\ up /\ absence[t.run] # "none"
             /\ t.state = "blocked" /\ t.reason = "owner_unreachable"
     THEN Appended(proved, Restored(t, ws), "owner_reattached")
     ELSE IF ~up /\ Leased(t) /\ absence[t.run] = "lapsed"
     THEN Appended(proved, "blocked", "owner_unreachable")
     ELSE proved

ReconciledAbsence(t, up, late) ==
  IF t.state \in Terminal \/ IntentLands(t) \/ Unproven(Requirements(t, need), late)
  THEN absence
  ELSE IF up THEN [absence EXCEPT ![t.run] = "none"]
  ELSE IF Leased(t) /\ absence[t.run] = "none" THEN [absence EXCEPT ![t.run] = "open"]
  ELSE absence

\* Nothing is left for a pass to do: the commands run behind such a pass.
Reconciled == /\ ReconciledTask(task, waits, live, FALSE) = task
              /\ ReconciledAbsence(task, live, FALSE) = absence

------------------------------------------------------------------------------
(* Runs that end.                                                              *)

\* A row of the dispatch outbox, written once (INSERT OR IGNORE by id; a later
\* command with another id asks for the same thing again).
Asked(d, kind, r) == [d EXCEPT ![<<kind, r>>] = "open"]

\* discarded(): a turn the agent never took.  The task gives up, lands a pending
\* intent, or spends its automatic retry on a new run.
DiscardedTask(t, r) ==
  IF t.run # r \/ t.state # "queued" THEN t
  ELSE LET blocked == Appended(t, "blocked", "command_discarded")
       IN IF t.intent # "none" THEN Landed(blocked)
          ELSE IF t.retries < Budget THEN NextRun(blocked, "auto_retry")
          ELSE blocked

DispatchOfNext(d, t, u) == IF u.run > t.run THEN Asked(d, "turn", u.run) ELSE d

\* nativeTerminal(): the native data plane ended run r with this status.
NativeTask(t, r, status) ==
  IF t.run # r \/ r \in t.settled THEN t
  ELSE CASE status = "cancelled" -> Appended(t, "cancelled", "user_cancelled")
         [] status = "completed" -> Appended(t, "completed", "run_completed")
         [] status = "timed_out" -> Appended(t, "blocked", "run_timed_out")
         [] status = "interrupted" -> Appended(t, "blocked", "run_interrupted")
         [] OTHER -> Appended(t, "blocked", "run_failed")

\* #expireTurnInteractions: what run r asked and nobody answered.  The task
\* has its outcome by then, so the settlement is only recorded.
Expired(ws, r) ==
  [w \in Waits |-> IF ws[w].run = r /\ ws[w].status = "open" /\ w \notin DeviceWaits
                   THEN [ws[w] EXCEPT !.status = "settled"] ELSE ws[w]]

\* A mutant: the ended turn stays the session's.
FinishKept(t, r, status) ==
  /\ active = r
  /\ active' = IF status = "timed_out" THEN r ELSE NoRun
  /\ native' = native \cup {r}
  /\ task' = NativeTask(t, r, status)
  /\ waits' = Expired(waits, r)

\* #finish(): run r, if it is still the session's turn.
Finish(t, r, status) ==
  /\ active = r
  /\ active' = NoRun
  /\ native' = native \cup {r}
  /\ task' = NativeTask(t, r, status)
  /\ waits' = Expired(waits, r)

\* event() for a terminal of run r.
EventTask(t, r, kind) ==
  IF t.run # r \/ r \in t.failed THEN t
  ELSE CASE kind = "commit" ->
              IF need[r] \in {"declared", "failed"}
              THEN Requirements(Appended(t, "verifying", "awaiting_artifacts"), need)
              ELSE Appended(t, "completed", "run_completed")
         [] kind \in {"interrupted", "cancelled"} /\ t.intent # "none" -> Landed(t)
         [] kind = "interrupted" -> Appended(t, "blocked", "run_interrupted")
         [] kind = "cancelled" -> Appended(t, "cancelled", "user_cancelled")
         [] kind = "uncertain" -> Appended(t, "blocked", "effects_uncertain")
         [] OTHER -> Appended(t, "blocked", "run_failed")

\* The agent's terminal of run r is admitted to the inbox.
Seal(r, kind) ==
  /\ exec' = [exec EXCEPT ![r] = "sealed"]
  /\ task' = EventTask(task, r, kind)

------------------------------------------------------------------------------
Init ==
  /\ task = [state |-> "queued", from |-> "none", reason |-> "task_created",
             intent |-> "none", run |-> 1, retries |-> 0, failed |-> {},
             settled |-> {}, awaiting |-> {}, base |-> "running"]
  /\ waits = [w \in Waits |-> [run |-> NoRun, status |-> "none", noted |-> FALSE]]
  /\ absence = [r \in Runs |-> "none"]
  /\ need = [r \in Runs |-> "none"]
  /\ dispatch = [k \in {"turn", "interrupt", "steer"} \X Runs |-> "none"]
  /\ command = [r \in Runs |-> IF r = 1 THEN "queued" ELSE "none"]
  /\ active = 1
  /\ native = {}
  /\ live \in BOOLEAN
  /\ downlink = {}
  /\ exec = [r \in Runs |-> "none"]
  /\ used = [absences |-> 0, losses |-> 0, restarts |-> 0, commands |-> 0, requests |-> 0]

Use(what, bound) ==
  /\ used[what] < bound
  /\ used.absences + used.losses + used.restarts + used.commands + used.requests < MaxEvents
  /\ used' = [used EXCEPT ![what] = @ + 1]

------------------------------------------------------------------------------
(* The heartbeat.                                                              *)

\* reconcile(), in which an approval or a request may turn out to be due.
Reconcile ==
  \E late \in BOOLEAN :
    /\ task' = ReconciledTask(task, waits, live, late)
    /\ absence' = ReconciledAbsence(task, live, late)
    /\ <<task, absence>>' # <<task, absence>>
    /\ UNCHANGED <<waits, need, dispatch, command, active, native, live, downlink, exec, used>>

\* The first part of the same pass: an overdue wait is settled as expired.
ReconcileWait ==
  \E w \in Waits :
    /\ waits[w].status = "open" /\ waits[w].run = task.run
    /\ waits' = SettledWait(waits, w)
    /\ task' = Resumed(task, waits', w)
    /\ UNCHANGED <<absence, need, dispatch, command, active, native, live, downlink, exec, used>>

\* An open absence grows 120 s old.
AbsenceLapses ==
  \E r \in Runs :
    /\ absence[r] = "open" /\ ~live
    /\ absence' = [absence EXCEPT ![r] = "lapsed"]
    /\ UNCHANGED <<task, waits, need, dispatch, command, active, native, live, downlink, exec, used>>

\* dispatch() drops rows: the task is over, or a turn is no longer wanted.
Unwanted(kind) ==
  /\ kind # "interrupt"
  /\ \/ task.state \in Terminal
     \/ kind = "turn" /\ (task.intent # "none" \/ task.reason = "user_paused")
VoidDispatch ==
  LET void == {k \in DOMAIN dispatch : dispatch[k] = "open" /\ Unwanted(k[1])}
  IN /\ void # {}
     /\ dispatch' = [k \in DOMAIN dispatch |-> IF k \in void THEN "void" ELSE dispatch[k]]
     /\ UNCHANGED <<task, waits, absence, need, command, active, native, live, downlink, exec, used>>

\* A mutant: a successor does not wait for its predecessor.
NoPredecessor(r) == TRUE

\* dispatch() of a turn, and enqueueTaskCommand: it waits for its predecessor's
\* execution and for the session's own turn to end.
PredecessorEnded(r) == r = 1 \/ Ended(r - 1)
DispatchTurn(r) ==
  /\ dispatch[<<"turn", r>>] = "open"
  /\ ~Unwanted("turn")
  /\ task.state = "queued" /\ task.run = r
  /\ PredecessorEnded(r)
  /\ active \in {NoRun, r}
  /\ dispatch' = [dispatch EXCEPT ![<<"turn", r>>] = "sent"]
  /\ command' = [command EXCEPT ![r] = "queued"]
  /\ active' = r
  /\ UNCHANGED <<task, waits, absence, need, native, live, downlink, exec, used>>

\* dispatch() of an interrupt or a steer.
DispatchFrame(kind, r) ==
  /\ dispatch[<<kind, r>>] = "open"
  /\ ~Unwanted(kind)
  /\ kind = "steer" => command[r] # "none"
  /\ dispatch' = [dispatch EXCEPT ![<<kind, r>>] = "sent"]
  /\ downlink' = downlink \cup {<<kind, r>>}
  /\ UNCHANGED <<task, waits, absence, need, command, active, native, live, exec, used>>

------------------------------------------------------------------------------
(* A person.  A command is refused in silence where its guard fails, and each  *)
(* runs behind a reconcile() of its own.                                       *)

\* A pending cancel refuses everything but a cancel and a new scope.
Commanded(needs) ==
  /\ Reconciled
  /\ task.state \notin Terminal
  /\ needs
  /\ Use("commands", MaxCommands)

\* cancel and pause: asked at once, landed when the run has ended.
Intend(reason) ==
  LET asked == Appended(task, task.state, reason)
  IN IF Ended(task.run)
     THEN task' = Landed(asked) /\ UNCHANGED dispatch
     ELSE /\ task' = asked
          /\ dispatch' = IF command[task.run] = "acked"
                         THEN Asked(dispatch, "interrupt", task.run) ELSE dispatch

Cancel ==
  /\ Commanded(task.intent # "cancel")
  /\ Intend("cancel_requested")
  /\ UNCHANGED <<waits, absence, need, command, active, native, live, downlink, exec>>

Pause ==
  /\ Commanded(/\ task.intent = "none"
               /\ task.state \in {"queued", "running", "verifying",
                                 "waiting_for_approval", "waiting_for_device"})
  /\ Intend("pause_requested")
  /\ UNCHANGED <<waits, absence, need, command, active, native, live, downlink, exec>>

\* resume and retry: a new run, and the old one is interrupted if it runs on.
Renew(reason) ==
  /\ task.run < MaxRuns
  /\ task' = NextRun(task, reason)
  /\ dispatch' = LET queued == Asked(dispatch, "turn", task.run + 1)
                 IN IF Ended(task.run) THEN queued ELSE Asked(queued, "interrupt", task.run)
  /\ UNCHANGED <<waits, absence, need, command, active, native, live, downlink, exec>>

Resume ==
  /\ Commanded(task.state = "waiting_for_user_input" /\ task.reason = "user_paused")
  /\ Renew("user_resumed")
Retry ==
  /\ Commanded(task.state = "blocked" /\ task.intent # "cancel")
  /\ Renew("retry_requested")

\* scope: a new goal, told to the run that is executing.
Scope ==
  /\ Commanded(~Ended(task.run))
  /\ dispatch' = Asked(dispatch, "steer", task.run)
  /\ UNCHANGED <<task, waits, absence, need, command, active, native, live, downlink, exec>>

\* The answer to an approval, or the phone's to a device request.
Answer(w) ==
  /\ waits[w].status = "open" /\ waits[w].run = task.run
  /\ waits' = SettledWait(waits, w)
  /\ task' = Resumed(task, waits', w)
  /\ UNCHANGED <<absence, need, dispatch, command, active, native, live, downlink, exec, used>>

\* ownerDeleted(): the bot goes, its history may stay.
OwnerDeleted ==
  /\ task.state \notin Terminal
  /\ Use("commands", MaxCommands)
  /\ task' = Appended(task, "cancelled", "owner_deleted")
  /\ dispatch' = [k \in DOMAIN dispatch |-> IF dispatch[k] = "open" THEN "void" ELSE dispatch[k]]
  /\ waits' = [w \in Waits |-> IF waits[w].status = "open"
                               THEN [waits[w] EXCEPT !.status = "settled"] ELSE waits[w]]
  /\ UNCHANGED <<absence, need, command, active, native, live, downlink, exec>>

------------------------------------------------------------------------------
(* The agent.                                                                  *)

TakeTurn(r) ==
  /\ live /\ command[r] = "queued" /\ exec[r] = "none"
  /\ exec' = [exec EXCEPT ![r] = "running"]
  /\ UNCHANGED <<gateway, live, downlink, used>>

\* A mutant: a cancel asked before the acknowledgement is forgotten.
AckTurnOnly(r) ==
  /\ live /\ exec[r] # "none" /\ command[r] = "queued"
  /\ command' = [command EXCEPT ![r] = "acked"]
  /\ task' = IF task.state = "queued" /\ task.run = r
             THEN Appended(task, "running", "run_started") ELSE task
  /\ UNCHANGED <<waits, absence, need, dispatch, active, native, live, downlink, exec, used>>

\* ackAttachCommand, or the cursor of the next hello (reconcileAttachResume),
\* and acknowledged(): the run starts; a cancel or pause that was waiting for
\* it is sent after it.
AckTurn(r) ==
  /\ live /\ exec[r] # "none" /\ command[r] = "queued"
  /\ command' = [command EXCEPT ![r] = "acked"]
  /\ task' = IF task.state = "queued" /\ task.run = r
             THEN Appended(task, "running", "run_started") ELSE task
  /\ dispatch' = IF task.intent # "none" THEN Asked(dispatch, "interrupt", r) ELSE dispatch
  /\ UNCHANGED <<waits, absence, need, active, native, live, downlink, exec, used>>

Speaks(r) == live /\ exec[r] = "running" /\ command[r] # "queued"

\* An approval or a device request, and wait() with status pending.
Ask(r, w) ==
  /\ Speaks(r) /\ waits[w].status = "none" /\ task.run = r
  /\ Use("requests", MaxRequests)
  /\ \A v \in Waits : v < w => waits[v].status # "none"
  /\ waits' = [waits EXCEPT ![w] = [run |-> r, status |-> "open",
                                    noted |-> task.state \in Executing]]
  /\ task' = Waiting(task, w)
  /\ UNCHANGED <<absence, need, dispatch, command, active, native, live, downlink, exec>>

\* A verification tool starts, or fails.
Verify(r) ==
  /\ Use("requests", MaxRequests)
  /\ Speaks(r) /\ task.run = r /\ r \notin task.failed
  /\ \/ task.state = "running" /\ task' = Appended(task, "verifying", "verification_started")
     \/ task.state = "verifying" /\ task' = Appended(task, "running", "verification_failed")
  /\ UNCHANGED <<waits, absence, need, dispatch, command, active, native, live, downlink, exec>>

\* An artifact is declared, and later committed or refused (artifactsSettled).
Declare(r) ==
  /\ Use("requests", MaxRequests)
  /\ Speaks(r) /\ need[r] = "none" /\ task.run = r
  /\ need' = [need EXCEPT ![r] = "declared"]
  /\ UNCHANGED <<task, waits, absence, dispatch, command, active, native, live, downlink, exec>>
SettleArtifact(r, outcome) ==
  /\ live /\ need[r] = "declared"
  /\ need' = [need EXCEPT ![r] = outcome]
  /\ task' = IF task.run = r THEN Requirements(task, need') ELSE task
  /\ UNCHANGED <<waits, absence, dispatch, command, active, native, live, downlink, exec, used>>

\* A terminal of the agent's own: its reply, a failure, a stop.
Ends(r, kind) ==
  /\ Speaks(r)
  /\ Seal(r, kind)
  /\ UNCHANGED <<waits, absence, need, dispatch, command, active, native, live, downlink, used>>

\* An interrupt or a steer arrives.  A run this process does not hold is
\* refused with a failed terminal; an interrupted one is sealed after a grace.
TakeFrame(kind, r) ==
  /\ live /\ <<kind, r>> \in downlink
  /\ command[r] # "queued"
  /\ downlink' = downlink \ {<<kind, r>>}
  /\ CASE exec[r] = "running" /\ kind = "interrupt" -> Seal(r, "interrupted")
       [] exec[r] = "lost" -> Seal(r, "failed")
       [] OTHER -> UNCHANGED <<exec, task>>
  /\ UNCHANGED <<waits, absence, need, dispatch, command, active, native, live, used>>

\* The agent process restarts: its runs are gone and nobody says so.
AgentRestarts ==
  /\ ~live /\ Use("losses", MaxLosses)
  /\ exec' = [r \in Runs |-> IF exec[r] = "running" THEN "lost" ELSE exec[r]]
  /\ exec' # exec
  /\ UNCHANGED <<gateway, live, downlink>>

------------------------------------------------------------------------------
(* Presence.                                                                   *)

\* presence(absent): the episode opens; its reconcile() is the heartbeat's.
Disconnect ==
  /\ live /\ Use("absences", MaxAbsences)
  /\ live' = FALSE
  /\ absence' = IF task.state \in Executing /\ absence[task.run] = "none"
                THEN [absence EXCEPT ![task.run] = "open"] ELSE absence
  /\ UNCHANGED <<task, waits, need, dispatch, command, active, native, downlink, exec>>

\* hello(): presence, the pass it makes, and the device request that nobody
\* can answer any more.
Hello ==
  /\ ~live
  /\ live' = TRUE
  /\ LET back == ReconciledTask(task, waits, TRUE, FALSE)
         due == OpenWaits(waits, back.run)
         lost == IF back.state = "waiting_for_device" /\ due # {}
                 THEN due \cap DeviceWaits ELSE {}
     IN /\ absence' = ReconciledAbsence(task, TRUE, FALSE)
        /\ IF lost = {} THEN task' = back /\ waits' = waits
           ELSE /\ waits' = SettledWait(waits, Min(lost))
                /\ task' = Resumed(back, waits', Min(lost))
  /\ UNCHANGED <<need, dispatch, command, active, native, downlink, exec, used>>

\* The gateway restarts: nobody is present, and every lease starts again.
GatewayRestarts ==
  /\ Use("restarts", MaxRestarts)
  /\ live' = FALSE
  /\ absence' = IF task.state \in Executing /\ absence[task.run] = "lapsed"
                THEN [absence EXCEPT ![task.run] = "open"] ELSE absence
  /\ UNCHANGED <<task, waits, need, dispatch, command, active, native, downlink, exec>>

------------------------------------------------------------------------------
(* The native data plane.                                                      *)

\* cancelAttachCommand of a turn nobody acknowledged, and discarded().
DiscardCommand(r) ==
  /\ command[r] = "queued"
  /\ task.run < MaxRuns
  /\ command' = [command EXCEPT ![r] = "cancelled"]
  /\ dispatch' = DispatchOfNext(dispatch, task, DiscardedTask(task, r))

\* #flush: the agent did not negotiate what the turn needs.  The row is cancelled
\* without discarded(): neither the task nor the session's turn hears of it.
Discard(r) ==
  /\ live /\ command[r] = "queued"
  /\ command' = [command EXCEPT ![r] = "cancelled"]
  /\ UNCHANGED <<task, waits, absence, need, dispatch, active, native, live, downlink, exec, used>>

\* #timeoutTurn: a turn still queued is discarded, a taken one interrupted; then
\* the turn is finished.  No open wait holds it.
TimeoutTurn(r) ==
  /\ active = r /\ OpenWaits(waits, r) = {}
  /\ \/ /\ DiscardCommand(r)
        /\ Finish(DiscardedTask(task, r), r, "timed_out")
        /\ UNCHANGED downlink
     \/ /\ command[r] = "acked"
        /\ Finish(task, r, "timed_out")
        /\ downlink' = downlink \cup {<<"interrupt", r>>}
        /\ UNCHANGED <<command, dispatch>>
  /\ UNCHANGED <<absence, need, live, exec, used>>

\* #sealOwnerLoss, by the sweep after a lease without a frame or by the hello of
\* an agent that no longer carries the turn.
SealOwnerLoss(r) ==
  /\ active = r /\ command[r] = "acked" /\ ~Sealed(r)
  /\ ~live \/ exec[r] = "lost"
  /\ Finish(task, r, "failed")
  /\ UNCHANGED <<absence, need, dispatch, command, live, downlink, exec, used>>

\* The projection of the agent's terminal, behind its admission.
ProjectTerminal(r) ==
  /\ Sealed(r)
  /\ \E status \in {"completed", "failed", "interrupted", "cancelled"} : Finish(task, r, status)
  /\ UNCHANGED <<absence, need, dispatch, command, live, downlink, exec, used>>

------------------------------------------------------------------------------
AgentKinds == {"commit", "failed", "uncertain", "interrupted", "cancelled"}

Person == Cancel \/ Pause \/ Resume \/ Retry \/ Scope \/ OwnerDeleted \/ \E w \in Waits : Answer(w)
Heartbeat ==
  \/ Reconcile \/ ReconcileWait \/ AbsenceLapses \/ VoidDispatch
  \/ \E r \in Runs : DispatchTurn(r) \/ DispatchFrame("interrupt", r) \/ DispatchFrame("steer", r)
Agent ==
  \/ AgentRestarts
  \/ \E r \in Runs :
       \/ TakeTurn(r) \/ AckTurn(r) \/ Verify(r) \/ Declare(r)
       \/ \E w \in Waits : Ask(r, w)
       \/ \E outcome \in {"committed", "failed"} : SettleArtifact(r, outcome)
       \/ \E kind \in AgentKinds : Ends(r, kind)
       \/ \E kind \in {"interrupt", "steer"} : TakeFrame(kind, r)
Presence == Disconnect \/ Hello \/ GatewayRestarts
DataPlane ==
  \E r \in Runs : Discard(r) \/ TimeoutTurn(r) \/ SealOwnerLoss(r) \/ ProjectTerminal(r)

Next == Person \/ Heartbeat \/ Agent \/ Presence \/ DataPlane
Spec == Init /\ [][Next]_vars

\* The heartbeat and the owner-loss sweep are timers of the gateway; an agent
\* that is installed reconnects, reads what it is sent and acknowledges it.
\* Nobody has to answer, and no agent has to end a run by itself.
Fairness ==
  /\ WF_vars(Reconcile) /\ WF_vars(Hello)
  /\ \A r \in Runs :
       /\ WF_vars(DispatchTurn(r)) /\ WF_vars(TakeTurn(r)) /\ WF_vars(AckTurn(r))
       /\ WF_vars(SealOwnerLoss(r))
       /\ WF_vars(DispatchFrame("interrupt", r)) /\ WF_vars(TakeFrame("interrupt", r))
FairSpec == Spec /\ Fairness

------------------------------------------------------------------------------
(* Properties.                                                                 *)

TypeOK ==
  /\ task \in [state: States, from: States \cup {"none"}, reason: Reasons,
               intent: {"none", "cancel", "pause"}, run: Runs, retries: 0..Budget,
               failed: SUBSET Runs, settled: SUBSET Runs, awaiting: SUBSET Runs,
               base: {"running", "verifying"}]
  /\ waits \in [Waits -> [run: Runs \cup {NoRun}, status: {"none", "open", "settled"},
                          noted: BOOLEAN]]
  /\ absence \in [Runs -> {"none", "open", "lapsed"}]
  /\ need \in [Runs -> {"none", "declared", "committed", "failed"}]
  /\ dispatch \in [{"turn", "interrupt", "steer"} \X Runs -> {"none", "open", "sent", "void"}]
  /\ command \in [Runs -> {"none", "queued", "acked", "cancelled"}]
  /\ native \subseteq Runs /\ active \in (Runs \cup {NoRun}) \ native /\ live \in BOOLEAN
  /\ downlink \subseteq {"interrupt", "steer"} \X Runs
  /\ exec \in [Runs -> {"none", "running", "lost", "sealed"}]
  /\ used \in [absences: 0..MaxAbsences, losses: 0..MaxLosses,
               restarts: 0..MaxRestarts, commands: 0..MaxCommands, requests: 0..MaxRequests]

\* The agent never carries two runs of a task: a successor is sent only when the
\* run before it has ended or was never taken, however resumes, retries, lost
\* owners and discards interleave.  A run the gateway withdrew is not counted:
\* the agent may have taken it with its acknowledgement on the way.
OneRunAtATime ==
  Cardinality({r \in Runs : exec[r] = "running" /\ command[r] # "cancelled"}) <= 1

\* A task that says its run is executing has a run the agent acknowledged, and
\* not one whose terminal is already in the inbox, unless that terminal failed
\* or left artifacts to prove: no answer, reattachment or late event revives a
\* run that is over.
ExecutionIsCarried ==
  task.state \in Executing /\ task.reason # "user_paused" =>
    \/ task.run \in task.awaiting
    \/ /\ command[task.run] = "acked"
       /\ Sealed(task.run) => task.run \in task.failed

\* A cancel takes effect, whether it is asked before the turn is taken, while it
\* runs, while the agent is away or after the agent lost it.
CancelLands ==
  task.intent = "cancel" ~> task.intent = "none" \/ task.state \in Terminal
=============================================================================
