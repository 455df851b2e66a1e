---------------------------- MODULE TasksProofs ----------------------------
(***************************************************************************)
(* Proofs about Tasks for any number of runs, waits, retries and incidents.*)
(*                                                                         *)
(* The invariant has three parts.  The shape of a task: what its state and *)
(* the reason of its last change say of one another.  The chain: which     *)
(* runs reached the command outbox, and that each is over before the next. *)
(* And what the state promises of the run behind it, through the states in *)
(* which the promise is only suspended: a task that lost its owner is given*)
(* back what it was, so its run must still be what it was.                 *)
(***************************************************************************)
EXTENDS Tasks, TLAPS, FiniteSetTheorems, WellFoundedInduction

Task == [state: States, from: States \cup {"none"}, reason: Reasons,
         intent: {"none", "cancel", "pause"}, run: Runs, retries: 0..Budget,
         failed: SUBSET Runs, settled: SUBSET Runs, awaiting: SUBSET Runs,
         base: {"running", "verifying"}]
Row == [run: Runs \cup {NoRun}, status: {"none", "open", "settled"}, noted: BOOLEAN]
Kind == {"turn", "interrupt", "steer"}
Dispatches == [Kind \X Runs -> {"none", "open", "sent", "void"}]
Commands == [Runs -> {"none", "queued", "acked", "cancelled"}]
Executions == [Runs -> {"none", "running", "lost", "sealed"}]

\* A task waits for its person only because the person paused it, and what reattachment
\* gives back is a state in which the agent was at work.
TaskOK(t) ==
  /\ t \in Task
  /\ t.state = "waiting_for_user_input" <=> t.reason = "user_paused"
  /\ t.state = "blocked" /\ t.reason = "owner_unreachable" =>
       t.from \in Executing \ {"waiting_for_user_input"}

\* The task says its run executes, or would say so again if its owner came back.
Active(t) ==
  \/ t.state \in Executing /\ t.reason # "user_paused"
  \/ t.state = "blocked" /\ t.reason = "owner_unreachable"
Supported(t, cmd, ex) ==
  \/ t.run \in t.awaiting
  \/ cmd[t.run] = "acked" /\ (ex[t.run] = "sealed" => t.run \in t.failed)
Carried(t, cmd, ex) == Active(t) => Supported(t, cmd, ex)

\* Every run up to r that reached the outbox is over.
Over(cmd, ex, r) ==
  \A q \in 1..r : cmd[q] # "none" => ex[q] = "sealed" \/ cmd[q] = "cancelled"
Rests(t, cmd, ex) == t.reason = "user_paused" => Over(cmd, ex, t.run)

Sound(t, cmd, ex) == TaskOK(t) /\ Carried(t, cmd, ex) /\ Rests(t, cmd, ex)

\* Turns reach the outbox once each, in the order of the runs, none before the runs before
\* it are over, and the agent knows of no other.
ChainOK(run, disp, cmd, ex) ==
  /\ disp[<<"turn", 1>>] = "none"
  /\ \A r \in Runs : r > run => disp[<<"turn", r>>] = "none" /\ cmd[r] = "none"
  /\ \A r \in Runs : cmd[r] # "none" => r = 1 \/ disp[<<"turn", r>>] = "sent"
  /\ \A r \in Runs : ex[r] # "none" => cmd[r] # "none"
  /\ \A r \in Runs : ex[r] = "sealed" => cmd[r] # "queued"
  /\ \A q, r \in Runs : q < r /\ cmd[q] # "none" /\ cmd[r] # "none" =>
       ex[q] = "sealed" \/ cmd[q] = "cancelled"

\* The session's turn, and those the native data plane ended, were in the outbox.
SessionOK(act, nat, cmd) ==
  /\ nat \subseteq Runs /\ act \in (Runs \cup {NoRun}) \ nat
  /\ \A r \in Runs : r = act \/ r \in nat => cmd[r] # "none"

TypesOK(ws, ab, nd, disp, cmd, ex, lv, dl, us) ==
  /\ ws \in [Waits -> Row]
  /\ ab \in [Runs -> {"none", "open", "lapsed"}]
  /\ nd \in [Runs -> {"none", "declared", "committed", "failed"}]
  /\ disp \in Dispatches /\ cmd \in Commands /\ ex \in Executions
  /\ lv \in BOOLEAN
  /\ dl \subseteq {"interrupt", "steer"} \X Runs
  /\ us \in [absences: 0..MaxAbsences, losses: 0..MaxLosses,
             restarts: 0..MaxRestarts, commands: 0..MaxCommands, requests: 0..MaxRequests]

IInv ==
  /\ Sound(task, command, exec)
  /\ ChainOK(task.run, dispatch, command, exec)
  /\ SessionOK(active, native, command)
  /\ TypesOK(waits, absence, need, dispatch, command, exec, live, downlink, used)

----------------------------------------------------------------------------
(* The event stream *)

LEMMA StatesApart ==
    /\ Executing \subseteq States /\ Terminal \subseteq States
    /\ Executing \cap Terminal = {} /\ "blocked" \notin Executing \cup Terminal
    /\ "queued" \notin Executing \cup Terminal
    /\ WaitStates \subseteq Executing
    /\ {"queued", "blocked", "running", "verifying", "waiting_for_user_input", "waiting_for_approval",
        "waiting_for_device", "completed", "failed", "cancelled"} = States
  BY DEF Executing, Terminal, States, WaitStates

\* What an append does to a task that is not over.
LEMMA AppendedFields ==
    ASSUME NEW t \in Task, NEW to \in States, NEW reason \in Reasons, t.state \notin Terminal,
           NEW T, T = Appended(t, to, reason)
    PROVE  /\ T \in Task
           /\ T.state = to
           /\ T.from = (IF to = t.state THEN t.from ELSE t.state)
           /\ T.reason = (IF to = t.state THEN t.reason ELSE reason)
           /\ T.run = t.run /\ T.retries = t.retries
           /\ t.failed \subseteq T.failed /\ (reason \in FailureReasons => t.run \in T.failed)
           /\ t.awaiting \subseteq T.awaiting /\ (reason = "awaiting_artifacts" => t.run \in T.awaiting)
  <1> DEFINE intent == CASE reason = "cancel_requested" -> "cancel"
                         [] reason = "pause_requested" -> "pause"
                         [] reason \in IntentReasons -> "none"
                         [] OTHER -> t.intent
             base == IF /\ reason \in {"approval_requested", "device_requested"}
                        /\ t.state \in {"running", "verifying"}
                     THEN t.state ELSE t.base
  <1>1. intent \in {"none", "cancel", "pause"} /\ base \in {"running", "verifying"}
    BY DEF Task
  <1> HIDE DEF intent, base
  <1>2. T = [t EXCEPT
    !.state = to,
    !.from = IF to = t.state THEN @ ELSE t.state,
    !.reason = IF to = t.state THEN @ ELSE reason,
    !.intent = intent,
    !.failed = IF reason \in FailureReasons THEN @ \cup {t.run} ELSE @,
    !.settled = IF reason \in OutcomeReasons THEN @ \cup {t.run} ELSE @,
    !.awaiting = IF reason = "awaiting_artifacts" THEN @ \cup {t.run} ELSE @,
    !.base = base]
    BY DEF Appended, intent, base
  <1>3. /\ T.state = to
        /\ T.from = (IF to = t.state THEN t.from ELSE t.state)
        /\ T.reason = (IF to = t.state THEN t.reason ELSE reason)
        /\ T.run = t.run /\ T.retries = t.retries /\ T.intent = intent /\ T.base = base
    BY <1>2 DEF Task
  <1>4. T.failed = IF reason \in FailureReasons THEN t.failed \cup {t.run} ELSE t.failed
    BY <1>2 DEF Task
  <1>5. T.settled = IF reason \in OutcomeReasons THEN t.settled \cup {t.run} ELSE t.settled
    BY <1>2 DEF Task
  <1>6. T.awaiting = IF reason = "awaiting_artifacts" THEN t.awaiting \cup {t.run} ELSE t.awaiting
    BY <1>2 DEF Task
  <1>7. T.failed \in SUBSET Runs /\ T.settled \in SUBSET Runs /\ T.awaiting \in SUBSET Runs
    BY <1>4, <1>5, <1>6 DEF Task
  <1>8. /\ T.from \in States \cup {"none"} /\ T.reason \in Reasons
        /\ T.run \in Runs /\ T.retries \in 0..Budget
    BY <1>3 DEF Task
  <1>9. T \in Task
    BY <1>1, <1>2, <1>3, <1>7, <1>8 DEF Task
  <1> QED
    BY <1>3, <1>4, <1>6, <1>9

LEMMA AppendedToTerminal ==
    ASSUME NEW t, NEW to, NEW reason, t.state \in Terminal
    PROVE  Appended(t, to, reason) = t
  BY DEF Appended

\* An append leaves a task in shape when it pauses a task only as the person's pause, and
\* when an owner is lost only by a task whose run executes.
LEMMA AppendedKeepsShape ==
    ASSUME NEW t, NEW to \in States, NEW reason \in Reasons, TaskOK(t),
           to # t.state => (to = "waiting_for_user_input" <=> reason = "user_paused"),
           t.state \notin Terminal /\ to # t.state /\ reason = "owner_unreachable" => Active(t)
    PROVE  TaskOK(Appended(t, to, reason)) /\ Appended(t, to, reason).run = t.run
  <1>1. CASE t.state \in Terminal
    BY <1>1, AppendedToTerminal
  <1>2. CASE t.state \notin Terminal
    <2>1. t \in Task
      BY DEF TaskOK
    <2>2. PICK T : T = Appended(t, to, reason)
      OBVIOUS
    <2>3. /\ T \in Task /\ T.state = to /\ T.run = t.run
          /\ T.from = (IF to = t.state THEN t.from ELSE t.state)
          /\ T.reason = (IF to = t.state THEN t.reason ELSE reason)
      BY <1>2, <2>1, <2>2, AppendedFields
    <2>4. CASE to = t.state
      BY <2>2, <2>3, <2>4 DEF TaskOK
    <2>5. CASE to # t.state
      <3>1. T.state = "waiting_for_user_input" <=> T.reason = "user_paused"
        BY <2>3, <2>5
      <3>2. ASSUME T.state = "blocked", T.reason = "owner_unreachable"
            PROVE  T.from \in Executing \ {"waiting_for_user_input"}
        <4>1. t.state \in Executing /\ t.reason # "user_paused"
          BY <1>2, <2>3, <2>5, <3>2 DEF Active
        <4> QED
          BY <2>3, <2>5, <4>1 DEF TaskOK
      <3> QED
        BY <2>2, <2>3, <3>1, <3>2 DEF TaskOK
    <2> QED
      BY <2>4, <2>5
  <1> QED
    BY <1>1, <1>2

LEMMA AppendedGrows ==
    ASSUME NEW t, NEW to \in States, NEW reason \in Reasons, TaskOK(t), NEW cmd, NEW ex,
           Supported(t, cmd, ex)
    PROVE  Supported(Appended(t, to, reason), cmd, ex)
  <1>1. PICK T : T = Appended(t, to, reason)
    OBVIOUS
  <1>2. T.run = t.run /\ t.failed \subseteq T.failed /\ t.awaiting \subseteq T.awaiting
    <2>1. CASE t.state \in Terminal
      BY <1>1, <2>1, AppendedToTerminal
    <2>2. CASE t.state \notin Terminal
      BY <1>1, <2>2, AppendedFields DEF TaskOK
    <2> QED
      BY <2>1, <2>2
  <1> QED
    BY <1>1, <1>2 DEF Supported

\* A task becomes active by an append only where its run supports it.
LEMMA AppendedKeepsCarried ==
    ASSUME NEW t, NEW to \in States, NEW reason \in Reasons, TaskOK(t), NEW cmd, NEW ex,
           Carried(t, cmd, ex),
           t.state \notin Terminal /\ to # t.state =>
             /\ to \in Executing /\ reason # "user_paused" => Active(t) \/ Supported(t, cmd, ex)
             /\ reason = "owner_unreachable" => Active(t)
    PROVE  Carried(Appended(t, to, reason), cmd, ex)
  <1>1. CASE t.state \in Terminal
    BY <1>1, AppendedToTerminal
  <1>2. CASE t.state \notin Terminal
    <2>1. t \in Task
      BY DEF TaskOK
    <2>2. PICK T : T = Appended(t, to, reason)
      OBVIOUS
    <2>3. T.state = to /\ T.reason = (IF to = t.state THEN t.reason ELSE reason)
      BY <1>2, <2>1, <2>2, AppendedFields
    <2>4. ASSUME Active(T) PROVE Active(t) \/ Supported(t, cmd, ex)
      <3>1. CASE to = t.state
        BY <2>3, <2>4, <3>1 DEF Active
      <3>2. CASE to # t.state
        BY <1>2, <2>3, <2>4, <3>2 DEF Active
      <3> QED
        BY <3>1, <3>2
    <2>5. ASSUME Active(T) PROVE Supported(T, cmd, ex)
      BY <2>2, <2>4, <2>5, AppendedGrows DEF Carried
    <2> QED
      BY <2>2, <2>5 DEF Carried
  <1> QED
    BY <1>1, <1>2

LEMMA AppendedKeepsRests ==
    ASSUME NEW t, NEW to \in States, NEW reason \in Reasons, TaskOK(t), NEW cmd, NEW ex,
           Rests(t, cmd, ex), reason = "user_paused" => Over(cmd, ex, t.run)
    PROVE  Rests(Appended(t, to, reason), cmd, ex)
  <1>1. CASE t.state \in Terminal
    BY <1>1, AppendedToTerminal
  <1>2. CASE t.state \notin Terminal
    <2>1. PICK T : T = Appended(t, to, reason)
      OBVIOUS
    <2>2. T.run = t.run /\ T.reason \in {t.reason, reason}
      BY <1>2, <2>1, AppendedFields DEF TaskOK
    <2> QED
      BY <2>1, <2>2 DEF Rests
  <1> QED
    BY <1>1, <1>2

LEMMA AppendedKeeps ==
    ASSUME NEW t, NEW to \in States, NEW reason \in Reasons, NEW cmd, NEW ex, Sound(t, cmd, ex),
           to # t.state => (to = "waiting_for_user_input" <=> reason = "user_paused"),
           reason = "user_paused" => Over(cmd, ex, t.run),
           t.state \notin Terminal /\ to # t.state =>
             /\ to \in Executing /\ reason # "user_paused" => Active(t) \/ Supported(t, cmd, ex)
             /\ reason = "owner_unreachable" => Active(t)
    PROVE  Sound(Appended(t, to, reason), cmd, ex) /\ Appended(t, to, reason).run = t.run
  <1>1. TaskOK(t) /\ Carried(t, cmd, ex) /\ Rests(t, cmd, ex)
    BY DEF Sound
  <1>2. TaskOK(Appended(t, to, reason)) /\ Appended(t, to, reason).run = t.run
    BY <1>1, AppendedKeepsShape
  <1>3. Carried(Appended(t, to, reason), cmd, ex)
    BY <1>1, AppendedKeepsCarried
  <1>4. Rests(Appended(t, to, reason), cmd, ex)
    BY <1>1, AppendedKeepsRests
  <1> QED
    BY <1>2, <1>3, <1>4 DEF Sound

\* A failure leaves the task in what shape the run's terminal put it, sealed or not.
LEMMA FailureKeepsCarried ==
    ASSUME NEW t, NEW reason \in FailureReasons, TaskOK(t), NEW cmd, NEW ex, NEW ex2,
           Carried(t, cmd, ex)
    PROVE  Carried(Appended(t, "blocked", reason), cmd, ex2)
  <1>1. CASE t.state \in Terminal
    BY <1>1, AppendedToTerminal, StatesApart DEF Carried, Active
  <1>2. CASE t.state \notin Terminal
    <2>1. PICK T : T = Appended(t, "blocked", reason)
      OBVIOUS
    <2>2. t \in Task /\ reason \in Reasons /\ "blocked" \in States
      BY StatesApart DEF TaskOK, Reasons, OutcomeReasons
    <2>3. /\ T.state = "blocked" /\ T.run = t.run
          /\ T.reason = (IF "blocked" = t.state THEN t.reason ELSE reason)
          /\ t.run \in T.failed /\ t.awaiting \subseteq T.awaiting
      BY <1>2, <2>1, <2>2, AppendedFields
    <2>4. ASSUME Active(T) PROVE Supported(t, cmd, ex)
      <3>1. t.state = "blocked" /\ t.reason = "owner_unreachable"
        BY <2>3, <2>4, StatesApart DEF Active, FailureReasons
      <3> QED
        BY <3>1 DEF Carried, Active
    <2>5. ASSUME Active(T) PROVE Supported(T, cmd, ex2)
      BY <2>3, <2>4, <2>5 DEF Supported
    <2> QED
      BY <2>1, <2>5 DEF Carried
  <1> QED
    BY <1>1, <1>2

----------------------------------------------------------------------------
(* Runs that are over *)

\* A nonempty set of numbers below a bound has a greatest element, and Max names it.
LEMMA GreatestRun ==
    ASSUME NEW n \in Nat, NEW S \in SUBSET (1..n), S # {}
    PROVE  Max(S) \in S /\ \A k \in S : k <= Max(S)
  <1> DEFINE D == {n - k : k \in S}
  <1>1. D \subseteq Nat /\ D # {}
    <2>1. \A k \in S : n - k \in Nat
      OBVIOUS
    <2> QED
      BY <2>1
  <1>2. PICK d \in D : \A e \in D : ~(<<e, d>> \in OpToRel(<, Nat))
    BY <1>1, WFMin, NatLessThanWellFounded
  <1>3. \A e \in D : ~(e < d)
    BY <1>1, <1>2 DEF OpToRel
  <1>4. PICK m \in S : d = n - m
    BY <1>2
  <1>5. \A k \in S : n - k \in D /\ ~(n - k < n - m)
    BY <1>3, <1>4
  <1>6. \A k \in S : m >= k
    <2>1. ASSUME NEW k \in S PROVE m >= k
      <3>1. k \in Nat /\ m \in Nat /\ ~(n - k < n - m)
        BY <1>5
      <3> QED
        BY <3>1
    <2> QED
      BY <2>1
  <1>7. Max(S) \in S /\ \A k \in S : Max(S) >= k
    BY <1>6 DEF Max
  <1> QED
    BY <1>7

\* #executionEnded looks at the last run that reached the outbox; those before it are over too.
LEMMA EndedMeansOver ==
    ASSUME NEW run, NEW disp, NEW cmd, ChainOK(run, disp, cmd, exec), NEW r \in Runs
    PROVE  EndedIn(cmd, r) <=> Over(cmd, exec, r)
  <1> DEFINE queued == {q \in 1..r : cmd[q] # "none"}
  <1>1. EndedIn(cmd, r) <=> (queued # {} => exec[Max(queued)] = "sealed" \/ cmd[Max(queued)] = "cancelled")
    BY DEF EndedIn, Sealed
  <1>2. Over(cmd, exec, r) <=> \A q \in queued : exec[q] = "sealed" \/ cmd[q] = "cancelled"
    BY DEF Over
  <1>3. queued \in SUBSET (1..r) /\ r \in Nat /\ queued \subseteq Runs
    BY TasksAssumption DEF Runs
  <1>4. ASSUME NEW q \in queued, NEW p \in queued, q < p
        PROVE  exec[q] = "sealed" \/ cmd[q] = "cancelled"
    BY <1>3, <1>4 DEF ChainOK
  <1> HIDE DEF queued
  <1>5. CASE queued = {}
    BY <1>1, <1>2, <1>5
  <1>6. CASE queued # {}
    <2>1. Max(queued) \in queued /\ \A q \in queued : q <= Max(queued)
      BY <1>3, <1>6, GreatestRun
    <2>2. PICK m \in queued : m = Max(queued) /\ \A q \in queued : q <= m
      BY <2>1
    <2>3. \A q \in queued : q = m \/ q < m
      BY <1>3, <2>2
    <2> QED
      BY <1>1, <1>2, <1>4, <1>6, <2>2, <2>3
  <1> QED
    BY <1>5, <1>6

LEMMA EndedIsOver ==
    ASSUME NEW run, NEW disp, ChainOK(run, disp, command, exec), NEW r \in Runs
    PROVE  Ended(r) <=> Over(command, exec, r)
  BY EndedMeansOver DEF Ended

----------------------------------------------------------------------------
(* The operators on a task *)

LEMMA LandedKeeps ==
    ASSUME NEW t, NEW cmd, NEW ex, Sound(t, cmd, ex), Over(cmd, ex, t.run)
    PROVE  Sound(Landed(t), cmd, ex) /\ Landed(t).run = t.run
  <1>1. {"cancelled", "waiting_for_user_input"} \subseteq States /\ "cancelled" \notin Executing
        /\ {"user_cancelled", "user_paused"} \subseteq Reasons
    BY DEF States, Executing, WaitStates, Terminal, Reasons, OutcomeReasons, FailureReasons
  <1>2. CASE t.intent = "cancel"
    BY <1>1, <1>2, AppendedKeeps DEF Landed
  <1>3. CASE t.intent # "cancel"
    BY <1>1, <1>3, AppendedKeeps DEF Landed
  <1> QED
    BY <1>2, <1>3

LEMMA RequirementsKeep ==
    ASSUME NEW t, NEW nd, NEW cmd, NEW ex, Sound(t, cmd, ex)
    PROVE  Sound(Requirements(t, nd), cmd, ex) /\ Requirements(t, nd).run = t.run
  <1>1. {"blocked", "completed"} \subseteq States /\ "blocked" \notin Executing /\ "completed" \notin Executing
        /\ {"artifact_commit_failed", "terminal_proof_recorded"} \subseteq Reasons
    BY DEF States, Executing, WaitStates, Terminal, Reasons, OutcomeReasons, FailureReasons
  <1>2. Requirements(t, nd) \in {t, Appended(t, "blocked", "artifact_commit_failed"),
                                 Appended(t, "completed", "terminal_proof_recorded")}
    BY DEF Requirements
  <1>3. /\ Sound(Appended(t, "blocked", "artifact_commit_failed"), cmd, ex)
        /\ Appended(t, "blocked", "artifact_commit_failed").run = t.run
    BY <1>1, AppendedKeeps
  <1>4. /\ Sound(Appended(t, "completed", "terminal_proof_recorded"), cmd, ex)
        /\ Appended(t, "completed", "terminal_proof_recorded").run = t.run
    BY <1>1, AppendedKeeps
  <1> QED
    BY <1>2, <1>3, <1>4

LEMMA WaitStateIs == ASSUME NEW w PROVE WaitState(w) \in {"waiting_for_device", "waiting_for_approval"}
  BY DEF WaitState

LEMMA WaitingKeeps ==
    ASSUME NEW t, NEW w, NEW cmd, NEW ex, Sound(t, cmd, ex)
    PROVE  Sound(Waiting(t, w), cmd, ex) /\ Waiting(t, w).run = t.run
  <1>1. PICK to, reason :
          /\ to = (IF t.state \in WaitStates THEN t.state ELSE WaitState(w))
          /\ reason = (IF w \in DeviceWaits THEN "device_requested" ELSE "approval_requested")
    OBVIOUS
  <1>2. to \in Executing /\ to \in States /\ reason \in Reasons
        /\ reason \notin {"user_paused", "owner_unreachable"}
    BY <1>1, WaitStateIs, StatesApart DEF Reasons, WaitStates, Executing
  <1>3. t.state \in Executing /\ to # t.state => to # "waiting_for_user_input" /\ Active(t)
    BY <1>1, WaitStateIs DEF Sound, TaskOK, Active, WaitStates
  <1>4. CASE t.state \in Executing
    <2>1. Waiting(t, w) = Appended(t, to, reason)
      BY <1>1, <1>4 DEF Waiting
    <2> QED
      BY <1>2, <1>3, <1>4, <2>1, AppendedKeeps
  <1>5. CASE t.state \notin Executing
    BY <1>5 DEF Waiting
  <1> QED
    BY <1>4, <1>5

\* A settled wait gives the run back what it did; it finds no task that its person paused,
\* because nothing runs behind one.
LEMMA ResumedKeeps ==
    ASSUME NEW t, NEW ws, NEW w, NEW disp, Sound(t, command, exec), ChainOK(t.run, disp, command, exec)
    PROVE  Sound(Resumed(t, ws, w), command, exec) /\ Resumed(t, ws, w).run = t.run
  <1>1. CASE t.state \notin WaitStates \/ ~ws[w].noted \/ Ended(t.run)
    BY <1>1 DEF Resumed
  <1>2. CASE ~(t.state \notin WaitStates \/ ~ws[w].noted \/ Ended(t.run))
    <2>1. PICK to : to = IF OpenWaits(ws, t.run) = {} THEN t.base ELSE WaitState(Min(OpenWaits(ws, t.run)))
      OBVIOUS
    <2>2. Resumed(t, ws, w) = Appended(t, to, "wait_settled")
      BY <1>2, <2>1 DEF Resumed
    <2>3. t.run \in Runs /\ t.base \in {"running", "verifying"}
      BY DEF Sound, TaskOK, Task
    <2>4. t.reason # "user_paused"
      BY <1>2, <2>3, EndedIsOver DEF Sound, Rests
    <2>5. Active(t)
      BY <1>2, <2>4, StatesApart DEF Active
    <2>6. to \in {"running", "verifying", "waiting_for_device", "waiting_for_approval"}
      BY <2>1, <2>3, WaitStateIs
    <2>7. to \in States /\ "wait_settled" \in Reasons
      BY <2>6, StatesApart DEF Reasons
    <2> QED
      BY <2>2, <2>5, <2>6, <2>7, AppendedKeeps
  <1> QED
    BY <1>1, <1>2

\* reconcile(): a lost owner is measured for an active task only, and what reattachment gives
\* back is what the task was.
LEMMA ReconciledKeeps ==
    ASSUME NEW ws, NEW disp, NEW up, NEW late, Sound(task, command, exec),
           ChainOK(task.run, disp, command, exec)
    PROVE  /\ Sound(ReconciledTask(task, ws, up, late), command, exec)
           /\ ReconciledTask(task, ws, up, late).run = task.run
  <1>1. PICK T, proved : T = ReconciledTask(task, ws, up, late) /\ proved = Requirements(task, need)
    OBVIOUS
  <1>2. Sound(proved, command, exec) /\ proved.run = task.run
    BY <1>1, RequirementsKeep
  <1>3. \/ T = task
        \/ IntentLands(task) /\ T = Landed(task)
        \/ T = Appended(proved, "failed", "verification_failed")
        \/ /\ task.state = "blocked" /\ task.reason = "owner_unreachable"
           /\ T = Appended(proved, Restored(task, ws), "owner_reattached")
        \/ Leased(task) /\ T = Appended(proved, "blocked", "owner_unreachable")
        \/ T = proved
    BY <1>1 DEF ReconciledTask
  <1>4. /\ {"failed", "blocked", "running", "verifying", "waiting_for_device", "waiting_for_approval"} \subseteq States
        /\ Executing \subseteq States /\ "blocked" \notin Executing
        /\ {"failed", "blocked"} \cap Executing = {}
        /\ {"verification_failed", "owner_reattached", "owner_unreachable"} \subseteq Reasons
    BY DEF States, Executing, WaitStates, Terminal, Reasons
  <1>5. TaskOK(task) /\ task \in Task /\ task.run \in Runs /\ Rests(task, command, exec)
    BY DEF Sound, TaskOK, Task
  <1>6. CASE IntentLands(task) /\ T = Landed(task)
    <2>1. Over(command, exec, task.run)
      BY <1>5, <1>6, EndedIsOver DEF IntentLands
    <2> QED
      BY <1>1, <1>6, <2>1, LandedKeeps
  <1>7. CASE T = Appended(proved, "failed", "verification_failed")
    BY <1>1, <1>2, <1>4, <1>7, AppendedKeeps
  <1>8. CASE /\ task.state = "blocked" /\ task.reason = "owner_unreachable"
             /\ T = Appended(proved, Restored(task, ws), "owner_reattached")
    <2>1. proved = task
      BY <1>1, <1>8 DEF Requirements
    <2>2. Active(task)
      BY <1>8 DEF Active
    <2>3. PICK to : to = Restored(task, ws)
      OBVIOUS
    <2>4. task.from \in Executing \ {"waiting_for_user_input"} /\ task.base \in {"running", "verifying"}
      BY <1>5, <1>8 DEF TaskOK, Task
    <2>5. to \in {task.from, task.base, "waiting_for_device", "waiting_for_approval"}
      BY <2>3, WaitStateIs DEF Restored
    <2>6. to \in States /\ to # "waiting_for_user_input"
      BY <1>4, <2>4, <2>5
    <2> QED
      BY <1>1, <1>4, <1>8, <2>1, <2>2, <2>3, <2>6, AppendedKeeps
  <1>9. CASE Leased(task) /\ T = Appended(proved, "blocked", "owner_unreachable")
    <2>1. Active(task)
      BY <1>9 DEF Leased, Active
    <2>2. proved = task \/ proved.state \in Terminal \/ proved.state = "blocked"
      <3>1. CASE proved = Appended(task, "blocked", "artifact_commit_failed")
        BY <1>4, <1>5, <3>1, AppendedFields, AppendedToTerminal DEF Reasons
      <3>2. CASE proved = Appended(task, "completed", "terminal_proof_recorded")
        <4>1. "completed" \in States /\ "terminal_proof_recorded" \in Reasons /\ "completed" \in Terminal
          BY DEF States, Terminal, Reasons
        <4> QED
          BY <1>5, <3>2, <4>1, AppendedFields, AppendedToTerminal
      <3>3. proved \in {task, Appended(task, "blocked", "artifact_commit_failed"),
                        Appended(task, "completed", "terminal_proof_recorded")}
        BY <1>1 DEF Requirements
      <3> QED
        BY <3>1, <3>2, <3>3
    <2> QED
      BY <1>1, <1>2, <1>4, <1>9, <2>1, <2>2, AppendedKeeps
  <1> QED
    BY <1>1, <1>2, <1>3, <1>6, <1>7, <1>8, <1>9

\* A new run: nothing is promised of it yet.
LEMMA NextRunKeeps ==
    ASSUME NEW t, NEW cmd, NEW ex, Sound(t, cmd, ex), t.run < MaxRuns,
           t.state \notin Terminal, t.state # "queued",
           NEW reason \in {"auto_retry", "user_resumed", "retry_requested"},
           reason = "auto_retry" => t.retries < Budget
    PROVE  Sound(NextRun(t, reason), cmd, ex) /\ NextRun(t, reason).run = t.run + 1
  <1>1. PICK u : u = [t EXCEPT !.run = @ + 1, !.retries = IF reason = "auto_retry" THEN @ + 1 ELSE @]
    OBVIOUS
  <1>2. PICK T : T = Appended(u, "queued", reason)
    OBVIOUS
  <1>3. t \in Task
    BY DEF Sound, TaskOK
  <1>4. t.run \in 1..MaxRuns /\ t.retries \in 0..Budget /\ MaxRuns \in Nat /\ Budget \in Nat
    BY <1>3, TasksAssumption DEF Task, Runs
  <1>5. t.run + 1 \in 1..MaxRuns /\ (reason = "auto_retry" => t.retries + 1 \in 0..Budget)
    BY <1>4
  <1>6. u \in Task /\ u.state = t.state /\ u.run = t.run + 1
    BY <1>1, <1>3, <1>5 DEF Task, Runs
  <1>7. "queued" \in States /\ reason \in Reasons /\ "queued" \notin Executing
        /\ reason \notin {"user_paused", "owner_unreachable"}
    BY DEF States, Executing, WaitStates, Terminal, Reasons
  <1>8. T \in Task /\ T.state = "queued" /\ T.reason = reason /\ T.run = t.run + 1
    BY <1>2, <1>6, <1>7, AppendedFields
  <1>9. TaskOK(T) /\ Carried(T, cmd, ex) /\ Rests(T, cmd, ex)
    BY <1>7, <1>8 DEF TaskOK, Carried, Active, Rests
  <1> QED
    BY <1>1, <1>2, <1>8, <1>9 DEF NextRun, Sound

\* discarded(): the run stays, or its automatic retry is the next one.
LEMMA DiscardedKeeps ==
    ASSUME NEW t, NEW r, NEW cmd, NEW ex, Sound(t, cmd, ex), t.run < MaxRuns,
           t.run = r => Over(cmd, ex, r)
    PROVE  /\ Sound(DiscardedTask(t, r), cmd, ex)
           /\ DiscardedTask(t, r).run \in {t.run, t.run + 1}
  <1>1. PICK blocked : blocked = Appended(t, "blocked", "command_discarded")
    OBVIOUS
  <1>2. "blocked" \in States /\ "blocked" \notin Executing /\ "blocked" \notin Terminal /\ "queued" \notin Terminal
        /\ "command_discarded" \in Reasons
    BY DEF States, Executing, WaitStates, Terminal, Reasons
  <1>3. Sound(blocked, cmd, ex) /\ blocked.run = t.run
    BY <1>1, <1>2, AppendedKeeps
  <1>4. CASE t.run # r \/ t.state # "queued"
    BY <1>4 DEF DiscardedTask
  <1>5. CASE t.run = r /\ t.state = "queued"
    <2>1. DiscardedTask(t, r) = IF t.intent # "none" THEN Landed(blocked)
                                ELSE IF t.retries < Budget THEN NextRun(blocked, "auto_retry") ELSE blocked
      BY <1>1, <1>5 DEF DiscardedTask
    <2>2. blocked.state = "blocked" /\ blocked.retries = t.retries
      BY <1>1, <1>2, <1>5, AppendedFields DEF Sound, TaskOK
    <2>3. Sound(Landed(blocked), cmd, ex) /\ Landed(blocked).run = t.run
      BY <1>3, <1>5, LandedKeeps
    <2>4. t.retries < Budget => /\ Sound(NextRun(blocked, "auto_retry"), cmd, ex)
                                /\ NextRun(blocked, "auto_retry").run = t.run + 1
      BY <1>2, <1>3, <2>2, NextRunKeeps
    <2> QED
      BY <1>3, <2>1, <2>3, <2>4
  <1> QED
    BY <1>4, <1>5

\* nativeTerminal(): the data plane ends a run, never starts one.
LEMMA NativeKeeps ==
    ASSUME NEW t, NEW r, NEW status, NEW cmd, NEW ex, Sound(t, cmd, ex)
    PROVE  Sound(NativeTask(t, r, status), cmd, ex) /\ NativeTask(t, r, status).run = t.run
  <1>1. PICK T : T = NativeTask(t, r, status)
    OBVIOUS
  <1>2. \/ T = t
        \/ \E to \in {"cancelled", "completed", "blocked"},
              reason \in {"user_cancelled", "run_completed", "run_timed_out", "run_interrupted", "run_failed"} :
             T = Appended(t, to, reason)
    BY <1>1 DEF NativeTask
  <1>3. ASSUME NEW to \in {"cancelled", "completed", "blocked"},
               NEW reason \in {"user_cancelled", "run_completed", "run_timed_out", "run_interrupted", "run_failed"}
        PROVE  Sound(Appended(t, to, reason), cmd, ex) /\ Appended(t, to, reason).run = t.run
    <2>1. to \in States /\ to \notin Executing /\ reason \in Reasons
      BY DEF States, Executing, WaitStates, Terminal, Reasons, OutcomeReasons, FailureReasons
    <2> QED
      BY <2>1, AppendedKeeps
  <1> QED
    BY <1>1, <1>2, <1>3

----------------------------------------------------------------------------
(* The agent's terminal *)

LEMMA InertIsCarried ==
    ASSUME NEW t, NEW to \in States, NEW reason \in Reasons, TaskOK(t), NEW cmd, NEW ex,
           to \in Terminal \/ (to = "waiting_for_user_input" /\ reason = "user_paused")
    PROVE  Carried(Appended(t, to, reason), cmd, ex)
  <1>1. PICK T : T = Appended(t, to, reason)
    OBVIOUS
  <1>2. ~Active(T)
    <2>1. CASE t.state \in Terminal
      BY <1>1, <2>1, AppendedToTerminal DEF Active, Terminal, Executing, WaitStates
    <2>2. CASE t.state \notin Terminal
      <3>1. T.state = to /\ T.reason = (IF to = t.state THEN t.reason ELSE reason)
        BY <1>1, <2>2, AppendedFields DEF TaskOK
      <3> QED
        BY <3>1 DEF Active, TaskOK, Terminal, Executing, WaitStates
    <2> QED
      BY <2>1, <2>2
  <1> QED
    BY <1>1, <1>2 DEF Carried

\* event(): a terminal of the run ends what the task says of it, or leaves its artifacts to prove.
LEMMA EventKeeps ==
    ASSUME NEW disp, Sound(task, command, exec), ChainOK(task.run, disp, command, exec),
           exec \in Executions, NEW r \in Runs, exec[r] # "none", NEW kind,
           NEW ex, ex = [exec EXCEPT ![r] = "sealed"]
    PROVE  Sound(EventTask(task, r, kind), command, ex) /\ EventTask(task, r, kind).run = task.run
  <1>1. TaskOK(task) /\ Carried(task, command, exec) /\ Rests(task, command, exec) /\ task \in Task /\ task.run \in Runs
    BY DEF Sound, TaskOK, Task
  <1>2. ex[r] = "sealed" /\ \A q \in Runs : q # r => ex[q] = exec[q]
    BY DEF Executions
  <1>3. Runs \subseteq Nat /\ \A q \in 1..task.run : q \in Runs
    BY <1>1, TasksAssumption DEF Runs
  <1>4. Rests(task, command, ex)
    BY <1>1, <1>2, <1>3 DEF Rests, Over
  <1>5. CASE task.run # r
    <2>1. Carried(task, command, ex)
      BY <1>1, <1>2, <1>5 DEF Carried, Supported
    <2> QED
      BY <1>1, <1>4, <1>5, <2>1 DEF EventTask, Sound
  <1>6. CASE task.run = r /\ r \in task.failed
    <2>1. Carried(task, command, ex)
      BY <1>1, <1>6 DEF Carried, Supported
    <2> QED
      BY <1>1, <1>4, <1>6, <2>1 DEF EventTask, Sound
  <1>7. CASE task.run = r /\ r \notin task.failed
    <2>1. PICK T : T = EventTask(task, r, kind)
      OBVIOUS
    <2>2. Over(command, ex, task.run)
      <3>1. ASSUME NEW q \in 1..task.run, command[q] # "none" PROVE ex[q] = "sealed" \/ command[q] = "cancelled"
        <4>1. q = r \/ q < r
          BY <1>3, <1>7
        <4>2. command[r] # "none"
          BY DEF ChainOK
        <4> QED
          BY <1>2, <1>3, <3>1, <4>1, <4>2 DEF ChainOK
      <3> QED
        BY <3>1 DEF Over
    <2>3. /\ "verifying" \in States /\ "completed" \in States /\ "cancelled" \in States
          /\ "blocked" \in States /\ "waiting_for_user_input" \in States
          /\ "completed" \in Terminal /\ "cancelled" \in Terminal
          /\ "awaiting_artifacts" \in Reasons /\ "run_completed" \in Reasons
          /\ "user_cancelled" \in Reasons /\ "user_paused" \in Reasons
          /\ \A reason \in {"run_failed", "run_interrupted", "effects_uncertain"} :
               reason \in FailureReasons /\ reason \in Reasons
      BY DEF States, Terminal, Executing, WaitStates, Reasons, OutcomeReasons, FailureReasons
    <2>4. \/ T = Requirements(Appended(task, "verifying", "awaiting_artifacts"), need)
          \/ T = Appended(task, "completed", "run_completed")
          \/ T = Landed(task)
          \/ \E reason \in {"run_failed", "run_interrupted", "effects_uncertain"} : T = Appended(task, "blocked", reason)
          \/ T = Appended(task, "cancelled", "user_cancelled")
      BY <1>7, <2>1 DEF EventTask
    <2>5. ASSUME NEW to \in States, NEW reason \in Reasons, reason # "owner_unreachable",
                 to = "waiting_for_user_input" <=> reason = "user_paused"
          PROVE  /\ TaskOK(Appended(task, to, reason)) /\ Appended(task, to, reason).run = task.run
                 /\ Rests(Appended(task, to, reason), command, ex)
      <3>1. TaskOK(Appended(task, to, reason)) /\ Appended(task, to, reason).run = task.run
        BY <1>1, <2>5, AppendedKeepsShape
      <3>2. Rests(Appended(task, to, reason), command, ex)
        BY <1>1, <1>4, <2>2, AppendedKeepsRests
      <3> QED
        BY <3>1, <3>2
    <2>6. CASE T = Requirements(Appended(task, "verifying", "awaiting_artifacts"), need)
      <3>1. PICK V : V = Appended(task, "verifying", "awaiting_artifacts")
        OBVIOUS
      <3>2. TaskOK(V) /\ V.run = task.run /\ Rests(V, command, ex)
        BY <2>3, <2>5, <3>1
      <3>3. Carried(V, command, ex)
        <4>1. CASE task.state \in Terminal
          BY <3>1, <4>1, AppendedToTerminal DEF Carried, Active, Terminal, Executing, WaitStates
        <4>2. CASE task.state \notin Terminal
          <5>1. task.run \in V.awaiting
            BY <1>1, <2>3, <3>1, <4>2, AppendedFields
          <5> QED
            BY <3>2, <5>1 DEF Carried, Supported
        <4> QED
          BY <4>1, <4>2
      <3>4. Sound(V, command, ex)
        BY <3>2, <3>3 DEF Sound
      <3> QED
        BY <2>1, <2>6, <3>1, <3>2, <3>4, RequirementsKeep
    <2>7. ASSUME NEW to \in States, NEW reason \in Reasons, reason # "owner_unreachable",
                 to = "waiting_for_user_input" <=> reason = "user_paused",
                 to \in Terminal \/ to = "waiting_for_user_input",
                 T = Appended(task, to, reason)
          PROVE  Sound(T, command, ex) /\ T.run = task.run
      <3>1. to \in Terminal \/ (to = "waiting_for_user_input" /\ reason = "user_paused")
        BY <2>7
      <3>2. TaskOK(task)
        BY <1>1
      <3>3. Carried(Appended(task, to, reason), command, ex)
        BY <3>1, <3>2, InertIsCarried
      <3> QED
        BY <2>5, <2>7, <3>3 DEF Sound
    <2>8. CASE T = Appended(task, "completed", "run_completed")
      <3>1. Sound(T, command, ex) /\ T.run = task.run
        BY <2>3, <2>8, <2>7
      <3> QED
        BY <2>1, <3>1
    <2>9. CASE T = Landed(task)
      <3>1. T = Appended(task, "cancelled", "user_cancelled") \/ T = Appended(task, "waiting_for_user_input", "user_paused")
        BY <2>9 DEF Landed
      <3>2. Sound(T, command, ex) /\ T.run = task.run
        BY <2>3, <2>7, <3>1
      <3> QED
        BY <2>1, <3>2
    <2>10. ASSUME NEW reason \in {"run_failed", "run_interrupted", "effects_uncertain"},
                 T = Appended(task, "blocked", reason)
          PROVE  Sound(T, command, ex) /\ T.run = task.run
      <3>1. TaskOK(T) /\ Rests(T, command, ex) /\ T.run = task.run
        BY <2>3, <2>5, <2>10
      <3>2. Carried(T, command, ex)
        BY <1>1, <2>3, <2>10, FailureKeepsCarried
      <3> QED
        BY <3>1, <3>2 DEF Sound
    <2>11. CASE T = Appended(task, "cancelled", "user_cancelled")
      <3>1. Sound(T, command, ex) /\ T.run = task.run
        BY <2>3, <2>11, <2>7
      <3> QED
        BY <2>1, <3>1
    <2> QED
      BY <2>1, <2>4, <2>6, <2>8, <2>9, <2>10, <2>11
  <1> QED
    BY <1>5, <1>6, <1>7

----------------------------------------------------------------------------
(* Types of what the steps write *)

LEMMA UseKeepsType ==
    ASSUME NEW what, NEW bound,
           \/ what = "absences" /\ bound = MaxAbsences
           \/ what = "losses" /\ bound = MaxLosses
           \/ what = "restarts" /\ bound = MaxRestarts
           \/ what = "commands" /\ bound = MaxCommands
           \/ what = "requests" /\ bound = MaxRequests,
           NEW us, us = [absences: 0..MaxAbsences, losses: 0..MaxLosses,
               restarts: 0..MaxRestarts, commands: 0..MaxCommands, requests: 0..MaxRequests],
           used \in us, Use(what, bound)
    PROVE  used' \in us
  <1>1. {MaxAbsences, MaxLosses, MaxRestarts, MaxCommands, MaxRequests} \subseteq Nat
    BY TasksAssumption
  <1>2. used' = [used EXCEPT ![what] = @ + 1] /\ used[what] < bound
    BY DEF Use
  <1>3. CASE what = "absences" /\ bound = MaxAbsences
    BY <1>1, <1>2, <1>3
  <1>4. CASE what = "losses" /\ bound = MaxLosses
    BY <1>1, <1>2, <1>4
  <1>5. CASE what = "restarts" /\ bound = MaxRestarts
    BY <1>1, <1>2, <1>5
  <1>6. CASE what = "commands" /\ bound = MaxCommands
    BY <1>1, <1>2, <1>6
  <1>7. CASE what = "requests" /\ bound = MaxRequests
    BY <1>1, <1>2, <1>7
  <1> QED
    BY <1>3, <1>4, <1>5, <1>6, <1>7

LEMMA SettledWaitType ==
    ASSUME NEW ws \in [Waits -> Row], NEW w PROVE SettledWait(ws, w) \in [Waits -> Row]
  BY DEF SettledWait, Row

LEMMA ExpiredType ==
    ASSUME NEW ws \in [Waits -> Row], NEW r PROVE Expired(ws, r) \in [Waits -> Row]
  <1>1. ASSUME NEW w \in Waits
        PROVE  (IF ws[w].run = r /\ ws[w].status = "open" /\ w \notin DeviceWaits
                THEN [ws[w] EXCEPT !.status = "settled"] ELSE ws[w]) \in Row
    BY DEF Row
  <1> QED
    BY <1>1 DEF Expired

LEMMA AskedKeeps ==
    ASSUME NEW d \in Dispatches, NEW kind \in Kind, NEW r \in Runs
    PROVE  /\ Asked(d, kind, r) \in Dispatches
           /\ Asked(d, kind, r)[<<kind, r>>] = "open"
           /\ \A k \in Kind, q \in Runs : k # kind \/ q # r => Asked(d, kind, r)[<<k, q>>] = d[<<k, q>>]
  BY DEF Asked, Dispatches

LEMMA ReconciledAbsenceType ==
    ASSUME NEW t, NEW up, NEW late, absence \in [Runs -> {"none", "open", "lapsed"}]
    PROVE  ReconciledAbsence(t, up, late) \in [Runs -> {"none", "open", "lapsed"}]
  BY DEF ReconciledAbsence

\* A row of the dispatch outbox that was never a turn's or was sent stays what it is.
TurnsKept(d, e) == \A r \in Runs : d[<<"turn", r>>] \in {"none", "sent"} => e[<<"turn", r>>] = d[<<"turn", r>>]

\* A step that neither starts nor moves a run keeps the invariant if the task stays sound.
LEMMA QuietStep ==
    ASSUME IInv, Sound(task', command, exec), task'.run = task.run,
           UNCHANGED <<command, exec, active, native>>, TurnsKept(dispatch, dispatch'),
           TypesOK(waits', absence', need', dispatch', command', exec', live', downlink', used')
    PROVE  IInv'
  <1>1. task.run \in Runs /\ ChainOK(task.run, dispatch, command, exec) /\ 1 \in Runs
    BY TasksAssumption DEF IInv, Sound, TaskOK, Task, Runs
  <1>2. ChainOK(task'.run, dispatch', command', exec')
    BY <1>1 DEF ChainOK, TurnsKept
  <1>3. SessionOK(active', native', command')
    BY DEF IInv, SessionOK
  <1> QED
    BY <1>2, <1>3 DEF IInv

----------------------------------------------------------------------------
(* The initial state *)

LEMMA InitHolds == Init => IInv
  <1> SUFFICES ASSUME Init PROVE IInv
    OBVIOUS
  <1>1. 1 \in Runs /\ Runs \subseteq Nat \ {0} /\ MaxRuns \in Nat
        /\ {MaxWaits, Budget, MaxAbsences, MaxLosses, MaxRestarts, MaxCommands, MaxRequests} \subseteq Nat
    BY TasksAssumption DEF Runs
  <1>2. /\ task.state = "queued" /\ task.reason = "task_created" /\ task.run = 1
        /\ task \in Task
    BY <1>1 DEF Init, Task, States, Reasons
  <1>3. Sound(task, command, exec)
    BY <1>2 DEF Sound, TaskOK, Carried, Active, Rests, Executing, WaitStates
  <1>4. /\ command \in Commands /\ \A r \in Runs : command[r] = IF r = 1 THEN "queued" ELSE "none"
        /\ exec \in Executions /\ \A r \in Runs : exec[r] = "none"
    BY DEF Init, Commands, Executions
  <1>5. dispatch \in Dispatches /\ \A r \in Runs : dispatch[<<"turn", r>>] = "none"
    BY DEF Init, Dispatches, Kind
  <1>6. ChainOK(task.run, dispatch, command, exec)
    <2>1. \A r \in Runs : command[r] # "none" => r = 1
      BY <1>4
    <2>2. dispatch[<<"turn", 1>>] = "none" /\ \A r \in Runs : r > 1 => command[r] = "none"
      BY <1>1, <1>4, <1>5
    <2>3. \A q, r \in Runs : q < r => command[q] = "none" \/ command[r] = "none"
      BY <1>1, <2>1
    <2> QED
      BY <1>2, <1>4, <1>5, <2>1, <2>2, <2>3 DEF ChainOK
  <1>7. SessionOK(active, native, command)
    BY <1>1, <1>4 DEF Init, SessionOK
  <1>8. waits \in [Waits -> Row]
    BY DEF Init, Row
  <1>9. used \in [absences: 0..MaxAbsences, losses: 0..MaxLosses,
                  restarts: 0..MaxRestarts, commands: 0..MaxCommands, requests: 0..MaxRequests]
    BY <1>1 DEF Init
  <1>10. TypesOK(waits, absence, need, dispatch, command, exec, live, downlink, used)
    BY <1>4, <1>5, <1>8, <1>9 DEF Init, TypesOK
  <1> QED
    BY <1>3, <1>6, <1>7, <1>10 DEF IInv

----------------------------------------------------------------------------
(* The steps *)

LEMMA ReconcileKeeps == ASSUME IInv, Reconcile PROVE IInv'
  <1>1. PICK late \in BOOLEAN :
          /\ task' = ReconciledTask(task, waits, live, late)
          /\ absence' = ReconciledAbsence(task, live, late)
          /\ UNCHANGED <<waits, need, dispatch, command, active, native, live, downlink, exec, used>>
    BY DEF Reconcile
  <1>2. Sound(task', command, exec) /\ task'.run = task.run
    BY <1>1, ReconciledKeeps DEF IInv
  <1>3. absence' \in [Runs -> {"none", "open", "lapsed"}]
    BY <1>1, ReconciledAbsenceType DEF IInv, TypesOK
  <1>4. TypesOK(waits', absence', need', dispatch', command', exec', live', downlink', used')
    BY <1>1, <1>3 DEF IInv, TypesOK
  <1> QED
    BY <1>1, <1>2, <1>4, QuietStep DEF TurnsKept

\* A wait is settled: by its deadline or by an answer.
LEMMA SettleKeeps ==
    ASSUME IInv, NEW w, waits' = SettledWait(waits, w), task' = Resumed(task, waits', w),
           UNCHANGED <<absence, need, dispatch, command, active, native, live, downlink, exec, used>>
    PROVE  IInv'
  <1>1. Sound(task', command, exec) /\ task'.run = task.run
    BY ResumedKeeps DEF IInv
  <1>2. waits' \in [Waits -> Row]
    BY SettledWaitType DEF IInv, TypesOK
  <1>3. TypesOK(waits', absence', need', dispatch', command', exec', live', downlink', used')
    BY <1>2 DEF IInv, TypesOK
  <1> QED
    BY <1>1, <1>3, QuietStep DEF TurnsKept

LEMMA AbsenceLapsesKeeps == ASSUME IInv, AbsenceLapses PROVE IInv'
  <1>1. absence' \in [Runs -> {"none", "open", "lapsed"}]
        /\ UNCHANGED <<task, waits, need, dispatch, command, active, native, live, downlink, exec, used>>
    BY DEF AbsenceLapses, IInv, TypesOK
  <1>2. TypesOK(waits', absence', need', dispatch', command', exec', live', downlink', used')
    BY <1>1 DEF IInv, TypesOK
  <1> QED
    BY <1>1, <1>2, QuietStep DEF TurnsKept, IInv

LEMMA VoidDispatchKeeps == ASSUME IInv, VoidDispatch PROVE IInv'
  <1>1. PICK void : /\ void = {k \in DOMAIN dispatch : dispatch[k] = "open" /\ Unwanted(k[1])}
                    /\ dispatch' = [k \in DOMAIN dispatch |-> IF k \in void THEN "void" ELSE dispatch[k]]
                    /\ UNCHANGED <<task, waits, absence, need, command, active, native, live, downlink, exec, used>>
    BY DEF VoidDispatch
  <1>2. dispatch \in Dispatches /\ \A k \in void : dispatch[k] = "open"
    BY <1>1 DEF IInv, TypesOK
  <1>3. dispatch' \in Dispatches
    BY <1>1, <1>2 DEF Dispatches
  <1>4. TurnsKept(dispatch, dispatch')
    BY <1>1, <1>2 DEF TurnsKept, Dispatches, Kind
  <1>5. TypesOK(waits', absence', need', dispatch', command', exec', live', downlink', used')
    BY <1>1, <1>3 DEF IInv, TypesOK
  <1> QED
    BY <1>1, <1>4, <1>5, QuietStep DEF IInv

\* A turn is enqueued only behind runs that are over, and only once.
LEMMA DispatchTurnKeeps == ASSUME IInv, NEW r \in Runs, DispatchTurn(r) PROVE IInv'
  <1>1. /\ dispatch[<<"turn", r>>] = "open" /\ task.state = "queued" /\ task.run = r
        /\ PredecessorEnded(r) /\ active \in {NoRun, r}
        /\ dispatch' = [dispatch EXCEPT ![<<"turn", r>>] = "sent"]
        /\ command' = [command EXCEPT ![r] = "queued"] /\ active' = r
        /\ UNCHANGED <<task, waits, absence, need, native, live, downlink, exec, used>>
    BY DEF DispatchTurn
  <1>2. /\ ChainOK(task.run, dispatch, command, exec) /\ dispatch \in Dispatches
        /\ command \in Commands /\ exec \in Executions /\ SessionOK(active, native, command)
        /\ Sound(task, command, exec)
    BY DEF IInv, TypesOK
  <1>3. Runs \subseteq Nat /\ r # 1 /\ r - 1 \in Runs /\ 1 \in Runs
    BY <1>1, <1>2, TasksAssumption DEF ChainOK, Runs
  <1>4. command[r] = "none" /\ exec[r] = "none"
    BY <1>1, <1>2, <1>3 DEF ChainOK, Executions
  <1>5. Over(command, exec, r - 1)
    BY <1>1, <1>2, <1>3, EndedIsOver DEF PredecessorEnded
  <1>6. /\ command' \in Commands /\ command'[r] = "queued" /\ \A q \in Runs : q # r => command'[q] = command[q]
        /\ dispatch' \in Dispatches /\ dispatch'[<<"turn", r>>] = "sent"
        /\ \A q \in Runs : q # r => dispatch'[<<"turn", q>>] = dispatch[<<"turn", q>>]
    BY <1>1, <1>2 DEF Commands, Dispatches, Kind
  <1>7. \A q \in Runs : q < r /\ command[q] # "none" => exec[q] = "sealed" \/ command[q] = "cancelled"
    <2>1. ASSUME NEW q \in Runs, q < r PROVE q \in 1..(r - 1)
      BY <1>3, <2>1, TasksAssumption DEF Runs
    <2> QED
      BY <1>5, <2>1 DEF Over
  <1>8. ChainOK(task'.run, dispatch', command', exec')
    <2>1. dispatch'[<<"turn", 1>>] = "none"
      BY <1>2, <1>3, <1>6 DEF ChainOK
    <2>2. \A q \in Runs : q > task'.run => dispatch'[<<"turn", q>>] = "none" /\ command'[q] = "none"
      BY <1>1, <1>2, <1>3, <1>6 DEF ChainOK
    <2>3. \A q \in Runs : command'[q] # "none" => q = 1 \/ dispatch'[<<"turn", q>>] = "sent"
      BY <1>2, <1>6 DEF ChainOK
    <2>4. \A q \in Runs : /\ exec'[q] # "none" => command'[q] # "none"
                          /\ exec'[q] = "sealed" => command'[q] # "queued"
      BY <1>1, <1>2, <1>4, <1>6 DEF ChainOK
    <2>5. ASSUME NEW p \in Runs, NEW q \in Runs, p < q, command'[p] # "none", command'[q] # "none"
          PROVE  exec'[p] = "sealed" \/ command'[p] = "cancelled"
      <3>1. q <= r
        <4>1. ~(q > r) /\ q \in Nat /\ r \in Nat
          BY <1>1, <1>3, <2>2, <2>5
        <4> QED
          BY <4>1
      <3>2. p # r /\ p < r
        BY <1>3, <2>5, <3>1
      <3> QED
        BY <1>1, <1>6, <1>7, <2>5, <3>2
    <2> QED
      BY <2>1, <2>2, <2>3, <2>4, <2>5 DEF ChainOK
  <1>9. Sound(task', command', exec')
    BY <1>1, <1>2 DEF Sound, TaskOK, Carried, Active, Rests, Executing, WaitStates
  <1>10. SessionOK(active', native', command')
    BY <1>1, <1>2, <1>4, <1>6 DEF SessionOK
  <1>11. TypesOK(waits', absence', need', dispatch', command', exec', live', downlink', used')
    BY <1>1, <1>6 DEF IInv, TypesOK
  <1> QED
    BY <1>8, <1>9, <1>10, <1>11 DEF IInv

LEMMA DispatchFrameKeeps ==
    ASSUME IInv, NEW kind \in {"interrupt", "steer"}, NEW r \in Runs, DispatchFrame(kind, r) PROVE IInv'
  <1>1. /\ dispatch' = [dispatch EXCEPT ![<<kind, r>>] = "sent"] /\ downlink' = downlink \cup {<<kind, r>>}
        /\ UNCHANGED <<task, waits, absence, need, command, active, native, live, exec, used>>
    BY DEF DispatchFrame
  <1>2. dispatch \in Dispatches
    BY DEF IInv, TypesOK
  <1>3. dispatch' \in Dispatches /\ \A q \in Runs : dispatch'[<<"turn", q>>] = dispatch[<<"turn", q>>]
    BY <1>1, <1>2 DEF Dispatches, Kind
  <1>4. TypesOK(waits', absence', need', dispatch', command', exec', live', downlink', used')
    BY <1>1, <1>3 DEF IInv, TypesOK
  <1> QED
    BY <1>1, <1>3, <1>4, QuietStep DEF TurnsKept, IInv

\* What is common to a person's commands.
LEMMA CommandFacts ==
    ASSUME IInv
    PROVE  /\ Sound(task, command, exec) /\ TaskOK(task) /\ task \in Task /\ task.run \in Runs /\ task.state \in States
           /\ ChainOK(task.run, dispatch, command, exec) /\ dispatch \in Dispatches
           /\ Ended(task.run) => Over(command, exec, task.run)
  <1>1. Sound(task, command, exec) /\ ChainOK(task.run, dispatch, command, exec) /\ dispatch \in Dispatches
    BY DEF IInv, TypesOK
  <1>2. TaskOK(task) /\ task \in Task /\ task.run \in Runs /\ task.state \in States
    BY <1>1 DEF Sound, TaskOK, Task
  <1> QED
    BY <1>1, <1>2, EndedIsOver

LEMMA IntendKeeps ==
    ASSUME IInv, NEW reason \in {"cancel_requested", "pause_requested"}, Intend(reason),
           Use("commands", MaxCommands),
           UNCHANGED <<waits, absence, need, command, active, native, live, downlink, exec>>
    PROVE  IInv'
  <1>1. PICK asked : asked = Appended(task, task.state, reason)
    OBVIOUS
  <1>2. reason \in Reasons /\ reason \notin {"user_paused", "owner_unreachable"}
    BY DEF Reasons
  <1>3. Sound(asked, command, exec) /\ asked.run = task.run
    BY <1>1, <1>2, CommandFacts, AppendedKeeps
  <1>4. \/ Ended(task.run) /\ task' = Landed(asked) /\ UNCHANGED dispatch
        \/ task' = asked /\ dispatch' \in {dispatch, Asked(dispatch, "interrupt", task.run)}
    BY <1>1 DEF Intend
  <1>5. Sound(task', command, exec) /\ task'.run = task.run
    BY <1>3, <1>4, CommandFacts, LandedKeeps
  <1>6. dispatch' \in Dispatches /\ TurnsKept(dispatch, dispatch')
    <2>1. /\ Asked(dispatch, "interrupt", task.run) \in Dispatches
          /\ \A q \in Runs : Asked(dispatch, "interrupt", task.run)[<<"turn", q>>] = dispatch[<<"turn", q>>]
      BY CommandFacts, AskedKeeps DEF Kind
    <2> QED
      BY <1>4, <2>1, CommandFacts DEF TurnsKept
  <1>7. TypesOK(waits', absence', need', dispatch', command', exec', live', downlink', used')
    BY <1>6, UseKeepsType DEF IInv, TypesOK
  <1> QED
    BY <1>5, <1>6, <1>7, QuietStep

\* resume and retry: the outbox learns of the new run, which it does not hold yet.
LEMMA RenewKeeps ==
    ASSUME IInv, NEW reason \in {"user_resumed", "retry_requested"}, Renew(reason),
           task.state \in {"waiting_for_user_input", "blocked"}, Use("commands", MaxCommands)
    PROVE  IInv'
  <1>1. PICK queued : queued = Asked(dispatch, "turn", task.run + 1)
    OBVIOUS
  <1>2. /\ task.run < MaxRuns /\ task' = NextRun(task, reason)
        /\ dispatch' \in {queued, Asked(queued, "interrupt", task.run)}
        /\ UNCHANGED <<waits, absence, need, command, active, native, live, downlink, exec>>
    BY <1>1 DEF Renew
  <1>3. task.run \in 1..MaxRuns /\ MaxRuns \in Nat /\ task.run + 1 \in Runs /\ Runs \subseteq Nat
    BY <1>2, CommandFacts, TasksAssumption DEF Runs
  <1>4. Sound(task', command, exec) /\ task'.run = task.run + 1
    BY <1>2, CommandFacts, NextRunKeeps DEF Terminal
  <1>5. /\ queued \in Dispatches
        /\ \A q \in Runs : q # task.run + 1 => queued[<<"turn", q>>] = dispatch[<<"turn", q>>]
    <2>1. PICK n : n = task.run + 1
      OBVIOUS
    <2>2. "turn" \in Kind /\ n \in Runs /\ dispatch \in Dispatches /\ queued = Asked(dispatch, "turn", n)
      BY <1>1, <1>3, <2>1, CommandFacts DEF Kind
    <2>3. /\ queued \in Dispatches
          /\ \A q \in Runs : q # n => queued[<<"turn", q>>] = dispatch[<<"turn", q>>]
      BY <2>2, AskedKeeps, ZenonT(60)
    <2> QED
      BY <2>1, <2>3
  <1>6. /\ Asked(queued, "interrupt", task.run) \in Dispatches
        /\ \A q \in Runs : Asked(queued, "interrupt", task.run)[<<"turn", q>>] = queued[<<"turn", q>>]
    BY <1>5, CommandFacts, AskedKeeps DEF Kind
  <1>7. /\ dispatch' \in Dispatches
        /\ \A q \in Runs : q # task.run + 1 => dispatch'[<<"turn", q>>] = dispatch[<<"turn", q>>]
    BY <1>2, <1>5, <1>6
  <1>8. ChainOK(task'.run, dispatch', command', exec')
    <2>1. task.run + 1 > task.run /\ task.run + 1 # 1
      BY <1>3
    <2>2. dispatch'[<<"turn", 1>>] = "none"
      BY <1>3, <1>7, <2>1, CommandFacts, TasksAssumption DEF ChainOK, Runs
    <2>3. \A q \in Runs : q > task.run + 1 => q > task.run /\ q # task.run + 1
      BY <1>3
    <2>4. \A q \in Runs : q > task'.run => dispatch'[<<"turn", q>>] = "none" /\ command'[q] = "none"
      BY <1>2, <1>4, <1>7, <2>3, CommandFacts DEF ChainOK
    <2>5. \A q \in Runs : command'[q] # "none" => q = 1 \/ dispatch'[<<"turn", q>>] = "sent"
      BY <1>2, <1>3, <1>7, <2>1, CommandFacts DEF ChainOK
    <2> QED
      BY <1>2, <2>2, <2>4, <2>5, CommandFacts DEF ChainOK
  <1>9. TypesOK(waits', absence', need', dispatch', command', exec', live', downlink', used')
    BY <1>2, <1>7, UseKeepsType DEF IInv, TypesOK
  <1>10. SessionOK(active', native', command')
    BY <1>2 DEF IInv
  <1> QED
    BY <1>2, <1>4, <1>8, <1>9, <1>10 DEF IInv

LEMMA ScopeKeeps == ASSUME IInv, Scope PROVE IInv'
  <1>1. /\ dispatch' = Asked(dispatch, "steer", task.run) /\ Use("commands", MaxCommands)
        /\ UNCHANGED <<task, waits, absence, need, command, active, native, live, downlink, exec>>
    BY DEF Scope, Commanded
  <1>2. dispatch' \in Dispatches /\ TurnsKept(dispatch, dispatch')
    <2>1. /\ Asked(dispatch, "steer", task.run) \in Dispatches
          /\ \A q \in Runs : Asked(dispatch, "steer", task.run)[<<"turn", q>>] = dispatch[<<"turn", q>>]
      BY CommandFacts, AskedKeeps DEF Kind
    <2> QED
      BY <1>1, <2>1 DEF TurnsKept
  <1>3. TypesOK(waits', absence', need', dispatch', command', exec', live', downlink', used')
    BY <1>1, <1>2, UseKeepsType DEF IInv, TypesOK
  <1> QED
    BY <1>1, <1>2, <1>3, CommandFacts, QuietStep

LEMMA OwnerDeletedKeeps == ASSUME IInv, OwnerDeleted PROVE IInv'
  <1>1. /\ task' = Appended(task, "cancelled", "owner_deleted") /\ Use("commands", MaxCommands)
        /\ dispatch' = [k \in DOMAIN dispatch |-> IF dispatch[k] = "open" THEN "void" ELSE dispatch[k]]
        /\ waits' = [w \in Waits |-> IF waits[w].status = "open"
                                     THEN [waits[w] EXCEPT !.status = "settled"] ELSE waits[w]]
        /\ UNCHANGED <<absence, need, command, active, native, live, downlink, exec>>
    BY DEF OwnerDeleted
  <1>2. "cancelled" \in States /\ "owner_deleted" \in Reasons /\ "cancelled" \notin Executing
    BY DEF States, Terminal, Executing, WaitStates, Reasons
  <1>3. Sound(task', command, exec) /\ task'.run = task.run
    BY <1>1, <1>2, CommandFacts, AppendedKeeps
  <1>4. dispatch' \in Dispatches
    BY <1>1, CommandFacts DEF Dispatches
  <1>5. TurnsKept(dispatch, dispatch')
    BY <1>1, CommandFacts DEF TurnsKept, Dispatches, Kind
  <1>6. waits' \in [Waits -> Row]
    <2>1. waits \in [Waits -> Row]
      BY DEF IInv, TypesOK
    <2>2. \A w \in Waits : (IF waits[w].status = "open" THEN [waits[w] EXCEPT !.status = "settled"] ELSE waits[w]) \in Row
      BY <2>1 DEF Row
    <2> QED
      BY <1>1, <2>2
  <1>7. TypesOK(waits', absence', need', dispatch', command', exec', live', downlink', used')
    BY <1>1, <1>4, <1>6, UseKeepsType DEF IInv, TypesOK
  <1> QED
    BY <1>1, <1>3, <1>5, <1>7, QuietStep

LEMMA PersonKeeps == ASSUME IInv, Person PROVE IInv'
  <1>1. CASE Cancel
    <2>1. Intend("cancel_requested") /\ Use("commands", MaxCommands)
          /\ UNCHANGED <<waits, absence, need, command, active, native, live, downlink, exec>>
      BY <1>1 DEF Cancel, Commanded
    <2> QED
      BY <2>1, IntendKeeps
  <1>2. CASE Pause
    <2>1. Intend("pause_requested") /\ Use("commands", MaxCommands)
          /\ UNCHANGED <<waits, absence, need, command, active, native, live, downlink, exec>>
      BY <1>2 DEF Pause, Commanded
    <2> QED
      BY <2>1, IntendKeeps
  <1>3. CASE Resume
    <2>1. Renew("user_resumed") /\ Use("commands", MaxCommands) /\ task.state = "waiting_for_user_input"
      BY <1>3 DEF Resume, Commanded
    <2> QED
      BY <2>1, RenewKeeps
  <1>4. CASE Retry
    <2>1. Renew("retry_requested") /\ Use("commands", MaxCommands) /\ task.state = "blocked"
      BY <1>4 DEF Retry, Commanded
    <2> QED
      BY <2>1, RenewKeeps
  <1>5. ASSUME NEW w \in Waits, Answer(w) PROVE IInv'
    <2>1. /\ waits' = SettledWait(waits, w) /\ task' = Resumed(task, waits', w)
          /\ UNCHANGED <<absence, need, dispatch, command, active, native, live, downlink, exec, used>>
      BY <1>5 DEF Answer
    <2> QED
      BY <2>1, SettleKeeps
  <1> QED
    BY <1>1, <1>2, <1>3, <1>4, <1>5, ScopeKeeps, OwnerDeletedKeeps DEF Person

LEMMA HeartbeatKeeps == ASSUME IInv, Heartbeat PROVE IInv'
  <1>1. CASE ReconcileWait
    <2>1. PICK w \in Waits :
            /\ waits' = SettledWait(waits, w) /\ task' = Resumed(task, waits', w)
            /\ UNCHANGED <<absence, need, dispatch, command, active, native, live, downlink, exec, used>>
      BY <1>1 DEF ReconcileWait
    <2> QED
      BY <2>1, SettleKeeps
  <1> QED
    BY <1>1, ReconcileKeeps, AbsenceLapsesKeeps, VoidDispatchKeeps, DispatchTurnKeeps, DispatchFrameKeeps DEF Heartbeat

----------------------------------------------------------------------------
(* The agent *)

\* Runs that start or are lost: nothing is sealed by it.
LEMMA ExecutionMoves ==
    ASSUME IInv, exec' \in Executions, UNCHANGED <<task, waits, absence, need, dispatch, command, active, native, live, downlink>>,
           \A q \in Runs : /\ exec'[q] = "sealed" <=> exec[q] = "sealed"
                           /\ exec'[q] # "none" => command[q] # "none",
           used' = used \/ Use("losses", MaxLosses)
    PROVE  IInv'
  <1>1. PICK ex : ex = exec'
    OBVIOUS
  <1>2. \A q \in 1..task.run : q \in Runs
    BY CommandFacts, TasksAssumption DEF Runs
  <1>3. Sound(task', command', exec')
    <2>1. Carried(task, command, ex)
      BY <1>1, CommandFacts DEF Sound, Carried, Supported
    <2>2. Rests(task, command, ex)
      BY <1>1, <1>2, CommandFacts DEF Sound, Rests, Over
    <2> QED
      BY <1>1, <2>1, <2>2, CommandFacts DEF Sound
  <1>4. ChainOK(task'.run, dispatch', command', exec')
    <2>1. ChainOK(task.run, dispatch, command, ex)
      BY <1>1, CommandFacts DEF ChainOK
    <2> QED
      BY <1>1, <2>1
  <1>5. used' \in [absences: 0..MaxAbsences, losses: 0..MaxLosses,
                   restarts: 0..MaxRestarts, commands: 0..MaxCommands, requests: 0..MaxRequests]
    BY UseKeepsType DEF IInv, TypesOK
  <1>6. TypesOK(waits', absence', need', dispatch', command', exec', live', downlink', used')
    BY <1>5 DEF IInv, TypesOK
  <1> QED
    BY <1>3, <1>4, <1>6 DEF IInv

LEMMA TakeTurnKeeps == ASSUME IInv, NEW r \in Runs, TakeTurn(r) PROVE IInv'
  <1>1. /\ command[r] = "queued" /\ exec[r] = "none" /\ exec' = [exec EXCEPT ![r] = "running"]
        /\ UNCHANGED <<task, waits, absence, need, dispatch, command, active, native, live, downlink, used>>
    BY DEF TakeTurn, gateway
  <1>2. exec \in Executions
    BY DEF IInv, TypesOK
  <1>3. exec' \in Executions /\ exec'[r] = "running" /\ \A q \in Runs : q # r => exec'[q] = exec[q]
    BY <1>1, <1>2 DEF Executions
  <1>4. \A q \in Runs : /\ exec'[q] = "sealed" <=> exec[q] = "sealed"
                        /\ exec'[q] # "none" => command[q] # "none"
    BY <1>1, <1>3, CommandFacts DEF ChainOK
  <1> QED
    BY <1>1, <1>3, <1>4, ExecutionMoves

LEMMA AgentRestartsKeeps == ASSUME IInv, AgentRestarts PROVE IInv'
  <1>1. /\ Use("losses", MaxLosses) /\ exec' = [r \in Runs |-> IF exec[r] = "running" THEN "lost" ELSE exec[r]]
        /\ UNCHANGED <<task, waits, absence, need, dispatch, command, active, native, live, downlink>>
    BY DEF AgentRestarts, gateway
  <1>2. exec \in Executions
    BY DEF IInv, TypesOK
  <1>3. exec' \in Executions /\ \A q \in Runs : exec'[q] = IF exec[q] = "running" THEN "lost" ELSE exec[q]
    BY <1>1, <1>2 DEF Executions
  <1>4. \A q \in Runs : /\ exec'[q] = "sealed" <=> exec[q] = "sealed"
                        /\ exec'[q] # "none" => command[q] # "none"
    BY <1>1, <1>3, CommandFacts DEF ChainOK
  <1> QED
    BY <1>1, <1>3, <1>4, ExecutionMoves

\* A queued turn is acknowledged or withdrawn: it was not over, so no task rests on it.
LEMMA CommandMoves ==
    ASSUME IInv, NEW r \in Runs, command[r] = "queued", NEW cmd \in Commands,
           cmd[r] \in {"acked", "cancelled"}, \A q \in Runs : q # r => cmd[q] = command[q]
    PROVE  /\ Sound(task, cmd, exec) /\ ChainOK(task.run, dispatch, cmd, exec)
           /\ r <= task.run /\ exec[r] # "sealed"
           /\ \A q \in Runs : command[q] # "none" => cmd[q] # "none"
  <1>1. cmd[r] \in {"acked", "cancelled"} /\ \A q \in Runs : q # r => cmd[q] = command[q]
    OBVIOUS
  <1>2. exec[r] # "sealed"
    BY CommandFacts DEF ChainOK
  <1>3. task.run \in Nat /\ Runs \subseteq Nat /\ \A q \in 1..task.run : q \in Runs
    BY CommandFacts, TasksAssumption DEF Runs
  <1>4. r <= task.run
    <2>1. ~(r > task.run)
      BY CommandFacts DEF ChainOK
    <2> QED
      BY <1>3, <2>1
  <1>5. Sound(task, cmd, exec)
    <2>1. Carried(task, cmd, exec)
      BY <1>1, CommandFacts DEF Sound, Carried, Supported
    <2>2. Rests(task, cmd, exec)
      BY <1>1, <1>3, CommandFacts DEF Sound, Rests, Over
    <2> QED
      BY <2>1, <2>2, CommandFacts DEF Sound
  <1>6. ChainOK(task.run, dispatch, cmd, exec)
    <2>1. \A q \in Runs : command[q] = "none" <=> cmd[q] = "none"
      BY <1>1
    <2>2. \A q \in Runs : exec[q] = "sealed" => cmd[q] # "queued"
      BY <1>1, CommandFacts DEF ChainOK
    <2>3. \A p, q \in Runs : p < q /\ cmd[p] # "none" /\ cmd[q] # "none" => exec[p] = "sealed" \/ cmd[p] = "cancelled"
      BY <1>1, <1>2, <2>1, CommandFacts DEF ChainOK
    <2> QED
      BY <2>1, <2>2, <2>3, CommandFacts DEF ChainOK
  <1> QED
    BY <1>1, <1>2, <1>4, <1>5, <1>6

LEMMA AckTurnKeeps == ASSUME IInv, NEW r \in Runs, AckTurn(r) PROVE IInv'
  <1>1. PICK cmd : cmd = [command EXCEPT ![r] = "acked"]
    OBVIOUS
  <1>2. /\ command[r] = "queued" /\ command' = cmd
        /\ task' = IF task.state = "queued" /\ task.run = r THEN Appended(task, "running", "run_started") ELSE task
        /\ dispatch' \in {dispatch, Asked(dispatch, "interrupt", r)}
        /\ UNCHANGED <<waits, absence, need, active, native, live, downlink, exec, used>>
    BY <1>1 DEF AckTurn
  <1>3. /\ cmd \in Commands /\ cmd[r] = "acked" /\ Sound(task, cmd, exec) /\ ChainOK(task.run, dispatch, cmd, exec)
        /\ exec[r] # "sealed" /\ \A q \in Runs : command[q] # "none" => cmd[q] # "none"
    <2>1. command \in Commands
      BY DEF IInv, TypesOK
    <2>2. cmd \in Commands /\ cmd[r] = "acked" /\ \A q \in Runs : q # r => cmd[q] = command[q]
      BY <1>1, <2>1 DEF Commands
    <2>3. command[r] = "queued" /\ cmd[r] \in {"acked", "cancelled"}
      BY <1>2, <2>2
    <2> QED
      BY <2>2, <2>3, CommandMoves
  <1>4. Sound(task', cmd, exec) /\ task'.run = task.run
    <2>1. CASE task.state = "queued" /\ task.run = r
      <3>1. Supported(task, cmd, exec)
        BY <1>3, <2>1 DEF Supported
      <3>2. "running" \in States /\ "run_started" \in Reasons
        BY DEF States, Executing, Reasons
      <3> QED
        BY <1>2, <1>3, <2>1, <3>1, <3>2, AppendedKeeps
    <2>2. CASE ~(task.state = "queued" /\ task.run = r)
      BY <1>2, <1>3, <2>2
    <2> QED
      BY <2>1, <2>2
  <1>5. dispatch' \in Dispatches /\ \A q \in Runs : dispatch'[<<"turn", q>>] = dispatch[<<"turn", q>>]
    <2>1. /\ Asked(dispatch, "interrupt", r) \in Dispatches
          /\ \A q \in Runs : Asked(dispatch, "interrupt", r)[<<"turn", q>>] = dispatch[<<"turn", q>>]
      BY CommandFacts, AskedKeeps DEF Kind
    <2> QED
      BY <1>2, <2>1, CommandFacts
  <1>6. ChainOK(task'.run, dispatch', command', exec')
    <2>1. 1 \in Runs
      BY TasksAssumption DEF Runs
    <2>2. ChainOK(task.run, dispatch', cmd, exec)
      BY <1>3, <1>5, <2>1 DEF ChainOK
    <2> QED
      BY <1>2, <1>4, <2>2
  <1>7. SessionOK(active', native', command')
    BY <1>2, <1>3 DEF IInv, SessionOK
  <1>8. TypesOK(waits', absence', need', dispatch', command', exec', live', downlink', used')
    BY <1>2, <1>3, <1>5 DEF IInv, TypesOK
  <1> QED
    BY <1>2, <1>4, <1>6, <1>7, <1>8 DEF IInv

LEMMA AskKeeps == ASSUME IInv, NEW r \in Runs, NEW w \in Waits, Ask(r, w) PROVE IInv'
  <1>1. /\ Use("requests", MaxRequests) /\ task' = Waiting(task, w)
        /\ waits' = [waits EXCEPT ![w] = [run |-> r, status |-> "open", noted |-> task.state \in Executing]]
        /\ UNCHANGED <<absence, need, dispatch, command, active, native, live, downlink, exec>>
    BY DEF Ask
  <1>2. Sound(task', command, exec) /\ task'.run = task.run
    BY <1>1, CommandFacts, WaitingKeeps
  <1>3. PICK noted : noted = (task.state \in Executing)
    OBVIOUS
  <1>4. noted \in BOOLEAN
    BY <1>3
  <1>5. [run |-> r, status |-> "open", noted |-> noted] \in Row
    BY <1>4 DEF Row
  <1>6. waits' \in [Waits -> Row]
    BY <1>1, <1>3, <1>5 DEF IInv, TypesOK
  <1>7. TypesOK(waits', absence', need', dispatch', command', exec', live', downlink', used')
    BY <1>1, <1>6, UseKeepsType DEF IInv, TypesOK
  <1> QED
    BY <1>1, <1>2, <1>7, QuietStep DEF TurnsKept

LEMMA VerifyKeeps == ASSUME IInv, NEW r \in Runs, Verify(r) PROVE IInv'
  <1>1. /\ Use("requests", MaxRequests)
        /\ UNCHANGED <<waits, absence, need, dispatch, command, active, native, live, downlink, exec>>
        /\ \/ task.state = "running" /\ task' = Appended(task, "verifying", "verification_started")
           \/ task.state = "verifying" /\ task' = Appended(task, "running", "verification_failed")
    BY DEF Verify
  <1>2. "running" \in States /\ "verifying" \in States /\ "verification_started" \in Reasons
        /\ "verification_failed" \in Reasons /\ "running" \in Executing /\ "verifying" \in Executing
    BY DEF States, Executing, Reasons
  <1>3. task.reason # "user_paused" /\ Active(task)
    BY <1>1, <1>2, CommandFacts DEF TaskOK, Active
  <1>4. Sound(task', command, exec) /\ task'.run = task.run
    <2>1. CASE task' = Appended(task, "verifying", "verification_started")
      BY <1>2, <1>3, <2>1, CommandFacts, AppendedKeeps
    <2>2. CASE task' = Appended(task, "running", "verification_failed")
      BY <1>2, <1>3, <2>2, CommandFacts, AppendedKeeps
    <2> QED
      BY <1>1, <2>1, <2>2
  <1>5. TypesOK(waits', absence', need', dispatch', command', exec', live', downlink', used')
    BY <1>1, UseKeepsType DEF IInv, TypesOK
  <1> QED
    BY <1>1, <1>4, <1>5, QuietStep DEF TurnsKept

LEMMA DeclareKeeps == ASSUME IInv, NEW r \in Runs, Declare(r) PROVE IInv'
  <1>1. /\ Use("requests", MaxRequests) /\ need' = [need EXCEPT ![r] = "declared"]
        /\ UNCHANGED <<task, waits, absence, dispatch, command, active, native, live, downlink, exec>>
    BY DEF Declare
  <1>2. TypesOK(waits', absence', need', dispatch', command', exec', live', downlink', used')
    BY <1>1, UseKeepsType DEF IInv, TypesOK
  <1> QED
    BY <1>1, <1>2, CommandFacts, QuietStep DEF TurnsKept

LEMMA SettleArtifactKeeps ==
    ASSUME IInv, NEW r \in Runs, NEW outcome \in {"committed", "failed"}, SettleArtifact(r, outcome) PROVE IInv'
  <1>1. /\ need' = [need EXCEPT ![r] = outcome]
        /\ task' = IF task.run = r THEN Requirements(task, need') ELSE task
        /\ UNCHANGED <<waits, absence, dispatch, command, active, native, live, downlink, exec, used>>
    BY DEF SettleArtifact
  <1>2. Sound(task', command, exec) /\ task'.run = task.run
    BY <1>1, CommandFacts, RequirementsKeep
  <1>3. TypesOK(waits', absence', need', dispatch', command', exec', live', downlink', used')
    BY <1>1 DEF IInv, TypesOK
  <1> QED
    BY <1>1, <1>2, <1>3, QuietStep DEF TurnsKept

\* A run the agent holds and whose turn is not on its way any more is sealed.
LEMMA SealKeeps ==
    ASSUME IInv, NEW r \in Runs, NEW kind, exec[r] # "none", command[r] # "queued", Seal(r, kind),
           downlink' \subseteq downlink,
           UNCHANGED <<waits, absence, need, dispatch, command, active, native, live, used>>
    PROVE  IInv'
  <1>1. PICK ex : ex = [exec EXCEPT ![r] = "sealed"]
    OBVIOUS
  <1>2. exec' = ex /\ task' = EventTask(task, r, kind) /\ exec \in Executions
    BY <1>1 DEF Seal, IInv, TypesOK
  <1>3. ex \in Executions /\ ex[r] = "sealed" /\ \A q \in Runs : q # r => ex[q] = exec[q]
    BY <1>1, <1>2 DEF Executions
  <1>4. Sound(EventTask(task, r, kind), command, ex) /\ EventTask(task, r, kind).run = task.run
    BY <1>1, <1>2, CommandFacts, EventKeeps
  <1>5. ChainOK(task.run, dispatch, command, ex)
    BY <1>3, CommandFacts DEF ChainOK
  <1>6. TypesOK(waits', absence', need', dispatch', command', exec', live', downlink', used')
    BY <1>2, <1>3 DEF IInv, TypesOK
  <1>7. Sound(task', command', exec') /\ ChainOK(task'.run, dispatch', command', exec')
    BY <1>2, <1>4, <1>5
  <1> QED
    BY <1>6, <1>7 DEF IInv

LEMMA EndsKeeps == ASSUME IInv, NEW r \in Runs, NEW kind, Ends(r, kind) PROVE IInv'
  <1>1. exec[r] # "none" /\ command[r] # "queued" /\ Seal(r, kind)
        /\ UNCHANGED <<waits, absence, need, dispatch, command, active, native, live, downlink, used>>
    BY DEF Ends, Speaks
  <1> QED
    BY <1>1, SealKeeps

LEMMA TakeFrameKeeps ==
    ASSUME IInv, NEW kind \in {"interrupt", "steer"}, NEW r \in Runs, TakeFrame(kind, r) PROVE IInv'
  <1>1. /\ command[r] # "queued" /\ downlink' = downlink \ {<<kind, r>>}
        /\ UNCHANGED <<waits, absence, need, dispatch, command, active, native, live, used>>
        /\ \/ exec[r] = "running" /\ Seal(r, "interrupted")
           \/ exec[r] = "lost" /\ Seal(r, "failed")
           \/ UNCHANGED <<exec, task>>
    BY DEF TakeFrame
  <1>2. CASE exec[r] = "running" /\ Seal(r, "interrupted")
    BY <1>1, <1>2, SealKeeps
  <1>3. CASE exec[r] = "lost" /\ Seal(r, "failed")
    BY <1>1, <1>3, SealKeeps
  <1>4. CASE UNCHANGED <<exec, task>>
    <2>1. TypesOK(waits', absence', need', dispatch', command', exec', live', downlink', used')
      BY <1>1, <1>4 DEF IInv, TypesOK
    <2> QED
      BY <1>1, <1>4, <2>1, CommandFacts, QuietStep DEF TurnsKept
  <1> QED
    BY <1>1, <1>2, <1>3, <1>4

LEMMA AgentKeeps == ASSUME IInv, Agent PROVE IInv'
  BY AgentRestartsKeeps, TakeTurnKeeps, AckTurnKeeps, VerifyKeeps, DeclareKeeps, AskKeeps,
     SettleArtifactKeeps, EndsKeeps, TakeFrameKeeps DEF Agent

----------------------------------------------------------------------------
(* Presence *)

LEMMA HelloKeeps == ASSUME IInv, Hello PROVE IInv'
  <1>1. PICK back, lost :
          /\ back = ReconciledTask(task, waits, TRUE, FALSE)
          /\ absence' = ReconciledAbsence(task, TRUE, FALSE) /\ live' = TRUE
          /\ UNCHANGED <<need, dispatch, command, active, native, downlink, exec, used>>
          /\ \/ task' = back /\ waits' = waits
             \/ waits' = SettledWait(waits, lost) /\ task' = Resumed(back, waits', lost)
    BY DEF Hello
  <1>2. Sound(back, command, exec) /\ back.run = task.run
    BY <1>1, CommandFacts, ReconciledKeeps
  <1>3. ChainOK(back.run, dispatch, command, exec)
    BY <1>2, CommandFacts
  <1>4. Sound(task', command, exec) /\ task'.run = task.run
    <2>1. PICK ws : ws = waits'
      OBVIOUS
    <2>2. Sound(Resumed(back, ws, lost), command, exec) /\ Resumed(back, ws, lost).run = back.run
      BY <1>2, <1>3, ResumedKeeps
    <2>3. task' = back \/ task' = Resumed(back, ws, lost)
      BY <1>1, <2>1
    <2> QED
      BY <1>2, <2>2, <2>3
  <1>5. waits' \in [Waits -> Row]
    <2>1. waits \in [Waits -> Row]
      BY DEF IInv, TypesOK
    <2>2. SettledWait(waits, lost) \in [Waits -> Row]
      BY <2>1, SettledWaitType
    <2> QED
      BY <1>1, <2>1, <2>2
  <1>6. absence' \in [Runs -> {"none", "open", "lapsed"}]
    BY <1>1, ReconciledAbsenceType DEF IInv, TypesOK
  <1>7. TypesOK(waits', absence', need', dispatch', command', exec', live', downlink', used')
    BY <1>1, <1>5, <1>6 DEF IInv, TypesOK
  <1> QED
    BY <1>1, <1>4, <1>7, QuietStep DEF TurnsKept

LEMMA PresenceKeeps == ASSUME IInv, Presence PROVE IInv'
  <1>1. ASSUME Disconnect \/ GatewayRestarts PROVE IInv'
    <2>1. /\ Use("absences", MaxAbsences) \/ Use("restarts", MaxRestarts)
          /\ live' = FALSE
          /\ absence' \in {absence, [absence EXCEPT ![task.run] = "open"]}
          /\ UNCHANGED <<task, waits, need, dispatch, command, active, native, downlink, exec>>
      BY <1>1 DEF Disconnect, GatewayRestarts
    <2>2. absence' \in [Runs -> {"none", "open", "lapsed"}]
      BY <2>1 DEF IInv, TypesOK
    <2>3. used' \in [absences: 0..MaxAbsences, losses: 0..MaxLosses,
                     restarts: 0..MaxRestarts, commands: 0..MaxCommands, requests: 0..MaxRequests]
      BY <2>1, UseKeepsType DEF IInv, TypesOK
    <2>4. TypesOK(waits', absence', need', dispatch', command', exec', live', downlink', used')
      BY <2>1, <2>2, <2>3 DEF IInv, TypesOK
    <2> QED
      BY <2>1, <2>4, CommandFacts, QuietStep DEF TurnsKept
  <1> QED
    BY <1>1, HelloKeeps DEF Presence

----------------------------------------------------------------------------
(* The native data plane *)

\* #finish() of a run the session had open.
LEMMA FinishFacts ==
    ASSUME IInv, NEW r \in Runs, NEW t, NEW status, Finish(t, r, status)
    PROVE  /\ task' = NativeTask(t, r, status)
           /\ waits' \in [Waits -> Row]
           /\ \A cmd : (\A q \in Runs : command[q] # "none" => cmd[q] # "none") => SessionOK(active', native', cmd)
  <1>1. /\ active = r /\ active' = NoRun /\ native' = native \cup {r} /\ task' = NativeTask(t, r, status)
        /\ waits' = Expired(waits, r)
    BY DEF Finish
  <1>2. waits \in [Waits -> Row] /\ SessionOK(active, native, command) /\ NoRun \notin Runs
    BY DEF IInv, TypesOK, Runs, NoRun
  <1>3. waits' \in [Waits -> Row]
    BY <1>1, <1>2, ExpiredType
  <1>4. ASSUME NEW cmd, \A q \in Runs : command[q] # "none" => cmd[q] # "none"
        PROVE  SessionOK(active', native', cmd)
    BY <1>1, <1>2, <1>4 DEF SessionOK
  <1> QED
    BY <1>1, <1>3, <1>4

\* The data plane ends a run and nothing else moves.
LEMMA FinishKeeps ==
    ASSUME IInv, NEW r \in Runs, NEW status, Finish(task, r, status),
           UNCHANGED <<absence, need, dispatch, command, live, exec, used>>,
           downlink' \in {downlink, downlink \cup {<<"interrupt", r>>}}
    PROVE  IInv'
  <1>1. task' = NativeTask(task, r, status) /\ waits' \in [Waits -> Row] /\ SessionOK(active', native', command)
    BY FinishFacts
  <1>2. Sound(task', command, exec) /\ task'.run = task.run
    BY <1>1, CommandFacts, NativeKeeps
  <1>3. ChainOK(task'.run, dispatch', command', exec')
    BY <1>2, CommandFacts
  <1>4. downlink' \subseteq {"interrupt", "steer"} \X Runs
    BY DEF IInv, TypesOK
  <1>5. TypesOK(waits', absence', need', dispatch', command', exec', live', downlink', used')
    BY <1>1, <1>4 DEF IInv, TypesOK
  <1> QED
    BY <1>1, <1>2, <1>3, <1>5 DEF IInv

LEMMA DiscardKeeps == ASSUME IInv, NEW r \in Runs, Discard(r) PROVE IInv'
  <1>1. PICK cmd : cmd = [command EXCEPT ![r] = "cancelled"]
    OBVIOUS
  <1>2. /\ command[r] = "queued" /\ command' = cmd
        /\ UNCHANGED <<task, waits, absence, need, dispatch, active, native, live, downlink, exec, used>>
    BY <1>1 DEF Discard
  <1>3. command \in Commands
    BY DEF IInv, TypesOK
  <1>4. cmd \in Commands /\ cmd[r] = "cancelled" /\ \A q \in Runs : q # r => cmd[q] = command[q]
    BY <1>1, <1>3 DEF Commands
  <1>5. command[r] = "queued" /\ cmd[r] \in {"acked", "cancelled"}
    BY <1>2, <1>4
  <1>6. /\ Sound(task, cmd, exec) /\ ChainOK(task.run, dispatch, cmd, exec)
        /\ \A q \in Runs : command[q] # "none" => cmd[q] # "none"
    BY <1>4, <1>5, CommandMoves
  <1>7. SessionOK(active', native', command')
    BY <1>2, <1>6 DEF IInv, SessionOK
  <1>8. TypesOK(waits', absence', need', dispatch', command', exec', live', downlink', used')
    BY <1>2, <1>4 DEF IInv, TypesOK
  <1> QED
    BY <1>2, <1>6, <1>7, <1>8 DEF IInv

\* A turn that timed out in the queue is withdrawn; its automatic retry is the next run.
LEMMA TimeoutQueuedKeeps ==
    ASSUME IInv, NEW r \in Runs, DiscardCommand(r), Finish(DiscardedTask(task, r), r, "timed_out"),
           UNCHANGED <<absence, need, live, downlink, exec, used>>
    PROVE  IInv'
  <1>1. PICK cmd, t, n :
          cmd = [command EXCEPT ![r] = "cancelled"] /\ t = DiscardedTask(task, r) /\ n = task.run
    OBVIOUS
  <1>2. /\ command[r] = "queued" /\ n < MaxRuns /\ command' = cmd
        /\ dispatch' = DispatchOfNext(dispatch, task, t)
    BY <1>1 DEF DiscardCommand
  <1>3. command \in Commands /\ n \in Runs /\ dispatch \in Dispatches
    BY <1>1, CommandFacts DEF IInv, TypesOK
  <1>4. cmd \in Commands /\ cmd[r] = "cancelled" /\ \A q \in Runs : q # r => cmd[q] = command[q]
    BY <1>1, <1>3 DEF Commands
  <1>5. command[r] = "queued" /\ cmd[r] \in {"acked", "cancelled"}
    BY <1>2, <1>4
  <1>6. /\ Sound(task, cmd, exec) /\ ChainOK(n, dispatch, cmd, exec)
        /\ \A q \in Runs : command[q] # "none" => cmd[q] # "none"
    BY <1>1, <1>4, <1>5, CommandMoves
  <1>7. n \in Nat /\ n + 1 \in Runs /\ Runs \subseteq Nat /\ MaxRuns \in Nat /\ 1 \in Runs
        /\ (\A q \in Runs : q \in 1..r => q = r \/ q < r) /\ \A q \in 1..r : q \in Runs
    BY <1>2, <1>3, TasksAssumption DEF Runs
  <1>8. Over(cmd, exec, r)
    <2>1. ASSUME NEW q \in 1..r, cmd[q] # "none" PROVE exec[q] = "sealed" \/ cmd[q] = "cancelled"
      BY <1>4, <1>6, <1>7, <2>1 DEF ChainOK
    <2> QED
      BY <2>1 DEF Over
  <1>9. Sound(t, cmd, exec) /\ t.run \in {n, n + 1}
    BY <1>1, <1>2, <1>6, <1>8, DiscardedKeeps
  <1>10. /\ task' = NativeTask(t, r, "timed_out") /\ waits' \in [Waits -> Row] /\ SessionOK(active', native', cmd)
    BY <1>1, <1>6, FinishFacts
  <1>11. Sound(task', cmd, exec) /\ task'.run = t.run
    BY <1>9, <1>10, NativeKeeps
  <1>12. dispatch' \in Dispatches /\ ChainOK(t.run, dispatch', cmd, exec)
    <2>1. CASE t.run = n
      <3>1. dispatch' = dispatch
        BY <1>1, <1>2, <1>7, <2>1 DEF DispatchOfNext
      <3> QED
        BY <1>3, <1>6, <2>1, <3>1
    <2>2. CASE t.run = n + 1
      <3>1. PICK m : m = n + 1
        OBVIOUS
      <3>2. m \in Runs /\ m > n /\ m # 1 /\ t.run = m
        <4>1. m \in Runs /\ t.run = m
          BY <1>7, <2>2, <3>1
        <4>2. n >= 1 /\ n \in Nat
          BY <1>3, <1>7 DEF Runs
        <4> QED
          BY <3>1, <4>1, <4>2
      <3>3. dispatch' = Asked(dispatch, "turn", m)
        BY <1>1, <1>2, <3>2 DEF DispatchOfNext
      <3>4. "turn" \in Kind
        BY DEF Kind
      <3>5. dispatch' \in Dispatches /\ \A q \in Runs : q # m => dispatch'[<<"turn", q>>] = dispatch[<<"turn", q>>]
        <4>1. PICK d \in Dispatches : d = dispatch
          BY <1>3
        <4>2. m \in Runs
          BY <3>2
        <4>3. /\ Asked(d, "turn", m) \in Dispatches
              /\ \A q \in Runs : q # m => Asked(d, "turn", m)[<<"turn", q>>] = d[<<"turn", q>>]
          BY <3>4, <4>2, AskedKeeps, ZenonT(60)
        <4> QED
          BY <3>3, <4>1, <4>3
      <3>6. \A q \in Runs : q > m => q > n /\ q # m
        BY <1>7, <3>1
      <3>7. \A q \in Runs : cmd[q] # "none" => q # m
        BY <1>6, <3>2 DEF ChainOK
      <3>8. ChainOK(m, dispatch', cmd, exec)
        BY <1>6, <1>7, <3>2, <3>5, <3>6, <3>7 DEF ChainOK
      <3> QED
        BY <3>2, <3>5, <3>8
    <2> QED
      BY <1>9, <2>1, <2>2
  <1>13. TypesOK(waits', absence', need', dispatch', command', exec', live', downlink', used')
    BY <1>2, <1>4, <1>10, <1>12 DEF IInv, TypesOK
  <1>14. Sound(task', command', exec') /\ ChainOK(task'.run, dispatch', command', exec') /\ SessionOK(active', native', command')
    BY <1>2, <1>10, <1>11, <1>12
  <1> QED
    BY <1>13, <1>14 DEF IInv

LEMMA DataPlaneKeeps == ASSUME IInv, DataPlane PROVE IInv'
  <1>1. PICK r \in Runs : Discard(r) \/ TimeoutTurn(r) \/ SealOwnerLoss(r) \/ ProjectTerminal(r)
    BY DEF DataPlane
  <1>2. CASE TimeoutTurn(r)
    <2>1. CASE DiscardCommand(r)
      <3>1. Finish(DiscardedTask(task, r), r, "timed_out") /\ UNCHANGED <<absence, need, live, downlink, exec, used>>
        BY <1>2, <2>1 DEF TimeoutTurn, DiscardCommand
      <3> QED
        BY <2>1, <3>1, TimeoutQueuedKeeps
    <2>2. CASE command[r] = "acked"
      <3>1. /\ Finish(task, r, "timed_out") /\ downlink' = downlink \cup {<<"interrupt", r>>}
            /\ UNCHANGED <<absence, need, dispatch, command, live, exec, used>>
        BY <1>2, <2>2 DEF TimeoutTurn, DiscardCommand
      <3> QED
        BY <3>1, FinishKeeps
    <2> QED
      BY <1>2, <2>1, <2>2 DEF TimeoutTurn
  <1>3. CASE SealOwnerLoss(r)
    <2>1. Finish(task, r, "failed") /\ UNCHANGED <<absence, need, dispatch, command, live, downlink, exec, used>>
      BY <1>3 DEF SealOwnerLoss
    <2> QED
      BY <2>1, FinishKeeps
  <1>4. CASE ProjectTerminal(r)
    <2>1. PICK status : Finish(task, r, status) /\ UNCHANGED <<absence, need, dispatch, command, live, downlink, exec, used>>
      BY <1>4 DEF ProjectTerminal
    <2> QED
      BY <2>1, FinishKeeps
  <1> QED
    BY <1>1, <1>2, <1>3, <1>4, DiscardKeeps

----------------------------------------------------------------------------
(* The theorems *)

LEMMA NextKeeps == IInv /\ [Next]_vars => IInv'
  <1> SUFFICES ASSUME IInv, [Next]_vars PROVE IInv'
    OBVIOUS
  <1>1. CASE UNCHANGED vars
    <2>1. UNCHANGED <<task, waits, absence, need, dispatch, command, active, native, live, downlink, exec, used>>
      BY <1>1 DEF vars, gateway
    <2> QED
      BY <2>1 DEF IInv
  <1> QED
    BY <1>1, PersonKeeps, HeartbeatKeeps, AgentKeeps, PresenceKeeps, DataPlaneKeeps DEF Next

\* The invariant: the shape of the task, the chain of its runs and what its state promises of the
\* current one, through every command, loss and retry.
THEOREM InvariantHolds == Spec => []IInv
  BY InitHolds, NextKeeps, PTL DEF Spec

\* Every variable stays in its type; in particular a task spends no more automatic retries than its
\* budget, and the session's open turn is never one the native data plane already ended.
THEOREM TypeCorrect == Spec => []TypeOK
  <1>1. IInv => TypeOK
    BY DEF IInv, Sound, TaskOK, Task, SessionOK, TypesOK, Row, Dispatches, Kind, Commands, Executions, TypeOK
  <1> QED
    BY <1>1, InvariantHolds, PTL

\* The agent never carries two runs of a task that the gateway has not withdrawn (dispatch and
\* #executionEnded), for any number of retries, resumes and lost owners.
THEOREM OneAtATime == Spec => []OneRunAtATime
  <1>1. IInv => OneRunAtATime
    <2> SUFFICES ASSUME IInv PROVE OneRunAtATime
      OBVIOUS
    <2>1. PICK S : S = {r \in Runs : exec[r] = "running" /\ command[r] # "cancelled"}
      OBVIOUS
    <2>2. \A q, r \in S : ~(q < r)
      BY <2>1, CommandFacts DEF ChainOK
    <2>3. \A q, r \in S : q = r
      <3>1. S \subseteq Nat
        BY <2>1, TasksAssumption DEF Runs
      <3> QED
        BY <2>2, <3>1
    <2>4. Cardinality(S) <= 1
      <3>1. CASE S = {}
        BY <3>1, FS_EmptySet
      <3>2. CASE S # {}
        <4>1. PICK r \in S : S = {r}
          BY <2>3, <3>2
        <4> QED
          <5>1. Cardinality({r}) = 1
            BY FS_Singleton
          <5> QED
            BY <4>1, <5>1
      <3> QED
        BY <3>1, <3>2
    <2> QED
      BY <2>1, <2>4 DEF OneRunAtATime
  <1> QED
    BY <1>1, InvariantHolds, PTL

\* A task that says its run executes has a run the agent acknowledged, and none that is over, unless
\* it failed or left artifacts to prove: no answer, reattachment or late event revives a run.
THEOREM ExecutionCarried == Spec => []ExecutionIsCarried
  <1>1. IInv => ExecutionIsCarried
    BY DEF IInv, Sound, Carried, Active, Supported, ExecutionIsCarried, Sealed
  <1> QED
    BY <1>1, InvariantHolds, PTL
=============================================================================
