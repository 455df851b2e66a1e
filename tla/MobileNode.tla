----------------------------- MODULE MobileNode -----------------------------
(* Phone requests: mobile-node.ts (the broker) with the advertise, route and  *)
(* send parts of ws-hub.ts, the lifecycle record and the receipt of           *)
(* storage.ts, the admission and turn-end hooks of native-data-plane.ts and   *)
(* the wiring of server.ts.                                                   *)
(*                                                                            *)
(* An agent in a turn asks for something of a phone: its status, its          *)
(* location, or a picture or file.  The broker admits the request, sends it   *)
(* to the phone's selected socket and holds it until the first of an answer,  *)
(* a deadline, a cancellation, the end of the turn or the loss of the agent;  *)
(* a picture comes over HTTP, in two steps.  A person reads the record, the   *)
(* agent is told the outcome, and what was shared leaves a receipt.           *)
(*                                                                            *)
(* One agent, one turn and one phone.  Frames between the gateway and the     *)
(* phone need no state: a phone may ignore what it is sent, its answer may be *)
(* read after the gateway has withdrawn the request (so a cancel frame binds  *)
(* nobody), and what it sent on a socket it has left may still be read.  A    *)
(* handler runs to its end before the next one starts.                        *)
(*                                                                            *)
(* A record or a receipt that cannot be written fails nothing but itself.     *)
(* told says what was handed to sendMobileResult: to an agent whose link is   *)
(* gone it sends nothing, and nobody tries again.                             *)
EXTENDS Integers, Sequences, FiniteSets

CONSTANTS
  Requests,     \* the request ids the agent draws (fresh ones: uuid4)
  Kinds,        \* of "status", "location", "media": what is asked for
  Limit,        \* terminalLimit: requests held, pending or settled
  MaxSockets,   \* bound: sockets the phone opens
  MaxAdverts,   \* bound: advertisements the phone sends
  MaxBreaks,    \* bound: links lost and processes ended
  MaxLost       \* bound: writes of one record that fail

ASSUME MobileAssumption ==
  /\ Kinds \subseteq {"status", "location", "media"}
  /\ Limit \in Nat \ {0} /\ MaxSockets \in Nat \ {0}

Socket == 1..MaxSockets

VARIABLES
  req,       \* the broker's entry of a request: [at, stage, kind]
  held,      \* #terminal: the settled ids it still remembers
  others,    \* what other agents' requests take of the table
  record,    \* bot_mobile_requests: the state a person reads
  lost,      \* writes of its record that failed
  receipts,  \* bot_mobile_receipts
  told,      \* the outcomes handed to the agent, in order
  due,       \* requests whose deadline has passed
  turn,      \* the turn they name: "active" or "over"
  target,    \* how its device is known: "preferred", "origin" or "none"
  link,      \* the agent's link: "up", "broken" (agent only) or "down"
  asks,      \* frames from the agent to the gateway
  calls,     \* the agent's calls: "new", "open" or "over"
  sock,      \* the phone's sockets, as they really are
  mode,      \* what a socket last advertised: "fg", "bg" or "none"
  selected,  \* #mobileNodes' socket of the device, or 0
  shown,     \* the request frames a phone holds unanswered
  orphans,   \* requests a process took with it unsettled
  used       \* what the bounds count

brokerVars == <<req, held, record, lost, receipts, told>>
agentVars == <<link, asks, calls>>
phoneVars == <<sock, mode, selected>>
turnVars == <<turn, target>>
vars == <<brokerVars, due, turnVars, agentVars, phoneVars, shown, orphans, others, used>>

Statuses == {"ok", "denied", "expired", "cancelled", "foreground_required",
             "policy_blocked", "device_unavailable"}
Progress == <<"requested", "routed", "received", "executing">>
Terminal == {"completed", "denied", "failed", "expired", "cancelled",
             "policy_blocked", "foreground_required"}
Open == {Progress[i] : i \in DOMAIN Progress}

Absent == [at |-> "none", stage |-> 0, kind |-> "status"]
Pending == {r \in Requests : req[r].at = "pending"}

(* --------------------------- records and outcomes ------------------------- *)

\* recordBotMobileRequest: forward only, and the first terminal state is sealed.
Rank(state) ==
  IF state \in Open THEN CHOOSE i \in DOMAIN Progress : Progress[i] = state
  ELSE IF state \in Terminal THEN Len(Progress) + 1 ELSE 0
Moved(old, state) == IF Rank(state) > Rank(old) THEN state ELSE old

\* #life of every request: a write that fails is swallowed, and leaves of the record what
\* an earlier write of the handler began.
Write(next, begun) ==
  /\ \E fails \in SUBSET {r \in Requests : next[r] # begun[r] /\ lost[r] < MaxLost} :
       record' = [r \in Requests |-> IF r \in fails THEN begun[r] ELSE next[r]]
  /\ lost' = [r \in Requests |-> IF record'[r] = next[r] THEN lost[r] ELSE lost[r] + 1]

\* The two writes of a handler that opens the record of r.
OpenAs(r, state) ==
  \E first \in {"none", "requested"} :
    Write([record EXCEPT ![r] = Moved(@, state)], [record EXCEPT ![r] = Moved(@, first)])

\* settledState: policy_blocked is kept for what no phone ever saw.
SettledState(status) ==
  CASE status = "ok" -> "completed"
    [] status \in {"device_unavailable", "policy_blocked"} -> "failed"
    [] OTHER -> status

\* A mutant: one more than the limit.
Fits == Cardinality(Pending) + Cardinality(held) + others <= Limit

CanAdmit == Cardinality(Pending) + Cardinality(held) + others < Limit

\* sendMobileResult: the agent hears while its link is up.
Tell(S, status) ==
  /\ told' = [r \in Requests |-> IF r \in S THEN Append(told[r], status) ELSE told[r]]
  /\ calls' = [r \in Requests |->
       IF r \in S /\ link = "up" /\ calls[r] = "open" THEN "over" ELSE calls[r]]

\* #consume: the id moves from the pending table to the remembered ones.
Consume(S, at) ==
  /\ req' = [r \in Requests |-> IF r \in S THEN [Absent EXCEPT !.at = at] ELSE req[r]]
  /\ held' = held \cup S

\* #finish of every request of S, while those of sent are routed.
Finish(S, status, sent) ==
  /\ Consume(S, "none")
  /\ Tell(S, status)
  /\ Write([r \in Requests |->
              CASE r \in S -> Moved(record[r], SettledState(status))
                [] r \in sent -> Moved(record[r], "routed")
                [] OTHER -> record[r]], record)
  /\ UNCHANGED receipts

\* A mutant: the record is sealed before the receipt is written.
SealedFirst(r, status, stored) ==
  LET final == IF status = "ok" /\ (~stored \/ r \in receipts)
               THEN "device_unavailable" ELSE status
  IN /\ receipts' = IF final = "ok" THEN receipts \cup {r} ELSE receipts
     /\ Write([record EXCEPT ![r] = Moved(@, SettledState(status))], record)
     /\ Tell({r}, final)

\* #settle of one request no longer pending.  What is shared needs its receipt.
Settle(r, status, stored) ==
  LET unkept == status = "ok" /\ (~stored \/ r \in receipts)
      final == IF unkept THEN "device_unavailable" ELSE status
  IN /\ receipts' = IF final = "ok" THEN receipts \cup {r} ELSE receipts
     /\ Write([record EXCEPT ![r] = Moved(@, SettledState(final))], record)
     /\ Tell({r}, final)

(* -------------------------------- the phone -------------------------------- *)

SocketOpen(s) == sock[s] \in {"live", "stale"}     \* readyState OPEN
Carries(s, kind) == mode[s] = "fg" \/ (mode[s] = "bg" /\ kind = "status")

\* mobileNodeRoute: only a socket that is in the foreground advertises more than status.
Route(kind) ==
  IF selected = 0
  THEN IF \E s \in Socket : SocketOpen(s) THEN "not advertised" ELSE "no socket"
  ELSE IF Carries(selected, kind) THEN "available" ELSE "not advertised"

\* sendMobileNodeFrame, seen from the phone: a stale socket leads nowhere.
Reaches(s) == s # 0 /\ sock[s] = "live"
ShowTo(s, sent) == [r \in Requests |->
  IF r \in sent /\ Reaches(s) THEN shown[r] + 1 ELSE shown[r]]

Init ==
  /\ req = [r \in Requests |-> Absent] /\ held = {} /\ others = 0
  /\ record = [r \in Requests |-> "none"] /\ lost = [r \in Requests |-> 0] /\ receipts = {}
  /\ told = [r \in Requests |-> <<>>] /\ due = {}
  /\ turn = "active" /\ target \in {"preferred", "origin"}
  /\ link = "up" /\ asks = <<>> /\ calls = [r \in Requests |-> "new"]
  /\ sock = [s \in Socket |-> "unused"] /\ mode = [s \in Socket |-> "none"]
  /\ selected = 0
  /\ shown = [r \in Requests |-> 0] /\ orphans = {}
  /\ used = [adverts |-> 0, breaks |-> 0]

(* -------------------------------- the agent -------------------------------- *)

AgentAsks(r, kind) ==
  /\ link = "up" /\ calls[r] = "new"
  /\ calls' = [calls EXCEPT ![r] = "open"]
  /\ asks' = Append(asks, [cancel |-> FALSE, req |-> r, kind |-> kind])
  /\ UNCHANGED <<brokerVars, due, turnVars, link, phoneVars, shown, orphans, others, used>>

\* The call's own timeout, or its cancellation.
AgentGivesUp(r) ==
  /\ calls[r] = "open"
  /\ calls' = [calls EXCEPT ![r] = "over"]
  /\ asks' = Append(asks, [cancel |-> TRUE, req |-> r, kind |-> "status"])
  /\ UNCHANGED <<brokerVars, due, turnVars, link, phoneVars, shown, orphans, others, used>>

AfterBreak == [r \in Requests |-> IF calls[r] = "open" THEN "over" ELSE calls[r]]

\* The agent loses its link: it settles its calls itself, and the gateway may
\* still read what was sent.
LinkBreaks ==
  /\ link = "up" /\ used.breaks < MaxBreaks
  /\ link' = "broken" /\ calls' = AfterBreak
  /\ used' = [used EXCEPT !.breaks = @ + 1]
  /\ UNCHANGED <<brokerVars, due, turnVars, asks, phoneVars, shown, orphans, others>>

\* disconnectAgent, from the absence of the agent or from its next hello.
DisconnectAgent ==
  /\ Finish(Pending, "cancelled", {})
  /\ asks' = <<>>
  /\ UNCHANGED <<due, turnVars, phoneVars, shown, orphans, others, used>>

GatewayNotices == link = "broken" /\ link' = "down" /\ DisconnectAgent
AgentConnects == link \in {"broken", "down"} /\ link' = "up" /\ DisconnectAgent

(* ------------------------------- the requests ------------------------------ *)

\* mobileRequest and invoke, in the order of their checks.
Verdict(r, kind) ==
  IF turn = "over" THEN "rejected"
  ELSE IF target = "none" THEN "no device"
  ELSE IF r \in due THEN "blocked"
  ELSE IF Route(kind) = "available" THEN IF CanAdmit THEN "send" ELSE "full"
  ELSE IF kind = "status" /\ Route(kind) = "no socket" THEN IF CanAdmit THEN "wake" ELSE "full"
  ELSE "no route"

\* What #refuse tells and records.
Refusal(verdict) ==
  CASE verdict = "rejected" -> <<"policy_blocked", "none">>
    [] verdict = "no device" -> <<"device_unavailable", "failed">>
    [] verdict = "blocked" -> <<"policy_blocked", "policy_blocked">>
    [] verdict = "no route" -> <<"foreground_required", "foreground_required">>

\* #refuse and #terminalize: a full table swallows the refusal whole.
Refuse(r, status, state) ==
  IF CanAdmit
  THEN /\ held' = held \cup {r} /\ Tell({r}, status)
       /\ OpenAs(r, state)
  ELSE UNCHANGED <<held, told, calls, record, lost>>

\* The rest of invoke: the wake or the send is tried, and may not work.
Dispatch(r, kind, verdict, works) ==
  /\ req' = [req EXCEPT ![r] =
       IF works THEN [at |-> "pending", stage |-> 0, kind |-> kind] ELSE @]
  /\ held' = IF works THEN held ELSE held \cup {r}
  /\ OpenAs(r, IF ~works THEN IF verdict = "wake" THEN "foreground_required" ELSE "failed"
               ELSE IF verdict = "wake" THEN "requested" ELSE "routed")
  /\ shown' = IF works /\ verdict = "send" THEN ShowTo(selected, {r}) ELSE shown
  /\ IF works THEN UNCHANGED <<told, calls>>
     ELSE Tell({r}, IF verdict = "wake" THEN "foreground_required" ELSE "device_unavailable")

Invoke(works) ==
  /\ asks # <<>> /\ ~Head(asks).cancel
  /\ asks' = Tail(asks)
  /\ LET r == Head(asks).req
         kind == Head(asks).kind
         verdict == Verdict(r, kind)
     IN CASE verdict \in {"send", "wake"} -> Dispatch(r, kind, verdict, works)
          [] verdict = "full" -> works /\ UNCHANGED <<req, held, record, lost, told, calls, shown>>
          [] OTHER -> /\ works /\ Refuse(r, Refusal(verdict)[1], Refusal(verdict)[2])
                      /\ UNCHANGED <<req, shown>>
  /\ UNCHANGED <<receipts, due, turnVars, link, phoneVars, orphans, others, used>>

\* cancelRequest: nothing to do for a request no longer pending.
CancelRequest ==
  /\ asks # <<>> /\ Head(asks).cancel
  /\ asks' = Tail(asks)
  /\ Finish({Head(asks).req} \cap Pending, "cancelled", {})
  /\ UNCHANGED <<due, turnVars, link, phoneVars, shown, orphans, others, used>>

\* The request's own timer; the Task sweep (expireRequest) does the same.
Expire(r) ==
  /\ r \in Pending \cap due
  /\ Finish({r}, "expired", {})
  /\ UNCHANGED <<due, turnVars, link, asks, phoneVars, shown, orphans, others, used>>

\* #cancelMobileTurn: the turn's origin device is forgotten with it.
CancelTurn ==
  /\ target' = IF target = "origin" THEN "none" ELSE target
  /\ Finish(Pending, "cancelled", {})
  /\ UNCHANGED <<due, link, asks, phoneVars, shown, orphans, others, used>>

\* A mutant: the end of a turn leaves its requests to their deadlines.
EndsAlone ==
  /\ turn = "active" /\ turn' = "over"
  /\ UNCHANGED <<brokerVars, due, target, agentVars, phoneVars, shown, orphans, others, used>>

\* #stop leaves the turn active until its terminal event comes; #finish ends it.
StopTurn == turn = "active" /\ CancelTurn /\ UNCHANGED turn
TurnEnds == turn = "active" /\ turn' = "over" /\ CancelTurn

(* ------------------------------- the answers ------------------------------- *)

\* mobile_node_result: each frame shown is answered once, its payload may be none that
\* the schema allows, and the answer counts on the selected socket only.
Result(s, r, says, valid, stored) ==
  /\ SocketOpen(s) /\ shown[r] > 0 /\ (valid => says = "ok") /\ (stored => valid)
  /\ shown' = [shown EXCEPT ![r] = @ - 1]
  /\ IF s # selected \/ r \notin Pending THEN UNCHANGED <<brokerVars, calls>>
     ELSE IF r \in due THEN Finish({r}, "expired", {})
     ELSE /\ Consume({r}, "none")
          /\ LET kind == req[r].kind
                 status == IF says # "ok" THEN says
                           ELSE IF kind # "status" /\ Route(kind) # "available"
                                THEN "foreground_required"
                           ELSE IF ~valid \/ kind = "media" THEN "policy_blocked" ELSE "ok"
             IN Settle(r, status, stored)
  /\ UNCHANGED <<due, turnVars, link, asks, phoneVars, orphans, others, used>>

\* mobile_node_progress of a phone that reports it.
Advance(s, r) ==
  /\ SocketOpen(s) /\ s = selected /\ shown[r] > 0 /\ r \in Pending
  /\ IF r \in due THEN Finish({r}, "expired", {})
     ELSE /\ req[r].stage = 0
          /\ req' = [req EXCEPT ![r].stage = 1]
          /\ Write([record EXCEPT ![r] = Moved(@, "received")], record)
          /\ UNCHANGED <<held, receipts, told, calls>>
  /\ UNCHANGED <<due, turnVars, link, asks, phoneVars, shown, orphans, others, used>>

\* beginMediaUpload: the lease is spent before the first byte is read.
BeginUpload(r) ==
  /\ shown[r] > 0 /\ r \in Pending /\ req[r].kind = "media"
  /\ shown' = [shown EXCEPT ![r] = @ - 1]
  /\ IF r \in due THEN Finish({r}, "expired", {})
     ELSE IF Route("media") # "available" THEN Finish({r}, "foreground_required", {})
     ELSE /\ Consume({r}, "claimed")
          /\ Write([record EXCEPT ![r] = Moved(@, "executing")], record)
          /\ UNCHANGED <<receipts, told, calls>>
  /\ UNCHANGED <<due, turnVars, link, asks, phoneVars, orphans, others, used>>

\* A mutant: an upload of bad bytes is answered over HTTP and to nobody else.
EndsUnlessBad(r, good, stored) ==
  /\ req[r].at = "claimed" /\ (stored => good)
  /\ req' = [req EXCEPT ![r].at = "none"]
  /\ IF good THEN Settle(r, IF Route("media") # "available" THEN "foreground_required"
                            ELSE "ok", stored)
     ELSE UNCHANGED <<receipts, record, lost, told, calls>>
  /\ UNCHANGED <<held, due, turnVars, link, asks, phoneVars, shown, orphans, others, used>>

\* completeMediaUpload, however long the body took; good is what the bytes were.
EndUpload(r, good, stored) ==
  /\ req[r].at = "claimed" /\ (stored => good)
  /\ req' = [req EXCEPT ![r].at = "none"]
  /\ LET status == IF ~good THEN "policy_blocked"
                   ELSE IF Route("media") # "available" THEN "foreground_required" ELSE "ok"
     IN Settle(r, status, stored)
  /\ UNCHANGED <<held, due, turnVars, link, asks, phoneVars, shown, orphans, others, used>>

(* -------------------------------- the sockets ------------------------------ *)

\* A new socket takes the place of the old one, of which the gateway still thinks
\* that it is open.
PhoneConnects(s) ==
  /\ sock[s] = "unused" /\ (s > 1 => sock[s - 1] # "unused")
  /\ sock' = [t \in Socket |-> IF t = s THEN "live"
                               ELSE IF sock[t] = "live" THEN "stale" ELSE sock[t]]
  /\ UNCHANGED <<brokerVars, due, turnVars, agentVars, mode, selected, shown, orphans, others, used>>

\* mobile_node_advertise: the socket is selected, unless a sibling is in the foreground,
\* and reconnectDevice sends again what the phone has not said it holds.
Advertise(s, m) ==
  /\ SocketOpen(s) /\ used.adverts < MaxAdverts
  /\ used' = [used EXCEPT !.adverts = @ + 1]
  /\ mode' = [mode EXCEPT ![s] = m]
  /\ LET sibling == selected \notin {0, s} /\ mode[selected] = "fg"
         takes == m # "none" /\ (~sibling \/ m = "fg")
         late == IF takes THEN Pending \cap due ELSE {}
         fit == {r \in Requests : req[r].stage = 0 /\ (m = "fg" \/ req[r].kind = "status")}
         again == IF takes THEN (Pending \ due) \cap fit ELSE {}
     IN /\ selected' = IF takes THEN s
                       ELSE IF m = "none" /\ selected = s THEN 0 ELSE selected
        /\ Finish(late, "expired", again)
        /\ shown' = ShowTo(s, again)
  /\ UNCHANGED <<due, turnVars, link, asks, sock, orphans, others>>

SocketCloses(s) ==
  /\ SocketOpen(s)
  /\ sock' = [sock EXCEPT ![s] = "closed"] /\ mode' = [mode EXCEPT ![s] = "none"]
  /\ selected' = IF selected = s THEN 0 ELSE selected
  /\ UNCHANGED <<brokerVars, due, turnVars, agentVars, shown, orphans, others, used>>

(* ------------------------------ time and process --------------------------- *)

DeadlinePasses(r) ==
  /\ r \notin due /\ calls[r] # "new"
  /\ due' = due \cup {r}
  /\ UNCHANGED <<brokerVars, turnVars, agentVars, phoneVars, shown, orphans, others, used>>

\* #pruneTerminal, which every use of the table runs first.
Forget(r) ==
  /\ r \in held \cap due
  /\ held' = held \ {r}
  /\ UNCHANGED <<req, record, lost, receipts, told, due, turnVars, agentVars, phoneVars,
                 shown, orphans, others, used>>

\* #sweepMobileRequests, at the write of any record: what settled is history after a month,
\* and a deadline is minutes.
SweepRecord(r) ==
  /\ record[r] \in Terminal /\ r \in due \ held
  /\ record' = [record EXCEPT ![r] = "none"]
  /\ UNCHANGED <<req, held, lost, receipts, told, due, turnVars, agentVars, phoneVars,
                 shown, orphans, others, used>>

\* The table serves every agent.
OthersHold(n) ==
  /\ n # others /\ Cardinality(Pending) + Cardinality(held) + n <= Limit
  /\ others' = n
  /\ UNCHANGED <<brokerVars, due, turnVars, agentVars, phoneVars, shown, orphans, used>>

\* What a process leaves to the next one.
ProcessEnds ==
  /\ used.breaks < MaxBreaks /\ used' = [used EXCEPT !.breaks = @ + 1]
  /\ link' = "down" /\ asks' = <<>> /\ calls' = AfterBreak
  /\ target' = IF target = "origin" THEN "none" ELSE target
  /\ sock' = [s \in Socket |-> IF sock[s] = "unused" THEN "unused" ELSE "closed"]
  /\ mode' = [s \in Socket |-> "none"] /\ selected' = 0
  /\ req' = [r \in Requests |-> Absent] /\ held' = {} /\ others' = 0
  /\ UNCHANGED <<receipts, due, turn, shown>>

\* close: the uploads end, the links go, and what is still pending is settled.
Shutdown(status) ==
  /\ \A r \in Requests : req[r].at # "claimed"
  /\ ProcessEnds
  /\ told' = [r \in Requests |-> IF r \in Pending THEN Append(told[r], status) ELSE told[r]]
  /\ Write([r \in Requests |->
              IF r \in Pending THEN Moved(record[r], SettledState(status)) ELSE record[r]], record)
  /\ UNCHANGED orphans

Crash ==
  /\ ProcessEnds
  /\ orphans' = orphans \cup {r \in Requests : req[r].at # "none"}
  /\ UNCHANGED <<record, lost, told>>

Agent ==
  \/ \E r \in Requests : \/ \E kind \in Kinds : AgentAsks(r, kind)
                         \/ AgentGivesUp(r)
  \/ LinkBreaks
  \/ GatewayNotices
  \/ AgentConnects

Gateway ==
  \/ \E works \in BOOLEAN : Invoke(works)
  \/ CancelRequest
  \/ StopTurn
  \/ TurnEnds

Phone ==
  \/ \E s \in Socket :
       \/ PhoneConnects(s)
       \/ \E m \in {"fg", "bg", "none"} : Advertise(s, m)
       \/ SocketCloses(s)
       \/ \E r \in Requests :
            \/ Advance(s, r)
            \/ \E says \in {"ok", "denied"}, valid, stored \in BOOLEAN :
                 Result(s, r, says, valid, stored)
  \/ \E r \in Requests : BeginUpload(r)

Clock ==
  \/ \E r \in Requests : DeadlinePasses(r) \/ Expire(r) \/ Forget(r) \/ SweepRecord(r)
  \/ \E n \in 0..Limit : OthersHold(n)
Uploads == \E r \in Requests, good, stored \in BOOLEAN : EndUpload(r, good, stored)
Process == Crash \/ \E status \in {"cancelled", "device_unavailable"} : Shutdown(status)

Next == Agent \/ Gateway \/ Phone \/ Clock \/ Uploads \/ Process

\* Timers run, and a request handler of the HTTP server comes to its end.
Fairness ==
  \A r \in Requests :
    /\ WF_vars(DeadlinePasses(r)) /\ WF_vars(Expire(r))
    /\ WF_vars(\E good, stored \in BOOLEAN : EndUpload(r, good, stored))

Spec == Init /\ [][Next]_vars /\ Fairness

(* -------------------------------- properties ------------------------------- *)

\* Every variable keeps its shape, and the broker never holds more ids than its limit.
TypeOK ==
  /\ \A r \in Requests :
       /\ req[r].at \in {"none", "pending", "claimed"} /\ req[r].stage \in 0..1
       /\ record[r] \in Open \cup Terminal \cup {"none"}
       /\ told[r] \in Seq(Statuses) /\ calls[r] \in {"new", "open", "over"}
       /\ shown[r] \in Nat /\ lost[r] \in Nat
  /\ held \subseteq Requests /\ Cardinality(Pending \cup held) + others <= Limit
  /\ receipts \cup due \cup orphans \subseteq Requests
  /\ selected \in Socket \cup {0} /\ link \in {"up", "broken", "down"}

\* The person, the agent and the receipts agree (mobile-node.ts:545): the agent is given
\* one outcome at most, a settled record reads as that outcome does, policy_blocked only
\* for what no phone was sent, no record of what was given one stays open but one that
\* could not be written, and a receipt stands for exactly what was shared.
OutcomeIsAgreed ==
  \A r \in Requests :
    /\ Len(told[r]) <= 1
    /\ record[r] \in Terminal =>
         /\ told[r] # <<>>
         /\ record[r] = SettledState(told[r][1])
              \/ (record[r] = "policy_blocked" /\ told[r][1] = "policy_blocked" /\ shown[r] = 0)
    /\ told[r] # <<>> /\ record[r] # "none" => record[r] \in Terminal \/ lost[r] > 0
    /\ r \in receipts <=> told[r] = <<"ok">>

\* Nobody is asked on behalf of what is over: a pending request belongs to the active
\* turn, and once the gateway knows that the agent is gone nothing of it is pending
\* (cancelTurn and disconnectAgent).
AskedOfTheLiving ==
  \A r \in Pending : turn = "active" /\ link # "down" /\ r \notin held

\* A record that was opened settles, unless the process that held the request died with
\* it or a write of the record failed: the deadline and the end of the upload see to it,
\* whatever the phone, the agent and the sockets do.
RecordsSettle ==
  \A r \in Requests :
    record[r] \in Open ~> (record[r] \in Terminal \/ r \in orphans \/ lost[r] > 0)
=============================================================================
