---------------------------- MODULE SyncTrigger -----------------------------
(***************************************************************************)
(* When a laptop syncs and what its user hears of it: main of              *)
(* sync_client.py, the error rows it writes and clears, and the agent's    *)
(* escalation, which turns rows into notifications.  The calls themselves  *)
(* are in SyncLaptop; here the server, which may be changing (VmServer),   *)
(* gives any answer: "ok", "denied" or "down".                             *)
(*                                                                         *)
(* flock is held from the start of an attempt to its end, also if that is  *)
(* a kill; an invocation that finds it held, or an attempt less than       *)
(* BVL_SYNC_INTERVAL_SECONDS old, exits without a trace.                   *)
(***************************************************************************)
EXTENDS ErrorRows

CONSTANT MaxMishaps     \* failures of escalate in a behaviour (bound)

ASSUME MaxMishapsAssumption == MaxMishaps \in Nat

VARIABLES
    client,     \* the attempt that holds the lock
    recent,     \* TRUE: the last attempt is younger than the interval
    unsent,     \* TRUE: the log has lines after the cursor
    errs,       \* the three rows of the sync operations
    agent,      \* the pass of escalate under way
    told,       \* told[k]: notifications of the current streak of failures
    disturbed,  \* streaks that a race or a failure of escalate has met
    mishaps     \* failures of escalate so far

triggerVars == <<client, recent, unsent, errs, agent, told, disturbed, mishaps>>
ghosts == <<told, disturbed, mishaps>>

SyncOps == {"sync_handshake", "sync_push", "sync_pull"}

TriggerTypeOK ==
    /\ client \in {"idle", "dial", "push", "pull"}
    /\ recent \in BOOLEAN /\ unsent \in BOOLEAN
    /\ errs \in [SyncOps -> ErrorRow]
    /\ \A k \in SyncOps : errs[k].attempts = 0 => errs[k] = NoRow
    /\ agent \in [due : SUBSET SyncOps, mark : SUBSET SyncOps, stale : SUBSET SyncOps]
    /\ told \in [SyncOps -> Nat]
    /\ disturbed \subseteq SyncOps
    /\ mishaps \in Nat

(* due: rows selected and not come to yet; mark: the row whose user has    *)
(* been told and which is not marked yet; stale: rows of these two that    *)
(* have been deleted since the query.                                      *)
IdleAgent == [due |-> {}, mark |-> {}, stale |-> {}]

TriggerInit ==
    /\ client = "idle" /\ recent = FALSE /\ unsent = FALSE
    /\ errs = [k \in SyncOps |-> NoRow]
    /\ agent = IdleAgent
    /\ told = [k \in SyncOps |-> 0]
    /\ disturbed = {}
    /\ mishaps = 0

(* The streak of failures of k ends with its row.                          *)
StreakEnds(k) ==
    /\ agent' = [agent EXCEPT !.stale = @ \cup ({k} \cap (agent.due \cup agent.mark))]
    /\ told' = [told EXCEPT ![k] = 0]
    /\ disturbed' = disturbed \ {k}
    /\ UNCHANGED mishaps

Clear(k) == errs' = ClearError(errs, k) /\ StreakEnds(k)

(* Both in one transaction: _send_push of two batches.                     *)
ClearAndRecord(k, immediate) ==
    /\ errs' = RecordError(ClearError(errs, k), k, immediate)
    /\ StreakEnds(k)

Record(k, immediate) ==
    /\ errs' = RecordError(errs, k, immediate)
    /\ UNCHANGED <<agent, ghosts>>

LineLogged ==
    /\ ~unsent
    /\ unsent' = TRUE
    /\ UNCHANGED <<client, recent, errs, agent, ghosts>>

IntervalPasses ==
    /\ recent
    /\ client = "idle"
    /\ recent' = FALSE
    /\ UNCHANGED <<client, unsent, errs, agent, ghosts>>

ClientStarts(force) ==
    /\ client = "idle"
    /\ force \/ ~recent
    /\ client' = "dial"
    /\ recent' = TRUE
    /\ UNCHANGED <<unsent, errs, agent, ghosts>>

(* build_channel finds stubs and certificates, or it does not.             *)
Dial ==
    /\ client = "dial"
    /\ client' = "push"
    /\ UNCHANGED <<recent, unsent, errs, agent, ghosts>>

DialFails ==
    /\ client = "dial"
    /\ Record("sync_handshake", TRUE)
    /\ client' = "idle"
    /\ UNCHANGED <<recent, unsent>>

(* Mutant of Push: the row of an earlier failure stays.                    *)
PushNeverClears(answer) ==
    /\ client = "push"
    /\ IF ~unsent \/ answer = "ok"
       THEN client' = "pull" /\ unsent' = FALSE /\ UNCHANGED <<errs, agent, ghosts>>
       ELSE client' = "idle" /\ Record("sync_push", answer = "denied") /\ UNCHANGED unsent
    /\ UNCHANGED recent

(* No call, and no change of the row, if there is nothing to push.  A      *)
(* batch that fails may come after others that the server has taken.       *)
Push(answer) ==
    /\ client = "push"
    /\ \/ ~unsent
          /\ client' = "pull"
          /\ UNCHANGED <<unsent, errs, agent, ghosts>>
       \/ unsent /\ answer = "ok"
          /\ Clear("sync_push")
          /\ client' = "pull"
          /\ unsent' = FALSE
       \/ unsent /\ answer # "ok"
          /\ \/ Record("sync_push", answer = "denied")
             \/ ClearAndRecord("sync_push", answer = "denied")
          /\ client' = "idle"
          /\ UNCHANGED unsent
    /\ UNCHANGED recent

Pull(answer) ==
    /\ client = "pull"
    /\ IF answer = "ok" THEN Clear("sync_pull")
       ELSE Record("sync_pull", answer = "denied")
    /\ client' = "idle"
    /\ UNCHANGED <<recent, unsent>>

ClientKilled ==
    /\ client # "idle"
    /\ client' = "idle"
    /\ UNCHANGED <<recent, unsent, errs, agent, ghosts>>

(***************************************************************************)
(* MoverErrors.escalate, if BVLVerifier runs: one query, then for each row *)
(* the notification, which starts a process, and the update, while sync    *)
(* clients go on.                                                          *)
(***************************************************************************)
SelectDue ==
    /\ agent = IdleAgent
    /\ agent' = [IdleAgent EXCEPT !.due = {k \in SyncOps : Due(errs[k])}]
    /\ agent'.due # {}
    /\ UNCHANGED <<client, recent, unsent, errs, ghosts>>

(* The user is told of the row as it was selected, gone or not.            *)
NotifyUser(k) ==
    /\ agent.mark = {}
    /\ k \in agent.due
    /\ agent' = [agent EXCEPT !.due = @ \ {k}, !.mark = {k}]
    /\ told' = IF k \in agent.stale THEN told ELSE [told EXCEPT ![k] = @ + 1]
    /\ UNCHANGED <<client, recent, unsent, errs, disturbed, mishaps>>

(* Mutant of Marked: the update inserts the row if it is gone.             *)
MarkedAnyway(k) == [errs EXCEPT ![k].notified = TRUE]

Marked(k) == IF HasError(errs, k) THEN [errs EXCEPT ![k].notified = TRUE] ELSE errs

(* A row deleted and inserted again since the query is marked although the *)
(* user was told of the one before.                                        *)
MarkNotified(k) ==
    /\ k \in agent.mark
    /\ errs' = Marked(k)
    /\ agent' = [agent EXCEPT !.mark = {}, !.stale = @ \ {k}]
    /\ disturbed' = IF k \in agent.stale THEN disturbed \cup {k} ELSE disturbed
    /\ UNCHANGED <<client, recent, unsent, told, mishaps>>

(* The update throws, which is logged; or the agent dies.                  *)
MarkFails(k) ==
    /\ k \in agent.mark
    /\ agent' = [agent EXCEPT !.mark = {}, !.stale = @ \ {k}]
    /\ disturbed' = disturbed \cup {k}

AgentKilled ==
    /\ agent # IdleAgent
    /\ agent' = IdleAgent
    /\ disturbed' = disturbed \cup agent.mark

Mishap ==
    /\ mishaps < MaxMishaps
    /\ mishaps' = mishaps + 1
    /\ AgentKilled \/ \E k \in SyncOps : MarkFails(k)
    /\ UNCHANGED <<client, recent, unsent, errs, told>>

ClientRuns ==
    \/ \E force \in BOOLEAN : ClientStarts(force)
    \/ Dial \/ DialFails \/ ClientKilled
    \/ \E answer \in {"ok", "denied", "down"} : Push(answer) \/ Pull(answer)

AgentEscalates ==
    \/ SelectDue \/ Mishap
    \/ \E k \in SyncOps : NotifyUser(k) \/ MarkNotified(k)

TriggerNext == LineLogged \/ IntervalPasses \/ ClientRuns \/ AgentEscalates

(* An attempt at a sync goes on once it has begun, and a pass of escalate  *)
(* too.  Nothing makes a pass begin: escalate is called from BVLVerifier   *)
(* only, and install_laptop.sh removes its LaunchAgent from a laptop that  *)
(* syncs and has install.sh leave it out.  A pass is one that the user     *)
(* starts, or that of an agent left where config.json was written by hand. *)
TriggerFairness ==
    /\ WF_triggerVars(Dial \/ DialFails)
    /\ WF_triggerVars(\E answer \in {"ok", "denied", "down"} : Push(answer) \/ Pull(answer))
    /\ WF_triggerVars(\E k \in SyncOps : NotifyUser(k) \/ MarkNotified(k))

TriggerSpec == TriggerInit /\ [][TriggerNext]_triggerVars /\ TriggerFairness

(***************************************************************************)
(* Properties.                                                             *)
(***************************************************************************)
(* The user hears of a streak of failures at most once, and a row counts   *)
(* as notified only if the user has heard of its own streak: the upsert    *)
(* keeps `notified', the delete starts afresh, and rows change while       *)
(* escalate works through the ones it selected.  (disturbed: the row was   *)
(* made anew under escalate, or escalate ended between its two steps.)     *)
ToldOnce ==
    \A k \in SyncOps \ disturbed :
        told[k] = (IF errs[k].notified \/ k \in agent.mark \ agent.stale THEN 1 ELSE 0)

(* As long as there is a row for failed pushes there are lines to push:    *)
(* the next attempt makes a call that can clear it (do_push makes no call  *)
(* without lines).                                                         *)
PushRowClearable == HasError(errs, "sync_push") => unsent

(* What sync_client.py says of the rows it writes: the escalation pattern  *)
(* handles user-visible alerts.  A row that calls for a notification gets  *)
(* it, or goes.                                                            *)
EventuallyTold == \A k \in SyncOps : Due(errs[k]) ~> ~Due(errs[k])
=============================================================================
