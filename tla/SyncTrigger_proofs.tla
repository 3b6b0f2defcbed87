------------------------- MODULE SyncTrigger_proofs -------------------------
(***************************************************************************)
(* The safety of SyncTrigger, for every threshold and any number of        *)
(* failures of escalate.                                                   *)
(***************************************************************************)
EXTENDS SyncTrigger, TLAPS

LEMMA RecordTyped ==
    ASSUME NEW e \in [SyncOps -> ErrorRow], NEW k \in SyncOps, NEW b \in BOOLEAN
    PROVE  /\ RecordError(e, k, b) \in [SyncOps -> ErrorRow]
           /\ RecordError(e, k, b)[k].attempts > 0
           /\ RecordError(e, k, b)[k].notified = e[k].notified
           /\ \A j \in SyncOps \ {k} : RecordError(e, k, b)[j] = e[j]
  <1>1. e[k] \in ErrorRow
    OBVIOUS
  <1>2. (IF e[k].attempts < Threshold THEN e[k].attempts + 1 ELSE Threshold) \in 1..Threshold
    BY <1>1, ThresholdAssumption DEF ErrorRow
  <1>3. (e[k].immediate \/ b) \in BOOLEAN
    OBVIOUS
  <1> QED
    BY <1>1, <1>2, <1>3 DEF RecordError, ErrorRow

LEMMA ClearTyped ==
    ASSUME NEW e \in [SyncOps -> ErrorRow], NEW k \in SyncOps
    PROVE  /\ ClearError(e, k) \in [SyncOps -> ErrorRow]
           /\ ClearError(e, k)[k] = NoRow
           /\ \A j \in SyncOps \ {k} : ClearError(e, k)[j] = e[j]
  BY ThresholdAssumption DEF ClearError, ErrorRow, NoRow

(***************************************************************************)
(* What escalate holds in hand.  A row selected and not deleted since is   *)
(* still there; one that the user has not been told of is not marked; and  *)
(* at most one row is between its two steps.                               *)
(***************************************************************************)
InHand ==
    /\ \A k \in (agent.due \cup agent.mark) \ agent.stale : errs[k].attempts > 0
    /\ \A k \in agent.due \ agent.stale : ~errs[k].notified
    /\ agent.due \cap agent.mark = {}
    /\ \A j, k \in agent.mark : j = k

TriggerInv == TriggerTypeOK /\ InHand /\ ToldOnce /\ PushRowClearable

(* The effect of the three changes that sync clients make to the rows.     *)
LEMMA RecordKeeps ==
    ASSUME TriggerInv, NEW k \in SyncOps, NEW b \in BOOLEAN, Record(k, b)
    PROVE  /\ errs' \in [SyncOps -> ErrorRow]
           /\ \A j \in SyncOps : errs'[j].attempts = 0 => errs'[j] = NoRow
           /\ agent' = agent /\ told' = told /\ disturbed' = disturbed /\ mishaps' = mishaps
           /\ InHand' /\ ToldOnce'
           /\ \A j \in SyncOps \ {k} : errs'[j] = errs[j]
  <1> USE DEF TriggerInv, TriggerTypeOK
  <1>1. /\ errs' \in [SyncOps -> ErrorRow]
        /\ errs'[k].attempts > 0
        /\ errs'[k].notified = errs[k].notified
        /\ \A j \in SyncOps \ {k} : errs'[j] = errs[j]
    BY RecordTyped DEF Record
  <1>2. \A j \in SyncOps : errs'[j].notified = errs[j].notified
    BY <1>1
  <1>3. \A j \in SyncOps : errs[j].attempts > 0 => errs'[j].attempts > 0
    BY <1>1
  <1>4. \A j \in SyncOps : errs'[j].attempts = 0 => errs'[j] = NoRow
    BY <1>1
  <1>5. UNCHANGED <<agent, told, disturbed, mishaps>>
    BY DEF Record, ghosts
  <1>6. InHand'
    BY <1>2, <1>3, <1>5 DEF InHand
  <1>7. ToldOnce'
    BY <1>2, <1>5 DEF ToldOnce
  <1> QED
    BY <1>1, <1>4, <1>5, <1>6, <1>7

LEMMA StreakEndsKeeps ==
    ASSUME TriggerInv, NEW k \in SyncOps, StreakEnds(k),
           errs' \in [SyncOps -> ErrorRow],
           ~errs'[k].notified,
           \A j \in SyncOps \ {k} : errs'[j] = errs[j]
    PROVE  /\ agent' \in [due : SUBSET SyncOps, mark : SUBSET SyncOps, stale : SUBSET SyncOps]
           /\ told' \in [SyncOps -> Nat]
           /\ disturbed' \subseteq SyncOps
           /\ mishaps' = mishaps
           /\ InHand' /\ ToldOnce'
  <1> USE DEF TriggerInv, TriggerTypeOK
  <1>1. /\ agent'.due = agent.due /\ agent'.mark = agent.mark
        /\ agent'.stale = agent.stale \cup ({k} \cap (agent.due \cup agent.mark))
        /\ agent' \in [due : SUBSET SyncOps, mark : SUBSET SyncOps, stale : SUBSET SyncOps]
    BY DEF StreakEnds
  <1>2. /\ told' \in [SyncOps -> Nat] /\ told'[k] = 0
        /\ \A j \in SyncOps \ {k} : told'[j] = told[j]
        /\ disturbed' = disturbed \ {k} /\ mishaps' = mishaps
    BY DEF StreakEnds
  <1>3. InHand'
    BY <1>1 DEF InHand
  <1>4. ToldOnce'
    <2> SUFFICES ASSUME NEW j \in SyncOps \ disturbed'
                 PROVE  told'[j] = IF errs'[j].notified \/ j \in agent'.mark \ agent'.stale
                                   THEN 1 ELSE 0
      BY DEF ToldOnce
    <2>1. CASE j = k
      BY <1>1, <1>2, <2>1
    <2>2. CASE j # k
      BY <1>1, <1>2, <2>2 DEF ToldOnce
    <2> QED
      BY <2>1, <2>2
  <1> QED
    BY <1>1, <1>2, <1>3, <1>4

LEMMA ClearKeeps ==
    ASSUME TriggerInv, NEW k \in SyncOps, Clear(k)
    PROVE  /\ errs' \in [SyncOps -> ErrorRow]
           /\ \A j \in SyncOps : errs'[j].attempts = 0 => errs'[j] = NoRow
           /\ errs'[k].attempts = 0
           /\ \A j \in SyncOps \ {k} : errs'[j] = errs[j]
           /\ agent' \in [due : SUBSET SyncOps, mark : SUBSET SyncOps, stale : SUBSET SyncOps]
           /\ told' \in [SyncOps -> Nat]
           /\ disturbed' \subseteq SyncOps
           /\ mishaps' = mishaps
           /\ InHand' /\ ToldOnce'
  <1>1. /\ errs' \in [SyncOps -> ErrorRow]
        /\ errs'[k] = NoRow
        /\ \A j \in SyncOps \ {k} : errs'[j] = errs[j]
    BY ClearTyped DEF Clear, TriggerInv, TriggerTypeOK
  <1>2. \A j \in SyncOps : errs'[j].attempts = 0 => errs'[j] = NoRow
    BY <1>1 DEF TriggerInv, TriggerTypeOK
  <1>3. errs'[k].attempts = 0 /\ ~errs'[k].notified
    BY <1>1 DEF NoRow
  <1> QED
    BY <1>1, <1>2, <1>3, StreakEndsKeeps DEF Clear

LEMMA ClearAndRecordKeeps ==
    ASSUME TriggerInv, NEW k \in SyncOps, NEW b \in BOOLEAN, ClearAndRecord(k, b)
    PROVE  /\ errs' \in [SyncOps -> ErrorRow]
           /\ \A j \in SyncOps : errs'[j].attempts = 0 => errs'[j] = NoRow
           /\ \A j \in SyncOps \ {k} : errs'[j] = errs[j]
           /\ agent' \in [due : SUBSET SyncOps, mark : SUBSET SyncOps, stale : SUBSET SyncOps]
           /\ told' \in [SyncOps -> Nat]
           /\ disturbed' \subseteq SyncOps
           /\ mishaps' = mishaps
           /\ InHand' /\ ToldOnce'
  <1> DEFINE e == ClearError(errs, k)
  <1>1. /\ e \in [SyncOps -> ErrorRow] /\ e[k] = NoRow
        /\ \A j \in SyncOps \ {k} : e[j] = errs[j]
    BY ClearTyped DEF TriggerInv, TriggerTypeOK
  <1>2. errs' = RecordError(e, k, b)
    BY DEF ClearAndRecord
  <1> HIDE DEF e
  <1>3. /\ errs' \in [SyncOps -> ErrorRow]
        /\ errs'[k].attempts > 0
        /\ errs'[k].notified = e[k].notified
        /\ \A j \in SyncOps \ {k} : errs'[j] = e[j]
    BY <1>1, <1>2, RecordTyped
  <1>4. ~errs'[k].notified
    BY <1>1, <1>3 DEF NoRow
  <1>5. \A j \in SyncOps \ {k} : errs'[j] = errs[j]
    BY <1>1, <1>3
  <1>6. \A j \in SyncOps : errs'[j].attempts = 0 => errs'[j] = NoRow
    BY <1>3, <1>5 DEF TriggerInv, TriggerTypeOK
  <1> QED
    BY <1>3, <1>4, <1>5, <1>6, StreakEndsKeeps DEF ClearAndRecord

LEMMA InitHolds == TriggerInit => TriggerInv
  <1> SUFFICES ASSUME TriggerInit PROVE TriggerInv
    OBVIOUS
  <1>0. NoRow \in ErrorRow
    BY ThresholdAssumption DEF NoRow, ErrorRow
  <1>1. TriggerTypeOK
    <2>1. errs \in [SyncOps -> ErrorRow] /\ \A k \in SyncOps : errs[k] = NoRow
      BY <1>0 DEF TriggerInit
    <2>2. agent \in [due : SUBSET SyncOps, mark : SUBSET SyncOps, stale : SUBSET SyncOps]
      BY DEF TriggerInit, IdleAgent
    <2>3. told \in [SyncOps -> Nat] /\ disturbed \subseteq SyncOps /\ mishaps \in Nat
      BY DEF TriggerInit
    <2> QED
      BY <2>1, <2>2, <2>3 DEF TriggerInit, TriggerTypeOK
  <1>2. InHand
    BY DEF TriggerInit, InHand, IdleAgent
  <1>3. ToldOnce
    BY DEF TriggerInit, ToldOnce, IdleAgent, NoRow
  <1>4. PushRowClearable
    BY DEF TriggerInit, PushRowClearable, HasError, NoRow, SyncOps
  <1> QED
    BY <1>1, <1>2, <1>3, <1>4 DEF TriggerInv

LEMMA StepHolds == TriggerInv /\ [TriggerNext]_triggerVars => TriggerInv'
  <1> SUFFICES ASSUME TriggerInv, [TriggerNext]_triggerVars PROVE TriggerInv'
    OBVIOUS
  <1> USE DEF TriggerInv
  <1> DEFINE Agents == [due : SUBSET SyncOps, mark : SUBSET SyncOps, stale : SUBSET SyncOps]
  <1>0. "sync_push" \in SyncOps /\ "sync_pull" \in SyncOps /\ "sync_handshake" \in SyncOps
    BY DEF SyncOps
  <1>1. ASSUME UNCHANGED <<errs, agent, ghosts>>,
               client' \in {"idle", "dial", "push", "pull"},
               recent' \in BOOLEAN, unsent' \in BOOLEAN, unsent => unsent'
        PROVE  TriggerInv'
    BY <1>1 DEF ghosts, TriggerTypeOK, InHand, ToldOnce, PushRowClearable, HasError
  <1>2. CASE LineLogged
    BY <1>1, <1>2 DEF LineLogged, TriggerTypeOK
  <1>3. CASE IntervalPasses
    BY <1>1, <1>3 DEF IntervalPasses, TriggerTypeOK
  <1>4. ASSUME NEW force \in BOOLEAN, ClientStarts(force) PROVE TriggerInv'
    BY <1>1, <1>4 DEF ClientStarts, TriggerTypeOK
  <1>5. CASE Dial
    BY <1>1, <1>5 DEF Dial, TriggerTypeOK
  <1>6. CASE ClientKilled
    BY <1>1, <1>6 DEF ClientKilled, TriggerTypeOK
  <1>7. CASE DialFails
    <2>1. Record("sync_handshake", TRUE)
      BY <1>7 DEF DialFails
    <2>2. PushRowClearable'
      BY <2>1, <1>0, <1>7, RecordKeeps DEF DialFails, PushRowClearable, HasError
    <2>3. TriggerTypeOK'
      BY <2>1, <1>0, <1>7, RecordKeeps DEF DialFails, TriggerTypeOK
    <2> QED
      BY <2>1, <2>2, <2>3, <1>0, RecordKeeps
  <1>8. ASSUME NEW answer, Push(answer) PROVE TriggerInv'
    <2> DEFINE b == answer = "denied"
    <2>1. CASE ~unsent
      BY <1>1, <1>8, <2>1 DEF Push, TriggerTypeOK
    <2>2. CASE unsent /\ answer = "ok"
      <3>1. Clear("sync_push") /\ client' = "pull" /\ unsent' = FALSE /\ recent' = recent
        BY <1>8, <2>2 DEF Push
      <3>2. PushRowClearable'
        BY <3>1, <1>0, ClearKeeps DEF PushRowClearable, HasError
      <3>3. TriggerTypeOK'
        BY <3>1, <1>0, ClearKeeps DEF TriggerTypeOK
      <3> QED
        BY <3>1, <3>2, <3>3, <1>0, ClearKeeps
    <2>3. CASE unsent /\ answer # "ok"
      <3>1. /\ Record("sync_push", b) \/ ClearAndRecord("sync_push", b)
            /\ client' = "idle" /\ unsent' = unsent /\ recent' = recent
        BY <1>8, <2>3 DEF Push
      <3>2. b \in BOOLEAN
        OBVIOUS
      <3> HIDE DEF b
      <3>3. PushRowClearable'
        BY <3>1, <2>3 DEF PushRowClearable
      <3>4. TriggerTypeOK' /\ InHand' /\ ToldOnce'
        <4>1. CASE Record("sync_push", b)
          BY <3>1, <3>2, <4>1, <1>0, RecordKeeps DEF TriggerTypeOK
        <4>2. CASE ClearAndRecord("sync_push", b)
          BY <3>1, <3>2, <4>2, <1>0, ClearAndRecordKeeps DEF TriggerTypeOK
        <4> QED
          BY <3>1, <4>1, <4>2
      <3> QED
        BY <3>3, <3>4
    <2> QED
      BY <2>1, <2>2, <2>3 DEF TriggerTypeOK
  <1>9. ASSUME NEW answer, Pull(answer) PROVE TriggerInv'
    <2> DEFINE b == answer = "denied"
    <2>1. client' = "idle" /\ unsent' = unsent /\ recent' = recent
      BY <1>9 DEF Pull
    <2>2. CASE answer = "ok"
      <3>1. Clear("sync_pull")
        BY <1>9, <2>2 DEF Pull
      <3>2. errs'["sync_push"] = errs["sync_push"]
        BY <3>1, <1>0, ClearKeeps
      <3>3. PushRowClearable'
        BY <2>1, <3>2 DEF PushRowClearable, HasError
      <3>4. TriggerTypeOK'
        BY <2>1, <3>1, <1>0, ClearKeeps DEF TriggerTypeOK
      <3> QED
        BY <3>1, <3>3, <3>4, <1>0, ClearKeeps
    <2>3. CASE answer # "ok"
      <3>1. Record("sync_pull", b) /\ b \in BOOLEAN
        BY <1>9, <2>3 DEF Pull
      <3> HIDE DEF b
      <3>2. errs'["sync_push"] = errs["sync_push"]
        BY <3>1, <1>0, RecordKeeps
      <3>3. PushRowClearable'
        BY <2>1, <3>2 DEF PushRowClearable, HasError
      <3>4. TriggerTypeOK'
        BY <2>1, <3>1, <1>0, RecordKeeps DEF TriggerTypeOK
      <3> QED
        BY <3>1, <3>3, <3>4, <1>0, RecordKeeps
    <2> QED
      BY <2>2, <2>3
  <1>10. CASE SelectDue
    <2>1. /\ agent = IdleAgent
          /\ agent' = [IdleAgent EXCEPT !.due = {k \in SyncOps : Due(errs[k])}]
          /\ UNCHANGED <<client, recent, unsent, errs, told, disturbed, mishaps>>
      BY <1>10 DEF SelectDue, ghosts
    <2>2. /\ agent'.due = {k \in SyncOps : Due(errs[k])}
          /\ agent'.mark = {} /\ agent'.stale = {} /\ agent' \in Agents
      BY <2>1 DEF IdleAgent
    <2>3. agent.mark = {} /\ agent.due = {} /\ agent.stale = {}
      BY <2>1 DEF IdleAgent
    <2>4. TriggerTypeOK'
      BY <2>1, <2>2 DEF TriggerTypeOK
    <2>5. InHand'
      BY <2>1, <2>2 DEF InHand, Due
    <2>6. ToldOnce'
      BY <2>1, <2>2, <2>3 DEF ToldOnce
    <2>7. PushRowClearable'
      BY <2>1 DEF PushRowClearable, HasError
    <2> QED
      BY <2>4, <2>5, <2>6, <2>7
  <1>11. ASSUME NEW k \in SyncOps, NotifyUser(k) PROVE TriggerInv'
    <2>1. /\ agent.mark = {} /\ k \in agent.due
          /\ agent'.due = agent.due \ {k} /\ agent'.mark = {k} /\ agent'.stale = agent.stale
          /\ agent' \in Agents
          /\ UNCHANGED <<client, recent, unsent, errs, disturbed, mishaps>>
      BY <1>11 DEF NotifyUser, TriggerTypeOK
    <2>2. told' = IF k \in agent.stale THEN told ELSE [told EXCEPT ![k] = @ + 1]
      BY <1>11 DEF NotifyUser
    <2>3. told' \in [SyncOps -> Nat]
      BY <2>2 DEF TriggerTypeOK
    <2>4. TriggerTypeOK'
      BY <2>1, <2>3 DEF TriggerTypeOK
    <2>5. InHand'
      BY <2>1 DEF InHand
    <2>6. ToldOnce'
      <3> SUFFICES ASSUME NEW j \in SyncOps \ disturbed
                   PROVE  told'[j] = IF errs[j].notified \/ j \in {k} \ agent.stale
                                     THEN 1 ELSE 0
        BY <2>1 DEF ToldOnce
      <3>1. told[j] = IF errs[j].notified THEN 1 ELSE 0
        BY <2>1 DEF ToldOnce
      <3>2. CASE j = k /\ k \notin agent.stale
        <4>1. ~errs[j].notified
          BY <2>1, <3>2 DEF InHand
        <4>2. told'[j] = told[j] + 1
          BY <2>2, <3>2 DEF TriggerTypeOK
        <4> QED
          BY <3>1, <3>2, <4>1, <4>2
      <3>3. CASE j # k \/ k \in agent.stale
        <4>1. told'[j] = told[j]
          BY <2>2, <3>3 DEF TriggerTypeOK
        <4> QED
          BY <3>1, <3>3, <4>1
      <3> QED
        BY <3>2, <3>3
    <2>7. PushRowClearable'
      BY <2>1 DEF PushRowClearable, HasError
    <2> QED
      BY <2>4, <2>5, <2>6, <2>7
  <1>12. ASSUME NEW k \in SyncOps, MarkNotified(k) PROVE TriggerInv'
    <2>1. /\ k \in agent.mark
          /\ agent'.due = agent.due /\ agent'.mark = {} /\ agent'.stale = agent.stale \ {k}
          /\ agent' \in Agents
          /\ UNCHANGED <<client, recent, unsent, told, mishaps>>
          /\ disturbed' = IF k \in agent.stale THEN disturbed \cup {k} ELSE disturbed
      BY <1>12 DEF MarkNotified, TriggerTypeOK
    <2>2. agent.mark = {k} /\ k \notin agent.due
      BY <2>1 DEF InHand, TriggerTypeOK
    <2>3. errs' = Marked(k)
      BY <1>12 DEF MarkNotified
    <2>4. /\ errs' \in [SyncOps -> ErrorRow]
          /\ \A j \in SyncOps \ {k} : errs'[j] = errs[j]
          /\ \A j \in SyncOps : errs'[j].attempts = errs[j].attempts
          /\ \A j \in SyncOps : errs'[j].attempts = 0 => errs'[j] = NoRow
          /\ errs[k].attempts > 0 => errs'[k].notified
      <3>1. CASE HasError(errs, k)
        <4>1. errs' = [errs EXCEPT ![k] = [errs[k] EXCEPT !.notified = TRUE]]
          BY <2>3, <3>1 DEF Marked
        <4>2. errs[k] \in ErrorRow /\ errs[k].attempts \in Nat /\ errs[k].attempts # 0
          BY <3>1, ThresholdAssumption DEF TriggerTypeOK, ErrorRow, HasError
        <4> DEFINE r == [errs[k] EXCEPT !.notified = TRUE]
        <4>4. r \in ErrorRow /\ r.attempts = errs[k].attempts /\ r.notified
          BY <4>2 DEF ErrorRow
        <4>5. errs'[k] = r /\ \A j \in SyncOps \ {k} : errs'[j] = errs[j]
          BY <4>1 DEF TriggerTypeOK
        <4>6. errs' \in [SyncOps -> ErrorRow]
          BY <4>1, <4>4 DEF TriggerTypeOK
        <4> HIDE DEF r
        <4> QED
          BY <4>2, <4>4, <4>5, <4>6 DEF TriggerTypeOK
      <3>2. CASE ~HasError(errs, k)
        BY <2>3, <3>2 DEF Marked, HasError, TriggerTypeOK
      <3> QED
        BY <3>1, <3>2
    <2>5. TriggerTypeOK'
      BY <2>1, <2>4 DEF TriggerTypeOK
    <2>6. InHand'
      BY <2>1, <2>2, <2>4 DEF InHand, TriggerTypeOK
    <2>7. ToldOnce'
      <3> SUFFICES ASSUME NEW j \in SyncOps \ disturbed'
                   PROVE  told[j] = IF errs'[j].notified THEN 1 ELSE 0
        BY <2>1 DEF ToldOnce
      <3>1. CASE j = k
        <4>1. k \notin agent.stale /\ k \notin disturbed
          BY <2>1, <3>1
        <4>2. errs'[k].notified
          BY <2>1, <2>4, <4>1 DEF InHand
        <4>3. told[k] = 1
          BY <2>1, <4>1 DEF ToldOnce
        <4> QED
          BY <3>1, <4>2, <4>3
      <3>2. CASE j # k
        <4>1. j \notin disturbed /\ j \notin agent.mark /\ errs'[j] = errs[j]
          BY <2>1, <2>2, <2>4, <3>2
        <4> QED
          BY <4>1 DEF ToldOnce
      <3> QED
        BY <3>1, <3>2
    <2>8. PushRowClearable'
      BY <2>1, <2>4, <1>0 DEF PushRowClearable, HasError
    <2> QED
      BY <2>5, <2>6, <2>7, <2>8
  <1>13. CASE Mishap
    <2>1. /\ mishaps' \in Nat
          /\ UNCHANGED <<client, recent, unsent, errs, told>>
          /\ AgentKilled \/ \E k \in SyncOps : MarkFails(k)
      BY <1>13 DEF Mishap, TriggerTypeOK
    <2>2. PushRowClearable'
      BY <2>1 DEF PushRowClearable, HasError
    <2>3. CASE AgentKilled
      <3>1. /\ agent'.due = {} /\ agent'.mark = {} /\ agent'.stale = {} /\ agent' \in Agents
            /\ disturbed' = disturbed \cup agent.mark
        BY <2>3 DEF AgentKilled, IdleAgent
      <3>2. TriggerTypeOK'
        BY <2>1, <3>1 DEF TriggerTypeOK
      <3>3. InHand' /\ ToldOnce'
        BY <2>1, <3>1 DEF InHand, ToldOnce
      <3> QED
        BY <2>2, <3>2, <3>3
    <2>4. ASSUME NEW k \in SyncOps, MarkFails(k) PROVE TriggerInv'
      <3>1. /\ k \in agent.mark
            /\ agent'.due = agent.due /\ agent'.mark = {} /\ agent'.stale = agent.stale \ {k}
            /\ agent' \in Agents
            /\ disturbed' = disturbed \cup {k}
        BY <2>4 DEF MarkFails, TriggerTypeOK
      <3>2. agent.mark = {k} /\ k \notin agent.due
        BY <3>1 DEF InHand, TriggerTypeOK
      <3>3. TriggerTypeOK'
        BY <2>1, <3>1 DEF TriggerTypeOK
      <3>4. InHand'
        BY <2>1, <3>1, <3>2 DEF InHand
      <3>5. ToldOnce'
        BY <2>1, <3>1, <3>2 DEF ToldOnce
      <3> QED
        BY <2>2, <3>3, <3>4, <3>5
    <2> QED
      BY <2>1, <2>3, <2>4
  <1>14. CASE UNCHANGED triggerVars
    BY <1>1, <1>14 DEF triggerVars, ghosts, TriggerTypeOK
  <1> QED
    BY <1>2, <1>3, <1>4, <1>5, <1>6, <1>7, <1>8, <1>9, <1>10, <1>11, <1>12, <1>13, <1>14
       DEF TriggerNext, ClientRuns, AgentEscalates

(* TriggerInv holds in every reachable state.                              *)
LEMMA Invariance == TriggerSpec => []TriggerInv
  <1>1. TriggerSpec => TriggerInit /\ [][TriggerNext]_triggerVars
    BY DEF TriggerSpec
  <1> QED
    BY <1>1, InitHolds, StepHolds, PTL

(* The state of sync clients, rows and escalate is well typed.             *)
THEOREM TriggerTypeCorrect == TriggerSpec => []TriggerTypeOK
  BY Invariance, PTL DEF TriggerInv

(* One notification per streak of failures, however clients, deletes and   *)
(* upserts interleave with the steps of Errors.escalate.                   *)
THEOREM ToldOnceHolds == TriggerSpec => []ToldOnce
  BY Invariance, PTL DEF TriggerInv

(* As long as there is a row for failed pushes, sync_client has lines to   *)
(* push and so a call that can clear it.                                   *)
THEOREM PushRowClearableHolds == TriggerSpec => []PushRowClearable
  BY Invariance, PTL DEF TriggerInv
=============================================================================
