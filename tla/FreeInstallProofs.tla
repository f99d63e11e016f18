------------------------- MODULE FreeInstallProofs -------------------------
(***************************************************************************)
(* Proofs about FreeInstall for every set of requests, every mix of their  *)
(* kinds and every number of faults and heartbeats: a callback is called   *)
(* once but for the named causes, the caller of an upgrade hears of no     *)
(* failure, and no thread sleeps through the end of a connection attempt.  *)
(***************************************************************************)
EXTENDS FreeInstall, TLAPS

\* Where a thread is before its request enters freeInstallParamsMap_.
Before == {"absent", "idle", "connect", "deciding", "parked", "woken", "send"}

\* The answers of r.  A request that is in the map, or has not reached it, has
\* had no answer but the further ones; until it reaches the map no timeout and
\* no call of the service center is at work on it.
AnswerInv(r) ==
    /\ answers[r].n <= 1 + extra[r]
    /\ r \in params => answers[r].n <= extra[r]
    /\ pc[r] = "idle" => answers[r].n = 0
    /\ pc[r] \in Before => /\ r \notin params /\ answers[r].n <= extra[r]
                           /\ call[r].st = "none" /\ running # r

\* What an upgrade is told, or is about to be told, is neither a failure nor,
\* while its entry lasts, a timeout.
UpgradeInv(r) ==
    Kind[r] = "UPGRADE" =>
        /\ answers[r].last # "FAILED" /\ (answers[r].last = "TIMEOUT" => extra[r] > 0)
        /\ call[r].code \notin {"FAILED", "TIMEOUT"}

\* A thread that waits, or holds mutex_ on its way to wait.
WaitInv == \A r \in Requests : pc[r] \in {"deciding", "parked"} => conn = "CONNECTING"

\* The inductive invariant.
FreeInstallInv ==
    /\ TypeOK /\ WaitInv
    /\ \A r \in Requests : AnswerInv(r) /\ UpgradeInv(r)

-----------------------------------------------------------------------------
\* Scheduling, cancelling and firing a task leave a task.
LEMMA TaskOps ==
    ASSUME NEW t \in Task
    PROVE  /\ Schedule(t) \in Task /\ Cancel(t) \in Task /\ Fired(t) \subseteq Task
           /\ NoTask \in Task
<1>1. Schedule(t) \in Task /\ NoTask \in Task
  BY DEF Task, Schedule, NoTask
<1>2. Cancel(t) \in Task
  BY Zenon DEF Task, Cancel
<1>3. [t EXCEPT !.loose = IF @ = 0 THEN 0 ELSE @ - 1] \in Task
  BY DEF Task
<1> QED
  BY <1>1, <1>2, <1>3 DEF Fired

\* A field of a connection changes.
LEMMA LinkFields ==
    ASSUME NEW l \in Link, NEW s \in LinkStates
    PROVE  /\ [l EXCEPT !.st = s] \in Link /\ [l EXCEPT !.asked = TRUE] \in Link
           /\ \A b \in BOOLEAN : [l EXCEPT !.dead = b] \in Link
           /\ l.dead \in BOOLEAN /\ NoLink(s) \in Link
  BY Zenon DEF Link, NoLink

\* A field of the service center's work changes.
LEMMA WorkFields ==
    ASSUME NEW w \in Work
    PROVE  /\ \A s \in {"none", "has", "over", "lost"} : [w EXCEPT !.st = s] \in Work
           /\ [w EXCEPT !.loading = TRUE] \in Work
           /\ w.st \in {"none", "has", "over", "lost"}
  BY Zenon DEF Work

\* One more answer.
LEMMA WithAnswerType ==
    ASSUME NEW a \in Answers, NEW code \in Codes
    PROVE  /\ WithAnswer(a, code) \in Answers
           /\ WithAnswer(a, code).n = a.n + 1 /\ WithAnswer(a, code).last = code
           /\ a.n \in Nat
  BY DEF Answers, WithAnswer

\* CallAbilityManager gives r one answer more, of that result, and nobody else.
LEMMA CallAbilityManagerAnswers ==
    ASSUME NEW r \in Requests, NEW code \in Codes, TypeOK, CallAbilityManager(r, code)
    PROVE  /\ answers' \in [Requests -> Answers]
           /\ \A q \in Requests : q # r => answers'[q] = answers[q]
           /\ answers'[r].n <= answers[r].n + 1
           /\ answers'[r] = answers[r] \/ answers'[r].last = code
<1>1. answers \in [Requests -> Answers]
  BY DEF TypeOK
<1>2. answers' = answers \/ answers' = [answers EXCEPT ![r] = WithAnswer(answers[r], code)]
  BY DEF CallAbilityManager
<1>3. answers[r].n \in Nat
  BY <1>1, WithAnswerType
<1> QED
  BY <1>1, <1>2, <1>3, WithAnswerType

\* Erase leaves a map of requests and a task.
LEMMA EraseType ==
    ASSUME NEW r \in Requests, TypeOK, Erase(r)
    PROVE  params' \subseteq Requests /\ closer' \in Task /\ params' = params \ {r}
  BY TaskOps DEF TypeOK, Erase

\* SendCallBack takes r out of the map and gives it one answer more, which
\* counts as a further one when r was not there; an upgrade in the map is told
\* OK.
LEMMA SendCallBackAnswers ==
    ASSUME NEW r \in Requests, NEW code \in Codes, TypeOK, SendCallBack(r, code)
    PROVE  /\ answers' \in [Requests -> Answers] /\ extra' \in [Requests -> Nat]
           /\ params' = params \ {r} /\ params' \subseteq Requests /\ closer' \in Task
           /\ \A q \in Requests : q # r => answers'[q] = answers[q] /\ extra'[q] = extra[q]
           /\ answers'[r].n = answers[r].n + 1
           /\ extra'[r] = IF r \in params THEN extra[r] ELSE extra[r] + 1
           /\ answers'[r].last = IF r \in params /\ Kind[r] = "UPGRADE" THEN "OK" ELSE code
<1>1. answers \in [Requests -> Answers] /\ extra \in [Requests -> Nat]
  BY DEF TypeOK
<1> DEFINE told == IF r \in params /\ Kind[r] = "UPGRADE" THEN "OK" ELSE code
<1>2. told \in Codes
  BY DEF Codes
<1>3. answers' = [answers EXCEPT ![r] = WithAnswer(answers[r], told)]
  BY DEF SendCallBack
<1>4. extra' = IF r \in params THEN extra ELSE [extra EXCEPT ![r] = extra[r] + 1]
  BY DEF SendCallBack
<1>5. Erase(r)
  BY DEF SendCallBack
<1>6. WithAnswer(answers[r], told) \in Answers /\ WithAnswer(answers[r], told).n = answers[r].n + 1
      /\ WithAnswer(answers[r], told).last = told
  BY <1>1, <1>2, WithAnswerType
<1> HIDE DEF told
<1>7. /\ answers' \in [Requests -> Answers] /\ answers'[r].n = answers[r].n + 1 /\ answers'[r].last = told
      /\ \A q \in Requests : q # r => answers'[q] = answers[q]
  BY <1>1, <1>3, <1>6
<1>8. /\ extra' \in [Requests -> Nat] /\ extra'[r] = IF r \in params THEN extra[r] ELSE extra[r] + 1
      /\ \A q \in Requests : q # r => extra'[q] = extra[q]
  BY <1>1, <1>4
<1> QED
  BY <1>5, <1>7, <1>8, EraseType DEF told

-----------------------------------------------------------------------------
\* Types.

\* The initial state has the types, and what else is invariant.
LEMMA InitInv == Init => FreeInstallInv
<1> SUFFICES ASSUME Init PROVE FreeInstallInv
  OBVIOUS
<1>1. TypeOK
  BY FreeInstallAssumption
  DEF Init, TypeOK, Task, NoTask, NoLink, NoCall, Codes, Places, Link, LinkStates, Work, Call, Answers,
      Counts
<1>2. WaitInv
  BY DEF Init, WaitInv
<1>3. ASSUME NEW r \in Requests PROVE AnswerInv(r) /\ UpgradeInv(r)
  BY <1>3, FreeInstallAssumption DEF Init, AnswerInv, UpgradeInv, NoCall
<1> QED
  BY <1>1, <1>2, <1>3 DEF FreeInstallInv

\* A fault is counted.
LEMMA FaultType ==
    ASSUME NEW f, TypeOK, Fault(f)
    PROVE  count' \in Counts
<1>1. count.faults \in Nat /\ count.faults < MaxFaults /\ count.beats \in 0..MaxBeats
  BY FreeInstallAssumption DEF TypeOK, Fault, Counts
<1>2. count' = [faults |-> count.faults + 1, beats |-> count.beats]
  BY DEF TypeOK, Fault, Counts
<1>3. count.faults + 1 \in 0..MaxFaults
  BY <1>1, FreeInstallAssumption
<1> QED
  BY <1>1, <1>2, <1>3 DEF Counts

\* The steps of a request's thread keep the types.
LEMMA ThreadType ==
    ASSUME NEW r \in Requests, TypeOK, Submit(r) \/ Thread(r)
    PROVE  TypeOK'
<1> USE DEF Goto, map, state, queue, remote
<1>0. \A p \in Places : [pc EXCEPT ![r] = p] \in [Requests -> Places]
  BY DEF TypeOK
<1>1. CASE Submit(r)
  <2>1. answers' \in [Requests -> Answers] /\ extra' \in [Requests -> Nat]
    <3>1. CASE Kind[r] = "UNNAMED"
      <4>1. CallAbilityManager(r, "UNDEFINED") /\ extra' = [extra EXCEPT ![r] = 1]
        BY <1>1, <3>1 DEF Submit
      <4>2. "UNDEFINED" \in Codes
        BY DEF Codes
      <4> QED
        BY <4>1, <4>2, CallAbilityManagerAnswers DEF TypeOK
    <3>2. CASE Kind[r] # "UNNAMED"
      BY <1>1, <3>2 DEF Submit, TypeOK
    <3> QED
      BY <3>1, <3>2
  <2> QED
    BY Zenon, <1>1, <2>1 DEF Submit, TypeOK, Places
<1>2. CASE FailLocally(r)
  <2>1. answers' \in [Requests -> Answers]
    BY <1>2, CallAbilityManagerAnswers DEF FailLocally, Codes
  <2> QED
    BY Zenon, <1>2, <2>1, FaultType DEF FailLocally, TypeOK, Places
<1>3. ASSUME ConnectFailed(r)
      PROVE  /\ answers' \in [Requests -> Answers]
             /\ pc' = [pc EXCEPT ![r] = "done"]
  <2>1. (IF Kind[r] = "UPGRADE" THEN "OK" ELSE "CONNECT_ERROR") \in Codes
    BY DEF Codes
  <2> QED
    BY <1>3, <2>1, CallAbilityManagerAnswers DEF ConnectFailed
<1>4. CASE Connect(r)
  <2>1. closer' \in Task
    BY Zenon, <1>4, TaskOps DEF Connect, TypeOK
  <2>2. /\ answers' \in [Requests -> Answers]
        /\ count' \in Counts
        /\ pc' = [pc EXCEPT ![r] = "send"] \/ pc' = [pc EXCEPT ![r] = "deciding"]
           \/ pc' = [pc EXCEPT ![r] = "done"]
    BY <1>3, <1>4, FaultType DEF Connect, TypeOK
  <2>3. /\ cur' \in Requests \union {"none"} /\ conn' \in {"CONNECTED", "CONNECTING", "DISCONNECTED"}
        /\ link' = link \/ link' = [link EXCEPT ![r] = NoLink("connecting")]
    BY <1>4 DEF Connect, TypeOK
  <2>4. UNCHANGED <<params, extra, notice, timer, running, remote>>
    BY <1>4 DEF Connect
  <2>5. NoLink("connecting") \in Link
    BY DEF NoLink, Link, LinkStates
  <2>6. link' \in [Requests -> Link]
    BY <2>3, <2>5 DEF TypeOK
  <2>7. pc' \in [Requests -> Places]
    BY <2>2 DEF TypeOK, Places
  <2> QED
    BY <2>1, <2>2, <2>3, <2>4, <2>6, <2>7 DEF TypeOK, Places
<1>5. CASE Park(r)
  BY <1>5 DEF Park, TypeOK, Places
<1>6. CASE Wake(r)
  <2>1. /\ answers' \in [Requests -> Answers]
        /\ pc' = [pc EXCEPT ![r] = "send"] \/ pc' = [pc EXCEPT ![r] = "deciding"]
           \/ pc' = [pc EXCEPT ![r] = "done"]
    BY <1>3, <1>6 DEF Wake, TypeOK
  <2> QED
    BY <1>6, <2>1 DEF Wake, TypeOK, Places
<1>7. CASE Emplace(r)
  <2>1. answers' \in [Requests -> Answers]
    BY <1>7, CallAbilityManagerAnswers DEF Emplace, TypeOK, Codes
  <2> QED
    BY <1>7, <2>1 DEF Emplace, TypeOK, Places
<1>8. CASE Send(r)
  <2>1. /\ answers' \in [Requests -> Answers] /\ extra' \in [Requests -> Nat]
        /\ params' \subseteq Requests /\ closer' \in Task
    <3>1. CASE SendCallBack(r, "CONNECT_ERROR")
      <4>1. "CONNECT_ERROR" \in Codes
        BY DEF Codes
      <4> QED
        BY <3>1, <4>1, SendCallBackAnswers
    <3>2. CASE UNCHANGED <<map, closer>>
      BY <3>2 DEF TypeOK
    <3> QED
      BY Zenon, <1>8, <3>1, <3>2 DEF Send
  <2>2. /\ pc' = [pc EXCEPT ![r] = "sent"] \/ pc' = [pc EXCEPT ![r] = "done"]
        /\ center' = center \/ center' = [center EXCEPT ![r].st = "has"]
    BY <1>8 DEF Send
  <2>3. pc' \in [Requests -> Places]
    BY <2>2 DEF TypeOK, Places
  <2>4. center' \in [Requests -> Work]
    <3>1. center[r] \in Work
      BY DEF TypeOK
    <3>2. [center[r] EXCEPT !.st = "has"] \in Work
      BY Zenon, <3>1, WorkFields
    <3> QED
      BY <2>2, <3>2 DEF TypeOK
  <2>5. UNCHANGED <<state, timer, running, call, count>>
    BY <1>8 DEF Send
  <2> QED
    BY <2>1, <2>3, <2>4, <2>5 DEF TypeOK, Places
<1>9. CASE Monitor(r)
  <2>1. timer' \in [Requests -> Task]
    BY <1>9, TaskOps DEF Monitor, OutTimeMonitor, TypeOK
  <2> QED
    BY Zenon, <1>9, <2>1 DEF Monitor, TypeOK, Places
<1> QED
  BY <1>1, <1>2, <1>4, <1>5, <1>6, <1>7, <1>8, <1>9 DEF Thread

\* The callbacks of the ability manager and the notice of a death keep the
\* types.
LEMMA CallbackType ==
    ASSUME NEW c \in Requests, TypeOK, Callback(c)
    PROVE  TypeOK'
<1> USE DEF map, state, queue, remote
<1>0. \A s \in LinkStates : [link EXCEPT ![c].st = s] \in [Requests -> Link]
  BY Zenon, LinkFields DEF TypeOK
<1>1. CASE ConnectDone(c)
  <2>1. /\ link' \in [Requests -> Link]
        /\ count' \in Counts
    BY <1>0, <1>1, FaultType DEF ConnectDone, TypeOK, LinkStates
  <2> QED
    BY <1>1, <2>1 DEF ConnectDone, TypeOK
<1>2. CASE DisconnectDone(c)
  <2>1. NoLink("released") \in Link
    BY DEF NoLink, Link, LinkStates
  <2>2. link' \in [Requests -> Link] /\ notice' \subseteq Requests
    BY <1>2, <2>1 DEF DisconnectDone, TypeOK
  <2> QED
    BY Zenon, <1>2, <2>2 DEF DisconnectDone, TypeOK
<1>3. ASSUME NotifyAll PROVE pc' \in [Requests -> Places]
  BY <1>3 DEF NotifyAll, TypeOK, Places
<1>4. CASE UpdateConnectState(c)
  <2>1. link' \in [Requests -> Link] /\ conn' \in {"CONNECTED", "CONNECTING", "DISCONNECTED"}
    BY <1>0, <1>4 DEF UpdateConnectState, TypeOK, LinkStates
  <2> QED
    BY <1>3, <1>4, <2>1 DEF UpdateConnectState, TypeOK, Places
<1>5. CASE OnRemoteDied(c)
  <2>1. answers \in [Requests -> Answers] /\ "CRASH" \in Codes
    BY DEF TypeOK, Codes
  <2>2. \A r \in Requests : WithAnswer(answers[r], "CRASH") \in Answers
    BY <2>1, WithAnswerType
  <2>3. answers' \in [Requests -> Answers]
    BY <1>5, <2>1, <2>2 DEF OnRemoteDied
  <2>4. UNCHANGED <<extra, cur, link, queue, remote, count>> /\ params' = {} /\ conn' = "DISCONNECTED"
        /\ notice' \subseteq Requests
    BY <1>5 DEF OnRemoteDied, TypeOK
  <2> QED
    BY <1>3, <1>5, <2>3, <2>4 DEF OnRemoteDied, TypeOK, Places
<1> QED
  BY <1>1, <1>2, <1>4, <1>5 DEF Callback

\* The tasks of the serial queue keep the types.
LEMMA QueueType ==
    ASSUME TypeOK, Closing \/ \E r \in Requests : Queue(r)
    PROVE  TypeOK'
<1> USE DEF map, state, queue, remote
<1>1. ASSUME NEW r \in Requests, TimeOut(r) PROVE TypeOK'
  <2>1. timer' \in [Requests -> Task] /\ running' \in Requests \union {"none", "disconnect"}
    BY <1>1, TaskOps DEF TimeOut, TypeOK
  <2> QED
    BY <1>1, <2>1 DEF TimeOut, TypeOK
<1>2. ASSUME NEW r \in Requests, TimeOutAnswer(r) PROVE TypeOK'
  <2>1. "TIMEOUT" \in Codes
    BY Zenon DEF Codes
  <2>2. /\ answers' \in [Requests -> Answers] /\ extra' \in [Requests -> Nat]
        /\ params' \subseteq Requests /\ closer' \in Task
    BY <1>2, <2>1, SendCallBackAnswers DEF TimeOutAnswer
  <2> QED
    BY <1>2, <2>2 DEF TimeOutAnswer, TypeOK
<1>3. CASE StartDisconnect
  <2>1. closer' \in Task
    BY <1>3, TaskOps DEF StartDisconnect, TypeOK
  <2> QED
    BY <1>3, <2>1 DEF StartDisconnect, TypeOK
<1>4. CASE DisconnectAbility
  <2>1. link' \in [Requests -> Link]
    BY Zenon, <1>4, LinkFields DEF DisconnectAbility, HasRemoteObject, TypeOK, LinkStates
  <2> QED
    BY <1>4, <2>1 DEF DisconnectAbility, TypeOK
<1> QED
  BY <1>1, <1>2, <1>3, <1>4 DEF Closing, Queue

\* The service center's calls and their handlers, and its death, keep the types.
LEMMA RemoteType ==
    ASSUME TypeOK, Die \/ \E r \in Requests : Handler(r) \/ Reports(r)
    PROVE  TypeOK'
<1> USE DEF map, state, queue, remote
<1>1. NoCall \in Call
  BY DEF NoCall, Call, Codes
<1>2. ASSUME NEW r \in Requests, NEW next \in Call, OnServiceCenterCall(r, next)
      PROVE  call' \in [Requests -> Call] /\ timer' \in [Requests -> Task]
             /\ UNCHANGED <<pc, map, state, closer, running>>
  BY <1>2, TaskOps DEF OnServiceCenterCall, TypeOK
<1>3. ASSUME NEW r \in Requests, Downloading(r) PROVE TypeOK'
  <2>1. /\ call' \in [Requests -> Call] /\ timer' \in [Requests -> Task]
        /\ UNCHANGED <<pc, map, state, closer, running>>
    BY <1>1, <1>2, <1>3 DEF Downloading
  <2> QED
    BY Zenon, <1>3, <2>1, WorkFields DEF Downloading, TypeOK
<1>4. ASSUME NEW r \in Requests, NEW code \in {"OK", "FAILED"}, Finish(r, code) PROVE TypeOK'
  <2> DEFINE next == [st |-> "fetched", code |-> IF Kind[r] = "UPGRADE" THEN "OK" ELSE code]
  <2>1. next \in Call
    BY DEF Call, Codes
  <2>2. OnServiceCenterCall(r, next)
    BY <1>4 DEF Finish
  <2> HIDE DEF next
  <2>3. /\ call' \in [Requests -> Call] /\ timer' \in [Requests -> Task]
        /\ UNCHANGED <<pc, map, state, closer, running>>
    BY <1>2, <2>1, <2>2
  <2>4. center' = [center EXCEPT ![r].st = "over"] /\ UNCHANGED count
    BY <1>4 DEF Finish
  <2> QED
    BY Zenon, <2>3, <2>4, WorkFields DEF TypeOK
<1>5. ASSUME NEW r \in Requests, Heartbeat(r) PROVE TypeOK'
  <2>1. [st |-> "beat", code |-> "OK"] \in Call
    BY DEF Call, Codes
  <2>2. /\ call' \in [Requests -> Call] /\ timer' \in [Requests -> Task]
        /\ UNCHANGED <<pc, map, state, closer, running>>
    BY <1>2, <1>5, <2>1 DEF Heartbeat
  <2>3. count.beats \in Nat /\ count.beats < MaxBeats /\ count.faults \in 0..MaxFaults
    BY <1>5, FreeInstallAssumption DEF Heartbeat, TypeOK, Counts
  <2>4. count' = [faults |-> count.faults, beats |-> count.beats + 1]
    BY <1>5 DEF Heartbeat, TypeOK, Counts
  <2>5. count.beats + 1 \in 0..MaxBeats
    BY <2>3, FreeInstallAssumption
  <2>6. count' \in Counts
    BY <2>3, <2>4, <2>5 DEF Counts
  <2> QED
    BY <1>5, <2>2, <2>6 DEF Heartbeat, TypeOK
<1>6. ASSUME NEW r \in Requests, Received(r) PROVE TypeOK'
  <2>1. params' \subseteq Requests /\ closer' \in Task
    BY <1>6, EraseType DEF Received, TypeOK
  <2> QED
    BY Zenon, <1>6, <2>1, WorkFields DEF Received, TypeOK
<1>7. ASSUME NEW r \in Requests, Answer(r) PROVE TypeOK'
  <2>1. call[r].code \in Codes
    BY DEF TypeOK, Call
  <2>2. /\ answers' \in [Requests -> Answers] /\ extra' \in [Requests -> Nat]
        /\ params' \subseteq Requests /\ closer' \in Task
    BY <1>7, <2>1, SendCallBackAnswers DEF Answer
  <2>3. call' \in [Requests -> Call]
    BY Zenon, <1>1, <1>7 DEF Answer, TypeOK
  <2> QED
    BY <1>7, <2>2, <2>3 DEF Answer, TypeOK
<1>8. ASSUME NEW r \in Requests, BeatMonitor(r) PROVE TypeOK'
  <2>1. call' \in [Requests -> Call]
    BY <1>1, <1>8 DEF BeatMonitor, TypeOK
  <2>2. timer' \in [Requests -> Task]
    BY <1>8, TaskOps DEF BeatMonitor, OutTimeMonitor, TypeOK
  <2> QED
    BY <1>8, <2>1, <2>2 DEF BeatMonitor, TypeOK
<1>9. CASE Die
  <2>1. /\ link' \in [Requests -> Link] /\ notice' \subseteq Requests
        /\ center' \in [Requests -> Work]
    BY Zenon, <1>9, LinkFields, WorkFields DEF Die, TypeOK, LinkStates
  <2>2. count' \in Counts
    BY <1>9, FaultType DEF Die
  <2> QED
    BY Zenon, <1>9, <2>1, <2>2 DEF Die, TypeOK
<1> QED
  BY <1>3, <1>4, <1>5, <1>6, <1>7, <1>8, <1>9 DEF Handler, Reports, Finishes

\* Every step keeps the types.
LEMMA TypePreserved ==
    ASSUME TypeOK, [Next]_vars
    PROVE  TypeOK'
<1>1. CASE UNCHANGED vars
  BY <1>1 DEF TypeOK, vars, map, state, queue, remote
<1>2. CASE Next
  BY <1>2, ThreadType, CallbackType, QueueType, RemoteType DEF Next
<1> QED
  BY Zenon, <1>1, <1>2

-----------------------------------------------------------------------------
\* Waiting.

\* No step leaves a thread waiting for a connection that is made or failed:
\* connectState_ changes only while no thread holds mutex_ on its way to wait,
\* and all that wait are woken.
LEMMA WaitPreserved ==
    ASSUME TypeOK, WaitInv, [Next]_vars
    PROVE  WaitInv'
<1> USE DEF map, state, queue, remote, Goto
<1>1. CASE UNCHANGED <<pc, conn>>
  BY <1>1 DEF WaitInv
<1>2. ASSUME NEW r \in Requests, Connect(r) PROVE WaitInv'
  <2>1. \A q \in Requests : pc[q] # "deciding" /\ (pc[q] = "parked" => conn = "CONNECTING")
    BY Zenon, <1>2 DEF Connect, MutexFree, WaitInv
  <2>2. \A q \in Requests : q # r => pc'[q] = pc[q]
    BY <1>2 DEF Connect, ConnectFailed, TypeOK
  <2>3. conn' = conn \/ conn' = "CONNECTING"
    BY <1>2 DEF Connect
  <2>4. pc'[r] \in {"deciding", "parked"} => conn' = "CONNECTING"
    BY <1>2 DEF Connect, ConnectFailed, TypeOK
  <2> QED
    BY <2>1, <2>2, <2>3, <2>4 DEF WaitInv
<1>3. ASSUME NEW r \in Requests, Park(r) \/ Wake(r) PROVE WaitInv'
  <2>1. conn' = conn /\ \A q \in Requests : q # r => pc'[q] = pc[q]
    BY <1>3 DEF Park, Wake, ConnectFailed, TypeOK
  <2>2. pc'[r] \in {"deciding", "parked"} => conn = "CONNECTING"
    BY <1>3 DEF Park, Wake, ConnectFailed, TypeOK, WaitInv
  <2> QED
    BY <2>1, <2>2 DEF WaitInv
<1>4. ASSUME NEW r \in Requests, Submit(r) \/ FailLocally(r) \/ Emplace(r) \/ Send(r) \/ Monitor(r)
      PROVE  WaitInv'
  <2>1. conn' = conn /\ \A q \in Requests : q # r => pc'[q] = pc[q]
    BY <1>4 DEF Submit, FailLocally, Emplace, Send, Monitor, TypeOK
  <2>2. pc'[r] \notin {"deciding", "parked"}
    BY Zenon, <1>4 DEF Submit, FailLocally, Emplace, Send, Monitor, TypeOK
  <2> QED
    BY Zenon, <2>1, <2>2 DEF WaitInv
<1>5. ASSUME NEW c \in Requests, UpdateConnectState(c) \/ OnRemoteDied(c) PROVE WaitInv'
  <2>1. \A q \in Requests : pc[q] # "deciding"
    BY <1>5 DEF UpdateConnectState, OnRemoteDied, MutexFree
  <2>2. \A q \in Requests : pc'[q] = IF pc[q] = "parked" THEN "woken" ELSE pc[q]
    BY <1>5 DEF UpdateConnectState, OnRemoteDied, NotifyAll
  <2> QED
    BY <2>1, <2>2 DEF WaitInv
<1>6. ASSUME NEW c \in Requests, ConnectDone(c) \/ DisconnectDone(c) PROVE WaitInv'
  BY <1>1, <1>6 DEF ConnectDone, DisconnectDone
<1>7. ASSUME NEW r \in Requests, Queue(r) \/ Handler(r) PROVE WaitInv'
  BY <1>1, <1>7 DEF Queue, Handler, TimeOut, TimeOutAnswer, Answer, BeatMonitor
<1>8. ASSUME NEW r \in Requests, Reports(r) PROVE WaitInv'
  BY <1>1, <1>8 DEF Reports, Finishes, Downloading, Heartbeat, Received, Finish, OnServiceCenterCall
<1>9. CASE Closing \/ Die
  BY <1>1, <1>9 DEF Closing, StartDisconnect, DisconnectAbility, Die
<1>10. CASE UNCHANGED vars
  BY Zenon, <1>1, <1>10 DEF vars
<1> QED
  BY <1>2, <1>3, <1>4, <1>5, <1>6, <1>7, <1>8, <1>9, <1>10 DEF Next, Thread, Callback

-----------------------------------------------------------------------------
\* Answers.

\* No pending call is no call with a failing code.
LEMMA NoCallFields == NoCall.st = "none" /\ NoCall.code = "OK"
  BY DEF NoCall

\* Counting an answer, and a further one with it.
LEMMA CountAnswer ==
    ASSUME NEW a \in Nat, NEW e \in Nat
    PROVE  /\ a <= e => a + 1 <= 1 + e
           /\ a <= 1 + e => a + 1 <= 1 + (e + 1)
           /\ e + 1 > 0
           /\ a <= 1 => a <= 1 + 1
  OBVIOUS

\* At most one answer more.
LEMMA AtMostOneMore ==
    ASSUME NEW a \in Nat, NEW e \in Nat, NEW b \in Nat, a <= e, b <= a + 1
    PROVE  b <= 1 + e
  OBVIOUS

\* A request that is neither answered nor moved back keeps its invariant.
LEMMA Kept ==
    ASSUME NEW q \in Requests, AnswerInv(q), UpgradeInv(q),
           answers'[q] = answers[q], extra'[q] = extra[q], q \in params' => q \in params,
           pc'[q] \in Before => pc[q] \in Before /\ running' # q,
           pc'[q] = "idle" => pc[q] = "idle",
           call'[q] = call[q] \/ call'[q] = NoCall
    PROVE  AnswerInv(q)' /\ UpgradeInv(q)'
<1>1. call'[q].st # call[q].st => call'[q].st = "none"
  BY Zenon, NoCallFields
<1>2. call'[q].code # call[q].code => call'[q].code = "OK"
  BY Zenon, NoCallFields
<1>3. AnswerInv(q)'
  BY Zenon, <1>1 DEF AnswerInv
<1>4. UpgradeInv(q)'
  BY Zenon, <1>2 DEF UpgradeInv
<1> QED
  BY Zenon, <1>3, <1>4

\* The numbers of the invariant are numbers.
LEMMA Numbers ==
    ASSUME TypeOK, NEW q \in Requests
    PROVE  answers[q].n \in Nat /\ extra[q] \in Nat /\ pc[q] \in Places
  BY DEF TypeOK, Answers

\* A thread that has not reached the map answers its request and is done.
LEMMA ThreadAnswers ==
    ASSUME FreeInstallInv, NEW r \in Requests, NEW code \in Codes \ {"FAILED", "TIMEOUT"},
           pc[r] \in Before, CallAbilityManager(r, code), pc' = [pc EXCEPT ![r] = "done"],
           UNCHANGED <<params, extra, running, call>>
    PROVE  \A q \in Requests : AnswerInv(q)' /\ UpgradeInv(q)'
<1>1. TypeOK /\ \A q \in Requests : AnswerInv(q) /\ UpgradeInv(q)
  BY Zenon DEF FreeInstallInv
<1>2. /\ \A q \in Requests : q # r => answers'[q] = answers[q] /\ pc'[q] = pc[q]
      /\ answers' \in [Requests -> Answers] /\ answers'[r].n <= answers[r].n + 1
      /\ answers'[r] = answers[r] \/ answers'[r].last = code
      /\ pc'[r] = "done"
  BY SMTT(30), <1>1, CallAbilityManagerAnswers DEF TypeOK
<1>3. ASSUME NEW q \in Requests, q # r PROVE AnswerInv(q)' /\ UpgradeInv(q)'
  <2>1. pc[q] \in Before => running # q
    BY Zenon, <1>1 DEF AnswerInv
  <2> QED
    BY Zenon, <1>1, <1>2, <1>3, <2>1, Kept
<1>4. AnswerInv(r)'
  <2>1. answers[r].n \in Nat /\ extra[r] \in Nat /\ answers'[r].n \in Nat
    BY Zenon, <1>1, <1>2, Numbers DEF Answers
  <2>2. r \notin params /\ answers[r].n <= extra[r]
    BY Zenon, <1>1 DEF AnswerInv
  <2>3. answers'[r].n <= 1 + extra[r]
    BY Zenon, <1>2, <2>1, <2>2, AtMostOneMore
  <2>4. pc'[r] \notin Before /\ pc'[r] # "idle"
    BY Zenon, <1>2 DEF Before
  <2> QED
    BY Zenon, <2>2, <2>3, <2>4 DEF AnswerInv
<1>5. UpgradeInv(r)'
  BY Zenon, <1>1, <1>2 DEF UpgradeInv
<1> QED
  BY <1>3, <1>4, <1>5

\* A thread goes on, and enters the map at most when it has come to it.
LEMMA ThreadMoves ==
    ASSUME FreeInstallInv, NEW r \in Requests, NEW to \in Places,
           pc' = [pc EXCEPT ![r] = to], to \in Before => pc[r] \in Before, to # "idle",
           params' \subseteq params \union {r},
           r \in params' => r \in params \/ (pc[r] \in Before /\ to \notin Before),
           UNCHANGED <<answers, extra, running, call>>
    PROVE  \A q \in Requests : AnswerInv(q)' /\ UpgradeInv(q)'
<1>1. TypeOK /\ \A q \in Requests : AnswerInv(q) /\ UpgradeInv(q)
  BY Zenon DEF FreeInstallInv
<1>2. /\ \A q \in Requests : q # r => pc'[q] = pc[q]
      /\ pc'[r] = to
  BY <1>1 DEF TypeOK
<1>3. \A q \in Requests : UpgradeInv(q)'
  BY Zenon, <1>1 DEF UpgradeInv
<1>4. ASSUME NEW q \in Requests, q # r PROVE AnswerInv(q)'
  BY Zenon, <1>1, <1>2, <1>4 DEF AnswerInv
<1>5. AnswerInv(r)'
  BY <1>1, <1>2 DEF AnswerInv
<1> QED
  BY <1>3, <1>4, <1>5

\* SendCallBack answers a request that has been in the map.
LEMMA SendCallBackKeeps ==
    ASSUME FreeInstallInv, NEW r \in Requests, NEW code \in Codes,
           SendCallBack(r, code), pc[r] \notin Before, Kind[r] = "UPGRADE" => code # "FAILED",
           UNCHANGED pc \/ pc' = [pc EXCEPT ![r] = "done"],
           call' = call \/ call' = [call EXCEPT ![r] = NoCall],
           running' = running \/ running' = "none"
    PROVE  \A q \in Requests : AnswerInv(q)' /\ UpgradeInv(q)'
<1>1. TypeOK /\ \A q \in Requests : AnswerInv(q) /\ UpgradeInv(q)
  BY DEF FreeInstallInv
<1>2. /\ answers' \in [Requests -> Answers] /\ extra' \in [Requests -> Nat] /\ params' = params \ {r}
      /\ \A q \in Requests : q # r => answers'[q] = answers[q] /\ extra'[q] = extra[q]
      /\ answers'[r].n = answers[r].n + 1
      /\ extra'[r] = IF r \in params THEN extra[r] ELSE extra[r] + 1
      /\ answers'[r].last = IF r \in params /\ Kind[r] = "UPGRADE" THEN "OK" ELSE code
  BY Zenon, <1>1, SendCallBackAnswers
<1>3. /\ \A q \in Requests : q # r => pc'[q] = pc[q] /\ call'[q] = call[q]
      /\ pc'[r] \notin Before /\ (call'[r] = call[r] \/ call'[r] = NoCall)
  BY SMTT(30), <1>1 DEF TypeOK, Before
<1>4. ASSUME NEW q \in Requests, q # r PROVE AnswerInv(q)' /\ UpgradeInv(q)'
  <2>1. pc'[q] \in Before => running' # q
    <3>1. pc'[q] = pc[q] /\ (pc[q] \in Before => running # q)
      BY Zenon, <1>1, <1>3, <1>4 DEF AnswerInv
    <3>2. running' = running \/ running' # q
      BY FreeInstallAssumption
    <3> QED
      BY Zenon, <3>1, <3>2
  <2> QED
    BY Zenon, <1>1, <1>2, <1>3, <1>4, <2>1, Kept
<1>5. answers[r].n \in Nat /\ extra[r] \in Nat
  BY Zenon, <1>1, Numbers
<1>6. AnswerInv(r)'
  <2>1. answers'[r].n <= 1 + extra'[r]
    <3>1. CASE r \in params
      <4>1. answers[r].n <= extra[r]
        BY Zenon, <1>1, <3>1 DEF AnswerInv
      <4> QED
        BY Zenon, <1>2, <1>5, <3>1, <4>1, CountAnswer
    <3>2. CASE r \notin params
      <4>1. answers[r].n <= 1 + extra[r]
        BY Zenon, <1>1 DEF AnswerInv
      <4> QED
        BY Zenon, <1>2, <1>5, <3>2, <4>1, CountAnswer
    <3> QED
      BY <3>1, <3>2
  <2> QED
    BY Zenon, <1>2, <1>3, <2>1 DEF AnswerInv, Before
<1>7. UpgradeInv(r)'
  <2> SUFFICES ASSUME Kind[r] = "UPGRADE" PROVE UpgradeInv(r)'
    BY Zenon DEF UpgradeInv
  <2>1. call'[r].code \notin {"FAILED", "TIMEOUT"}
    BY Zenon, <1>1, <1>3, NoCallFields DEF UpgradeInv
  <2>2. answers'[r].last # "FAILED"
    BY Zenon, <1>2
  <2>3. answers'[r].last = "TIMEOUT" => extra'[r] > 0
    <3>1. CASE r \in params
      BY Zenon, <1>2, <3>1
    <3>2. CASE r \notin params
      BY Zenon, <1>2, <1>5, <3>2, CountAnswer
    <3> QED
      BY <3>1, <3>2
  <2> QED
    BY Zenon, <2>1, <2>2, <2>3 DEF UpgradeInv
<1> QED
  BY <1>4, <1>6, <1>7

\* The steps of a request's thread keep the invariant of every request.
LEMMA ThreadKeeps ==
    ASSUME FreeInstallInv, NEW r \in Requests, Submit(r) \/ Thread(r)
    PROVE  \A q \in Requests : AnswerInv(q)' /\ UpgradeInv(q)'
<1> USE DEF map, state, queue, remote, Goto
<1>1. TypeOK /\ AnswerInv(r)
  BY DEF FreeInstallInv
<1>places. {"connect", "deciding", "parked", "send"} \subseteq Places \ {"idle"}
      /\ {"emplaced", "sent", "done"} \subseteq (Places \ {"idle"}) \ Before
  BY Zenon DEF Places, Before
<1>move. ASSUME NEW to \in Places \ {"idle"}, Goto(r, to), pc[r] \in Before \/ to \notin Before,
              UNCHANGED <<params, answers, extra, running, call>>
       PROVE  \A q \in Requests : AnswerInv(q)' /\ UpgradeInv(q)'
  <2> SUFFICES ASSUME NEW q \in Requests PROVE AnswerInv(q)' /\ UpgradeInv(q)'
    BY Zenon
  <2>1. AnswerInv(q) /\ UpgradeInv(q) /\ (pc[q] \in Before => running # q)
    BY DEF FreeInstallInv, AnswerInv
  <2>2. pc'[q] = IF q = r THEN to ELSE pc[q]
    BY <1>1, <1>move DEF TypeOK
  <2>3. /\ pc'[q] \in Before => pc[q] \in Before /\ running' # q
        /\ pc'[q] = "idle" => pc[q] = "idle"
    BY <1>move, <2>1, <2>2
  <2> QED
    BY <1>move, <2>1, <2>3, Kept
<1>2. CASE Submit(r)
  <2>1. CASE Kind[r] # "UNNAMED"
    BY Zenon, <1>places, <1>move, <1>2, <2>1 DEF Submit, Before
  <2>2. CASE Kind[r] = "UNNAMED"
    <3>1. /\ CallAbilityManager(r, "UNDEFINED") /\ extra' = [extra EXCEPT ![r] = 1]
          /\ pc[r] = "idle" /\ pc' = [pc EXCEPT ![r] = "connect"]
          /\ UNCHANGED <<params, running, call>>
      BY SMTT(30), <1>2, <2>2 DEF Submit
    <3>2. "UNDEFINED" \in Codes
      BY Zenon DEF Codes
    <3>3. /\ \A q \in Requests : q # r =>
                /\ answers'[q] = answers[q] /\ extra'[q] = extra[q] /\ pc'[q] = pc[q]
          /\ answers' \in [Requests -> Answers] /\ answers'[r].n <= answers[r].n + 1
          /\ extra'[r] = 1 /\ pc'[r] = "connect"
      BY <1>1, <3>1, <3>2, CallAbilityManagerAnswers DEF TypeOK
    <3>4. ASSUME NEW q \in Requests, q # r PROVE AnswerInv(q)' /\ UpgradeInv(q)'
      <4>1. AnswerInv(q) /\ UpgradeInv(q) /\ (pc[q] \in Before => running # q)
        BY Zenon DEF FreeInstallInv, AnswerInv
      <4> QED
        BY Zenon, <3>1, <3>3, <3>4, <4>1, Kept
    <3>5. answers'[r].n \in Nat /\ answers'[r].n <= 1
      <4>1. answers[r].n = 0
        BY Zenon, <1>1, <3>1 DEF AnswerInv
      <4>2. answers'[r].n \in Nat
        BY Zenon, <3>3 DEF Answers
      <4>3. answers'[r].n <= 0 + 1
        BY Zenon, <3>3, <4>1
      <4> QED
        BY <4>2, <4>3
    <3>6. AnswerInv(r)'
      <4>1. /\ r \notin params' /\ call'[r].st = "none" /\ running' # r
            /\ pc'[r] # "idle" /\ answers'[r].n <= extra'[r]
        BY Zenon, <1>1, <3>1, <3>3, <3>5 DEF AnswerInv, Before
      <4>2. answers'[r].n <= 1 + extra'[r]
        BY Zenon, <3>3, <3>5, CountAnswer
      <4> QED
        BY Zenon, <4>1, <4>2 DEF AnswerInv
    <3>7. UpgradeInv(r)'
      BY <2>2 DEF UpgradeInv
    <3> QED
      BY Zenon, <3>4, <3>6, <3>7
  <2> QED
    BY <2>1, <2>2
<1>3. CASE FailLocally(r)
  <2>1. "UNDEFINED" \in Codes \ {"FAILED", "TIMEOUT"}
    BY DEF Codes
  <2> QED
    BY Zenon, <1>3, <2>1, ThreadAnswers DEF FailLocally, Before
<1>4. ASSUME pc[r] \in Before, ConnectFailed(r), UNCHANGED <<params, extra, running, call>>
      PROVE  \A q \in Requests : AnswerInv(q)' /\ UpgradeInv(q)'
  <2>1. (IF Kind[r] = "UPGRADE" THEN "OK" ELSE "CONNECT_ERROR") \in Codes \ {"FAILED", "TIMEOUT"}
    BY Zenon DEF Codes
  <2> QED
    BY Zenon, <1>4, <2>1, ThreadAnswers DEF ConnectFailed
<1>5. CASE Connect(r)
  <2>1. UNCHANGED <<params, extra, running, call>> /\ pc[r] = "connect"
    BY <1>5 DEF Connect
  <2>2. CASE ConnectFailed(r)
    BY <1>4, <2>1, <2>2 DEF Before
  <2>3. CASE UNCHANGED answers /\ Goto(r, "send")
    BY Zenon, <1>places, <1>move, <2>1, <2>3 DEF Before
  <2>4. CASE UNCHANGED answers /\ Goto(r, "deciding")
    BY Zenon, <1>places, <1>move, <2>1, <2>4 DEF Before
  <2> QED
    BY <1>5, <2>2, <2>3, <2>4 DEF Connect
<1>6. CASE Park(r)
  BY Zenon, <1>places, <1>move, <1>6 DEF Park, Before
<1>7. CASE Wake(r)
  <2>1. UNCHANGED <<params, extra, running, call>> /\ pc[r] = "woken"
    BY <1>7 DEF Wake
  <2>2. CASE ConnectFailed(r)
    BY <1>4, <2>1, <2>2 DEF Before
  <2>3. CASE UNCHANGED answers /\ Goto(r, "send")
    BY Zenon, <1>places, <1>move, <2>1, <2>3 DEF Before
  <2>4. CASE UNCHANGED answers /\ Goto(r, "deciding")
    BY Zenon, <1>places, <1>move, <2>1, <2>4 DEF Before
  <2> QED
    BY <1>7, <2>2, <2>3, <2>4 DEF Wake
<1>8. CASE Emplace(r)
  <2>1. UNCHANGED <<extra, running, call>> /\ pc[r] \in Before
    BY <1>8 DEF Emplace, Before
  <2>2. CASE params' = params \union {r} /\ Goto(r, "emplaced") /\ UNCHANGED answers
    <3>1. "emplaced" \in Places /\ "emplaced" \notin Before /\ "emplaced" # "idle"
      BY <1>places
    <3> QED
      BY Zenon, <2>1, <2>2, <3>1, ThreadMoves
  <2>3. CASE CallAbilityManager(r, "CONNECT_ERROR") /\ Goto(r, "done") /\ UNCHANGED params
    <3>1. "CONNECT_ERROR" \in Codes \ {"FAILED", "TIMEOUT"}
      BY DEF Codes
    <3> QED
      BY Zenon, <2>1, <2>3, <3>1, ThreadAnswers
  <2> QED
    BY <1>8, <2>2, <2>3 DEF Emplace
<1>9. CASE Send(r)
  <2>1. UNCHANGED <<running, call>> /\ pc[r] = "emplaced"
    BY <1>9 DEF Send
  <2>2. CASE UNCHANGED map
    <3>1. pc' = [pc EXCEPT ![r] = "done"] \/ pc' = [pc EXCEPT ![r] = "sent"]
      BY <1>9 DEF Send
    <3> QED
      BY <1>places, <1>move, <2>1, <2>2, <3>1
  <2>3. CASE SendCallBack(r, "CONNECT_ERROR") /\ Goto(r, "done")
    <3>1. "CONNECT_ERROR" \in Codes /\ pc[r] \notin Before
      BY <2>1 DEF Codes, Before
    <3> QED
      BY Zenon, <2>1, <2>3, <3>1, SendCallBackKeeps
  <2> QED
    BY <1>9, <2>2, <2>3 DEF Send
<1>10. CASE Monitor(r)
  BY Zenon, <1>places, <1>move, <1>10 DEF Monitor
<1> QED
  BY <1>2, <1>3, <1>5, <1>6, <1>7, <1>8, <1>9, <1>10 DEF Thread

\* The notice of a death answers every request in the map and empties it.
LEMMA DeathKeeps ==
    ASSUME FreeInstallInv, NEW c \in Requests, OnRemoteDied(c)
    PROVE  \A q \in Requests : AnswerInv(q)' /\ UpgradeInv(q)'
<1> SUFFICES ASSUME NEW q \in Requests PROVE AnswerInv(q)' /\ UpgradeInv(q)'
  OBVIOUS
<1>1. TypeOK /\ AnswerInv(q) /\ UpgradeInv(q)
  BY Zenon DEF FreeInstallInv
<1>2. answers[q] \in Answers /\ "CRASH" \in Codes /\ answers[q].n \in Nat /\ extra[q] \in Nat
  BY Zenon, <1>1, Numbers DEF TypeOK, Codes
<1>3. /\ answers'[q] = IF q \in params /\ HasCallback(q) THEN WithAnswer(answers[q], "CRASH") ELSE answers[q]
      /\ params' = {} /\ UNCHANGED <<extra, call, running>>
      /\ pc'[q] = IF pc[q] = "parked" THEN "woken" ELSE pc[q]
  BY DEF OnRemoteDied, NotifyAll, CallBackFound, queue, remote
<1>4. pc'[q] \in Before => pc[q] \in Before /\ running' # q
  <2>1. pc'[q] \in Before => pc[q] \in Before
    BY Zenon, <1>3 DEF Before
  <2>2. pc[q] \in Before => running # q
    BY Zenon, <1>1 DEF AnswerInv
  <2> QED
    BY Zenon, <1>3, <2>1, <2>2
<1>5. CASE answers'[q] = answers[q]
  BY <1>1, <1>3, <1>4, <1>5, Kept
<1>6. CASE q \in params /\ answers'[q] = WithAnswer(answers[q], "CRASH")
  <2>1. answers'[q].n = answers[q].n + 1 /\ answers'[q].last = "CRASH"
    BY <1>2, <1>6, WithAnswerType
  <2>2. answers[q].n <= extra[q] /\ pc[q] \notin Before
    BY Zenon, <1>1, <1>6 DEF AnswerInv
  <2>3. pc'[q] \notin Before /\ pc'[q] # "idle"
    BY <1>3, <1>4, <2>2 DEF Before
  <2>4. AnswerInv(q)'
    <3>1. answers'[q].n <= 1 + extra'[q]
      BY Zenon, <1>2, <1>3, <2>1, <2>2, CountAnswer
    <3> QED
      BY Zenon, <1>3, <2>3, <3>1 DEF AnswerInv
  <2>5. UpgradeInv(q)'
    BY Zenon, <1>1, <1>3, <2>1 DEF UpgradeInv
  <2> QED
    BY Zenon, <2>4, <2>5
<1> QED
  BY <1>3, <1>5, <1>6

\* A call of the service center about r is noted only while r is in the map,
\* and never carries a failure or a timeout for an upgrade.
LEMMA CenterCallKeeps ==
    ASSUME FreeInstallInv, NEW r \in Requests, NEW next \in Call, OnServiceCenterCall(r, next),
           Kind[r] = "UPGRADE" => next.code = "OK"
    PROVE  \A q \in Requests : AnswerInv(q)' /\ UpgradeInv(q)'
<1> SUFFICES ASSUME NEW q \in Requests PROVE AnswerInv(q)' /\ UpgradeInv(q)'
  OBVIOUS
<1>1. TypeOK /\ AnswerInv(q) /\ UpgradeInv(q)
  BY Zenon DEF FreeInstallInv
<1>2. /\ UNCHANGED <<pc, params, answers, extra, running>>
      /\ call'[q] = IF q = r /\ r \in params THEN next ELSE call[q]
  BY SMTT(30), <1>1 DEF OnServiceCenterCall, TypeOK, map
<1>3. AnswerInv(q)'
  BY Zenon, <1>1, <1>2 DEF AnswerInv
<1>4. UpgradeInv(q)'
  BY Zenon, <1>1, <1>2 DEF UpgradeInv
<1> QED
  BY <1>3, <1>4

\* Every step keeps the invariant of every request.
LEMMA AnswersPreserved ==
    ASSUME FreeInstallInv, [Next]_vars
    PROVE  \A q \in Requests : AnswerInv(q)' /\ UpgradeInv(q)'
<1> USE DEF map, state, queue, remote
<1> DEFINE Good == \A q \in Requests : AnswerInv(q)' /\ UpgradeInv(q)'
<1>1. TypeOK /\ \A q \in Requests : AnswerInv(q) /\ UpgradeInv(q)
  BY Zenon DEF FreeInstallInv
<1>2. ASSUME UNCHANGED <<answers, extra, call>>, params' \subseteq params,
             \A q \in Requests : pc'[q] \in Before => pc[q] \in Before /\ running' # q,
             \A q \in Requests : pc'[q] = "idle" => pc[q] = "idle"
      PROVE  Good
  BY Zenon, <1>1, <1>2, Kept
<1>3. \A q \in Requests : pc[q] \in Before => running # q /\ q \notin params
  BY <1>1 DEF AnswerInv
<1>4. ASSUME UNCHANGED <<pc, params, answers, extra, call, running>> PROVE Good
  <2>1. params' \subseteq params
    BY <1>4
  <2> QED
    BY <1>2, <1>3, <1>4, <2>1
<1>5. ASSUME NEW c \in Requests, Callback(c) PROVE Good
  <2>1. CASE ConnectDone(c) \/ DisconnectDone(c)
    <3>1. UNCHANGED <<pc, params, answers, extra, call, running>>
      BY Zenon, <2>1 DEF ConnectDone, DisconnectDone
    <3> QED
      BY <1>4, <3>1
  <2>2. CASE UpdateConnectState(c)
    <3>1. UNCHANGED <<params, answers, extra, call, running>>
      BY <2>2 DEF UpdateConnectState
    <3>2. \A q \in Requests : pc'[q] = IF pc[q] = "parked" THEN "woken" ELSE pc[q]
      BY <2>2 DEF UpdateConnectState, NotifyAll
    <3>3. "parked" \in Before /\ "woken" # "idle"
      BY DEF Before
    <3>4. \A q \in Requests : /\ pc'[q] \in Before => pc[q] \in Before /\ running' # q
                              /\ pc'[q] = "idle" => pc[q] = "idle"
      BY <1>3, <3>1, <3>2, <3>3
    <3> QED
      BY <1>2, <3>1, <3>4
  <2> QED
    BY <1>5, <2>1, <2>2, DeathKeeps DEF Callback
<1>6. ASSUME NEW r \in Requests, Queue(r) PROVE Good
  <2>1. CASE TimeOut(r)
    <3>1. /\ UNCHANGED <<pc, params, answers, extra, call>>
          /\ running' = IF r \in params /\ HasCallback(r) THEN r ELSE "none"
      BY Zenon, <2>1 DEF TimeOut, CallBackFound
    <3>2. \A q \in Requests : pc[q] \in Before => running' # q
      BY <1>3, <3>1, FreeInstallAssumption
    <3> QED
      BY <1>2, <3>1, <3>2
  <2>2. CASE TimeOutAnswer(r)
    <3>1. "TIMEOUT" \in Codes /\ pc[r] \notin Before
      BY <1>1, <2>2 DEF TimeOutAnswer, AnswerInv, Codes
    <3> QED
      BY Zenon, <2>2, <3>1, SendCallBackKeeps DEF TimeOutAnswer
  <2> QED
    BY <1>6, <2>1, <2>2 DEF Queue
<1>7. CASE Closing
  <2>1. UNCHANGED <<pc, params, answers, extra, call>> /\ running' \in {"none", "disconnect"}
    BY <1>7 DEF Closing, StartDisconnect, DisconnectAbility
  <2>2. \A q \in Requests : running' # q
    BY <2>1, FreeInstallAssumption
  <2> QED
    BY <1>2, <2>1, <2>2
<1>8. ASSUME NEW r \in Requests, Handler(r) PROVE Good
  <2>1. CASE Answer(r)
    <3>1. call[r].code \in Codes /\ pc[r] \notin Before /\ (Kind[r] = "UPGRADE" => call[r].code # "FAILED")
      BY Zenon, <1>1, <2>1 DEF Answer, AnswerInv, UpgradeInv, TypeOK, Call
    <3> QED
      BY Zenon, <2>1, <3>1, SendCallBackKeeps DEF Answer
  <2>2. CASE BeatMonitor(r)
    <3>1. UNCHANGED <<pc, params, answers, extra, running>> /\ call' = [call EXCEPT ![r] = NoCall]
      BY <2>2 DEF BeatMonitor
    <3>2. ASSUME NEW q \in Requests PROVE AnswerInv(q)' /\ UpgradeInv(q)'
      <4>1. pc[q] \in Before => running # q
        BY <1>1 DEF AnswerInv
      <4>2. call'[q] = call[q] \/ call'[q] = NoCall
        BY <1>1, <3>1 DEF TypeOK
      <4> QED
        BY Zenon, <1>1, <3>1, <4>1, <4>2, Kept
    <3> QED
      BY <3>2
  <2> QED
    BY <1>8, <2>1, <2>2 DEF Handler
<1>9. ASSUME NEW r \in Requests, Reports(r) PROVE Good
  <2>1. CASE Downloading(r)
    <3>1. NoCall \in Call /\ NoCall.code = "OK"
      BY DEF NoCall, Call, Codes
    <3> QED
      BY <2>1, <3>1, CenterCallKeeps DEF Downloading
  <2>2. CASE Heartbeat(r)
    <3>1. [st |-> "beat", code |-> "OK"] \in Call
      BY Zenon DEF Call, Codes
    <3> QED
      BY <2>2, <3>1, CenterCallKeeps DEF Heartbeat
  <2>3. CASE Received(r)
    <3>1. params' \subseteq params /\ UNCHANGED <<pc, answers, extra, running, call>>
      BY <2>3 DEF Received, Erase
    <3> QED
      BY <1>2, <1>3, <3>1
  <2>4. ASSUME NEW code \in {"OK", "FAILED"}, Finish(r, code) PROVE Good
    <3> DEFINE next == [st |-> "fetched", code |-> IF Kind[r] = "UPGRADE" THEN "OK" ELSE code]
    <3>1. next \in Call /\ (Kind[r] = "UPGRADE" => next.code = "OK")
      BY DEF Call, Codes
    <3>2. OnServiceCenterCall(r, next)
      BY <2>4 DEF Finish
    <3> HIDE DEF next
    <3> QED
      BY <3>1, <3>2, CenterCallKeeps
  <2> QED
    BY <1>9, <2>1, <2>2, <2>3, <2>4 DEF Reports, Finishes
<1>10. CASE Die \/ UNCHANGED vars
  <2>1. UNCHANGED <<pc, params, answers, extra, call, running>>
    BY <1>10 DEF Die, vars
  <2> QED
    BY <1>4, <2>1
<1> QED
  BY <1>5, <1>6, <1>7, <1>8, <1>9, <1>10, ThreadKeeps DEF Next

-----------------------------------------------------------------------------
\* FreeInstallInv is inductive.
THEOREM FreeInstallInvariance == Spec => []FreeInstallInv
<1>1. FreeInstallInv /\ [Next]_vars => FreeInstallInv'
  BY TypePreserved, WaitPreserved, AnswersPreserved DEF FreeInstallInv
<1> QED
  BY <1>1, InitInv, PTL DEF Spec

\* Every variable keeps its type.
THEOREM FreeInstallTypeCorrect == Spec => []TypeOK
  BY FreeInstallInvariance, PTL DEF FreeInstallInv

\* However request, answer, heartbeat, timeout, death and disconnection of any
\* number of requests fall, a callback is called a second time only for one of
\* the named causes.
THEOREM AtMostOneAnswer == Spec => []AnsweredOnce
<1>1. FreeInstallInv => AnsweredOnce
  BY Zenon DEF FreeInstallInv, AnswerInv, AnsweredOnce
<1> QED
  BY <1>1, FreeInstallInvariance, PTL

\* The caller of an upgrade hears of no failure, and of a timeout only after
\* another answer.
THEOREM UpgradeHearsNoFailure == Spec => []UpgradeHidesFailure
<1>1. FreeInstallInv => UpgradeHidesFailure
  BY DEF FreeInstallInv, UpgradeInv, UpgradeHidesFailure
<1> QED
  BY <1>1, FreeInstallInvariance, PTL

\* No thread sleeps through the end of a connection attempt.
THEOREM WaitersAreWoken == Spec => []NoLostWakeup
<1>1. FreeInstallInv => NoLostWakeup
  BY DEF FreeInstallInv, WaitInv, NoLostWakeup
<1> QED
  BY <1>1, FreeInstallInvariance, PTL

-----------------------------------------------------------------------------
\* Somebody has still to answer an installation whose thread is done: a timeout,
\* set or running, a handler, or the service center that reported a download.
Guarded(q) ==
    \/ Armed(timer[q]) \/ running = q \/ call[q].st # "none" \/ center[q].loading
Watched(q) == HasCallback(q) /\ q \in params /\ pc[q] = "done" => Guarded(q)

\* A task that was scheduled is armed.
LEMMA ScheduleArms == \A t : Armed(Schedule(t))
  BY DEF Armed, Schedule

\* An idle serial queue, or one that disconnects, runs no request's timeout.
LEMMA NoRequests == \A q \in Requests : q # "none" /\ q # "disconnect"
  BY FreeInstallAssumption

\* A step that keeps what guards a request, and brings it neither into the map
\* nor to its end, keeps it watched.
LEMMA WatchKept ==
    ASSUME NEW q \in Requests, Watched(q),
           q \in params' => q \in params, pc'[q] = "done" => pc[q] = "done",
           Guarded(q) => Guarded(q)'
    PROVE  Watched(q)'
  BY Zenon DEF Watched, HasCallback

\* The steps of a request's thread: before it has sent, a thread that gives up
\* has no entry; after it has sent, it sets the timeout of the entry it finds.
LEMMA ThreadWatches ==
    ASSUME FreeInstallInv, NEW r \in Requests, Submit(r) \/ Thread(r),
           NEW q \in Requests, Watched(q)
    PROVE  Watched(q)'
<1> USE DEF map, state, queue, remote
<1>1. TypeOK /\ AnswerInv(q)
  BY Zenon DEF FreeInstallInv
<1>2. UNCHANGED <<running, call>>
  BY Zenon DEF Submit, Thread, Connect, Park, Wake, Emplace, Send, Monitor, FailLocally
<1>3. center' = center \/ center' = [center EXCEPT ![r].st = "has"]
  BY DEF Submit, Thread, Connect, Park, Wake, Emplace, Send, Monitor, FailLocally
<1>4. center'[q].loading = center[q].loading
  BY SMTT(30), <1>1, <1>3 DEF TypeOK, Work
<1>5. timer' = timer \/ (Monitor(r) /\ OutTimeMonitor(r))
  BY Zenon DEF Submit, Thread, Connect, Park, Wake, Emplace, Send, Monitor, FailLocally
<1>6. params' \subseteq params \union {r}
  BY Zenon DEF Submit, Thread, Connect, Park, Wake, Emplace, Send, Monitor, FailLocally, SendCallBack,
     Erase
<1>7. \E to \in Places : pc' = [pc EXCEPT ![r] = to]
  BY DEF Submit, Thread, Connect, Park, Wake, Emplace, Send, Monitor, FailLocally, Goto,
         ConnectFailed, Places
<1>8. CASE q # r
  <2>1. pc'[q] = pc[q] /\ (q \in params' => q \in params)
    BY <1>1, <1>6, <1>7, <1>8 DEF TypeOK
  <2>2. timer'[q] = timer[q]
    BY <1>1, <1>5, <1>8 DEF TypeOK, OutTimeMonitor
  <2>3. Guarded(q) => Guarded(q)'
    BY Zenon, <1>2, <1>4, <2>2 DEF Guarded, Armed
  <2> QED
    BY Zenon, <2>1, <2>3, WatchKept
<1>9. CASE q = r
  <2>1. CASE Monitor(r)
    <3>1. params' = params /\ (r \in params => timer'[r] = Schedule(timer[r]))
      BY <1>1, <2>1 DEF Monitor, OutTimeMonitor, TypeOK
    <3>2. r \in params => Armed(timer'[r])
      BY Zenon, <3>1, ScheduleArms
    <3> QED
      BY Zenon, <1>9, <3>1, <3>2 DEF Watched, Guarded, Armed
  <2>2. CASE Send(r)
    <3>1. CASE ~link[cur].dead
      <4>1. pc'[r] = "done" => Kind[r] = "PRELOAD"
        BY Zenon, <1>1, <2>2, <3>1 DEF Send, Goto, TypeOK
      <4> QED
        BY <1>9, <4>1 DEF Watched, HasCallback
    <3>2. CASE link[cur].dead
      <4>1. HasCallback(r) => r \notin params'
        BY <2>2, <3>2 DEF Send, HasCallback, CallBackFound, SendCallBack, Erase
      <4> QED
        BY <1>9, <4>1 DEF Watched, HasCallback
    <3> QED
      BY Zenon, <3>1, <3>2
  <2>3. CASE ~Monitor(r) /\ ~Send(r)
    <3>1. Submit(r) \/ Connect(r) \/ Park(r) \/ Wake(r) \/ Emplace(r) \/ FailLocally(r)
      BY Zenon, <1>9, <2>3 DEF Thread
    <3>2. pc[r] \in {"idle", "connect", "deciding", "woken", "send"}
      BY Zenon, <3>1 DEF Submit, Connect, Park, Wake, Emplace, FailLocally
    <3>3. pc[r] \in Before
      BY <3>2 DEF Before
    <3>4. r \notin params
      BY Zenon, <1>1, <1>9, <3>3 DEF AnswerInv
    <3>5. r \in params' => pc' = [pc EXCEPT ![r] = "emplaced"]
      BY Zenon, <3>1, <3>4 DEF Submit, Connect, Park, Wake, Emplace, FailLocally, Goto
    <3>6. r \in params' => pc'[r] # "done"
      BY <1>1, <3>5 DEF TypeOK
    <3> QED
      BY Zenon, <1>9, <3>6 DEF Watched
  <2> QED
    BY <2>1, <2>2, <2>3
<1> QED
  BY <1>8, <1>9

\* The other steps: what takes a guard away leaves another one or removes the
\* entry.
LEMMA WatchPreserved ==
    ASSUME FreeInstallInv, [Next]_vars, NEW q \in Requests, Watched(q)
    PROVE  Watched(q)'
<1> USE DEF map, state, queue, remote
<1>1. TypeOK
  BY DEF FreeInstallInv
<1>2. ASSUME NEW r \in Requests, Callback(r) PROVE Watched(q)'
  <2>1. UNCHANGED <<timer, running, call, center>> /\ params' \subseteq params
    BY <1>2 DEF Callback, ConnectDone, DisconnectDone, UpdateConnectState, OnRemoteDied
  <2>2. pc' = pc \/ NotifyAll
    BY <1>2 DEF Callback, ConnectDone, DisconnectDone, UpdateConnectState, OnRemoteDied
  <2>3. pc'[q] = "done" => pc[q] = "done"
    BY Zenon, <2>2 DEF NotifyAll
  <2>4. Guarded(q) => Guarded(q)'
    BY <2>1 DEF Guarded, Armed
  <2> QED
    BY Zenon, <2>1, <2>3, <2>4, WatchKept
<1>3. ASSUME NEW r \in Requests, Queue(r) PROVE Watched(q)'
  <2>1. UNCHANGED <<pc, call, center>>
    BY <1>3 DEF Queue, TimeOut, TimeOutAnswer
  <2>2. CASE q = r
    <3>1. CASE TimeOut(r)
      <4>1. params' = params /\ (CallBackFound(r) => running' = r)
        BY <3>1 DEF TimeOut
      <4> QED
        BY Zenon, <2>2, <4>1 DEF Watched, Guarded, CallBackFound, HasCallback
    <3>2. CASE TimeOutAnswer(r)
      BY Zenon, <2>2, <3>2 DEF TimeOutAnswer, SendCallBack, Erase, Watched
    <3> QED
      BY <1>3, <3>1, <3>2 DEF Queue
  <2>3. CASE q # r
    <3>1. timer'[q] = timer[q] /\ running # q /\ params' \subseteq params
      BY Zenon, <1>1, <1>3, <2>3, NoRequests DEF Queue, TimeOut, TimeOutAnswer, SendCallBack, Erase, TypeOK
    <3>2. Guarded(q) => Guarded(q)'
      BY Zenon, <2>1, <3>1 DEF Guarded, Armed
    <3> QED
      BY Zenon, <2>1, <3>1, <3>2, WatchKept
  <2> QED
    BY Zenon, <2>2, <2>3
<1>4. CASE Closing
  <2>1. UNCHANGED <<pc, params, timer, call, center>> /\ running # q
    BY Zenon, <1>4, NoRequests DEF Closing, StartDisconnect, DisconnectAbility
  <2>2. Guarded(q) => Guarded(q)'
    BY Zenon, <2>1 DEF Guarded, Armed
  <2> QED
    BY <2>1, <2>2, WatchKept
<1>5. ASSUME NEW r \in Requests, Handler(r) PROVE Watched(q)'
  <2>1. UNCHANGED <<pc, running, center>> /\ call' = [call EXCEPT ![r] = NoCall]
    BY <1>5 DEF Handler, Answer, BeatMonitor
  <2>2. CASE q = r
    <3>1. CASE Answer(r)
      BY Zenon, <2>2, <3>1 DEF Answer, SendCallBack, Erase, Watched
    <3>2. CASE BeatMonitor(r)
      <4>1. params' = params /\ (r \in params => timer'[r] = Schedule(timer[r]))
        BY Zenon, <1>1, <3>2 DEF BeatMonitor, OutTimeMonitor, TypeOK
      <4>2. r \in params => Armed(timer'[r])
        BY <4>1, ScheduleArms
      <4> QED
        BY Zenon, <2>2, <4>1, <4>2 DEF Watched, Guarded, Armed
    <3> QED
      BY <1>5, <3>1, <3>2 DEF Handler
  <2>3. CASE q # r
    <3>1. timer'[q] = timer[q] /\ call'[q] = call[q] /\ params' \subseteq params
      BY Zenon, <1>1, <1>5, <2>1, <2>3 DEF Handler, Answer, BeatMonitor, OutTimeMonitor, SendCallBack, Erase, TypeOK
    <3>2. Guarded(q) => Guarded(q)'
      BY Zenon, <2>1, <3>1 DEF Guarded, Armed
    <3> QED
      BY Zenon, <2>1, <3>1, <3>2, WatchKept
  <2> QED
    BY <2>2, <2>3
<1>6. ASSUME NEW r \in Requests, Reports(r) PROVE Watched(q)'
  <2>1. UNCHANGED <<pc, running>> /\ params' \subseteq params
    BY <1>6 DEF Reports, Downloading, Heartbeat, Received, Finishes, Finish, OnServiceCenterCall, Erase
  <2>2. CASE Received(r)
    <3>1. UNCHANGED <<timer, call>> /\ center' = [center EXCEPT ![r].st = "over"]
      BY <2>2 DEF Received
    <3>2. center'[q].loading = center[q].loading
      BY <1>1, <3>1 DEF TypeOK, Work
    <3>3. Guarded(q) => Guarded(q)'
      BY Zenon, <2>1, <3>1, <3>2 DEF Guarded, Armed
    <3> QED
      BY <2>1, <3>3, WatchKept
  <2>3. CASE q = r /\ Downloading(r)
    <3>1. center'[r].loading
      BY <1>1, <2>3 DEF Downloading, TypeOK, Work
    <3> QED
      BY <2>3, <3>1 DEF Watched, Guarded
  <2>4. CASE q = r /\ (Heartbeat(r) \/ Finishes(r))
    <3>1. params' = params /\ (r \in params => call'[r].st # "none")
      BY <1>1, <2>4 DEF Heartbeat, Finishes, Finish, OnServiceCenterCall, TypeOK, Call
    <3> QED
      BY Zenon, <2>4, <3>1 DEF Watched, Guarded
  <2>5. CASE q # r /\ ~Received(r)
    <3>1. timer'[q] = timer[q] /\ call'[q] = call[q] /\ center'[q] = center[q]
      BY <1>1, <1>6, <2>5 DEF Reports, Downloading, Heartbeat, Finishes, Finish, OnServiceCenterCall, TypeOK
    <3>2. Guarded(q) => Guarded(q)'
      BY Zenon, <2>1, <3>1 DEF Guarded, Armed
    <3> QED
      BY <2>1, <3>2, WatchKept
  <2> QED
    BY <1>6, <2>2, <2>3, <2>4, <2>5 DEF Reports
<1>7. CASE Die \/ UNCHANGED vars
  <2>1. UNCHANGED <<pc, params, timer, running, call>>
    BY <1>7 DEF Die, vars
  <2>2. center'[q].loading = center[q].loading
    BY <1>1, <1>7 DEF Die, vars, TypeOK, Work
  <2>3. Guarded(q) => Guarded(q)'
    BY <2>1, <2>2 DEF Guarded, Armed
  <2> QED
    BY <2>1, <2>3, WatchKept
<1> QED
  BY <1>2, <1>3, <1>4, <1>5, <1>6, <1>7, ThreadWatches DEF Next

\* Whatever the order of request, answer, heartbeat, timeout, death and
\* disconnection, an installation that is left without a timeout, a handler and
\* a service center had been reported as downloading.
THEOREM OnlyDownloadsUnwatched == Spec => []UnwatchedOnlyLoading
<1> DEFINE AllWatched == \A q \in Requests : Watched(q)
<1>1. Init => AllWatched
  BY Zenon DEF Init, Watched
<1>2. FreeInstallInv /\ AllWatched /\ [Next]_vars => AllWatched'
  BY WatchPreserved
<1>3. AllWatched => UnwatchedOnlyLoading
  BY Zenon DEF Watched, Guarded, UnwatchedOnlyLoading, Unwatched
<1> QED
  BY <1>1, <1>2, <1>3, FreeInstallInvariance, PTL DEF Spec
=============================================================================
