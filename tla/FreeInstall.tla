---------------------------- MODULE FreeInstall ----------------------------
(***************************************************************************)
(* Free installation of atomic services.  BundleConnectAbilityMgr connects *)
(* to the service center, an application of its own, sends it a request    *)
(* and passes the result on to the caller's callback.  A request's thread, *)
(* the callbacks of the ability manager about the connection, the calls of *)
(* the service center, the notice of its death and the tasks of a serial   *)
(* queue (the timeout of each request and the delayed disconnection) meet  *)
(* in freeInstallParamsMap_, under mapMutex_, and in connectState_, under  *)
(* mutex_ and the condition variable cv_.                                  *)
(***************************************************************************)
EXTENDS Naturals

CONSTANTS
    Requests,   \* transaction ids
    Kind,       \* the kind of each
    Mixes,      \* the sets of requests that are made together
    Faults,     \* what may go wrong, a subset of FaultKinds
    MaxFaults,  \* how often something goes wrong
    MaxBeats    \* how many heartbeats the service center sends

\* A silent install, the install of an upgrade, an upgrade check and a preload;
\* unnamed: a query with an empty bundle name, which becomes a silent install.
Kinds == {"SILENT", "UPGRADE", "CHECK", "PRELOAD", "UNNAMED"}

\* local: ERMS, the query for the service center, or a parcel.  connect: the
\* connection to the service center.  die: the service center dies.
FaultKinds == {"local", "connect", "die"}

ASSUME FreeInstallAssumption ==
    /\ Kind \in [Requests -> Kinds] /\ Mixes \subseteq SUBSET Requests
    /\ Faults \subseteq FaultKinds
    /\ MaxFaults \in Nat /\ MaxBeats \in Nat
    /\ Requests \intersect {"none", "disconnect"} = {}

VARIABLES
    pc,       \* where each request's thread is
    params,   \* the keys of freeInstallParamsMap_
    conn,     \* connectState_
    cur,      \* serviceCenterConnection_, named after the request that made it
    link,     \* each connection: asked to disconnect, its service center dead
    notice,   \* the connections whose death recipient is yet to be called
    timer,    \* each request's timeout in serialQueue_
    closer,   \* DISCONNECT_DELAY_TASK in serialQueue_
    running,  \* the task serialQueue_ is running
    center,   \* what the service center does with each request
    call,     \* the service center's call about each request under way
    answers,  \* how often each callback was called, and with what result last
    extra,    \* history: the causes of a further answer each request met
    count     \* history: how often something went wrong, and heartbeats

map == <<params, answers, extra>>
state == <<conn, cur, link, notice>>
queue == <<timer, closer, running>>
remote == <<center, call>>
vars == <<pc, map, state, queue, remote, count>>

NoTask == [held |-> FALSE, loose |-> 0]
NoLink(st) == [st |-> st, asked |-> FALSE, dead |-> FALSE]
NoCall == [st |-> "none", code |-> "OK"]

Init ==
    /\ \E mix \in Mixes : pc = [r \in Requests |-> IF r \in mix THEN "idle" ELSE "absent"]
    /\ params = {}
    /\ conn = "DISCONNECTED"
    /\ cur = "none"
    /\ link = [c \in Requests |-> NoLink("none")]
    /\ notice = {}
    /\ timer = [r \in Requests |-> NoTask]
    /\ closer = NoTask
    /\ running = "none"
    /\ center = [r \in Requests |-> [st |-> "none", loading |-> FALSE]]
    /\ call = [r \in Requests |-> NoCall]
    /\ answers = [r \in Requests |-> [n |-> 0, last |-> "OK"]]
    /\ extra = [r \in Requests |-> 0]
    /\ count = [faults |-> 0, beats |-> 0]

\* Something goes wrong.
Fault(f) ==
    /\ f \in Faults /\ count.faults < MaxFaults
    /\ count' = [count EXCEPT !.faults = @ + 1]

(***************************************************************************)
(* Locks, callbacks, the serial queue.                                     *)
(***************************************************************************)

\* A thread keeps mutex_ while it decides to wait, and through SendRequest.
MutexFree == \A r \in Requests : pc[r] \notin {"deciding", "emplaced", "sent"}

\* cv_.notify_all
NotifyAll == pc' = [r \in Requests |-> IF pc[r] = "parked" THEN "woken" ELSE pc[r]]

HasCallback(r) == Kind[r] \in {"SILENT", "UPGRADE", "UNNAMED"}
WithAnswer(a, code) == [n |-> a.n + 1, last |-> code]

\* CallAbilityManager: the answer of a request that is not in the map.
CallAbilityManager(r, code) ==
    answers' = IF HasCallback(r) THEN [answers EXCEPT ![r] = WithAnswer(@, code)] ELSE answers

\* ScheduleDelayTask overwrites the handle of an earlier task of that name,
\* which then can no longer be cancelled; CancelDelayTask cancels the last.
Schedule(t) == [held |-> TRUE, loose |-> IF t.held THEN t.loose + 1 ELSE t.loose]
Cancel(t) == [t EXCEPT !.held = FALSE]
Armed(t) == t.held \/ t.loose > 0
Fired(t) ==
    {u \in {Cancel(t), [t EXCEPT !.loose = IF @ = 0 THEN 0 ELSE @ - 1]} : u # t}

\* GetAbilityManagerServiceCallBack, the first half of SendCallBack.
CallBackFound(r) == r \in params /\ HasCallback(r)

EraseKeepsConnection(r) ==
    /\ params' = params \ {r}
    /\ closer' = IF params = {} /\ conn = "CONNECTED" THEN Schedule(closer) ELSE closer

\* The entry goes, and with the last one the connection, after a delay.
Erase(r) ==
    /\ params' = params \ {r}
    /\ closer' = IF params \subseteq {r} /\ conn = "CONNECTED" THEN Schedule(closer) ELSE closer

SendCallBackKeepsEntry(r, code) ==
    /\ UNCHANGED <<params, closer, extra>>
    /\ answers' = [answers EXCEPT ![r] = WithAnswer(@, IF Kind[r] = "UPGRADE" THEN "OK" ELSE code)]

SendCallBackPlain(r, code) ==
    /\ Erase(r)
    /\ answers' = [answers EXCEPT ![r] = WithAnswer(@, code)]
    /\ extra' = IF r \in params THEN extra ELSE [extra EXCEPT ![r] = @ + 1]

\* The second half of SendCallBack: operator[] makes an entry of function 0 if
\* there is none any more.
SendCallBack(r, code) ==
    LET found == r \in params
        upgrade == found /\ Kind[r] = "UPGRADE"
    IN  /\ Erase(r)
        /\ answers' = [answers EXCEPT ![r] = WithAnswer(@, IF upgrade THEN "OK" ELSE code)]
        /\ extra' = IF found THEN extra ELSE [extra EXCEPT ![r] = @ + 1]

(***************************************************************************)
(* A request's thread.                                                     *)
(***************************************************************************)

Goto(r, to) == pc' = [pc EXCEPT ![r] = to]

\* QueryAbilityInfo, SilentInstall, UpgradeAtomicService or ProcessPreload.
\* An empty bundle name is answered and the silent install goes on.
Submit(r) ==
    /\ pc[r] = "idle"
    /\ Goto(r, "connect")
    /\ IF Kind[r] = "UNNAMED"
       THEN CallAbilityManager(r, "UNDEFINED") /\ extra' = [extra EXCEPT ![r] = 1]
       ELSE UNCHANGED <<answers, extra>>
    /\ UNCHANGED <<params, state, queue, remote, count>>

\* An early return of SilentInstall, SendRequestToServiceCenter or SendRequest.
FailLocally(r) ==
    /\ pc[r] \in {"connect", "send"} /\ Fault("local")
    /\ Goto(r, "done")
    /\ CallAbilityManager(r, "UNDEFINED")
    /\ UNCHANGED <<params, extra, state, queue, remote>>

\* SendRequestToServiceCenter when ConnectAbility returned false.
ConnectFailed(r) ==
    /\ Goto(r, "done")
    /\ CallAbilityManager(r, IF Kind[r] = "UPGRADE" THEN "OK" ELSE "CONNECT_ERROR")

\* ConnectAbility
Connect(r) ==
    /\ pc[r] = "connect" /\ MutexFree
    /\ closer' = Cancel(closer)
    /\ \/ /\ conn = "CONNECTED"
          /\ Goto(r, "send")
          /\ UNCHANGED <<conn, cur, link, answers, count>>
       \/ /\ conn = "CONNECTING"
          /\ Goto(r, "deciding")
          /\ UNCHANGED <<conn, cur, link, answers, count>>
       \/ /\ conn = "DISCONNECTED"
          /\ cur' = r
          /\ conn' = "CONNECTING"
          /\ link' = [link EXCEPT ![r] = NoLink("connecting")]
          /\ Goto(r, "deciding")
          /\ UNCHANGED <<answers, count>>
       \/ /\ conn = "DISCONNECTED" /\ Fault("connect")
          /\ cur' = r
          /\ ConnectFailed(r)
          /\ UNCHANGED <<conn, link>>
    /\ UNCHANGED <<params, extra, notice, timer, running, remote>>

\* WaitFromConnecting and WaitFromConnected: the test, then the wait.
Park(r) ==
    /\ pc[r] = "deciding"
    /\ Goto(r, "parked")
    /\ UNCHANGED <<map, state, queue, remote, count>>

Wake(r) ==
    /\ pc[r] = "woken" /\ MutexFree
    /\ \/ conn = "CONNECTING" /\ Goto(r, "deciding") /\ UNCHANGED answers
       \/ conn = "CONNECTED" /\ Goto(r, "send") /\ UNCHANGED answers
       \/ conn = "DISCONNECTED" /\ ConnectFailed(r)
    /\ UNCHANGED <<params, extra, state, queue, remote, count>>

HasRemoteObject(c) == link[c].st \in {"assigned", "up"}

\* SendRequest and PreloadRequest: the remote object and the map.
Emplace(r) ==
    /\ pc[r] = "send" /\ MutexFree
    /\ \/ /\ HasRemoteObject(cur)
          /\ params' = params \union {r}
          /\ Goto(r, "emplaced")
          /\ UNCHANGED answers
       \/ /\ ~HasRemoteObject(cur)
          /\ CallAbilityManager(r, "CONNECT_ERROR")
          /\ Goto(r, "done")
          /\ UNCHANGED params
    /\ UNCHANGED <<extra, state, queue, remote, count>>

\* The request goes out, or fails because the service center has died.
Send(r) ==
    /\ pc[r] = "emplaced"
    /\ \/ /\ ~link[cur].dead
          /\ center' = [center EXCEPT ![r].st = "has"]
          /\ Goto(r, IF Kind[r] = "PRELOAD" THEN "done" ELSE "sent")
          /\ UNCHANGED <<map, closer>>
       \/ /\ link[cur].dead
          /\ IF Kind[r] # "PRELOAD" /\ CallBackFound(r) THEN SendCallBack(r, "CONNECT_ERROR")
             ELSE UNCHANGED <<map, closer>>
          /\ Goto(r, "done")
          /\ UNCHANGED center
    /\ UNCHANGED <<state, timer, running, call, count>>

\* OutTimeMonitor.  An entry removed between its look into the map and the
\* start of the timer leaves a timer that will find none.
OutTimeMonitor(r) == timer' = IF r \in params THEN [timer EXCEPT ![r] = Schedule(@)] ELSE timer

MonitorForgotten(r) ==
    /\ pc[r] = "sent"
    /\ Goto(r, "done")
    /\ UNCHANGED <<map, state, queue, remote, count>>

Monitor(r) ==
    /\ pc[r] = "sent"
    /\ OutTimeMonitor(r)
    /\ Goto(r, "done")
    /\ UNCHANGED <<map, state, closer, running, remote, count>>

(***************************************************************************)
(* The ability manager's callbacks.  The remote object and the death       *)
(* recipient are set without mutex_, before UpdateConnectState.            *)
(***************************************************************************)

\* OnAbilityConnectDone
ConnectDone(c) ==
    /\ link[c].st = "connecting"
    /\ \/ link' = [link EXCEPT ![c].st = "assigned"] /\ UNCHANGED count
       \/ link' = [link EXCEPT ![c].st = "failed"] /\ Fault("connect")
    /\ UNCHANGED <<pc, map, conn, cur, notice, queue, remote>>

\* OnAbilityDisconnectDone: asked for, or because the service center died.
DisconnectDone(c) ==
    /\ link[c].st = "up" /\ (link[c].asked \/ link[c].dead)
    /\ link' = [link EXCEPT ![c] = NoLink("released")]
    /\ notice' = notice \ {c}
    /\ UNCHANGED <<pc, map, conn, cur, queue, remote, count>>

UpdateConnectStateUnlocked(c) ==
    /\ \/ /\ link[c].st = "assigned"
          /\ link' = [link EXCEPT ![c].st = "up"]
          /\ conn' = "CONNECTED"
       \/ /\ link[c].st \in {"failed", "released"}
          /\ link' = [link EXCEPT ![c].st = "gone"]
          /\ conn' = "DISCONNECTED"
    /\ NotifyAll
    /\ UNCHANGED <<map, cur, notice, queue, remote, count>>

\* UpdateConnectState
UpdateConnectState(c) ==
    /\ MutexFree
    /\ \/ /\ link[c].st = "assigned"
          /\ link' = [link EXCEPT ![c].st = "up"]
          /\ conn' = "CONNECTED"
       \/ /\ link[c].st \in {"failed", "released"}
          /\ link' = [link EXCEPT ![c].st = "gone"]
          /\ conn' = "DISCONNECTED"
    /\ NotifyAll
    /\ UNCHANGED <<map, cur, notice, queue, remote, count>>

\* DeathRecipientSendCallback
OnRemoteDied(c) ==
    /\ c \in notice /\ MutexFree
    /\ notice' = notice \ {c}
    /\ conn' = "DISCONNECTED"
    /\ answers' = [r \in Requests |-> IF CallBackFound(r) THEN WithAnswer(answers[r], "CRASH") ELSE answers[r]]
    /\ params' = {}
    /\ NotifyAll
    /\ UNCHANGED <<extra, cur, link, queue, remote, count>>

(***************************************************************************)
(* The tasks of the serial queue, one at a time.                           *)
(***************************************************************************)

\* A timeout starts: SendCallBack looks for the callback, and is done without.
TimeOut(r) ==
    /\ running = "none" /\ Armed(timer[r])
    /\ \E t \in Fired(timer[r]) : timer' = [timer EXCEPT ![r] = t]
    /\ running' = IF CallBackFound(r) THEN r ELSE "none"
    /\ UNCHANGED <<pc, map, state, closer, remote, count>>
TimeOutAnswer(r) ==
    /\ running = r
    /\ running' = "none"
    /\ SendCallBack(r, "TIMEOUT")
    /\ UNCHANGED <<pc, state, timer, remote, count>>

\* DisconnectAbility: from its start on it cannot be cancelled.
StartDisconnect ==
    /\ running = "none" /\ Armed(closer)
    /\ closer' \in Fired(closer)
    /\ running' = "disconnect"
    /\ UNCHANGED <<pc, map, state, timer, remote, count>>
DisconnectAbility ==
    /\ running = "disconnect" /\ MutexFree
    /\ running' = "none"
    /\ link' = IF HasRemoteObject(cur) THEN [link EXCEPT ![cur].asked = TRUE] ELSE link
    /\ UNCHANGED <<pc, map, conn, cur, notice, timer, closer, remote, count>>

(***************************************************************************)
(* The service center, and the handlers of its calls.  It makes one call   *)
(* about a request at a time, under the function code of the request: a    *)
(* check or a preload is acknowledged, an installation gets results.       *)
(***************************************************************************)

Busy(r) == center[r].st = "has" /\ call[r].st = "none"
Installs(r) == Busy(r) /\ HasCallback(r)

\* OnServiceCenterCall: an unknown request is ignored; the timeout is cancelled.
OnServiceCenterCall(r, next) ==
    /\ call' = IF r \in params THEN [call EXCEPT ![r] = next] ELSE call
    /\ timer' = IF r \in params THEN [timer EXCEPT ![r] = Cancel(@)] ELSE timer
    /\ UNCHANGED <<pc, map, state, closer, running>>

DownloadingAnswers(r) ==
    /\ Installs(r)
    /\ center' = [center EXCEPT ![r].loading = TRUE]
    /\ OnServiceCenterCall(r, [st |-> "fetched", code |-> "DOWNLOADING"])
    /\ UNCHANGED count

\* A report of progress only cancels the timeout.
Downloading(r) ==
    /\ Installs(r)
    /\ center' = [center EXCEPT ![r].loading = TRUE]
    /\ OnServiceCenterCall(r, NoCall)
    /\ UNCHANGED count

\* A result: SendCallBack follows.
Finish(r, code) ==
    /\ Installs(r)
    /\ center' = [center EXCEPT ![r].st = "over"]
    /\ OnServiceCenterCall(r, [st |-> "fetched", code |-> IF Kind[r] = "UPGRADE" THEN "OK" ELSE code])
    /\ UNCHANGED count
Answer(r) ==
    /\ call[r].st = "fetched"
    /\ call' = [call EXCEPT ![r] = NoCall]
    /\ SendCallBack(r, call[r].code)
    /\ UNCHANGED <<pc, state, timer, running, center, count>>

\* OnDelayedHeartbeat cancels the timeout and sets it anew.
Heartbeat(r) ==
    /\ Installs(r) /\ count.beats < MaxBeats
    /\ count' = [count EXCEPT !.beats = @ + 1]
    /\ OnServiceCenterCall(r, [st |-> "beat", code |-> "OK"])
    /\ UNCHANGED center
BeatMonitor(r) ==
    /\ call[r].st = "beat"
    /\ call' = [call EXCEPT ![r] = NoCall]
    /\ OutTimeMonitor(r)
    /\ UNCHANGED <<pc, map, state, closer, running, center, count>>

\* OnServiceCenterReceived: only requests without a callback end with it.
Received(r) ==
    /\ Busy(r) /\ Kind[r] \in {"CHECK", "PRELOAD"}
    /\ center' = [center EXCEPT ![r].st = "over"]
    /\ IF r \in params THEN Erase(r) ELSE UNCHANGED <<params, closer>>
    /\ UNCHANGED <<pc, answers, extra, state, timer, running, call, count>>

\* The service center dies, with its connections and what it was doing.
Die ==
    LET hit == {c \in Requests : HasRemoteObject(c) /\ ~link[c].dead} IN
    /\ hit # {} \/ \E r \in Requests : center[r].st = "has"
    /\ Fault("die")
    /\ link' = [c \in Requests |-> [link[c] EXCEPT !.dead = @ \/ c \in hit]]
    /\ notice' = notice \union hit
    /\ center' = [r \in Requests |-> [center[r] EXCEPT !.st = IF @ = "has" THEN "lost" ELSE @]]
    /\ UNCHANGED <<pc, map, conn, cur, queue, call>>

Thread(r) ==
    Connect(r) \/ Park(r) \/ Wake(r) \/ Emplace(r) \/ Send(r) \/ Monitor(r) \/ FailLocally(r)
Callback(c) == ConnectDone(c) \/ DisconnectDone(c) \/ UpdateConnectState(c) \/ OnRemoteDied(c)
Queue(r) == TimeOut(r) \/ TimeOutAnswer(r)
Closing == StartDisconnect \/ DisconnectAbility
Handler(r) == Answer(r) \/ BeatMonitor(r)
Finishes(r) == \E code \in {"OK", "FAILED"} : Finish(r, code)
Reports(r) == Downloading(r) \/ Heartbeat(r) \/ Received(r) \/ Finishes(r)

Next ==
    \/ \E r \in Requests :
         Submit(r) \/ Thread(r) \/ Callback(r) \/ Queue(r) \/ Handler(r) \/ Reports(r)
    \/ Closing
    \/ Die

\* Threads run, the ability manager calls back, tasks run when they are due,
\* and a service center that reports a download reports its end.
Fairness ==
    /\ \A r \in Requests :
        /\ WF_vars(Thread(r)) /\ WF_vars(Callback(r)) /\ WF_vars(Handler(r)) /\ WF_vars(Queue(r))
        /\ WF_vars(center[r].loading /\ Finishes(r))
    /\ WF_vars(Closing)

Spec == Init /\ [][Next]_vars /\ Fairness

-----------------------------------------------------------------------------

Places == {"absent", "idle", "connect", "deciding", "parked", "woken", "send", "emplaced", "sent", "done"}
Codes == {"OK", "FAILED", "CONNECT_ERROR", "CRASH", "TIMEOUT", "UNDEFINED"}
LinkStates == {"none", "connecting", "assigned", "failed", "up", "released", "gone"}
Link == [st : LinkStates, asked : BOOLEAN, dead : BOOLEAN]
Task == [held : BOOLEAN, loose : Nat]
Work == [st : {"none", "has", "over", "lost"}, loading : BOOLEAN]
Call == [st : {"none", "fetched", "beat"}, code : Codes]
Answers == [n : Nat, last : Codes]
Counts == [faults : 0..MaxFaults, beats : 0..MaxBeats]

\* The type of every variable.
TypeOK ==
    /\ pc \in [Requests -> Places]
    /\ params \subseteq Requests /\ notice \subseteq Requests
    /\ conn \in {"CONNECTED", "CONNECTING", "DISCONNECTED"}
    /\ cur \in Requests \union {"none"}
    /\ link \in [Requests -> Link]
    /\ timer \in [Requests -> Task] /\ closer \in Task
    /\ running \in Requests \union {"none", "disconnect"}
    /\ center \in [Requests -> Work] /\ call \in [Requests -> Call]
    /\ answers \in [Requests -> Answers] /\ extra \in [Requests -> Nat]
    /\ count \in Counts

\* A callback is called once.  Every further answer comes from a SendCallBack
\* that had found the callback when another one, or the notice of a death,
\* removed the entry, or follows a query without a bundle name.
AnsweredOnce == \A r \in Requests : answers[r].n <= 1 + extra[r]

\* The caller of an upgrade is not told of a failed or late installation, as
\* the log of SendCallBack has it (freeinstall upgrade return ok): only a
\* SendCallBack whose entry is gone forgets what kind of request it was.
UpgradeHidesFailure ==
    \A r \in Requests : Kind[r] = "UPGRADE" =>
        answers[r].last # "FAILED" /\ (answers[r].last = "TIMEOUT" => extra[r] > 0)

\* Nobody is left to answer the request: the service center has died with it,
\* no death notice is to come, no timeout is set and no handler is at work.
Unwatched(r) ==
    /\ r \in params /\ pc[r] = "done" /\ center[r].st = "lost"
    /\ notice = {} /\ call[r].st = "none" /\ ~Armed(timer[r]) /\ running # r

\* Through every order of request, answer, heartbeat, timeout, death and
\* disconnection, an installation is left unwatched only after its service
\* center had reported a download, which cancels the timeout for good.
UnwatchedOnlyLoading == \A r \in Requests : Unwatched(r) /\ HasCallback(r) => center[r].loading

\* No wakeup is lost: a thread waits on cv_ only while the connection is being
\* made.  The comment of ServiceCenterConnection's UpdateConnectState fears for
\* this one: it changes connectState_ and notifies under mutex_.
NoLostWakeup == \A r \in Requests : pc[r] = "parked" => conn = "CONNECTING"

\* Every request comes to its end: its thread leaves ConnectAbility, whatever
\* the connection does meanwhile, and an installation's callback is called
\* unless it is left unwatched.
EveryRequestAnswered ==
    []<>(\A r \in Requests :
            \/ pc[r] \in {"absent", "idle"}
            \/ pc[r] = "done" /\ (HasCallback(r) => answers[r].n > 0 \/ Unwatched(r)))

\* While nothing goes wrong, and checks and preloads are acknowledged, the
\* connection is given up after the last request: the delayed disconnection
\* that a new request cancels is set again when that request is answered.
ConnectionReleased ==
    []<>(\/ \A c \in Requests : ~HasRemoteObject(c)
         \/ count.faults > 0
         \/ \E r \in params : ~HasCallback(r))
=============================================================================
