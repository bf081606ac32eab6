-------------------------------- MODULE Jobs --------------------------------
(***************************************************************************)
(* The job system of the portal: the jobs table, the background tasks that *)
(* run a job (one asyncio task per job, no queue, no worker process), the  *)
(* registry of running packer processes, the cancel endpoint, the log      *)
(* followers, the webhook and the deletion of a packer template.           *)
(*                                                                         *)
(* An action is a stretch of code between two awaits.  The database and    *)
(* the log files survive a restart of the portal, everything else is the   *)
(* memory of one process.  Every UPDATE of jobs.status in the runners and  *)
(* in cancel_job is unconditional, and is modelled so.                     *)
(***************************************************************************)
EXTENDS Integers, FiniteSets

CONSTANTS
  Job,            \* job ids
  Kinds,          \* the endpoints used: which runners the jobs may have
  Callback,       \* jobs created with a callback_url
  TokenMissing,   \* jobs whose node has no service-account token
  Canceller,      \* concurrent POST /jobs/{id}/cancel handlers
  Follower,       \* concurrent log websockets
  None,           \* no job
  MaxLines,       \* bound: lines a run writes into its log
  MaxPolls,       \* _MAX_POLLS of the pollers; for iso a bound of the model
  MaxRestarts,    \* bound: restarts of the portal
  Attempts,       \* tries of a webhook: [0] + _RETRY_DELAYS
  TemplateDeletes \* bound: DELETE requests for the packer template

Local  == {"ansible", "guest", "packer"}   \* run a process, send a webhook
Remote == {"lifecycle", "ha", "iso"}       \* poll Proxmox

ASSUME JobsAssumption ==
  /\ Kinds \subseteq Local \union Remote
  /\ Callback \subseteq Job
  /\ TokenMissing \subseteq Job
  /\ None \notin Job
  /\ MaxLines \in Nat /\ MaxRestarts \in Nat /\ TemplateDeletes \in Nat
  /\ MaxPolls \in Nat \ {0}
  /\ Attempts \in Nat \ {0}

VARIABLES
  kind,      \* jobs.type: the runner of the job
  status,    \* jobs.status
  task,      \* the background task of each job
  work,      \* what the task waits for: a subprocess or a Proxmox task
  registry,  \* packer_runner_service._running
  log,       \* lines in the job's log file
  hooked,    \* jobs whose success hooks (owner entry) have run
  hook,      \* dispatch_webhook of each job
  told,      \* statuses received by the job's callback
  cancel,    \* cancel_job handlers
  done,      \* jobs a cancel was answered for: {"detail": "Job cancelled"}
  follow,    \* job_logs_ws handlers
  template,  \* the packer template exists on disk
  deletes,   \* DELETE handlers: "check" passed or not, and how many are left
  restarts

vars == <<kind, status, task, work, registry, log, hooked, hook, told, cancel,
          done, follow, template, deletes, restarts>>

Final == {"success", "failed"}
Ended == {"ok", "bad"}

Pcs == {"none", "insert", "check", "created", "prepare", "errlog", "spawned",
        "exec", "look", "poll", "wrap", "report", "hooks", "notify", "dead"}

NoTask == [pc |-> "none", ok |-> FALSE, polls |-> 0]

Init ==
  /\ kind \in [Job -> Kinds]
  /\ status = [j \in Job |-> "none"]
  /\ task = [j \in Job |-> NoTask]
  /\ work = [j \in Job |-> "none"]
  /\ registry = {}
  /\ log = [j \in Job |-> 0]
  /\ hooked = {}
  /\ hook = [j \in Job |-> [pc |-> "none", attempt |-> 0]]
  /\ told = [j \in Job |-> {}]
  /\ cancel = [c \in Canceller |-> [pc |-> "idle", job |-> None]]
  /\ done = {}
  /\ follow = [f \in Follower |->
                 [pc |-> "idle", job |-> None, seen |-> "none", pos |-> 0]]
  /\ template = TRUE
  /\ deletes = [pc |-> "idle", left |-> TemplateDeletes]
  /\ restarts = 0

outside == <<kind, cancel, done, follow, template, deletes, restarts>>

At(j, pc) == task[j].pc = pc
Goto(j, pc) == task' = [task EXCEPT ![j].pc = pc]
Outcome(j, ok, pc) == task' = [task EXCEPT ![j].pc = pc, ![j].ok = ok]
Write(j, n) == log' = [log EXCEPT ![j] = @ + n]
Update(j, s) == status' = [status EXCEPT ![j] = s]

-----------------------------------------------------------------------------
(* Creation: INSERT ... 'pending', then asyncio.create_task.               *)

Running(j) == kind[j] = "packer" /\ status[j] = "running"

\* A packer build needs its template (404 otherwise) and is refused while
\* another build of it is 'running' (409).
BuildCheck(j) ==
  /\ At(j, "none")
  /\ kind[j] = "packer"
  /\ template
  /\ ~ \E k \in Job : Running(k)
  /\ Goto(j, "insert")
  /\ UNCHANGED <<status, work, registry, log, hooked, hook, told, outside>>

\* A guest run is checked for permission only after its row is inserted.
CreateJob(j) ==
  /\ At(j, IF kind[j] = "packer" THEN "insert" ELSE "none")
  /\ Update(j, "pending")
  /\ Goto(j, IF kind[j] = "guest" THEN "check" ELSE "created")
  /\ UNCHANGED <<work, registry, log, hooked, hook, told, outside>>

GuestCheck(j) ==
  /\ At(j, "check")
  /\ \E pc \in {"created", "dead"} : Goto(j, pc)
  /\ UNCHANGED <<status, work, registry, log, hooked, hook, told, outside>>

-----------------------------------------------------------------------------
(* The runners.                                                            *)

\* UPDATE status='running'; _LogFile and iso start a fresh log.
Start(j) ==
  /\ At(j, "created")
  /\ Update(j, "running")
  /\ IF kind[j] \in Remote THEN log' = [log EXCEPT ![j] = 1] ELSE UNCHANGED log
  /\ Goto(j, "prepare")
  /\ UNCHANGED <<work, registry, hooked, hook, told, outside>>

NeedsToken(j) == kind[j] \in {"ansible", "packer"}

\* "No valid token -> fail early": the row first, the log line afterwards.
NoToken(j) ==
  /\ At(j, "prepare")
  /\ NeedsToken(j) /\ j \in TokenMissing
  /\ Update(j, "failed")
  /\ Goto(j, "errlog")
  /\ UNCHANGED <<work, registry, log, hooked, hook, told, outside>>

NoTokenLog(j) ==
  /\ At(j, "errlog")
  /\ log' = [log EXCEPT ![j] = 1]
  /\ Goto(j, "dead")
  /\ UNCHANGED <<status, work, registry, hooked, hook, told, outside>>

Ready(j) == At(j, "prepare") /\ ~(NeedsToken(j) /\ j \in TokenMissing)

\* Mutant: the row before the log line, as on the token path.
PrepareFailsEarly(j) ==
  /\ Ready(j)
  /\ kind[j] # "iso"
  /\ Update(j, "failed")
  /\ Goto(j, "errlog")
  /\ UNCHANGED <<work, registry, log, hooked, hook, told, outside>>

\* An inventory error, a missing playbook or definition file, a refused or
\* failed Proxmox call: logged, and the job fails.
PrepareFails(j) ==
  /\ Ready(j)
  /\ kind[j] # "iso"
  /\ Write(j, 1)
  /\ Outcome(j, FALSE, IF kind[j] \in Remote THEN "wrap" ELSE "report")
  /\ UNCHANGED <<status, work, registry, hooked, hook, told, outside>>

\* The subprocess or the Proxmox task starts.
Launch(j) ==
  /\ Ready(j)
  /\ kind[j] = "packer" => template
  /\ work' = [work EXCEPT ![j] = "busy"]
  /\ Goto(j, CASE kind[j] = "packer" -> "spawned"
               [] kind[j] \in {"ansible", "guest"} -> "exec"
               [] kind[j] \in {"lifecycle", "ha"} -> "look"
               [] kind[j] = "iso" -> "poll")
  /\ UNCHANGED <<status, registry, log, hooked, hook, told, outside>>

\* A conversion may answer without a task id: done already.
LaunchSync(j) ==
  /\ Ready(j)
  /\ kind[j] = "lifecycle"
  /\ work' = [work EXCEPT ![j] = "ok"]
  /\ Outcome(j, TRUE, "wrap")
  /\ UNCHANGED <<status, registry, log, hooked, hook, told, outside>>

\* _running[job_id] = process, in the worker thread, after Popen returned.
Register(j) ==
  /\ At(j, "spawned")
  /\ registry' = registry \union {j}
  /\ Goto(j, "exec")
  /\ UNCHANGED <<status, work, log, hooked, hook, told, outside>>

\* Output of the process, flushed line by line.
Output(j) ==
  /\ At(j, "exec")
  /\ work[j] \in {"busy", "dying"}
  /\ log[j] < MaxLines
  /\ Write(j, 1)
  /\ UNCHANGED <<status, task, work, registry, hooked, hook, told, outside>>

\* The process or the Proxmox task ends; a terminated process ends badly.
WorkEnds(j) ==
  /\ \/ work[j] = "busy" /\ \E r \in Ended : work' = [work EXCEPT ![j] = r]
     \/ work[j] = "dying" /\ work' = [work EXCEPT ![j] = "bad"]
  /\ UNCHANGED <<status, task, registry, log, hooked, hook, told, outside>>

\* Mutant: the finished process stays in _running.
ExecReturnsKept(j) ==
  /\ At(j, "exec")
  /\ work[j] \in Ended
  /\ Outcome(j, work[j] = "ok", "report")
  /\ UNCHANGED <<status, work, registry, log, hooked, hook, told, outside>>

\* process.wait() returned; both pops of _running.
ExecReturns(j) ==
  /\ At(j, "exec")
  /\ work[j] \in Ended
  /\ registry' = registry \ {j}
  /\ Outcome(j, work[j] = "ok", "report")
  /\ UNCHANGED <<status, work, log, hooked, hook, told, outside>>

\* _job_cancelled, at the head of each round of _tail_task and
\* _poll_until_arrived.
LookCancelled(j) ==
  /\ At(j, "look")
  /\ IF status[j] = "failed"
       THEN Write(j, 1) /\ Outcome(j, FALSE, "wrap")
       ELSE Goto(j, "poll") /\ UNCHANGED log
  /\ UNCHANGED <<status, work, registry, hooked, hook, told, outside>>

NextRound(j) == IF kind[j] = "iso" THEN "poll" ELSE "look"
AfterPoll(j) == IF kind[j] = "iso" THEN "report" ELSE "wrap"

\* A poll that finds the task ended: its last lines, then the outcome.
PollEnds(j) ==
  /\ At(j, "poll")
  /\ work[j] \in Ended
  /\ Write(j, 1)
  /\ Outcome(j, work[j] = "ok", AfterPoll(j))
  /\ UNCHANGED <<status, work, registry, hooked, hook, told, outside>>

\* Mutant: a round that failed is not counted.
PollAgainUncounted(j) ==
  /\ At(j, "poll")
  /\ Goto(j, NextRound(j))
  /\ UNCHANGED <<status, work, registry, log, hooked, hook, told, outside>>

\* A poll that finds it running, or a tolerated status error, and rounds are
\* left.
PollAgain(j) ==
  /\ At(j, "poll")
  /\ work[j] = "busy" \/ kind[j] # "iso"
  /\ task[j].polls + 1 < MaxPolls
  /\ Write(j, 1)
  /\ task' = [task EXCEPT ![j].pc = NextRound(j), ![j].polls = @ + 1]
  /\ UNCHANGED <<status, work, registry, hooked, hook, told, outside>>

\* Mutant: a task that outlives the polls counts as done.
PollTimeoutTrusting(j) ==
  /\ At(j, "poll")
  /\ kind[j] # "iso"
  /\ task[j].polls + 1 = MaxPolls
  /\ Write(j, 1)
  /\ Outcome(j, TRUE, "wrap")
  /\ UNCHANGED <<status, work, registry, hooked, hook, told, outside>>

\* The last round ends without an answer.  The iso runner never gives up.
PollTimeout(j) ==
  /\ At(j, "poll")
  /\ kind[j] # "iso"
  /\ task[j].polls + 1 = MaxPolls
  /\ Write(j, 1)
  /\ Outcome(j, FALSE, "wrap")
  /\ UNCHANGED <<status, work, registry, hooked, hook, told, outside>>

\* An error of the poll that is not tolerated ends the job, whatever the
\* Proxmox task does later.
PollFails(j) ==
  /\ At(j, "poll")
  /\ kind[j] \in {"lifecycle", "iso"}
  /\ Write(j, 1)
  /\ Outcome(j, FALSE, AfterPoll(j))
  /\ UNCHANGED <<status, work, registry, hooked, hook, told, outside>>

\* The owner hooks of a lifecycle job and its last log line, before the row
\* says how it ended.
Wrap(j) ==
  /\ At(j, "wrap")
  /\ Write(j, 1)
  /\ hooked' = IF kind[j] = "lifecycle" /\ task[j].ok
                 THEN hooked \union {j} ELSE hooked
  /\ Goto(j, "report")
  /\ UNCHANGED <<status, work, registry, hook, told, outside>>

\* UPDATE jobs SET status=... WHERE id=..., whatever the row says.
Report(j) ==
  /\ At(j, "report")
  /\ Update(j, IF task[j].ok THEN "success" ELSE "failed")
  /\ Goto(j, IF kind[j] \in Remote THEN "dead"
             ELSE IF kind[j] = "ansible" /\ task[j].ok THEN "hooks"
             ELSE "notify")
  /\ UNCHANGED <<work, registry, log, hooked, hook, told, outside>>

\* Mutant: a hook that fails takes the success back.
HooksDemote(j) ==
  /\ At(j, "hooks")
  /\ Update(j, "failed")
  /\ Goto(j, "notify")
  /\ UNCHANGED <<work, registry, log, hooked, hook, told, outside>>

\* on_deploy_success and its companions, after the row.
Hooks(j) ==
  /\ At(j, "hooks")
  /\ hooked' = hooked \union {j}
  /\ Goto(j, "notify")
  /\ UNCHANGED <<status, work, registry, log, hook, told, outside>>

\* asyncio.ensure_future(dispatch_webhook(...)) when a callback_url is set.
Notify(j) ==
  /\ At(j, "notify")
  /\ hook' = IF j \in Callback
               THEN [hook EXCEPT ![j] = [pc |-> "sending", attempt |-> 1]]
               ELSE hook
  /\ Goto(j, "dead")
  /\ UNCHANGED <<status, work, registry, log, hooked, told, outside>>

\* Mutant: the tries are not counted against the list of delays.
WebhookAttemptEndless(j) ==
  /\ hook[j].pc = "sending"
  /\ hook' = [hook EXCEPT ![j].attempt = @ + 1]
  /\ UNCHANGED <<status, task, work, registry, log, hooked, told, outside>>

\* One POST.  A request may arrive although its answer is lost, and is sent
\* again; a blocked address ends the tries at once.
WebhookAttempt(j) ==
  /\ hook[j].pc = "sending"
  /\ \E arrives \in BOOLEAN, next \in {"sent", "retry", "blocked"} :
       /\ next = "sent" => arrives
       /\ next = "blocked" => ~arrives
       /\ told' = IF arrives
                    THEN [told EXCEPT ![j] = @ \union
                            {IF task[j].ok THEN "success" ELSE "failed"}]
                    ELSE told
       /\ hook' = IF next = "retry" /\ hook[j].attempt < Attempts
                    THEN [hook EXCEPT ![j].attempt = @ + 1]
                    ELSE [hook EXCEPT ![j].pc = "over"]
  /\ UNCHANGED <<status, task, work, registry, log, hooked, outside>>

Runner(j) ==
  \/ GuestCheck(j) \/ Start(j) \/ NoToken(j) \/ NoTokenLog(j)
  \/ PrepareFails(j) \/ Launch(j) \/ LaunchSync(j) \/ Register(j)
  \/ ExecReturns(j) \/ LookCancelled(j) \/ PollEnds(j) \/ PollAgain(j)
  \/ PollTimeout(j) \/ PollFails(j) \/ Wrap(j) \/ Report(j)
  \/ Hooks(j) \/ Notify(j)

-----------------------------------------------------------------------------
(* POST /jobs/{id}/cancel.                                                 *)

inside == <<kind, task, log, hooked, hook, told, follow, template, deletes,
            restarts>>

\* SELECT; 409 unless the job is pending or running.
CancelSelect(c, j) ==
  /\ cancel[c].pc = "idle"
  /\ status[j] \in {"pending", "running"}
  /\ cancel' = [cancel EXCEPT ![c] = [pc |-> "terminate", job |-> j]]
  /\ UNCHANGED <<status, work, registry, done, inside>>

\* cancel_packer_job: only a registered process is terminated.
CancelTerminate(c) ==
  LET j == cancel[c].job IN
  /\ cancel[c].pc = "terminate"
  /\ registry' = registry \ {j}
  /\ work' = IF j \in registry /\ work[j] = "busy"
               THEN [work EXCEPT ![j] = "dying"] ELSE work
  /\ cancel' = [cancel EXCEPT ![c].pc = "update"]
  /\ UNCHANGED <<status, done, inside>>

\* UPDATE status='failed', unconditional, and the answer "Job cancelled".
CancelUpdate(c) ==
  /\ cancel[c].pc = "update"
  /\ Update(cancel[c].job, "failed")
  /\ done' = done \union {cancel[c].job}
  /\ cancel' = [cancel EXCEPT ![c] = [pc |-> "over", job |-> None]]
  /\ UNCHANGED <<work, registry, inside>>

-----------------------------------------------------------------------------
(* The log websocket: status first, then the new part of the log.          *)

beside == <<kind, status, task, work, registry, log, hooked, hook, told, cancel,
            done, template, deletes, restarts>>

FollowOpen(f, j) ==
  /\ follow[f].pc = "idle"
  /\ status[j] # "none"
  /\ follow' = [follow EXCEPT ![f].pc = "status", ![f].job = j]
  /\ UNCHANGED beside

FollowStatus(f) ==
  /\ follow[f].pc = "status"
  /\ follow' = [follow EXCEPT ![f].pc = "read",
                              ![f].seen = status[follow[f].job]]
  /\ UNCHANGED beside

FollowRead(f) ==
  /\ follow[f].pc = "read"
  /\ follow' = [follow EXCEPT
                  ![f].pos = log[follow[f].job],
                  ![f].pc = IF follow[f].seen \in Final THEN "closed"
                                                       ELSE "status"]
  /\ UNCHANGED beside

-----------------------------------------------------------------------------
(* DELETE of a packer template: 409 while a build is 'running'.            *)

around == <<kind, status, task, work, registry, log, hooked, hook, told, cancel,
            done, follow, restarts>>

DeleteCheck ==
  /\ deletes.pc = "idle" /\ deletes.left > 0
  /\ template
  /\ ~ \E j \in Job : Running(j)
  /\ deletes' = [pc |-> "remove", left |-> deletes.left - 1]
  /\ UNCHANGED <<template, around>>

DeleteRemove ==
  /\ deletes.pc = "remove"
  /\ template' = FALSE
  /\ deletes' = [deletes EXCEPT !.pc = "idle"]
  /\ UNCHANGED around

-----------------------------------------------------------------------------
(* A restart of the portal: lifespan() recovers no job.                    *)

Restart ==
  /\ restarts < MaxRestarts
  /\ restarts' = restarts + 1
  /\ task' = [j \in Job |-> IF task[j].pc = "none" THEN task[j]
                            ELSE [task[j] EXCEPT !.pc = "dead"]]
  /\ work' = [j \in Job |-> IF kind[j] \in Local /\ work[j] \in {"busy", "dying"}
                            THEN "bad" ELSE work[j]]
  /\ registry' = {}
  /\ hook' = [j \in Job |-> IF hook[j].pc = "sending"
                            THEN [hook[j] EXCEPT !.pc = "over"] ELSE hook[j]]
  /\ cancel' = [c \in Canceller |-> IF cancel[c].pc \in {"idle", "over"}
                   THEN cancel[c] ELSE [pc |-> "over", job |-> None]]
  /\ follow' = [f \in Follower |-> IF follow[f].pc \in {"idle", "closed"}
                   THEN follow[f] ELSE [follow[f] EXCEPT !.pc = "lost"]]
  /\ deletes' = [deletes EXCEPT !.pc = "idle"]
  /\ UNCHANGED <<kind, status, log, hooked, told, done, template>>

Next ==
  \/ \E j \in Job : BuildCheck(j) \/ CreateJob(j) \/ Runner(j) \/ Output(j)
                     \/ WorkEnds(j) \/ WebhookAttempt(j)
  \/ \E c \in Canceller, j \in Job : CancelSelect(c, j)
  \/ \E c \in Canceller : CancelTerminate(c) \/ CancelUpdate(c)
  \/ \E f \in Follower, j \in Job : FollowOpen(f, j)
  \/ \E f \in Follower : FollowStatus(f) \/ FollowRead(f)
  \/ DeleteCheck \/ DeleteRemove
  \/ Restart

Spec == Init /\ [][Next]_vars

(* The event loop runs every ready task, the worker threads run, and a     *)
(* subprocess or a Proxmox task ends some day.  Nobody is bound to create  *)
(* or to cancel a job, but a handler that began is carried on.             *)
Fairness ==
  /\ \A j \in Job : WF_vars(Runner(j)) /\ WF_vars(WorkEnds(j))
                     /\ WF_vars(WebhookAttempt(j))
  /\ \A c \in Canceller : WF_vars(CancelTerminate(c) \/ CancelUpdate(c))

FairSpec == Spec /\ Fairness

-----------------------------------------------------------------------------
(* Properties.                                                             *)

\* The types of the variables: the columns and the values the runners write
\* into them.
TypeOK ==
  /\ kind \in [Job -> Kinds]
  /\ status \in [Job -> {"none", "pending", "running"} \union Final]
  /\ task \in [Job -> [pc : Pcs, ok : BOOLEAN, polls : 0 .. MaxPolls - 1]]
  /\ work \in [Job -> {"none", "busy", "dying"} \union Ended]
  /\ registry \subseteq Job
  /\ log \in [Job -> Nat]
  /\ hooked \subseteq Job
  /\ hook \in [Job -> [pc : {"none", "sending", "over"}, attempt : 0 .. Attempts]]
  /\ told \in [Job -> SUBSET Final]
  /\ cancel \in [Canceller -> [pc : {"idle", "terminate", "update", "over"},
                               job : Job \union {None}]]
  /\ done \subseteq Job
  /\ follow \in [Follower -> [pc : {"idle", "status", "read", "closed", "lost"},
                              job : Job \union {None},
                              seen : {"none", "pending", "running"} \union Final,
                              pos : Nat]]
  /\ template \in BOOLEAN
  /\ deletes \in [pc : {"idle", "remove"}, left : 0 .. TemplateDeletes]
  /\ restarts \in 0 .. MaxRestarts

\* The portal claims a success, and runs the owner hooks of one, only for
\* work that Proxmox, packer or ansible really finished well: whatever
\* cancels, poll errors, timeouts and restarts come in between.
SuccessIsReal ==
  \A j \in Job : status[j] = "success" \/ j \in hooked \/ "success" \in told[j]
                 => work[j] = "ok"

\* _running holds only processes whose worker thread still waits for them: a
\* later cancel can never terminate a process that is not the job's.
RegistryIsLive == \A j \in registry : kind[j] = "packer" /\ At(j, "exec")

\* A websocket that closed with "[status] ..." has sent every line of the
\* log, for a job that was neither cancelled nor refused for want of a
\* token: the runners write the last line before the row, and job_logs_ws
\* reads the row before the log.
FollowerSawWholeLog ==
  \A f \in Follower : follow[f].pc = "closed" =>
     \/ follow[f].job \in done \union TokenMissing
     \/ follow[f].pos = log[follow[f].job]

\* The life of a job as its clients see it, without cancels.
Lifecycle == INSTANCE JobLifecycle
               WITH Job <- Job, status <- status, told <- told
ImplementsLifecycle == Lifecycle!ASpec

\* A dispatched job comes to an end and stays there, unless the portal is
\* restarted meanwhile: pollers give up, processes end.
EveryJobFinishes ==
  \A j \in Job : At(j, "created") /\ restarts = MaxRestarts
                   ~> [](status[j] \in Final)

\* cancel_job answered "Job cancelled": the job neither runs nor succeeds
\* from then on.
CancelSticks == [][\A j \in done : status[j] = "failed" => status'[j] = "failed"]_vars
=============================================================================
