----------------------------- MODULE Jobs_proofs -----------------------------
(***************************************************************************)
(* Theorems about Jobs, for any jobs, cancel handlers and followers: the    *)
(* type invariant, the packer registry, that success is claimed only for    *)
(* work that ended well, that a log follower which closed has sent the      *)
(* whole log, and, where nobody cancels, that the job table and the         *)
(* webhooks implement JobLifecycle.                                         *)
(***************************************************************************)
EXTENDS Jobs, TLAPS

(* The places before the work starts, and those after the last log line.    *)
Early   == {"none", "insert", "check", "created", "prepare"}
Settled == {"hooks", "notify", "dead"}

(* A handler past its SELECT knows its job.                                 *)
HandlersKnowJob ==
  /\ \A c \in Canceller :
       cancel[c].pc \in {"terminate", "update"} => cancel[c].job \in Job
  /\ \A f \in Follower :
       follow[f].pc \in {"status", "read", "closed"} => follow[f].job \in Job

(* Only a packer build waits between Popen and its registration.            *)
SpawnedIsPacker == \A j \in Job : At(j, "spawned") => kind[j] = "packer"

(* A task that believes in success has seen its work end well: nothing has  *)
(* begun at the early places, and the hooks are reached by success only.    *)
OkIsReal ==
  \A j \in Job : /\ task[j].ok => work[j] = "ok"
                 /\ task[j].pc \in Early => ~task[j].ok /\ work[j] = "none"
                 /\ At(j, "hooks") => task[j].ok

(* Whoever is not cancelled and has a token is final only once the runner   *)
(* has written its last line.                                               *)
Excused(j) == j \in done \union TokenMissing
FinalIsSettled ==
  \A j \in Job : status[j] \in Final => Excused(j) \/ task[j].pc \in Settled

(* What a follower has seen final stays settled, and so does what it sent.  *)
FollowerKnows ==
  \A f \in Follower :
    /\ follow[f].pc = "read" /\ follow[f].seen \in Final
         => \/ Excused(follow[f].job)
            \/ task[follow[f].job].pc \in Settled
    /\ follow[f].pc = "closed"
         => \/ Excused(follow[f].job)
            \/ /\ task[follow[f].job].pc \in Settled
               /\ follow[f].pos = log[follow[f].job]

-----------------------------------------------------------------------------
(* Types.  One name per variable, so that a step only has to look at the    *)
(* variables it changes.                                                    *)

Statuses     == {"none", "pending", "running"} \union Final
TaskRecord   == [pc : Pcs, ok : BOOLEAN, polls : 0 .. MaxPolls - 1]
TaskType     == [Job -> TaskRecord]
StatusType   == [Job -> Statuses]
WorkType     == [Job -> {"none", "busy", "dying"} \union Ended]
LogType      == [Job -> Nat]
HookRecord   == [pc : {"none", "sending", "over"}, attempt : 0 .. Attempts]
HookType     == [Job -> HookRecord]
ToldType     == [Job -> SUBSET Final]
CancelRecord == [pc : {"idle", "terminate", "update", "over"},
                 job : Job \union {None}]
CancelType   == [Canceller -> CancelRecord]
FollowRecord == [pc : {"idle", "status", "read", "closed", "lost"},
                 job : Job \union {None}, seen : Statuses, pos : Nat]
FollowType   == [Follower -> FollowRecord]
DeletesType  == [pc : {"idle", "remove"}, left : 0 .. TemplateDeletes]

Typed ==
  /\ kind \in [Job -> Kinds] /\ status \in StatusType /\ task \in TaskType
  /\ work \in WorkType /\ registry \in SUBSET Job /\ log \in LogType
  /\ hooked \in SUBSET Job /\ hook \in HookType /\ told \in ToldType
  /\ cancel \in CancelType /\ done \in SUBSET Job /\ follow \in FollowType
  /\ template \in BOOLEAN /\ deletes \in DeletesType
  /\ restarts \in 0 .. MaxRestarts

TypeInv == Typed /\ HandlersKnowJob

LEMMA TypedIsTypeOK == Typed => TypeOK
  BY DEF Typed, TypeOK, TaskType, TaskRecord, StatusType, Statuses, WorkType,
         LogType, HookType, HookRecord, ToldType, CancelType, CancelRecord,
         FollowType, FollowRecord, DeletesType

LEMMA TypeInit == Init => TypeInv
  <1> SUFFICES ASSUME Init PROVE TypeInv
    OBVIOUS
  <1>1. task \in TaskType
    BY JobsAssumption DEF Init, TaskType, TaskRecord, NoTask, Pcs
  <1>2. /\ status \in StatusType /\ work \in WorkType /\ log \in LogType
        /\ told \in ToldType /\ registry \in SUBSET Job
        /\ hooked \in SUBSET Job /\ done \in SUBSET Job
        /\ template \in BOOLEAN /\ kind \in [Job -> Kinds]
    BY DEF Init, StatusType, Statuses, WorkType, LogType, ToldType
  <1>3. hook \in HookType
    BY JobsAssumption DEF Init, HookType, HookRecord
  <1>4. cancel \in CancelType /\ follow \in FollowType
    BY DEF Init, CancelType, CancelRecord, FollowType, FollowRecord, Statuses
  <1>5. deletes \in DeletesType /\ restarts \in 0 .. MaxRestarts
    BY JobsAssumption DEF Init, DeletesType
  <1>6. HandlersKnowJob
    BY DEF Init, HandlersKnowJob
  <1>7. QED
    BY <1>1, <1>2, <1>3, <1>4, <1>5, <1>6 DEF TypeInv, Typed

LEMMA GotoType ==
  ASSUME NEW t \in TaskType, NEW j \in Job, NEW pc \in Pcs
  PROVE  [t EXCEPT ![j].pc = pc] \in TaskType
  BY DEF TaskType, TaskRecord

LEMMA OutcomeType ==
  ASSUME NEW t \in TaskType, NEW j \in Job, NEW pc \in Pcs, NEW ok \in BOOLEAN
  PROVE  [t EXCEPT ![j].pc = pc, ![j].ok = ok] \in TaskType
  BY DEF TaskType, TaskRecord

LEMMA UpdateType ==
  ASSUME NEW s \in StatusType, NEW j \in Job, NEW x \in Statuses
  PROVE  [s EXCEPT ![j] = x] \in StatusType
  BY DEF StatusType

LEMMA WriteType ==
  ASSUME NEW l \in LogType, NEW j \in Job
  PROVE  [l EXCEPT ![j] = @ + 1] \in LogType /\ [l EXCEPT ![j] = 1] \in LogType
  BY DEF LogType

LEMMA TypeNext ==
  ASSUME TypeInv, [Next]_vars
  PROVE  TypeInv'
  <1> USE DEF TypeInv
  <1>1. CASE UNCHANGED vars
    BY <1>1 DEF vars, Typed, HandlersKnowJob
  <1>2. ASSUME NEW j \in Job,
               BuildCheck(j) \/ CreateJob(j) \/ Runner(j) \/ Output(j)
                 \/ WorkEnds(j) \/ WebhookAttempt(j)
        PROVE  TypeInv'
    <2>1. CASE BuildCheck(j)
      <3>1. task' \in TaskType
        BY <2>1, GotoType DEF BuildCheck, Typed, Goto, Pcs
      <3>2. QED
        BY <2>1, <3>1 DEF BuildCheck, Typed, outside, HandlersKnowJob
    <2>2. CASE CreateJob(j)
      <3>1. task' \in TaskType
        BY <2>2, GotoType DEF CreateJob, Typed, Goto, Pcs
      <3>2. status' \in StatusType
        BY <2>2, UpdateType DEF CreateJob, Typed, Update, Statuses, Final
      <3>3. QED
        BY <2>2, <3>1, <3>2 DEF CreateJob, Typed, outside, HandlersKnowJob
    <2>3. CASE GuestCheck(j)
      <3>1. task' \in TaskType
        <4>1. PICK pc \in {"created", "dead"} : Goto(j, pc)
          BY <2>3 DEF GuestCheck
        <4>2. QED
          BY <4>1, GotoType DEF Typed, Goto, Pcs
      <3>2. QED
        BY <2>3, <3>1 DEF GuestCheck, Typed, outside, HandlersKnowJob
    <2>4. CASE Start(j)
      <3>1. task' \in TaskType
        BY <2>4, GotoType DEF Start, Typed, Goto, Pcs
      <3>2. status' \in StatusType
        BY <2>4, UpdateType DEF Start, Typed, Update, Statuses, Final
      <3>3. log' \in LogType
        BY <2>4, WriteType DEF Start, Typed
      <3>4. QED
        BY <2>4, <3>1, <3>2, <3>3 DEF Start, Typed, outside,
           HandlersKnowJob
    <2>5. CASE NoToken(j)
      <3>1. task' \in TaskType
        BY <2>5, GotoType DEF NoToken, Typed, Goto, Pcs
      <3>2. status' \in StatusType
        BY <2>5, UpdateType DEF NoToken, Typed, Update, Statuses, Final
      <3>3. QED
        BY <2>5, <3>1, <3>2 DEF NoToken, Typed, outside, HandlersKnowJob
    <2>6. CASE NoTokenLog(j)
      <3>1. task' \in TaskType
        BY <2>6, GotoType DEF NoTokenLog, Typed, Goto, Pcs
      <3>2. log' \in LogType
        BY <2>6, WriteType DEF NoTokenLog, Typed
      <3>3. QED
        BY <2>6, <3>1, <3>2 DEF NoTokenLog, Typed, outside, HandlersKnowJob
    <2>7. CASE PrepareFails(j)
      <3>1. task' \in TaskType
        BY <2>7, OutcomeType DEF PrepareFails, Typed, Outcome, Pcs
      <3>2. log' \in LogType
        BY <2>7, WriteType DEF PrepareFails, Typed, Write
      <3>3. QED
        BY <2>7, <3>1, <3>2 DEF PrepareFails, Typed, outside,
           HandlersKnowJob
    <2>8. CASE Launch(j)
      <3>1. task' \in TaskType
        <4>1. kind[j] \in Local \union Remote
          BY JobsAssumption DEF Typed
        <4>2. PICK pc \in Pcs : Goto(j, pc)
          BY <2>8, <4>1 DEF Launch, Local, Remote, Pcs
        <4>3. QED
          BY <4>2, GotoType DEF Typed, Goto
      <3>2. work' \in WorkType
        BY <2>8 DEF Launch, Typed, WorkType, Ended
      <3>3. QED
        BY <2>8, <3>1, <3>2 DEF Launch, Typed, outside, HandlersKnowJob
    <2>9. CASE LaunchSync(j)
      <3>1. task' \in TaskType
        BY <2>9, OutcomeType DEF LaunchSync, Typed, Outcome, Pcs
      <3>2. work' \in WorkType
        BY <2>9 DEF LaunchSync, Typed, WorkType, Ended
      <3>3. QED
        BY <2>9, <3>1, <3>2 DEF LaunchSync, Typed, outside, HandlersKnowJob
    <2>10. CASE Register(j)
      <3>1. task' \in TaskType
        BY <2>10, GotoType DEF Register, Typed, Goto, Pcs
      <3>2. registry' \in SUBSET Job
        BY <2>10 DEF Register, Typed
      <3>3. QED
        BY <2>10, <3>1, <3>2 DEF Register, Typed, outside, HandlersKnowJob
    <2>11. CASE ExecReturns(j)
      <3>1. task' \in TaskType
        BY <2>11, OutcomeType DEF ExecReturns, Typed, Outcome, Pcs
      <3>2. registry' \in SUBSET Job
        BY <2>11 DEF ExecReturns, Typed
      <3>3. QED
        BY <2>11, <3>1, <3>2 DEF ExecReturns, Typed, outside,
           HandlersKnowJob
    <2>12. CASE LookCancelled(j)
      <3>1. task' \in TaskType
        <4>1. CASE status[j] = "failed"
          <5>1. Outcome(j, FALSE, "wrap")
            BY <2>12, <4>1 DEF LookCancelled
          <5>2. QED
            BY <5>1, OutcomeType DEF Typed, Outcome, Pcs
        <4>2. CASE status[j] # "failed"
          BY <2>12, <4>2, GotoType DEF LookCancelled, Typed, Goto, Pcs
        <4>3. QED
          BY <4>1, <4>2
      <3>2. log' \in LogType
        BY <2>12, WriteType DEF LookCancelled, Typed, Write
      <3>3. QED
        BY <2>12, <3>1, <3>2 DEF LookCancelled, Typed, outside,
           HandlersKnowJob
    <2>13. CASE PollEnds(j)
      <3>1. task' \in TaskType
        BY <2>13, OutcomeType DEF PollEnds, Typed, Outcome, Pcs, AfterPoll
      <3>2. log' \in LogType
        BY <2>13, WriteType DEF PollEnds, Typed, Write
      <3>3. QED
        BY <2>13, <3>1, <3>2 DEF PollEnds, Typed, outside, HandlersKnowJob
    <2>14. CASE PollAgain(j)
      <3>1. task' \in TaskType
        BY <2>14 DEF PollAgain, Typed, TaskType, TaskRecord, NextRound, Pcs
      <3>2. log' \in LogType
        BY <2>14, WriteType DEF PollAgain, Typed, Write
      <3>3. QED
        BY <2>14, <3>1, <3>2 DEF PollAgain, Typed, outside, HandlersKnowJob
    <2>15. CASE PollTimeout(j)
      <3>1. task' \in TaskType
        BY <2>15, OutcomeType DEF PollTimeout, Typed, Outcome, Pcs
      <3>2. log' \in LogType
        BY <2>15, WriteType DEF PollTimeout, Typed, Write
      <3>3. QED
        BY <2>15, <3>1, <3>2 DEF PollTimeout, Typed, outside,
           HandlersKnowJob
    <2>16. CASE PollFails(j)
      <3>1. task' \in TaskType
        BY <2>16, OutcomeType DEF PollFails, Typed, Outcome, Pcs, AfterPoll
      <3>2. log' \in LogType
        BY <2>16, WriteType DEF PollFails, Typed, Write
      <3>3. QED
        BY <2>16, <3>1, <3>2 DEF PollFails, Typed, outside, HandlersKnowJob
    <2>17. CASE Wrap(j)
      <3>1. task' \in TaskType
        BY <2>17, GotoType DEF Wrap, Typed, Goto, Pcs
      <3>2. log' \in LogType
        BY <2>17, WriteType DEF Wrap, Typed, Write
      <3>3. hooked' \in SUBSET Job
        BY <2>17 DEF Wrap, Typed
      <3>4. QED
        BY <2>17, <3>1, <3>2, <3>3 DEF Wrap, Typed, outside,
           HandlersKnowJob
    <2>18. CASE Report(j)
      <3>1. task' \in TaskType
        BY <2>18, GotoType DEF Report, Typed, Goto, Pcs
      <3>2. status' \in StatusType
        BY <2>18, UpdateType DEF Report, Typed, Update, Statuses, Final
      <3>3. QED
        BY <2>18, <3>1, <3>2 DEF Report, Typed, outside, HandlersKnowJob
    <2>19. CASE Hooks(j)
      <3>1. task' \in TaskType
        BY <2>19, GotoType DEF Hooks, Typed, Goto, Pcs
      <3>2. hooked' \in SUBSET Job
        BY <2>19 DEF Hooks, Typed
      <3>3. QED
        BY <2>19, <3>1, <3>2 DEF Hooks, Typed, outside, HandlersKnowJob
    <2>20. CASE Notify(j)
      <3>1. task' \in TaskType
        BY <2>20, GotoType DEF Notify, Typed, Goto, Pcs
      <3>2. hook' \in HookType
        BY <2>20, JobsAssumption DEF Notify, Typed, HookType, HookRecord
      <3>3. QED
        BY <2>20, <3>1, <3>2 DEF Notify, Typed, outside, HandlersKnowJob
    <2>21. CASE Output(j)
      <3>1. log' \in LogType
        BY <2>21, WriteType DEF Output, Typed, Write
      <3>2. QED
        BY <2>21, <3>1 DEF Output, Typed, outside, HandlersKnowJob
    <2>22. CASE WorkEnds(j)
      <3>1. work' \in WorkType
        BY <2>22 DEF WorkEnds, Typed, WorkType, Ended
      <3>2. QED
        BY <2>22, <3>1 DEF WorkEnds, Typed, outside, HandlersKnowJob
    <2>23. CASE WebhookAttempt(j)
      <3>1. hook' \in HookType
        <4>1. \/ hook' = [hook EXCEPT ![j].pc = "over"]
              \/ /\ hook[j].attempt < Attempts
                 /\ hook' = [hook EXCEPT ![j].attempt = @ + 1]
          BY <2>23 DEF WebhookAttempt
        <4>2. QED
          BY <4>1, JobsAssumption DEF Typed, HookType, HookRecord
      <3>2. told' \in ToldType
        BY <2>23 DEF WebhookAttempt, Typed, ToldType, Final
      <3>3. QED
        BY <2>23, <3>1, <3>2 DEF WebhookAttempt, Typed, outside,
           HandlersKnowJob
    <2>24. QED
      BY <1>2, <2>1, <2>2, <2>3, <2>4, <2>5, <2>6, <2>7, <2>8, <2>9, <2>10,
         <2>11, <2>12, <2>13, <2>14, <2>15, <2>16, <2>17, <2>18, <2>19, <2>20,
         <2>21, <2>22, <2>23 DEF Runner
  <1>3. ASSUME NEW c \in Canceller, NEW j \in Job, CancelSelect(c, j)
        PROVE  TypeInv'
    <2>1. cancel' \in CancelType
      BY <1>3 DEF CancelSelect, Typed, CancelType, CancelRecord
    <2>2. HandlersKnowJob'
      BY <1>3 DEF CancelSelect, inside, Typed, CancelType, CancelRecord,
         HandlersKnowJob
    <2>3. QED
      BY <1>3, <2>1, <2>2 DEF CancelSelect, inside, Typed
  <1>4. ASSUME NEW c \in Canceller, CancelTerminate(c)
        PROVE  TypeInv'
    <2>1. cancel[c].job \in Job
      BY <1>4 DEF CancelTerminate, HandlersKnowJob
    <2>2. cancel' \in CancelType
      BY <1>4 DEF CancelTerminate, Typed, CancelType, CancelRecord
    <2>3. work' \in WorkType /\ registry' \in SUBSET Job
      BY <1>4, <2>1 DEF CancelTerminate, Typed, WorkType
    <2>4. HandlersKnowJob'
      BY <1>4, <2>1 DEF CancelTerminate, inside, Typed, CancelType, CancelRecord,
         HandlersKnowJob
    <2>5. QED
      BY <1>4, <2>2, <2>3, <2>4 DEF CancelTerminate, inside, Typed
  <1>5. ASSUME NEW c \in Canceller, CancelUpdate(c)
        PROVE  TypeInv'
    <2>1. cancel[c].job \in Job
      BY <1>5 DEF CancelUpdate, HandlersKnowJob
    <2>2. cancel' \in CancelType
      BY <1>5 DEF CancelUpdate, Typed, CancelType, CancelRecord
    <2>3. status' \in StatusType /\ done' \in SUBSET Job
      BY <1>5, <2>1, UpdateType
      DEF CancelUpdate, Typed, Update, Statuses, Final
    <2>4. HandlersKnowJob'
      BY <1>5 DEF CancelUpdate, inside, Typed, CancelType, CancelRecord,
         HandlersKnowJob
    <2>5. QED
      BY <1>5, <2>2, <2>3, <2>4 DEF CancelUpdate, inside, Typed
  <1>6. ASSUME NEW f \in Follower, NEW j \in Job, FollowOpen(f, j)
        PROVE  TypeInv'
    <2>1. follow' \in FollowType
      BY <1>6 DEF FollowOpen, Typed, FollowType, FollowRecord
    <2>2. HandlersKnowJob'
      BY <1>6 DEF FollowOpen, beside, Typed, FollowType, FollowRecord,
         HandlersKnowJob
    <2>3. QED
      BY <1>6, <2>1, <2>2 DEF FollowOpen, beside, Typed
  <1>7. ASSUME NEW f \in Follower, FollowStatus(f)
        PROVE  TypeInv'
    <2>1. follow[f].job \in Job
      BY <1>7 DEF FollowStatus, HandlersKnowJob
    <2>2. status[follow[f].job] \in Statuses
      BY <2>1 DEF Typed, StatusType
    <2>3. follow' \in FollowType
      BY <1>7, <2>2 DEF FollowStatus, Typed, FollowType, FollowRecord
    <2>4. HandlersKnowJob'
      BY <1>7, <2>1 DEF FollowStatus, beside, Typed, FollowType, FollowRecord,
         HandlersKnowJob
    <2>5. QED
      BY <1>7, <2>3, <2>4 DEF FollowStatus, beside, Typed
  <1>8. ASSUME NEW f \in Follower, FollowRead(f)
        PROVE  TypeInv'
    <2>1. follow[f].job \in Job
      BY <1>8 DEF FollowRead, HandlersKnowJob
    <2>2. log[follow[f].job] \in Nat
      BY <2>1 DEF Typed, LogType
    <2>3. follow' \in FollowType
      BY <1>8, <2>2 DEF FollowRead, Typed, FollowType, FollowRecord
    <2>4. HandlersKnowJob'
      BY <1>8, <2>1 DEF FollowRead, beside, Typed, FollowType, FollowRecord,
         HandlersKnowJob
    <2>5. QED
      BY <1>8, <2>3, <2>4 DEF FollowRead, beside, Typed
  <1>9. CASE DeleteCheck \/ DeleteRemove
    <2>1. deletes' \in DeletesType
      BY <1>9, JobsAssumption DEF DeleteCheck, DeleteRemove, Typed, DeletesType
    <2>2. QED
      BY <1>9, <2>1 DEF DeleteCheck, DeleteRemove, around, Typed, HandlersKnowJob
  <1>10. CASE Restart
    <2>1. task' \in TaskType
      <3>1. \A j \in Job : [task[j] EXCEPT !.pc = "dead"] \in TaskRecord
        BY DEF Typed, TaskType, TaskRecord, Pcs
      <3>2. QED
        BY <1>10, <3>1 DEF Restart, Typed, TaskType
    <2>2. work' \in WorkType /\ registry' \in SUBSET Job
      BY <1>10 DEF Restart, Typed, WorkType, Ended
    <2>3. hook' \in HookType
      <3>1. \A j \in Job : [hook[j] EXCEPT !.pc = "over"] \in HookRecord
        BY DEF Typed, HookType, HookRecord
      <3>2. QED
        BY <1>10, <3>1 DEF Restart, Typed, HookType
    <2>4. cancel' \in CancelType
      BY <1>10 DEF Restart, Typed, CancelType, CancelRecord
    <2>5. follow' \in FollowType
      <3>1. \A f \in Follower : [follow[f] EXCEPT !.pc = "lost"] \in FollowRecord
        BY DEF Typed, FollowType, FollowRecord
      <3>2. QED
        BY <1>10, <3>1 DEF Restart, Typed, FollowType
    <2>6. deletes' \in DeletesType /\ restarts' \in 0 .. MaxRestarts
      BY <1>10, JobsAssumption DEF Restart, Typed, DeletesType
    <2>7. HandlersKnowJob'
      BY <1>10 DEF Restart, Typed, FollowType, FollowRecord, HandlersKnowJob
    <2>8. QED
      BY <1>10, <2>1, <2>2, <2>3, <2>4, <2>5, <2>6, <2>7 DEF Restart, Typed
  <1>11. QED
    BY <1>1, <1>2, <1>3, <1>4, <1>5, <1>6, <1>7, <1>8, <1>9, <1>10 DEF Next

(* The rows, tasks, logs and handlers of the job system keep their types:   *)
(* in particular a webhook is tried no more often than its delays allow and *)
(* no poller runs beyond its rounds.                                        *)
THEOREM TypeCorrect == Spec => []TypeOK
  <1>1. Spec => []TypeInv
    BY TypeInit, TypeNext, PTL DEF Spec
  <1>2. TypeInv => TypeOK
    BY TypedIsTypeOK DEF TypeInv
  <1>3. QED
    BY <1>1, <1>2, PTL

-----------------------------------------------------------------------------
(* A launched task waits for its work, and only a packer build registers    *)
(* itself first.                                                            *)
LEMMA LaunchGoes ==
  ASSUME TypeInv, NEW j \in Job, Launch(j)
  PROVE  \E pc \in {"spawned", "exec", "look", "poll"} :
           Goto(j, pc) /\ (pc = "spawned" => kind[j] = "packer")
  <1>1. kind[j] \in Local \union Remote
    BY JobsAssumption DEF TypeInv, Typed
  <1>2. QED
    BY <1>1 DEF Launch, Local, Remote

-----------------------------------------------------------------------------
(* The packer registry.                                                     *)

RegistryInv == SpawnedIsPacker /\ RegistryIsLive

LEMMA RegistryNext ==
  ASSUME TypeInv, RegistryInv, [Next]_vars
  PROVE  RegistryInv'
  <1>1. CASE UNCHANGED vars
    BY <1>1 DEF vars, At, TypeInv, Typed, TaskType, TaskRecord,
       RegistryInv, SpawnedIsPacker, RegistryIsLive
  <1>2. ASSUME NEW j \in Job,
               BuildCheck(j) \/ CreateJob(j) \/ Runner(j) \/ Output(j)
                 \/ WorkEnds(j) \/ WebhookAttempt(j)
        PROVE  RegistryInv'
    <2>1. CASE BuildCheck(j)
      BY <2>1 DEF BuildCheck, Goto, At, TypeInv, Typed, TaskType,
         TaskRecord, RegistryInv, SpawnedIsPacker, RegistryIsLive, outside
    <2>2. CASE CreateJob(j)
      BY <2>2 DEF CreateJob, Update, Goto, At, TypeInv, Typed, TaskType,
         TaskRecord, RegistryInv, SpawnedIsPacker, RegistryIsLive, outside
    <2>3. CASE GuestCheck(j)
      BY <2>3 DEF GuestCheck, Goto, At, TypeInv, Typed, TaskType,
         TaskRecord, RegistryInv, SpawnedIsPacker, RegistryIsLive, outside
    <2>4. CASE Start(j)
      BY <2>4 DEF Start, Update, Goto, At, TypeInv, Typed, TaskType,
         TaskRecord, RegistryInv, SpawnedIsPacker, RegistryIsLive, outside
    <2>5. CASE NoToken(j)
      BY <2>5 DEF NoToken, Update, Goto, At, TypeInv, Typed, TaskType,
         TaskRecord, RegistryInv, SpawnedIsPacker, RegistryIsLive, outside
    <2>6. CASE NoTokenLog(j)
      BY <2>6 DEF NoTokenLog, Goto, At, TypeInv, Typed, TaskType,
         TaskRecord, RegistryInv, SpawnedIsPacker, RegistryIsLive, outside
    <2>7. CASE PrepareFails(j)
      BY <2>7 DEF PrepareFails, Ready, Write, Outcome, At, TypeInv, Typed,
         TaskType, TaskRecord, RegistryInv, SpawnedIsPacker, RegistryIsLive,
         outside
    <2>8. CASE Launch(j)
      <3>1. PICK pc \in {"spawned", "exec", "look", "poll"} :
              Goto(j, pc) /\ (pc = "spawned" => kind[j] = "packer")
        BY <2>8, LaunchGoes
      <3>2. QED
        BY <2>8, <3>1 DEF Launch, Ready, Goto, outside, At, TypeInv, Typed,
           TaskType, TaskRecord, RegistryInv, SpawnedIsPacker, RegistryIsLive
    <2>9. CASE LaunchSync(j)
      BY <2>9 DEF LaunchSync, Ready, Outcome, At, TypeInv, Typed, TaskType,
         TaskRecord, RegistryInv, SpawnedIsPacker, RegistryIsLive, outside
    <2>10. CASE Register(j)
      BY <2>10 DEF Register, Goto, At, TypeInv, Typed, TaskType,
         TaskRecord, RegistryInv, SpawnedIsPacker, RegistryIsLive, outside
    <2>11. CASE ExecReturns(j)
      BY <2>11 DEF ExecReturns, Outcome, At, TypeInv, Typed, TaskType,
         TaskRecord, RegistryInv, SpawnedIsPacker, RegistryIsLive, outside
    <2>12. CASE LookCancelled(j)
      BY <2>12 DEF LookCancelled, Write, Outcome, Goto, At, TypeInv, Typed,
         TaskType, TaskRecord, RegistryInv, SpawnedIsPacker, RegistryIsLive,
         outside
    <2>13. CASE PollEnds(j)
      BY <2>13 DEF PollEnds, Write, Outcome, AfterPoll, At, TypeInv, Typed,
         TaskType, TaskRecord, RegistryInv, SpawnedIsPacker, RegistryIsLive,
         outside
    <2>14. CASE PollAgain(j)
      BY <2>14 DEF PollAgain, Write, NextRound, At, TypeInv, Typed,
         TaskType, TaskRecord, RegistryInv, SpawnedIsPacker, RegistryIsLive,
         outside
    <2>15. CASE PollTimeout(j)
      BY <2>15 DEF PollTimeout, Write, Outcome, At, TypeInv, Typed,
         TaskType, TaskRecord, RegistryInv, SpawnedIsPacker, RegistryIsLive,
         outside
    <2>16. CASE PollFails(j)
      BY <2>16 DEF PollFails, Write, Outcome, AfterPoll, At, TypeInv,
         Typed, TaskType, TaskRecord, RegistryInv, SpawnedIsPacker,
         RegistryIsLive, outside
    <2>17. CASE Wrap(j)
      BY <2>17 DEF Wrap, Write, Goto, At, TypeInv, Typed, TaskType,
         TaskRecord, RegistryInv, SpawnedIsPacker, RegistryIsLive, outside
    <2>18. CASE Report(j)
      BY <2>18 DEF Report, Update, Goto, At, TypeInv, Typed, TaskType,
         TaskRecord, RegistryInv, SpawnedIsPacker, RegistryIsLive, outside
    <2>19. CASE Hooks(j)
      BY <2>19 DEF Hooks, Goto, At, TypeInv, Typed, TaskType, TaskRecord,
         RegistryInv, SpawnedIsPacker, RegistryIsLive, outside
    <2>20. CASE Notify(j)
      BY <2>20 DEF Notify, Goto, At, TypeInv, Typed, TaskType, TaskRecord,
         RegistryInv, SpawnedIsPacker, RegistryIsLive, outside
    <2>21. CASE Output(j)
      BY <2>21 DEF Output, Write, At, TypeInv, Typed, TaskType, TaskRecord,
         RegistryInv, SpawnedIsPacker, RegistryIsLive, outside
    <2>22. CASE WorkEnds(j)
      BY <2>22 DEF WorkEnds, At, TypeInv, Typed, TaskType, TaskRecord,
         RegistryInv, SpawnedIsPacker, RegistryIsLive, outside
    <2>23. CASE WebhookAttempt(j)
      BY <2>23 DEF WebhookAttempt, At, TypeInv, Typed, TaskType,
         TaskRecord, RegistryInv, SpawnedIsPacker, RegistryIsLive, outside
    <2>24. QED
      BY <1>2, <2>1, <2>2, <2>3, <2>4, <2>5, <2>6, <2>7, <2>8, <2>9, <2>10,
         <2>11, <2>12, <2>13, <2>14, <2>15, <2>16, <2>17, <2>18, <2>19, <2>20,
         <2>21, <2>22, <2>23 DEF Runner
  <1>3. ASSUME NEW c \in Canceller, NEW j \in Job, CancelSelect(c, j)
        PROVE  RegistryInv'
    BY <1>3 DEF CancelSelect, At, TypeInv, Typed, TaskType, TaskRecord,
       RegistryInv, SpawnedIsPacker, RegistryIsLive, inside
  <1>4. ASSUME NEW c \in Canceller, CancelTerminate(c)
        PROVE  RegistryInv'
    BY <1>4 DEF CancelTerminate, inside, At, TypeInv, Typed, TaskType,
       TaskRecord, RegistryInv, SpawnedIsPacker, RegistryIsLive
  <1>5. ASSUME NEW c \in Canceller, CancelUpdate(c)
        PROVE  RegistryInv'
    BY <1>5 DEF CancelUpdate, inside, Update, At, TypeInv, Typed, TaskType,
       TaskRecord, RegistryInv, SpawnedIsPacker, RegistryIsLive
  <1>6. ASSUME NEW f \in Follower, NEW j \in Job, FollowOpen(f, j)
        PROVE  RegistryInv'
    BY <1>6 DEF FollowOpen, At, TypeInv, Typed, TaskType, TaskRecord,
       RegistryInv, SpawnedIsPacker, RegistryIsLive, beside
  <1>7. ASSUME NEW f \in Follower, FollowStatus(f)
        PROVE  RegistryInv'
    BY <1>7 DEF FollowStatus, At, TypeInv, Typed, TaskType, TaskRecord,
       RegistryInv, SpawnedIsPacker, RegistryIsLive, beside
  <1>8. ASSUME NEW f \in Follower, FollowRead(f)
        PROVE  RegistryInv'
    BY <1>8 DEF FollowRead, At, TypeInv, Typed, TaskType, TaskRecord,
       RegistryInv, SpawnedIsPacker, RegistryIsLive, beside
  <1>9. CASE DeleteCheck
    BY <1>9 DEF DeleteCheck, At, TypeInv, Typed, TaskType, TaskRecord,
       RegistryInv, SpawnedIsPacker, RegistryIsLive, around
  <1>10. CASE DeleteRemove
    BY <1>10 DEF DeleteRemove, At, TypeInv, Typed, TaskType, TaskRecord,
       RegistryInv, SpawnedIsPacker, RegistryIsLive, around
  <1>11. CASE Restart
    BY <1>11 DEF Restart, At, TypeInv, Typed, TaskType, TaskRecord,
       RegistryInv, SpawnedIsPacker, RegistryIsLive
  <1>12. QED
    BY <1>1, <1>2, <1>3, <1>4, <1>5, <1>6, <1>7, <1>8, <1>9, <1>10, <1>11
       DEF Next

(* The registry holds only processes that their worker thread waits for.    *)
THEOREM RegistryCorrect == Spec => []RegistryIsLive
  <1>1. Init => RegistryInv
    BY DEF Init, NoTask, At, RegistryInv, SpawnedIsPacker, RegistryIsLive
  <1>2. Spec => []TypeInv
    BY TypeInit, TypeNext, PTL DEF Spec
  <1>3. Spec => []RegistryInv
    BY <1>1, <1>2, RegistryNext, PTL DEF Spec
  <1>4. RegistryInv => RegistryIsLive
    BY DEF RegistryInv
  <1>5. QED
    BY <1>3, <1>4, PTL

-----------------------------------------------------------------------------
(* Success.                                                                 *)

SuccessInv == OkIsReal /\ SuccessIsReal

LEMMA SuccessNext ==
  ASSUME TypeInv, SuccessInv, [Next]_vars
  PROVE  SuccessInv'
  <1>1. CASE UNCHANGED vars
    BY <1>1 DEF vars, At, TypeInv, Typed, TaskType, TaskRecord, StatusType,
       WorkType, ToldType, SuccessInv, OkIsReal, SuccessIsReal, Early
  <1>2. ASSUME NEW j \in Job,
               BuildCheck(j) \/ CreateJob(j) \/ Runner(j) \/ Output(j)
                 \/ WorkEnds(j) \/ WebhookAttempt(j)
        PROVE  SuccessInv'
    <2>1. CASE BuildCheck(j)
      BY <2>1 DEF BuildCheck, Goto, At, TypeInv, Typed, TaskType,
         TaskRecord, StatusType, WorkType, ToldType, SuccessInv, OkIsReal,
         SuccessIsReal, Early, outside
    <2>2. CASE CreateJob(j)
      BY <2>2 DEF CreateJob, Update, Goto, At, TypeInv, Typed, TaskType,
         TaskRecord, StatusType, WorkType, ToldType, SuccessInv, OkIsReal,
         SuccessIsReal, Early, outside
    <2>3. CASE GuestCheck(j)
      BY <2>3 DEF GuestCheck, Goto, At, TypeInv, Typed, TaskType,
         TaskRecord, StatusType, WorkType, ToldType, SuccessInv, OkIsReal,
         SuccessIsReal, Early, outside
    <2>4. CASE Start(j)
      BY <2>4 DEF Start, Update, Goto, At, TypeInv, Typed, TaskType,
         TaskRecord, StatusType, WorkType, ToldType, SuccessInv, OkIsReal,
         SuccessIsReal, Early, outside
    <2>5. CASE NoToken(j)
      BY <2>5 DEF NoToken, Update, Goto, At, TypeInv, Typed, TaskType,
         TaskRecord, StatusType, WorkType, ToldType, SuccessInv, OkIsReal,
         SuccessIsReal, Early, outside
    <2>6. CASE NoTokenLog(j)
      BY <2>6 DEF NoTokenLog, Goto, At, TypeInv, Typed, TaskType,
         TaskRecord, StatusType, WorkType, ToldType, SuccessInv, OkIsReal,
         SuccessIsReal, Early, outside
    <2>7. CASE PrepareFails(j)
      BY <2>7 DEF PrepareFails, Ready, Write, Outcome, At, TypeInv, Typed,
         TaskType, TaskRecord, StatusType, WorkType, ToldType, SuccessInv,
         OkIsReal, SuccessIsReal, Early, outside
    <2>8. CASE Launch(j)
      <3>1. PICK pc \in {"spawned", "exec", "look", "poll"} :
              Goto(j, pc) /\ (pc = "spawned" => kind[j] = "packer")
        BY <2>8, LaunchGoes
      <3>2. work[j] = "none" /\ ~task[j].ok
        BY <2>8 DEF Launch, Ready, At, SuccessInv, OkIsReal, Early
      <3>3. OkIsReal'
        <4>1. /\ task'[j].pc = pc /\ task'[j].ok = task[j].ok
              /\ \A k \in Job \ {j} : task'[k] = task[k]
          BY <3>1 DEF Goto, TypeInv, Typed, TaskType, TaskRecord
        <4>2. \A k \in Job \ {j} : work'[k] = work[k]
          BY <2>8 DEF Launch, TypeInv, Typed, WorkType
        <4>3. QED
          BY <3>2, <4>1, <4>2 DEF At, SuccessInv, OkIsReal, Early
      <3>4. SuccessIsReal'
        BY <2>8, <3>2 DEF Launch, outside, TypeInv, Typed, WorkType,
           SuccessInv, SuccessIsReal
      <3>5. QED
        BY <3>3, <3>4 DEF SuccessInv
    <2>9. CASE LaunchSync(j)
      BY <2>9 DEF LaunchSync, Ready, Outcome, At, TypeInv, Typed, TaskType,
         TaskRecord, StatusType, WorkType, ToldType, SuccessInv, OkIsReal,
         SuccessIsReal, Early, outside
    <2>10. CASE Register(j)
      BY <2>10 DEF Register, Goto, At, TypeInv, Typed, TaskType,
         TaskRecord, StatusType, WorkType, ToldType, SuccessInv, OkIsReal,
         SuccessIsReal, Early, outside
    <2>11. CASE ExecReturns(j)
      BY <2>11 DEF ExecReturns, Outcome, At, TypeInv, Typed, TaskType,
         TaskRecord, StatusType, WorkType, ToldType, SuccessInv, OkIsReal,
         SuccessIsReal, Early, outside
    <2>12. CASE LookCancelled(j)
      BY <2>12 DEF LookCancelled, Write, Outcome, Goto, At, TypeInv, Typed,
         TaskType, TaskRecord, StatusType, WorkType, ToldType, SuccessInv,
         OkIsReal, SuccessIsReal, Early, outside
    <2>13. CASE PollEnds(j)
      BY <2>13 DEF PollEnds, Write, Outcome, AfterPoll, At, TypeInv, Typed,
         TaskType, TaskRecord, StatusType, WorkType, ToldType, SuccessInv,
         OkIsReal, SuccessIsReal, Early, outside
    <2>14. CASE PollAgain(j)
      BY <2>14 DEF PollAgain, Write, NextRound, At, TypeInv, Typed,
         TaskType, TaskRecord, StatusType, WorkType, ToldType, SuccessInv,
         OkIsReal, SuccessIsReal, Early, outside
    <2>15. CASE PollTimeout(j)
      BY <2>15 DEF PollTimeout, Write, Outcome, At, TypeInv, Typed,
         TaskType, TaskRecord, StatusType, WorkType, ToldType, SuccessInv,
         OkIsReal, SuccessIsReal, Early, outside
    <2>16. CASE PollFails(j)
      BY <2>16 DEF PollFails, Write, Outcome, AfterPoll, At, TypeInv,
         Typed, TaskType, TaskRecord, StatusType, WorkType, ToldType,
         SuccessInv, OkIsReal, SuccessIsReal, Early, outside
    <2>17. CASE Wrap(j)
      BY <2>17 DEF Wrap, Write, Goto, At, TypeInv, Typed, TaskType,
         TaskRecord, StatusType, WorkType, ToldType, SuccessInv, OkIsReal,
         SuccessIsReal, Early, outside
    <2>18. CASE Report(j)
      BY <2>18 DEF Report, Update, Goto, At, TypeInv, Typed, TaskType,
         TaskRecord, StatusType, WorkType, ToldType, SuccessInv, OkIsReal,
         SuccessIsReal, Early, outside
    <2>19. CASE Hooks(j)
      BY <2>19 DEF Hooks, Goto, At, TypeInv, Typed, TaskType, TaskRecord,
         StatusType, WorkType, ToldType, SuccessInv, OkIsReal, SuccessIsReal,
         Early, outside
    <2>20. CASE Notify(j)
      BY <2>20 DEF Notify, Goto, At, TypeInv, Typed, TaskType, TaskRecord,
         StatusType, WorkType, ToldType, SuccessInv, OkIsReal, SuccessIsReal,
         Early, outside
    <2>21. CASE Output(j)
      BY <2>21 DEF Output, Write, At, TypeInv, Typed, TaskType, TaskRecord,
         StatusType, WorkType, ToldType, SuccessInv, OkIsReal, SuccessIsReal,
         Early, outside
    <2>22. CASE WorkEnds(j)
      BY <2>22 DEF WorkEnds, At, TypeInv, Typed, TaskType, TaskRecord,
         StatusType, WorkType, ToldType, SuccessInv, OkIsReal, SuccessIsReal,
         Early, outside
    <2>23. CASE WebhookAttempt(j)
      BY <2>23 DEF WebhookAttempt, At, TypeInv, Typed, TaskType,
         TaskRecord, StatusType, WorkType, ToldType, SuccessInv, OkIsReal,
         SuccessIsReal, Early, outside
    <2>24. QED
      BY <1>2, <2>1, <2>2, <2>3, <2>4, <2>5, <2>6, <2>7, <2>8, <2>9, <2>10,
         <2>11, <2>12, <2>13, <2>14, <2>15, <2>16, <2>17, <2>18, <2>19, <2>20,
         <2>21, <2>22, <2>23 DEF Runner
  <1>3. ASSUME NEW c \in Canceller, NEW j \in Job, CancelSelect(c, j)
        PROVE  SuccessInv'
    BY <1>3 DEF CancelSelect, At, TypeInv, Typed, TaskType, TaskRecord,
       StatusType, WorkType, ToldType, SuccessInv, OkIsReal, SuccessIsReal,
       Early, inside
  <1>4. ASSUME NEW c \in Canceller, CancelTerminate(c)
        PROVE  SuccessInv'
    BY <1>4 DEF CancelTerminate, inside, At, TypeInv, Typed, TaskType,
       TaskRecord, StatusType, WorkType, ToldType, SuccessInv, OkIsReal,
       SuccessIsReal, Early
  <1>5. ASSUME NEW c \in Canceller, CancelUpdate(c)
        PROVE  SuccessInv'
    BY <1>5 DEF CancelUpdate, inside, Update, At, TypeInv, Typed, TaskType,
       TaskRecord, StatusType, WorkType, ToldType, SuccessInv, OkIsReal,
       SuccessIsReal, Early
  <1>6. ASSUME NEW f \in Follower, NEW j \in Job, FollowOpen(f, j)
        PROVE  SuccessInv'
    BY <1>6 DEF FollowOpen, At, TypeInv, Typed, TaskType, TaskRecord,
       StatusType, WorkType, ToldType, SuccessInv, OkIsReal, SuccessIsReal,
       Early, beside
  <1>7. ASSUME NEW f \in Follower, FollowStatus(f)
        PROVE  SuccessInv'
    BY <1>7 DEF FollowStatus, At, TypeInv, Typed, TaskType, TaskRecord,
       StatusType, WorkType, ToldType, SuccessInv, OkIsReal, SuccessIsReal,
       Early, beside
  <1>8. ASSUME NEW f \in Follower, FollowRead(f)
        PROVE  SuccessInv'
    BY <1>8 DEF FollowRead, At, TypeInv, Typed, TaskType, TaskRecord,
       StatusType, WorkType, ToldType, SuccessInv, OkIsReal, SuccessIsReal,
       Early, beside
  <1>9. CASE DeleteCheck
    BY <1>9 DEF DeleteCheck, At, TypeInv, Typed, TaskType, TaskRecord,
       StatusType, WorkType, ToldType, SuccessInv, OkIsReal, SuccessIsReal,
       Early, around
  <1>10. CASE DeleteRemove
    BY <1>10 DEF DeleteRemove, At, TypeInv, Typed, TaskType, TaskRecord,
       StatusType, WorkType, ToldType, SuccessInv, OkIsReal, SuccessIsReal,
       Early, around
  <1>11. CASE Restart
    BY <1>11 DEF Restart, At, TypeInv, Typed, TaskType, TaskRecord,
       StatusType, WorkType, ToldType, SuccessInv, OkIsReal, SuccessIsReal,
       Early
  <1>12. QED
    BY <1>1, <1>2, <1>3, <1>4, <1>5, <1>6, <1>7, <1>8, <1>9, <1>10, <1>11
       DEF Next

(* Success is claimed, and an owner entered, only for work that ended well. *)
THEOREM SuccessCorrect == Spec => []SuccessIsReal
  <1>1. Init => SuccessInv
    BY DEF Init, NoTask, At, SuccessInv, OkIsReal, SuccessIsReal
  <1>2. Spec => []TypeInv
    BY TypeInit, TypeNext, PTL DEF Spec
  <1>3. Spec => []SuccessInv
    BY <1>1, <1>2, SuccessNext, PTL DEF Spec
  <1>4. SuccessInv => SuccessIsReal
    BY DEF SuccessInv
  <1>5. QED
    BY <1>3, <1>4, PTL

-----------------------------------------------------------------------------
(* The log followers.                                                       *)

FollowInv == FinalIsSettled /\ FollowerKnows

LEMMA FollowNext ==
  ASSUME TypeInv, FollowInv, [Next]_vars
  PROVE  FollowInv'
  <1>1. CASE UNCHANGED vars
    BY <1>1 DEF vars, At, TypeInv, Typed, TaskType, TaskRecord, StatusType,
       LogType, FollowType, FollowRecord, FollowInv, FinalIsSettled,
       FollowerKnows, HandlersKnowJob, Excused, Final, Settled
  <1>2. ASSUME NEW j \in Job,
               BuildCheck(j) \/ CreateJob(j) \/ Runner(j) \/ Output(j)
                 \/ WorkEnds(j) \/ WebhookAttempt(j)
        PROVE  FollowInv'
    <2>1. CASE BuildCheck(j)
      BY <2>1 DEF BuildCheck, Goto, At, TypeInv, Typed, TaskType,
         TaskRecord, StatusType, LogType, FollowType, FollowRecord, FollowInv,
         FinalIsSettled, FollowerKnows, HandlersKnowJob, Excused, Final,
         Settled, outside
    <2>2. CASE CreateJob(j)
      BY <2>2 DEF CreateJob, Update, Goto, At, TypeInv, Typed, TaskType,
         TaskRecord, StatusType, LogType, FollowType, FollowRecord, FollowInv,
         FinalIsSettled, FollowerKnows, HandlersKnowJob, Excused, Final,
         Settled, outside
    <2>3. CASE GuestCheck(j)
      BY <2>3 DEF GuestCheck, Goto, At, TypeInv, Typed, TaskType,
         TaskRecord, StatusType, LogType, FollowType, FollowRecord, FollowInv,
         FinalIsSettled, FollowerKnows, HandlersKnowJob, Excused, Final,
         Settled, outside
    <2>4. CASE Start(j)
      BY <2>4 DEF Start, Update, Goto, At, TypeInv, Typed, TaskType,
         TaskRecord, StatusType, LogType, FollowType, FollowRecord, FollowInv,
         FinalIsSettled, FollowerKnows, HandlersKnowJob, Excused, Final,
         Settled, outside
    <2>5. CASE NoToken(j)
      BY <2>5 DEF NoToken, Update, Goto, At, TypeInv, Typed, TaskType,
         TaskRecord, StatusType, LogType, FollowType, FollowRecord, FollowInv,
         FinalIsSettled, FollowerKnows, HandlersKnowJob, Excused, Final,
         Settled, outside
    <2>6. CASE NoTokenLog(j)
      BY <2>6 DEF NoTokenLog, Goto, At, TypeInv, Typed, TaskType,
         TaskRecord, StatusType, LogType, FollowType, FollowRecord, FollowInv,
         FinalIsSettled, FollowerKnows, HandlersKnowJob, Excused, Final,
         Settled, outside
    <2>7. CASE PrepareFails(j)
      BY <2>7 DEF PrepareFails, Ready, Write, Outcome, At, TypeInv, Typed,
         TaskType, TaskRecord, StatusType, LogType, FollowType, FollowRecord,
         FollowInv, FinalIsSettled, FollowerKnows, HandlersKnowJob, Excused,
         Final, Settled, outside
    <2>8. CASE Launch(j)
      <3>1. PICK pc \in {"spawned", "exec", "look", "poll"} :
              Goto(j, pc) /\ (pc = "spawned" => kind[j] = "packer")
        BY <2>8, LaunchGoes
      <3>2. QED
        BY <2>8, <3>1 DEF Launch, Ready, Goto, outside, At, TypeInv, Typed,
           TaskType, TaskRecord, StatusType, LogType, FollowType,
           FollowRecord, FollowInv, FinalIsSettled, FollowerKnows,
           HandlersKnowJob, Excused, Final, Settled
    <2>9. CASE LaunchSync(j)
      BY <2>9 DEF LaunchSync, Ready, Outcome, At, TypeInv, Typed, TaskType,
         TaskRecord, StatusType, LogType, FollowType, FollowRecord, FollowInv,
         FinalIsSettled, FollowerKnows, HandlersKnowJob, Excused, Final,
         Settled, outside
    <2>10. CASE Register(j)
      BY <2>10 DEF Register, Goto, At, TypeInv, Typed, TaskType,
         TaskRecord, StatusType, LogType, FollowType, FollowRecord, FollowInv,
         FinalIsSettled, FollowerKnows, HandlersKnowJob, Excused, Final,
         Settled, outside
    <2>11. CASE ExecReturns(j)
      BY <2>11 DEF ExecReturns, Outcome, At, TypeInv, Typed, TaskType,
         TaskRecord, StatusType, LogType, FollowType, FollowRecord, FollowInv,
         FinalIsSettled, FollowerKnows, HandlersKnowJob, Excused, Final,
         Settled, outside
    <2>12. CASE LookCancelled(j)
      BY <2>12 DEF LookCancelled, Write, Outcome, Goto, At, TypeInv, Typed,
         TaskType, TaskRecord, StatusType, LogType, FollowType, FollowRecord,
         FollowInv, FinalIsSettled, FollowerKnows, HandlersKnowJob, Excused,
         Final, Settled, outside
    <2>13. CASE PollEnds(j)
      BY <2>13 DEF PollEnds, Write, Outcome, AfterPoll, At, TypeInv, Typed,
         TaskType, TaskRecord, StatusType, LogType, FollowType, FollowRecord,
         FollowInv, FinalIsSettled, FollowerKnows, HandlersKnowJob, Excused,
         Final, Settled, outside
    <2>14. CASE PollAgain(j)
      BY <2>14 DEF PollAgain, Write, NextRound, At, TypeInv, Typed,
         TaskType, TaskRecord, StatusType, LogType, FollowType, FollowRecord,
         FollowInv, FinalIsSettled, FollowerKnows, HandlersKnowJob, Excused,
         Final, Settled, outside
    <2>15. CASE PollTimeout(j)
      BY <2>15 DEF PollTimeout, Write, Outcome, At, TypeInv, Typed,
         TaskType, TaskRecord, StatusType, LogType, FollowType, FollowRecord,
         FollowInv, FinalIsSettled, FollowerKnows, HandlersKnowJob, Excused,
         Final, Settled, outside
    <2>16. CASE PollFails(j)
      BY <2>16 DEF PollFails, Write, Outcome, AfterPoll, At, TypeInv,
         Typed, TaskType, TaskRecord, StatusType, LogType, FollowType,
         FollowRecord, FollowInv, FinalIsSettled, FollowerKnows,
         HandlersKnowJob, Excused, Final, Settled, outside
    <2>17. CASE Wrap(j)
      BY <2>17 DEF Wrap, Write, Goto, At, TypeInv, Typed, TaskType,
         TaskRecord, StatusType, LogType, FollowType, FollowRecord, FollowInv,
         FinalIsSettled, FollowerKnows, HandlersKnowJob, Excused, Final,
         Settled, outside
    <2>18. CASE Report(j)
      BY <2>18 DEF Report, Update, Goto, At, TypeInv, Typed, TaskType,
         TaskRecord, StatusType, LogType, FollowType, FollowRecord, FollowInv,
         FinalIsSettled, FollowerKnows, HandlersKnowJob, Excused, Final,
         Settled, outside
    <2>19. CASE Hooks(j)
      BY <2>19 DEF Hooks, Goto, At, TypeInv, Typed, TaskType, TaskRecord,
         StatusType, LogType, FollowType, FollowRecord, FollowInv,
         FinalIsSettled, FollowerKnows, HandlersKnowJob, Excused, Final,
         Settled, outside
    <2>20. CASE Notify(j)
      BY <2>20 DEF Notify, Goto, At, TypeInv, Typed, TaskType, TaskRecord,
         StatusType, LogType, FollowType, FollowRecord, FollowInv,
         FinalIsSettled, FollowerKnows, HandlersKnowJob, Excused, Final,
         Settled, outside
    <2>21. CASE Output(j)
      BY <2>21 DEF Output, Write, At, TypeInv, Typed, TaskType, TaskRecord,
         StatusType, LogType, FollowType, FollowRecord, FollowInv,
         FinalIsSettled, FollowerKnows, HandlersKnowJob, Excused, Final,
         Settled, outside
    <2>22. CASE WorkEnds(j)
      BY <2>22 DEF WorkEnds, At, TypeInv, Typed, TaskType, TaskRecord,
         StatusType, LogType, FollowType, FollowRecord, FollowInv,
         FinalIsSettled, FollowerKnows, HandlersKnowJob, Excused, Final,
         Settled, outside
    <2>23. CASE WebhookAttempt(j)
      BY <2>23 DEF WebhookAttempt, At, TypeInv, Typed, TaskType,
         TaskRecord, StatusType, LogType, FollowType, FollowRecord, FollowInv,
         FinalIsSettled, FollowerKnows, HandlersKnowJob, Excused, Final,
         Settled, outside
    <2>24. QED
      BY <1>2, <2>1, <2>2, <2>3, <2>4, <2>5, <2>6, <2>7, <2>8, <2>9, <2>10,
         <2>11, <2>12, <2>13, <2>14, <2>15, <2>16, <2>17, <2>18, <2>19, <2>20,
         <2>21, <2>22, <2>23 DEF Runner
  <1>3. ASSUME NEW c \in Canceller, NEW j \in Job, CancelSelect(c, j)
        PROVE  FollowInv'
    BY <1>3 DEF CancelSelect, At, TypeInv, Typed, TaskType, TaskRecord,
       StatusType, LogType, FollowType, FollowRecord, FollowInv,
       FinalIsSettled, FollowerKnows, HandlersKnowJob, Excused, Final,
       Settled, inside
  <1>4. ASSUME NEW c \in Canceller, CancelTerminate(c)
        PROVE  FollowInv'
    BY <1>4 DEF CancelTerminate, inside, At, TypeInv, Typed, TaskType,
       TaskRecord, StatusType, LogType, FollowType, FollowRecord, FollowInv,
       FinalIsSettled, FollowerKnows, HandlersKnowJob, Excused, Final, Settled
  <1>5. ASSUME NEW c \in Canceller, CancelUpdate(c)
        PROVE  FollowInv'
    BY <1>5 DEF CancelUpdate, inside, Update, At, TypeInv, Typed, TaskType,
       TaskRecord, StatusType, LogType, FollowType, FollowRecord, FollowInv,
       FinalIsSettled, FollowerKnows, HandlersKnowJob, Excused, Final, Settled
  <1>6. ASSUME NEW f \in Follower, NEW j \in Job, FollowOpen(f, j)
        PROVE  FollowInv'
    BY <1>6 DEF FollowOpen, At, TypeInv, Typed, TaskType, TaskRecord,
       StatusType, LogType, FollowType, FollowRecord, FollowInv,
       FinalIsSettled, FollowerKnows, HandlersKnowJob, Excused, Final,
       Settled, beside
  <1>7. ASSUME NEW f \in Follower, FollowStatus(f)
        PROVE  FollowInv'
    BY <1>7 DEF FollowStatus, At, TypeInv, Typed, TaskType, TaskRecord,
       StatusType, LogType, FollowType, FollowRecord, FollowInv,
       FinalIsSettled, FollowerKnows, HandlersKnowJob, Excused, Final,
       Settled, beside
  <1>8. ASSUME NEW f \in Follower, FollowRead(f)
        PROVE  FollowInv'
    BY <1>8 DEF FollowRead, At, TypeInv, Typed, TaskType, TaskRecord,
       StatusType, LogType, FollowType, FollowRecord, FollowInv,
       FinalIsSettled, FollowerKnows, HandlersKnowJob, Excused, Final,
       Settled, beside
  <1>9. CASE DeleteCheck
    BY <1>9 DEF DeleteCheck, At, TypeInv, Typed, TaskType, TaskRecord,
       StatusType, LogType, FollowType, FollowRecord, FollowInv,
       FinalIsSettled, FollowerKnows, HandlersKnowJob, Excused, Final,
       Settled, around
  <1>10. CASE DeleteRemove
    BY <1>10 DEF DeleteRemove, At, TypeInv, Typed, TaskType, TaskRecord,
       StatusType, LogType, FollowType, FollowRecord, FollowInv,
       FinalIsSettled, FollowerKnows, HandlersKnowJob, Excused, Final,
       Settled, around
  <1>11. CASE Restart
    BY <1>11 DEF Restart, At, TypeInv, Typed, TaskType, TaskRecord,
       StatusType, LogType, FollowType, FollowRecord, FollowInv,
       FinalIsSettled, FollowerKnows, HandlersKnowJob, Excused, Final, Settled
  <1>12. QED
    BY <1>1, <1>2, <1>3, <1>4, <1>5, <1>6, <1>7, <1>8, <1>9, <1>10, <1>11
       DEF Next

(* A follower that closed has sent the whole log of a job that was neither  *)
(* cancelled nor refused.                                                   *)
THEOREM FollowerCorrect == Spec => []FollowerSawWholeLog
  <1>1. Init => FollowInv
    BY DEF Init, NoTask, FollowInv, FinalIsSettled, FollowerKnows, Final
  <1>2. Spec => []TypeInv
    BY TypeInit, TypeNext, PTL DEF Spec
  <1>3. Spec => []FollowInv
    BY <1>1, <1>2, FollowNext, PTL DEF Spec
  <1>4. FollowInv => FollowerSawWholeLog
    BY DEF FollowInv, FollowerKnows, FollowerSawWholeLog, Excused
  <1>5. QED
    BY <1>3, <1>4, PTL

-----------------------------------------------------------------------------
(* Refinement of JobLifecycle, where nobody cancels: the row of a job says  *)
(* where its task is, and what a callback was told.                         *)

Said(j) == IF task[j].ok THEN "success" ELSE "failed"

PhaseInv ==
  \A j \in Job :
    /\ task[j].pc \in {"none", "insert"} => status[j] = "none"
    /\ task[j].pc \in {"check", "created"} => status[j] = "pending"
    /\ task[j].pc \in {"prepare", "spawned", "exec", "look", "poll", "wrap",
                       "report"} => status[j] = "running"
    /\ At(j, "errlog") => status[j] = "failed"
    /\ task[j].pc \in {"hooks", "notify"} => status[j] = Said(j)
    /\ hook[j].pc = "sending" => At(j, "dead") /\ status[j] = Said(j)
    /\ told[j] # {} => status[j] \in Final /\ told[j] = {status[j]}

LEMMA PhaseNext ==
  ASSUME Canceller = {}, TypeInv, PhaseInv, [Next]_vars
  PROVE  PhaseInv'
  <1>1. CASE UNCHANGED vars
    BY <1>1 DEF vars, At, TypeInv, Typed, TaskType, TaskRecord, StatusType,
       ToldType, HookType, HookRecord, PhaseInv, Said, Final
  <1>2. ASSUME NEW j \in Job,
               BuildCheck(j) \/ CreateJob(j) \/ Runner(j) \/ Output(j)
                 \/ WorkEnds(j) \/ WebhookAttempt(j)
        PROVE  PhaseInv'
    <2>1. CASE BuildCheck(j)
      BY <2>1 DEF BuildCheck, Goto, At, TypeInv, Typed, TaskType,
         TaskRecord, StatusType, ToldType, HookType, HookRecord, PhaseInv,
         Said, Final, outside
    <2>2. CASE CreateJob(j)
      BY <2>2 DEF CreateJob, Update, Goto, At, TypeInv, Typed, TaskType,
         TaskRecord, StatusType, ToldType, HookType, HookRecord, PhaseInv,
         Said, Final, outside
    <2>3. CASE GuestCheck(j)
      BY <2>3 DEF GuestCheck, Goto, At, TypeInv, Typed, TaskType,
         TaskRecord, StatusType, ToldType, HookType, HookRecord, PhaseInv,
         Said, Final, outside
    <2>4. CASE Start(j)
      BY <2>4 DEF Start, Update, Goto, At, TypeInv, Typed, TaskType,
         TaskRecord, StatusType, ToldType, HookType, HookRecord, PhaseInv,
         Said, Final, outside
    <2>5. CASE NoToken(j)
      BY <2>5 DEF NoToken, Update, Goto, At, TypeInv, Typed, TaskType,
         TaskRecord, StatusType, ToldType, HookType, HookRecord, PhaseInv,
         Said, Final, outside
    <2>6. CASE NoTokenLog(j)
      BY <2>6 DEF NoTokenLog, Goto, At, TypeInv, Typed, TaskType,
         TaskRecord, StatusType, ToldType, HookType, HookRecord, PhaseInv,
         Said, Final, outside
    <2>7. CASE PrepareFails(j)
      BY <2>7 DEF PrepareFails, Ready, Write, Outcome, At, TypeInv, Typed,
         TaskType, TaskRecord, StatusType, ToldType, HookType, HookRecord,
         PhaseInv, Said, Final, outside
    <2>8. CASE Launch(j)
      <3>1. PICK pc \in {"spawned", "exec", "look", "poll"} :
              Goto(j, pc) /\ (pc = "spawned" => kind[j] = "packer")
        BY <2>8, LaunchGoes
      <3>2. /\ task'[j].pc = pc /\ task'[j].ok = task[j].ok
            /\ \A k \in Job \ {j} : task'[k] = task[k]
        BY <3>1 DEF Goto, TypeInv, Typed, TaskType, TaskRecord
      <3>3. At(j, "prepare") /\ UNCHANGED <<status, hook, told>>
        BY <2>8 DEF Launch, Ready
      <3>4. QED
        BY <3>2, <3>3 DEF At, PhaseInv, Said, Final
    <2>9. CASE LaunchSync(j)
      BY <2>9 DEF LaunchSync, Ready, Outcome, At, TypeInv, Typed, TaskType,
         TaskRecord, StatusType, ToldType, HookType, HookRecord, PhaseInv,
         Said, Final, outside
    <2>10. CASE Register(j)
      BY <2>10 DEF Register, Goto, At, TypeInv, Typed, TaskType,
         TaskRecord, StatusType, ToldType, HookType, HookRecord, PhaseInv,
         Said, Final, outside
    <2>11. CASE ExecReturns(j)
      BY <2>11 DEF ExecReturns, Outcome, At, TypeInv, Typed, TaskType,
         TaskRecord, StatusType, ToldType, HookType, HookRecord, PhaseInv,
         Said, Final, outside
    <2>12. CASE LookCancelled(j)
      BY <2>12 DEF LookCancelled, Write, Outcome, Goto, At, TypeInv, Typed,
         TaskType, TaskRecord, StatusType, ToldType, HookType, HookRecord,
         PhaseInv, Said, Final, outside
    <2>13. CASE PollEnds(j)
      BY <2>13 DEF PollEnds, Write, Outcome, AfterPoll, At, TypeInv, Typed,
         TaskType, TaskRecord, StatusType, ToldType, HookType, HookRecord,
         PhaseInv, Said, Final, outside
    <2>14. CASE PollAgain(j)
      BY <2>14 DEF PollAgain, Write, NextRound, At, TypeInv, Typed,
         TaskType, TaskRecord, StatusType, ToldType, HookType, HookRecord,
         PhaseInv, Said, Final, outside
    <2>15. CASE PollTimeout(j)
      BY <2>15 DEF PollTimeout, Write, Outcome, At, TypeInv, Typed,
         TaskType, TaskRecord, StatusType, ToldType, HookType, HookRecord,
         PhaseInv, Said, Final, outside
    <2>16. CASE PollFails(j)
      BY <2>16 DEF PollFails, Write, Outcome, AfterPoll, At, TypeInv,
         Typed, TaskType, TaskRecord, StatusType, ToldType, HookType,
         HookRecord, PhaseInv, Said, Final, outside
    <2>17. CASE Wrap(j)
      BY <2>17 DEF Wrap, Write, Goto, At, TypeInv, Typed, TaskType,
         TaskRecord, StatusType, ToldType, HookType, HookRecord, PhaseInv,
         Said, Final, outside
    <2>18. CASE Report(j)
      BY <2>18 DEF Report, Update, Goto, At, TypeInv, Typed, TaskType,
         TaskRecord, StatusType, ToldType, HookType, HookRecord, PhaseInv,
         Said, Final, outside
    <2>19. CASE Hooks(j)
      BY <2>19 DEF Hooks, Goto, At, TypeInv, Typed, TaskType, TaskRecord,
         StatusType, ToldType, HookType, HookRecord, PhaseInv, Said, Final,
         outside
    <2>20. CASE Notify(j)
      BY <2>20 DEF Notify, Goto, At, TypeInv, Typed, TaskType, TaskRecord,
         StatusType, ToldType, HookType, HookRecord, PhaseInv, Said, Final,
         outside
    <2>21. CASE Output(j)
      BY <2>21 DEF Output, Write, At, TypeInv, Typed, TaskType, TaskRecord,
         StatusType, ToldType, HookType, HookRecord, PhaseInv, Said, Final,
         outside
    <2>22. CASE WorkEnds(j)
      BY <2>22 DEF WorkEnds, At, TypeInv, Typed, TaskType, TaskRecord,
         StatusType, ToldType, HookType, HookRecord, PhaseInv, Said, Final,
         outside
    <2>23. CASE WebhookAttempt(j)
      BY <2>23 DEF WebhookAttempt, At, TypeInv, Typed, TaskType,
         TaskRecord, StatusType, ToldType, HookType, HookRecord, PhaseInv,
         Said, Final, outside
    <2>24. QED
      BY <1>2, <2>1, <2>2, <2>3, <2>4, <2>5, <2>6, <2>7, <2>8, <2>9, <2>10,
         <2>11, <2>12, <2>13, <2>14, <2>15, <2>16, <2>17, <2>18, <2>19, <2>20,
         <2>21, <2>22, <2>23 DEF Runner
  <1>3. ASSUME NEW c \in Canceller, NEW j \in Job, CancelSelect(c, j)
        PROVE  PhaseInv'
    BY <1>3 DEF CancelSelect, At, TypeInv, Typed, TaskType, TaskRecord,
       StatusType, ToldType, HookType, HookRecord, PhaseInv, Said, Final,
       inside
  <1>4. ASSUME NEW c \in Canceller, CancelTerminate(c)
        PROVE  PhaseInv'
    BY <1>4 DEF CancelTerminate, inside, At, TypeInv, Typed, TaskType,
       TaskRecord, StatusType, ToldType, HookType, HookRecord, PhaseInv, Said,
       Final
  <1>5. ASSUME NEW c \in Canceller, CancelUpdate(c)
        PROVE  PhaseInv'
    BY <1>5 DEF CancelUpdate, inside, Update, At, TypeInv, Typed, TaskType,
       TaskRecord, StatusType, ToldType, HookType, HookRecord, PhaseInv, Said,
       Final
  <1>6. ASSUME NEW f \in Follower, NEW j \in Job, FollowOpen(f, j)
        PROVE  PhaseInv'
    BY <1>6 DEF FollowOpen, At, TypeInv, Typed, TaskType, TaskRecord,
       StatusType, ToldType, HookType, HookRecord, PhaseInv, Said, Final,
       beside
  <1>7. ASSUME NEW f \in Follower, FollowStatus(f)
        PROVE  PhaseInv'
    BY <1>7 DEF FollowStatus, At, TypeInv, Typed, TaskType, TaskRecord,
       StatusType, ToldType, HookType, HookRecord, PhaseInv, Said, Final,
       beside
  <1>8. ASSUME NEW f \in Follower, FollowRead(f)
        PROVE  PhaseInv'
    BY <1>8 DEF FollowRead, At, TypeInv, Typed, TaskType, TaskRecord,
       StatusType, ToldType, HookType, HookRecord, PhaseInv, Said, Final,
       beside
  <1>9. CASE DeleteCheck
    BY <1>9 DEF DeleteCheck, At, TypeInv, Typed, TaskType, TaskRecord,
       StatusType, ToldType, HookType, HookRecord, PhaseInv, Said, Final,
       around
  <1>10. CASE DeleteRemove
    BY <1>10 DEF DeleteRemove, At, TypeInv, Typed, TaskType, TaskRecord,
       StatusType, ToldType, HookType, HookRecord, PhaseInv, Said, Final,
       around
  <1>11. CASE Restart
    BY <1>11 DEF Restart, At, TypeInv, Typed, TaskType, TaskRecord,
       StatusType, ToldType, HookType, HookRecord, PhaseInv, Said, Final
  <1>12. QED
    BY <1>1, <1>2, <1>3, <1>4, <1>5, <1>6, <1>7, <1>8, <1>9, <1>10, <1>11
       DEF Next

(* Every step of the job system is a step of the lifecycle or changes       *)
(* nothing it speaks of.                                                    *)
LEMMA StepRefines ==
  ASSUME Canceller = {}, TypeInv, PhaseInv, [Next]_vars
  PROVE  [Lifecycle!ANext]_Lifecycle!avars
  <1>1. CASE UNCHANGED <<status, told>>
    BY <1>1 DEF Lifecycle!avars
  <1>2. ASSUME NEW j \in Job, CreateJob(j)
        PROVE  Lifecycle!Queue(j)
    BY <1>2 DEF CreateJob, At, Update, PhaseInv, Lifecycle!Queue,
       Lifecycle!Advance
  <1>3. ASSUME NEW j \in Job, Start(j)
        PROVE  Lifecycle!Begin(j)
    BY <1>3 DEF Start, At, Update, PhaseInv, Lifecycle!Begin,
       Lifecycle!Advance
  <1>4. ASSUME NEW j \in Job, NoToken(j) \/ Report(j)
        PROVE  Lifecycle!End(j)
    <2>1. PICK o \in {"success", "failed"} : Update(j, o)
      BY <1>4 DEF NoToken, Report
    <2>2. status[j] = "running" /\ UNCHANGED told
      BY <1>4 DEF NoToken, Report, At, PhaseInv
    <2>3. QED
      BY <2>1, <2>2 DEF Update, Lifecycle!End, Lifecycle!Advance,
         Lifecycle!Outcome
  <1>5. ASSUME NEW j \in Job, WebhookAttempt(j), told' # told
        PROVE  Lifecycle!Tell(j)
    <2>1. status[j] \in Final /\ status[j] = Said(j)
      BY <1>5 DEF WebhookAttempt, PhaseInv, Said, Final
    <2>2. told' = [told EXCEPT ![j] = @ \union {Said(j)}] /\ UNCHANGED status
      BY <1>5 DEF WebhookAttempt, Said
    <2>3. told[j] \union {Said(j)} = {status[j]}
      BY <2>1 DEF PhaseInv
    <2>4. QED
      BY <2>1, <2>2, <2>3 DEF Lifecycle!Tell, Lifecycle!Outcome, Final
  <1>6. ASSUME NEW j \in Job,
               BuildCheck(j) \/ Runner(j) \/ Output(j) \/ WorkEnds(j),
               ~(Start(j) \/ NoToken(j) \/ Report(j))
        PROVE  UNCHANGED <<status, told>>
    BY <1>6 DEF BuildCheck, Runner, Output, WorkEnds, GuestCheck, NoTokenLog,
       PrepareFails, Launch, LaunchSync, Register, ExecReturns, LookCancelled,
       PollEnds, PollAgain, PollTimeout, PollFails, Wrap, Hooks, Notify
  <1>7. ASSUME NEW j \in Job, WebhookAttempt(j)
        PROVE  UNCHANGED status
    BY <1>7 DEF WebhookAttempt
  <1>8. ASSUME \/ \E f \in Follower, j \in Job : FollowOpen(f, j)
               \/ \E f \in Follower : FollowStatus(f) \/ FollowRead(f)
               \/ DeleteCheck \/ DeleteRemove \/ Restart \/ UNCHANGED vars
        PROVE  UNCHANGED <<status, told>>
    BY <1>8 DEF FollowOpen, FollowStatus, FollowRead, beside, DeleteCheck,
       DeleteRemove, around, Restart, vars
  <1>9. ASSUME NEW j \in Job,
               \/ Lifecycle!Queue(j) \/ Lifecycle!Begin(j)
               \/ Lifecycle!End(j) \/ Lifecycle!Tell(j)
        PROVE  Lifecycle!ANext
    BY <1>9 DEF Lifecycle!ANext
  <1>10. QED
    BY <1>1, <1>2, <1>3, <1>4, <1>5, <1>6, <1>7, <1>8, <1>9 DEF Next

(* A job is queued, runs and ends once, and its callback hears nothing but  *)
(* the outcome, through restarts and lost answers, as long as nobody        *)
(* cancels.                                                                 *)
THEOREM LifecycleImplemented ==
  ASSUME Canceller = {}
  PROVE  Spec => ImplementsLifecycle
  <1>1. Init => PhaseInv /\ Lifecycle!AInit
    BY DEF Init, NoTask, At, PhaseInv, Lifecycle!AInit
  <1>2. TypeInv /\ PhaseInv /\ [Next]_vars => PhaseInv'
    BY PhaseNext
  <1>3. TypeInv /\ PhaseInv /\ [Next]_vars => [Lifecycle!ANext]_Lifecycle!avars
    BY StepRefines
  <1>4. Spec => []TypeInv
    BY TypeInit, TypeNext, PTL DEF Spec
  <1>5. Spec => []PhaseInv
    BY <1>1, <1>2, <1>4, PTL DEF Spec
  <1>6. QED
    BY <1>1, <1>3, <1>4, <1>5, PTL DEF Spec, ImplementsLifecycle, Lifecycle!ASpec

=============================================================================
