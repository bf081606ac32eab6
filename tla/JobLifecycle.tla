---------------------------- MODULE JobLifecycle ----------------------------
(***************************************************************************)
(* What the job system promises to the clients that poll a job or wait for *)
(* its webhook: a job is queued, runs and ends once, its outcome never     *)
(* changes, and a callback reports nothing but that outcome.  Jobs.tla is  *)
(* shown to implement it as long as nobody cancels.                        *)
(***************************************************************************)
CONSTANT Job

VARIABLES status,   \* jobs.status, "none" before the INSERT
          told      \* the statuses that callback_url has received

avars == <<status, told>>

Outcome == {"success", "failed"}

AInit == /\ status = [j \in Job |-> "none"]
         /\ told = [j \in Job |-> {}]

\* Legal edges of the status graph.
Advance(j, from, to) ==
  /\ status[j] = from
  /\ status' = [status EXCEPT ![j] = to]
  /\ UNCHANGED told

Queue(j) == Advance(j, "none", "pending")
Begin(j) == Advance(j, "pending", "running")
End(j)   == \E o \in Outcome : Advance(j, "running", o)

\* The callback hears of a finished job, possibly more than once.
Tell(j) ==
  /\ status[j] \in Outcome
  /\ told' = [told EXCEPT ![j] = {status[j]}]
  /\ UNCHANGED status

ANext == \E j \in Job : Queue(j) \/ Begin(j) \/ End(j) \/ Tell(j)

ASpec == AInit /\ [][ANext]_avars
=============================================================================
