---------------------------- MODULE QueueWorker ----------------------------
(***************************************************************************)
(* DurableQueueWorker (queue/worker.ts): the polling lanes of one process. *)
(* Lanes look for work, execute it, or sleep until somebody wakes them;    *)
(* only the coordinator's sleep ends by itself.                            *)
(*                                                                         *)
(* A step is what the event loop runs between two awaits.  What a claim    *)
(* does to the database is modelled by DurableQueue; here a job is only    *)
(* absent, not yet due, due, claimed, left running by a failed runOne, or  *)
(* over, and at most Limit jobs run at once.                               *)
(*                                                                         *)
(* The operators named Mutant_... are wrong versions of the operators after*)
(* them; nothing uses them but the runs that show that a property notices. *)
(***************************************************************************)
EXTENDS Naturals, FiniteSets

CONSTANTS
    Lanes,        \* the lanes of the worker, parallelism many
    Coordinator,  \* the lane with index 0
    Jobs,         \* operations this worker has handlers for
    Remote,       \* jobs enqueued by another process: no listener is called for them
    Limit,        \* what the scope limits admit
    ClaimErrors,  \* lanes whose claim may throw
    LateErrors,   \* lanes whose runOne may reject after its handler has run
    NoJob

ASSUME WorkerAssumption ==
    /\ Coordinator \in Lanes /\ IsFiniteSet(Jobs) /\ NoJob \notin Jobs
    /\ Remote \subseteq Jobs
    /\ ClaimErrors \subseteq Lanes /\ LateErrors \subseteq Lanes
    /\ Limit \in Nat \ {0}

VARIABLES
    running,  \* started and not stopped
    pc,       \* where each lane's promise is
    on,       \* the job a lane executes
    job,      \* what the database says of each job
    stray     \* history: lanes without a timer whose runOne rejected after stop()

vars == <<running, pc, on, job, stray>>

Pcs == {"unborn", "loop", "execute", "handled", "empty", "failed", "asleep", "ended"}

\* The lanes and the jobs are well typed; a lane has a job exactly while it executes.
TypeOK ==
    /\ running \in BOOLEAN
    /\ pc \in [Lanes -> Pcs]
    /\ on \in [Lanes -> Jobs \cup {NoJob}]
    /\ job \in [Jobs -> {"absent", "later", "due", "claimed", "orphan", "over"}]
    /\ stray \subseteq Lanes \ {Coordinator}
    /\ \A l \in Lanes : on[l] # NoJob <=> pc[l] = "execute"

Init ==
    /\ running = FALSE
    /\ pc = [l \in Lanes |-> "unborn"]
    /\ on = [l \in Lanes |-> NoJob]
    /\ job = [j \in Jobs |-> "absent"]
    /\ stray = {}

-----------------------------------------------------------------------------
Goto(l, s) == pc' = [pc EXCEPT ![l] = s]

\* wake: every sleeping lane's promise resolves, and its timer is cleared.
Mutant_EverybodyWoken == [l \in Lanes |-> IF pc[l] \in {"unborn", "ended"} THEN pc[l] ELSE "loop"]
Woken == [l \in Lanes |-> IF pc[l] = "asleep" THEN "loop" ELSE pc[l]]

\* Only the coordinator's wait arms a timer.
Mutant_NoTimer(l) == FALSE
Armed(l) == l = Coordinator /\ pc[l] = "asleep"

Start ==
    /\ \A l \in Lanes : pc[l] = "unborn"
    /\ running' = TRUE
    /\ pc' = [l \in Lanes |-> "loop"]
    /\ UNCHANGED <<on, job, stray>>

Mutant_SilentStop == running /\ running' = FALSE /\ UNCHANGED <<pc, on, job, stray>>
Stop ==
    /\ running
    /\ running' = FALSE
    /\ pc' = Woken
    /\ UNCHANGED <<on, job, stray>>

-----------------------------------------------------------------------------
(* One lane.                                                               *)

Counted == {j \in Jobs : job[j] \in {"claimed", "orphan"}}
Claimable == {j \in Jobs : job[j] = "due" /\ Cardinality(Counted) < Limit}

\* The head of the loop, and claimNext in the same breath.
Leave(l) ==
    /\ pc[l] = "loop" /\ ~running
    /\ Goto(l, "ended")
    /\ UNCHANGED <<running, on, job, stray>>

Claim(l, j) ==
    /\ pc[l] = "loop" /\ running
    /\ j \in Claimable
    /\ job' = [job EXCEPT ![j] = "claimed"]
    /\ on' = [on EXCEPT ![l] = j]
    /\ Goto(l, "execute")
    /\ UNCHANGED <<running, stray>>

\* Nothing to claim, or the claim has thrown (a busy database, a lock row of its own).
FindNothing(l) ==
    /\ pc[l] = "loop" /\ running
    /\ \/ Claimable = {} /\ Goto(l, "empty")
       \/ l \in ClaimErrors /\ Goto(l, "failed")
    /\ UNCHANGED <<running, on, job, stray>>

\* The handler ends and runOne writes the outcome, or rejects without having written it.
HandlerEnds(l) ==
    /\ pc[l] = "execute"
    /\ on' = [on EXCEPT ![l] = NoJob]
    /\ \/ Goto(l, "handled") /\ job' = [job EXCEPT ![on[l]] = "over"]
       \/ /\ l \in LateErrors
          /\ Goto(l, "failed") /\ job' = [job EXCEPT ![on[l]] = "orphan"]
    /\ UNCHANGED <<running, stray>>

\* runOne has resolved with a result: stop, or wake the other lanes and look again.
ResumeHandled(l) ==
    /\ pc[l] = "handled"
    /\ pc' = IF running THEN [Woken EXCEPT ![l] = "loop"] ELSE [pc EXCEPT ![l] = "ended"]
    /\ UNCHANGED <<running, on, job, stray>>

\* runOne has resolved without one: stop or sleep.
ResumeEmpty(l) ==
    /\ pc[l] = "empty"
    /\ Goto(l, IF running THEN "asleep" ELSE "ended")
    /\ UNCHANGED <<running, on, job, stray>>

\* runOne has rejected: onError, then sleep; running is not asked.  After stop() nobody is
\* left to wake a lane that has no timer.
ResumeFailed(l) ==
    /\ pc[l] = "failed"
    /\ Goto(l, "asleep")
    /\ stray' = IF running \/ l = Coordinator THEN stray ELSE stray \cup {l}
    /\ UNCHANGED <<running, on, job>>

PollTimer(l) ==
    /\ Armed(l)
    /\ Goto(l, "loop")
    /\ UNCHANGED <<running, on, job, stray>>

-----------------------------------------------------------------------------
(* The database and the rest of the process.                               *)

\* enqueue, here or in another process; the listener is there while the worker runs.
Enqueue(j) ==
    /\ job[j] = "absent"
    /\ \E s \in {"later", "due"} : job' = [job EXCEPT ![j] = s]
    /\ pc' = IF running /\ j \notin Remote THEN Woken ELSE pc
    /\ UNCHANGED <<running, on, stray>>

\* available_at passes: nobody is told.
BecomesDue(j) ==
    /\ job[j] = "later"
    /\ job' = [job EXCEPT ![j] = "due"]
    /\ UNCHANGED <<running, pc, on, stray>>

\* Another process recovers an operation that was left running.
Recover(j) ==
    /\ job[j] = "orphan"
    /\ job' = [job EXCEPT ![j] = "over"]
    /\ UNCHANGED <<running, pc, on, stray>>

LaneStep(l) ==
    \/ Leave(l) \/ (\E j \in Jobs : Claim(l, j)) \/ FindNothing(l)
    \/ HandlerEnds(l) \/ ResumeHandled(l) \/ ResumeEmpty(l) \/ ResumeFailed(l)
    \/ PollTimer(l)

Next ==
    \/ Start \/ Stop
    \/ \E l \in Lanes : LaneStep(l)
    \/ \E j \in Jobs : Enqueue(j) \/ BecomesDue(j) \/ Recover(j)

Spec == Init /\ [][Next]_vars

\* Promises that have settled are resumed, handlers end (each has a timeout), the timer
\* fires, clocks advance, orphans are recovered, and claims do not throw for ever.
Fairness ==
    /\ \A l \in Lanes : WF_vars(LaneStep(l)) /\ SF_vars(\E j \in Jobs : Claim(l, j))
    /\ \A j \in Jobs : WF_vars(BecomesDue(j)) /\ WF_vars(Recover(j))

FairSpec == Spec /\ Fairness

-----------------------------------------------------------------------------
\* Due work is started while the worker runs, although wake-ups are lost, other processes
\* enqueue without one, and lanes that have failed go to sleep (the fallback poll).
DueWorkStarts ==
    \A j \in Jobs : (job[j] = "due" /\ running) ~> (job[j] # "due" \/ ~running)

\* After stop() every lane ends, wherever it was, so that settled() resolves and the store is
\* closed, but for the lanes without a timer that rejected after stop(): they sleep for ever
\* (runLane asks nothing of running between onError and wait).
StopSettles ==
    (\E l \in Lanes : pc[l] # "unborn") /\ ~running ~>
        \A l \in Lanes : pc[l] = IF l \in stray THEN "asleep" ELSE "ended"

\* The worker does not sit on due work: while there is some that the limits admit and a
\* lane is asleep, a poll timer runs or some lane is about to look or to wake the others
\* ("One coordinator lane retains the durable cross-process recovery poll", runLane).
IdleLanesPoll ==
    running /\ Claimable # {} /\ (\E l \in Lanes : pc[l] = "asleep") =>
        \E l \in Lanes : Armed(l) \/ pc[l] \notin {"asleep", "execute"}
=============================================================================
