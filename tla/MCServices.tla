----------------------------- MODULE MCServices -----------------------------
(* Small instances of the services that hand their work to the queue:      *)
(* releases, scheduled jobs, preview environments, backups; and of alerts. *)
(* They have no variable in common, so that a behaviour of all of them is  *)
(* one of each, and a behaviour of this module runs one and leaves the     *)
(* others alone.                                                           *)
(* Backups are run twice: without recovery:* commands, and with commands   *)
(* but nothing that goes wrong except that they are interrupted; all but   *)
(* the last backup are made and verified before anything else is.  A job   *)
(* that replaces its runs has a command or a mishap, not both.             *)
EXTENDS ReleaseActivation, ScheduledJobs, Previews, Backups, Alerts

CONSTANTS A, B, dashboard, cli, web, push1, close1

VARIABLE service

MCPlans == [overlap : {"forbid"}, missed : {"skip"}]
             \cup [overlap : {"replace"}, missed : {"catch_up"}]
MCCommitOf == [d \in Pushes |-> CHOOSE c \in Commits : TRUE]
MCDayOf == [p \in Points |-> IF p < MaxPoints THEN 1 ELSE 2]
MCRules ==
    {[consecutive |-> 2, recovery |-> 2, noData |-> "pending", wait |-> TRUE],
     [consecutive |-> 1, recovery |-> 2, noData |-> "ignore", wait |-> FALSE]}

AnyPlan == CHOOSE p \in Plans : TRUE
AnyRule == CHOOSE r \in Rules : TRUE

MCInit ==
    /\ service \in {"releases", "jobs", "previews", "backups", "commands", "alerts"}
    /\ Init /\ JobsInit /\ PreviewInit /\ BackupInit /\ AlertInit
    /\ service # "jobs" => schedule.plan = AnyPlan
    /\ service # "alerts" => rule = AnyRule

ReleasesStep ==
    /\ service = "releases" /\ Next
    /\ UNCHANGED <<service, jobsVars, previewVars, backupVars, alertVars>>
JobsStep ==
    /\ service = "jobs" /\ JobsNext
    /\ \/ schedule.plan.overlap = "forbid" \/ mishaps' = 0
       \/ \A d \in Commands : dispatcher'[d].pc = "idle"
    /\ UNCHANGED <<service, vars, previewVars, backupVars, alertVars>>
PreviewsStep ==
    /\ service = "previews" /\ PreviewNext
    /\ UNCHANGED <<service, vars, jobsVars, backupVars, alertVars>>
MCEarlierBackups ==
    /\ upsets' = 0 /\ \A a \in Shells : asking'[a].pc = "none"
    /\ \A p \in Points : ~point'[p].expired
    /\ \A t \in Tasks : task'[t].state # "absent" => t.job.kind \in {"backup", "verify"}
MCEarlierBackupsDone == \A t \in Tasks : task[t].state \in {"absent", "succeeded"}
BackupsStep ==
    /\ service \in {"backups", "commands"} /\ BackupNext
    /\ UNCHANGED <<service, vars, jobsVars, previewVars, alertVars>>
    /\ \/ service = "backups" /\ \A a \in Shells : asking'[a].pc = "none"
       \/ service = "commands" /\ upsets' = upsets
    /\ asked' < MaxBackups => MCEarlierBackups
    /\ asked < asked' /\ asked' = MaxBackups => MCEarlierBackupsDone
AlertsStep ==
    /\ service = "alerts" /\ AlertNext
    /\ UNCHANGED <<service, vars, jobsVars, previewVars, backupVars>>

MCNext == ReleasesStep \/ JobsStep \/ PreviewsStep \/ BackupsStep \/ AlertsStep

MCSpec ==
    MCInit /\ [][MCNext]_<<service, vars, jobsVars, previewVars, backupVars, alertVars>>
=============================================================================
