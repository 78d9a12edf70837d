------------------------------- MODULE Alerts -------------------------------
(***************************************************************************)
(* One alert of one rule (alerts/evaluator.ts) and its notifications over  *)
(* one route to one channel (alerts/delivery.ts, alerts/store.ts).         *)
(*                                                                         *)
(* The dashboard evaluates rules in sweeps and on request.  An evaluation  *)
(* is synchronous; what it has to tell is enqueued later, after the        *)
(* deliveries of other alerts were awaited.  Sweeps overlap, and so do the *)
(* deliveries they make.  The commands alerts:evaluate and health:run      *)
(* evaluate in a process of their own and tell nobody.                     *)
(*                                                                         *)
(* Time is the number of samples evaluated; no two have the same time.     *)
(* Whether a silence window of the project covers a sample, and whether    *)
(* quiet hours or the rate limit of the route let a notice pass, is open.  *)
(* The route is enabled and matches the alert; reminders and escalations   *)
(* are left out.  The channel's endpoint is external.                      *)
(***************************************************************************)
EXTENDS Naturals, FiniteSets

CONSTANTS
    Rules,       \* the configurations the rule may have
    MaxSends,    \* bound of the model: deliveries in flight at a time
    MaxSamples,  \* bound of the model: samples evaluated
    MaxTouches   \* bound of the model: acts of operators and restarts, together

Times == 1..MaxSamples
DeliveryTries == 3  \* max_attempts of a delivery unless the caller says otherwise

ASSUME AlertsAssumption ==
    /\ MaxSends \in Nat /\ MaxSamples \in Nat /\ MaxTouches \in Nat
    /\ Rules \subseteq [consecutive : Nat \ {0}, recovery : Nat \ {0},
                        noData : {"ignore", "pending", "firing"}, wait : BOOLEAN]

\* The idempotency key of a notice: the event, and firingAt or resolvedAt of the alert.
Notices == [event : {"firing", "resolved"}, at : Times]

VARIABLES
    rule,        \* the row of alert_rules
    alert,       \* the row of alerts
    samples,     \* evaluated so far
    incident,    \* how often the alert has become firing or silenced from another state
    untold,      \* the transitions of incidents that were to be told, and could not be
    telling,     \* evaluations of sweeps and requests whose notice is not enqueued yet
    deliveries,  \* notification_deliveries
    sending,     \* the calls of deliver that await the endpoint
    channel,     \* status of the channel; a disabled one is "paused" here
    touches

alertVars ==
    <<rule, alert, samples, incident, untold, telling, deliveries, sending, channel, touches>>

\* The rows are well typed; a delivery is tried three times, and more only when its
\* channel was unavailable in between.
AlertTypeOK ==
    /\ rule \in Rules /\ samples \in 0..MaxSamples /\ touches \in 0..MaxTouches
    /\ incident \in 0..MaxSamples + MaxTouches
    /\ alert \in [state : {"none", "pending", "firing", "silenced", "resolved"},
                  fails : 0..rule.consecutive, recoveries : 0..rule.recovery,
                  firingAt : 0..MaxSamples, resolvedAt : 0..MaxSamples,
                  until : 0..MaxSamples + 1]
    /\ untold \subseteq [event : {"firing", "resolved"}, incident : Nat]
    /\ telling \subseteq [notice : Notices, incident : Nat]
    /\ deliveries \in [Notices ->
         [state : {"absent", "pending", "retrying", "delivered", "failed", "dead"},
          try : 0..DeliveryTries + MaxTouches, due : BOOLEAN, incident : 0..incident]]
    /\ sending \subseteq [of : Notices, try : 1..DeliveryTries + MaxTouches, nth : 1..MaxSends]
    /\ channel \in {"active", "failing", "paused"}

AlertInit ==
    /\ rule \in Rules
    /\ alert = [state |-> "none", fails |-> 0, recoveries |-> 0,
                firingAt |-> 0, resolvedAt |-> 0, until |-> 0]
    /\ samples = 0 /\ incident = 0 /\ untold = {} /\ telling = {} /\ touches = 0
    /\ deliveries = [n \in Notices |->
                     [state |-> "absent", try |-> 0, due |-> FALSE, incident |-> 0]]
    /\ sending = {} /\ channel = "active"

Touch == touches < MaxTouches /\ touches' = touches + 1
Capped(n, most) == IF n < most THEN n ELSE most

-----------------------------------------------------------------------------
(* AlertEvaluator.evaluate.  Counters matter only up to their thresholds.  *)

Raised(a) == a.state \in {"firing", "silenced"}
Breach(sample) == sample = "failing" \/ (sample = "no_data" /\ rule.noData = "firing")
Unsure(sample) == sample = "no_data" /\ rule.noData = "pending"

\* When the incident began: kept as long as the alert is firing or silenced, and after it.
Mutant_Since(a, state, at) == IF state \in {"firing", "silenced"} THEN at ELSE 0
Since(a, state, at) ==
    IF state \notin {"firing", "silenced"} THEN 0
    ELSE IF a.firingAt = 0 THEN at ELSE a.firingAt

First(sample, at) ==
    LET state == IF Breach(sample) /\ rule.consecutive = 1 THEN "firing" ELSE "pending"
    IN [alert EXCEPT !.state = state, !.firingAt = Since(alert, state, at),
                     !.fails = IF sample = "healthy" THEN 0 ELSE 1]

Worse(sample, at, covered) ==
    LET fails == (IF alert.state = "resolved" THEN 0 ELSE alert.fails) + 1
        hushed == covered \/ alert.until > at
        state == CASE Unsure(sample) \/ fails < rule.consecutive -> "pending"
                   [] OTHER -> IF hushed THEN "silenced" ELSE "firing"
    IN [alert EXCEPT !.state = state, !.fails = Capped(fails, rule.consecutive),
                     !.recoveries = 0, !.firingAt = Since(alert, state, at),
                     !.resolvedAt = 0]

Better(at) ==
    LET recoveries == alert.recoveries + 1
        noted == [alert EXCEPT !.recoveries = Capped(recoveries, rule.recovery)]
    IN IF recoveries < rule.recovery THEN noted
       ELSE [noted EXCEPT !.state = "resolved", !.fails = 0, !.resolvedAt = at, !.until = 0]

Evaluated(sample, at, covered) ==
    IF alert.state = "none" THEN First(sample, at)
    ELSE IF sample = "healthy" THEN Better(at) ELSE Worse(sample, at, covered)

\* The transitions evaluate asks to notify.
Notable(next) == next.state # alert.state /\ next.state \in {"firing", "resolved"}
NoticeOf(next) ==
    [event |-> next.state, at |-> IF next.state = "firing" THEN next.firingAt ELSE next.resolvedAt]

Evaluate(byServer) ==
    \E sample \in {"failing", "healthy", "no_data"}, covered \in BOOLEAN :
        LET at == samples + 1
            next == Evaluated(sample, at, covered)
            number == IF Raised(next) /\ ~Raised(alert) THEN incident + 1 ELSE incident
        IN /\ samples < MaxSamples
           /\ ~(sample = "no_data" /\ rule.noData = "ignore")
           /\ samples' = at /\ alert' = next /\ incident' = number
           /\ telling' = IF byServer /\ Notable(next)
                           THEN telling \cup {[notice |-> NoticeOf(next), incident |-> number]}
                           ELSE telling
           /\ untold' = IF ~byServer /\ Notable(next)
                          THEN untold \cup {[event |-> next.state, incident |-> number]}
                          ELSE untold
           /\ UNCHANGED <<rule, deliveries, sending, channel>>

EvaluateInServer == Evaluate(TRUE) /\ UNCHANGED touches
EvaluateByCommand == Evaluate(FALSE) /\ Touch

\* AlertStore.silenceAlert, for an alert in any state.
Silence ==
    /\ Touch /\ alert.state # "none"
    /\ \E until \in samples + 1..MaxSamples + 1 :
         alert' = [alert EXCEPT !.state = "silenced", !.until = until]
    /\ incident' = IF Raised(alert) THEN incident ELSE incident + 1
    /\ UNCHANGED <<rule, samples, untold, telling, deliveries, sending, channel>>

-----------------------------------------------------------------------------
(* NotificationRouter.                                                     *)

\* The calls of deliver for one attempt of one delivery are numbered.
Calls(n, try) == {c \in sending : c.of = n /\ c.try = try}
NextCall(n, try) == [of |-> n, try |-> try, nth |-> Cardinality(Calls(n, try)) + 1]

\* The part of deliver before it awaits the endpoint, on the delivery as d says it is now.
Attempt(n, d) ==
    \/ /\ d.state \in {"delivered", "dead"} \/ ~d.due
       /\ deliveries' = [deliveries EXCEPT ![n] = d]
       /\ UNCHANGED sending
    \/ /\ d.state \notin {"delivered", "dead"} /\ d.due
       /\ channel = "paused"
       /\ deliveries' = [deliveries EXCEPT ![n] = [d EXCEPT !.state = "failed", !.try = @ + 1]]
       /\ UNCHANGED sending
    \/ /\ d.state \notin {"delivered", "dead"} /\ d.due
       /\ channel # "paused"
       /\ deliveries' = [deliveries EXCEPT ![n] = d]
       /\ Cardinality(sending) < MaxSends
       /\ sending' = sending \cup {NextCall(n, d.try + 1)}

\* enqueue and deliverAll: a channel that is not active now, or a route that does not let
\* the notice pass, leaves nothing behind.
Tell ==
    \E t \in telling :
        /\ telling' = telling \ {t}
        /\ \/ /\ channel # "active" \/ t.notice.event = "firing"
              /\ untold' = untold \cup {[event |-> t.notice.event, incident |-> t.incident]}
              /\ UNCHANGED <<deliveries, sending>>
           \/ /\ channel = "active"
              /\ Attempt(t.notice,
                    IF deliveries[t.notice].state # "absent" THEN deliveries[t.notice]
                    ELSE [state |-> "pending", try |-> 0, incident |-> t.incident,
                          due |-> t.notice.event = "resolved" \/ ~rule.wait])
              /\ UNCHANGED untold
        /\ UNCHANGED <<rule, alert, samples, incident, channel, touches>>

\* The group wait or the back-off of a delivery is over.
Ripen ==
    /\ \E n \in Notices :
         /\ deliveries[n].state \in {"pending", "retrying"} /\ ~deliveries[n].due
         /\ deliveries' = [deliveries EXCEPT ![n].due = TRUE]
    /\ UNCHANGED <<rule, alert, samples, incident, untold, telling, sending, channel, touches>>

RetryDue ==
    /\ \E n \in Notices :
         /\ deliveries[n].state \in {"pending", "retrying"} /\ deliveries[n].due
         /\ Attempt(n, deliveries[n])
    /\ UNCHANGED <<rule, alert, samples, incident, untold, telling, channel, touches>>

\* What the endpoint's answer makes of an attempt.
Mutant_AfterAnswer(answer, try) ==
    CASE answer = "ok" -> "delivered" [] answer = "refused" -> "dead" [] OTHER -> "retrying"
AfterAnswer(answer, try) ==
    CASE answer = "ok" -> "delivered"
      [] answer = "refused" \/ (answer = "unavailable" /\ try >= DeliveryTries) -> "dead"
      [] OTHER -> "retrying"

\* The rest of deliver: it writes what it read, whoever has written since.
Answered ==
    \E c \in sending, answer \in {"ok", "refused", "unavailable"} :
        LET state == AfterAnswer(answer, c.try)
        IN /\ c.nth = Cardinality(Calls(c.of, c.try))
           /\ channel' = IF answer = "ok" THEN "active" ELSE "failing"
           /\ deliveries' = [deliveries EXCEPT ![c.of] =
                 [@ EXCEPT !.state = state, !.try = c.try, !.due = state # "retrying"]]
           /\ sending' = sending \ {c}
           /\ UNCHANGED <<rule, alert, samples, incident, untold, telling, touches>>

\* POST /api/notifications/deliveries/retry, for a delivery in any state: one attempt more.
\* The command notifications:retry does the same.
RedeliverByHand ==
    /\ Touch
    /\ \E n \in Notices :
         /\ deliveries[n].state # "absent"
         /\ Attempt(n, [deliveries[n] EXCEPT !.state = "retrying", !.due = TRUE,
                                             !.try = IF @ = 0 THEN 0 ELSE @ - 1])
    /\ UNCHANGED <<rule, alert, samples, incident, untold, telling, channel>>

\* Pausing, activating or rotating the channel, and the end of a test of it.
SetChannel ==
    /\ Touch
    /\ channel' \in {"active", "failing", "paused"} \ {channel}
    /\ UNCHANGED <<rule, alert, samples, incident, untold, telling, deliveries, sending>>

\* The server dies: notices not enqueued are lost, deliveries stay pending or retrying.
Restart ==
    /\ Touch
    /\ telling' = {} /\ sending' = {}
    /\ untold' = untold \cup {[event |-> t.notice.event, incident |-> t.incident] : t \in telling}
    /\ UNCHANGED <<rule, alert, samples, incident, deliveries, channel>>

AlertNext ==
    \/ EvaluateInServer \/ EvaluateByCommand \/ Silence
    \/ Tell \/ Ripen \/ RetryDue \/ Answered
    \/ RedeliverByHand \/ SetChannel \/ Restart

AlertSpec == AlertInit /\ [][AlertNext]_alertVars

-----------------------------------------------------------------------------
Told(event) ==
    \/ \E n \in Notices : /\ n.event = event /\ deliveries[n].state # "absent"
                          /\ deliveries[n].incident = incident
    \/ \E t \in telling : t.notice.event = event /\ t.incident = incident
    \/ [event |-> event, incident |-> incident] \in untold

\* An incident has one notice that it fires, although it may be silenced and fire again, be
\* evaluated by several sweeps and be told late; and what the alert is now has its notice,
\* unless it could not be enqueued at its time.  An alert whose rule fires at the first
\* failure keeps firingAt from its last incident, so that the key of its next notice is
\* taken: for those only the end of an incident is promised.
IncidentsAreTold ==
    /\ LET announced == {n \in Notices : n.event = "firing" /\ deliveries[n].state # "absent"}
       IN \A n, m \in announced : deliveries[n].incident = deliveries[m].incident => n = m
    /\ alert.state = "firing" /\ rule.consecutive > 1 => Told("firing")
    /\ alert.state = "resolved" => Told("resolved")
=============================================================================
