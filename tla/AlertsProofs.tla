---------------------------- MODULE AlertsProofs ----------------------------
(***************************************************************************)
(* Theorems about Alerts, for any rules, samples, deliveries in flight and *)
(* acts of operators.                                                      *)
(*                                                                         *)
(* Three invariants, each kept by the ones before it: the tables have their *)
(* shape; attempts and incidents are paid for by samples and touches; and  *)
(* the notices say which incident they are of.                             *)
(***************************************************************************)
EXTENDS Alerts, FiniteSetTheorems, TLAPS

Samples == {"failing", "healthy", "no_data"}
AlertStates == {"none", "pending", "firing", "silenced", "resolved"}
AlertType == [state : AlertStates, fails : 0..rule.consecutive, recoveries : 0..rule.recovery,
              firingAt : 0..MaxSamples, resolvedAt : 0..MaxSamples, until : 0..MaxSamples + 1]
DeliveryStates == {"absent", "pending", "retrying", "delivered", "failed", "dead"}
DeliveryType == [state : DeliveryStates, try : Nat, due : BOOLEAN, incident : Nat]
CallType == [of : Notices, try : Nat \ {0}, nth : 1..MaxSends]

\* The tables without the bounds on attempts and incidents; a call of deliver is about a
\* delivery that exists.
Shaped ==
    /\ rule \in Rules /\ samples \in 0..MaxSamples /\ touches \in 0..MaxTouches
    /\ incident \in Nat
    /\ alert \in AlertType
    /\ untold \subseteq [event : {"firing", "resolved"}, incident : Nat]
    /\ telling \subseteq [notice : Notices, incident : Nat]
    /\ deliveries \in [Notices -> DeliveryType]
    /\ sending \subseteq CallType /\ IsFiniteSet(sending)
    /\ \A c \in sending : deliveries[c.of].state # "absent"
    /\ channel \in {"active", "failing", "paused"}

\* An alert forgets when it began to fire as it becomes pending, and its failures as it is
\* resolved.
AlertReset ==
    /\ alert.state \in {"none", "pending"} => alert.firingAt = 0
    /\ alert.state = "resolved" => alert.fails = 0
    /\ alert.firingAt <= samples

\* A third attempt is the last, unless the channel was paused in between: that takes a touch
\* per attempt, and so does an attempt by hand.
Affordable(d, most, status) ==
    /\ d.try <= most
    /\ d.state \notin {"delivered", "dead"} => d.try < most
    /\ d.state \in {"pending", "retrying"} /\ status = "paused" => d.try + 1 < most

TriesCounted ==
    /\ \A n \in Notices : Affordable(deliveries[n], DeliveryTries + touches, channel)
    /\ \A c \in sending : c.try <= DeliveryTries + touches

\* The notice n of incident i exists: it is stored, or it is about to be.
Stored(n, i) == deliveries[n].state # "absent" /\ deliveries[n].incident = i
Noted(n, i) == Stored(n, i) \/ [notice |-> n, incident |-> i] \in telling

\* An incident takes a sample or a touch, and a notice is of the past.
IncidentsCounted ==
    /\ incident <= samples + touches
    /\ \A n \in Notices : deliveries[n].incident <= incident
    /\ \A n \in Notices, i \in Nat : Noted(n, i) => i <= incident /\ n.at <= samples

\* The notices whose key no later incident uses again: with a threshold of one, an alert
\* that resolved fires with the firingAt it had.
Lasting(event) == event = "resolved" \/ rule.consecutive > 1

\* An incident is announced once.  While it goes on, its announcement has the alert's
\* firingAt as its key; an alert that fails since it was last resolved has a firingAt that no
\* incident before had; and a lasting key is of one incident.
OneNoticeEach ==
    \A n, m \in Notices, i \in Nat :
        n.event = "firing" /\ m.event = "firing" /\ Noted(n, i) /\ Noted(m, i) => n = m
OwnFiringAt ==
    Raised(alert) => \A n \in Notices :
        n.event = "firing" /\ Noted(n, incident) => n.at = alert.firingAt
FreshFiringAt ==
    Raised(alert) /\ alert.fails > 0 /\ rule.consecutive > 1 =>
        \A n \in Notices, i \in Nat :
            n.event = "firing" /\ n.at = alert.firingAt /\ Noted(n, i) => i = incident
OneIncidentEach ==
    \A n \in Notices, i, j \in Nat : Lasting(n.event) /\ Noted(n, i) /\ Noted(n, j) => i = j

ToldSoFar(event) ==
    \/ \E n \in Notices : n.event = event /\ Noted(n, incident)
    \/ [event |-> event, incident |-> incident] \in untold
StateIsTold ==
    \A event \in {"firing", "resolved"} :
        alert.state = event /\ Lasting(event) => ToldSoFar(event)

IncidentsKnown ==
    OneNoticeEach /\ OwnFiringAt /\ FreshFiringAt /\ OneIncidentEach /\ StateIsTold

-----------------------------------------------------------------------------
(* The shape of the tables.                                                *)

\* What the rule allows, at the types the prover needs.
LEMMA RuleTyped ==
    ASSUME Shaped
    PROVE  /\ rule.consecutive \in Nat \ {0} /\ rule.recovery \in Nat \ {0}
           /\ MaxSamples \in Nat /\ MaxTouches \in Nat /\ MaxSends \in Nat
BY AlertsAssumption DEF Shaped, AlertsAssumption

\* An evaluation leaves a well-typed alert.  While the alert is firing or silenced it keeps
\* the beginning of its incident, and one that begins to fire has one; the beginning is
\* forgotten when it is pending.  With a threshold above one, an alert that was resolved has
\* to be pending before it can fire.
LEMMA EvaluatedFacts ==
    ASSUME Shaped, samples < MaxSamples, NEW sample \in Samples, NEW covered \in BOOLEAN,
           NEW next, next = Evaluated(sample, samples + 1, covered),
           AlertReset
    PROVE  /\ next \in AlertType
           /\ next.state \in {"none", "pending"} => next.firingAt = 0
           /\ next.state = "resolved" => next.fails = 0
           /\ next.state = "resolved" /\ alert.state # "resolved" =>
                next.resolvedAt = samples + 1
           /\ next.firingAt \in {0, alert.firingAt, samples + 1}
           /\ Raised(next) /\ Raised(alert) /\ alert.firingAt # 0 =>
                next.firingAt = alert.firingAt
           /\ next.state = "firing" /\ alert.state # "firing" =>
                next.firingAt = IF alert.firingAt = 0 THEN samples + 1 ELSE alert.firingAt
           /\ rule.consecutive > 1 /\ Raised(next) =>
                IF Raised(alert) THEN next.fails > 0 => alert.fails > 0
                                 ELSE next.firingAt = samples + 1
           /\ rule.consecutive > 1 /\ next.state = "firing" /\ alert.state # "firing" =>
                alert.fails > 0
<1> USE DEF Raised
<1>0. /\ alert \in AlertType /\ samples + 1 \in 1..MaxSamples /\ samples \in Nat
      /\ rule.consecutive \in Nat \ {0} /\ rule.recovery \in Nat \ {0}
      /\ MaxSamples \in Nat
      /\ alert.state \in {"none", "pending"} => alert.firingAt = 0
      /\ alert.state = "resolved" => alert.fails = 0
  BY RuleTyped DEF Shaped, AlertReset
<1>1. CASE alert.state = "none"
  <2>1. PICK state \in {"firing", "pending"}, fails \in {0, 1} :
          /\ state = "firing" => rule.consecutive = 1
          /\ next = [alert EXCEPT !.state = state, !.fails = fails,
                                  !.firingAt = IF state = "firing" THEN samples + 1 ELSE 0]
    BY <1>0, <1>1 DEF Evaluated, First, Since, AlertType
  <2>2. next = [state |-> state, fails |-> fails, recoveries |-> alert.recoveries,
                firingAt |-> IF state = "firing" THEN samples + 1 ELSE 0,
                resolvedAt |-> alert.resolvedAt, until |-> alert.until]
    BY <1>0, <2>1 DEF AlertType
  <2>3. next \in AlertType
    BY <1>0, <2>2 DEF AlertType, AlertStates
  <2> QED BY <1>0, <1>1, <2>1, <2>2, <2>3
<1>2. CASE alert.state # "none" /\ sample = "healthy"
  <2>1. next = Better(samples + 1)
    BY <1>2 DEF Evaluated
  <2>2. Capped(alert.recoveries + 1, rule.recovery) \in 0..rule.recovery
    BY <1>0 DEF Capped, AlertType
  <2>3. CASE next = [alert EXCEPT !.recoveries = Capped(alert.recoveries + 1, rule.recovery)]
    BY <1>0, <1>2, <2>2, <2>3 DEF AlertType, AlertStates
  <2>4. CASE next = [[alert EXCEPT !.recoveries = Capped(alert.recoveries + 1, rule.recovery)]
                       EXCEPT !.state = "resolved", !.fails = 0, !.resolvedAt = samples + 1,
                              !.until = 0]
    <3> DEFINE most == Capped(alert.recoveries + 1, rule.recovery)
    <3>1. next = [state |-> "resolved", fails |-> 0, recoveries |-> most,
                  firingAt |-> alert.firingAt, resolvedAt |-> samples + 1, until |-> 0]
      BY <1>0, <2>4 DEF AlertType
    <3> HIDE DEF most
    <3>2. next \in AlertType
      BY <1>0, <2>2, <3>1 DEF AlertType, AlertStates, most
    <3> QED BY <1>0, <3>1, <3>2
  <2> QED BY <2>1, <2>3, <2>4 DEF Better
<1>3. CASE alert.state # "none" /\ sample # "healthy"
  <2> DEFINE fails == (IF alert.state = "resolved" THEN 0 ELSE alert.fails) + 1
  <2>1. fails \in Nat /\ Capped(fails, rule.consecutive) \in 0..rule.consecutive
        /\ (Capped(fails, rule.consecutive) = fails \/ fails > rule.consecutive)
    BY <1>0 DEF Capped, AlertType
  <2>2. PICK state \in {"pending", "silenced", "firing"} :
          /\ state # "pending" => fails >= rule.consecutive
          /\ next = [alert EXCEPT !.state = state,
                                  !.fails = Capped(fails, rule.consecutive),
                                  !.recoveries = 0,
                                  !.firingAt = Since(alert, state, samples + 1),
                                  !.resolvedAt = 0]
    <3> DEFINE hushed == covered \/ alert.until > samples + 1
               chosen == CASE Unsure(sample) \/ fails < rule.consecutive -> "pending"
                           [] OTHER -> IF hushed THEN "silenced" ELSE "firing"
    <3>1. next = Worse(sample, samples + 1, covered)
      BY <1>3 DEF Evaluated
    <3>2. next = [alert EXCEPT !.state = chosen,
                               !.fails = Capped(fails, rule.consecutive),
                               !.recoveries = 0,
                               !.firingAt = Since(alert, chosen, samples + 1),
                               !.resolvedAt = 0]
      BY <3>1 DEF Worse
    <3>3. /\ chosen \in {"pending", "silenced", "firing"}
          /\ chosen # "pending" => fails >= rule.consecutive
      <4> HIDE DEF fails, hushed
      <4> QED BY <1>0, <2>1
    <3> HIDE DEF chosen, fails
    <3> QED BY <3>2, <3>3
  <2>3. /\ state = "pending" => Since(alert, state, samples + 1) = 0
        /\ state # "pending" => Since(alert, state, samples + 1) =
                                  IF alert.firingAt = 0 THEN samples + 1 ELSE alert.firingAt
    BY <2>2 DEF Since
  <2>4. next \in AlertType /\ next.state = state /\ next.firingAt = Since(alert, state, samples + 1)
    <3> DEFINE since == Since(alert, state, samples + 1)
               most == Capped(fails, rule.consecutive)
    <3>1. since \in 0..MaxSamples
      BY <1>0, <2>2, <2>3 DEF AlertType
    <3>2. most \in 0..rule.consecutive
      BY <2>1
    <3>3. next = [alert EXCEPT !.state = state, !.fails = most, !.recoveries = 0,
                               !.firingAt = since, !.resolvedAt = 0]
      BY <2>2
    <3>4. state \in AlertStates
      BY <2>2 DEF AlertStates
    <3> HIDE DEF since, most
    <3>5. next = [state |-> state, fails |-> most, recoveries |-> 0, firingAt |-> since,
                  resolvedAt |-> 0, until |-> alert.until]
      BY <1>0, <3>3 DEF AlertType
    <3>6. next \in AlertType
      BY <1>0, <3>1, <3>2, <3>4, <3>5 DEF AlertType
    <3> QED BY <3>5, <3>6 DEF since
  <2>5. rule.consecutive > 1 /\ state # "pending" =>
          alert.state # "resolved" /\ alert.fails > 0
    BY <1>0, <2>1, <2>2 DEF AlertType
  <2> HIDE DEF fails
  <2> QED BY <1>0, <1>3, <2>2, <2>3, <2>4, <2>5 DEF AlertType, AlertStates
<1> QED BY <1>1, <1>2, <1>3

\* Silencing leaves a well-typed alert.
LEMMA SilencedFacts ==
    ASSUME Shaped, NEW until \in samples + 1..MaxSamples + 1
    PROVE  /\ [alert EXCEPT !.state = "silenced", !.until = until] \in AlertType
           /\ [alert EXCEPT !.state = "silenced", !.until = until].state = "silenced"
           /\ [alert EXCEPT !.state = "silenced", !.until = until].firingAt = alert.firingAt
           /\ [alert EXCEPT !.state = "silenced", !.until = until].fails = alert.fails
<1>1. alert \in AlertType /\ until \in 0..MaxSamples + 1
  BY RuleTyped DEF Shaped
<1> QED BY <1>1 DEF AlertType, AlertStates

\* What one attempt of deliver does to the tables: nothing, or the attempt is over because
\* the channel is paused, or a call is in flight.
AttemptMade(n, d) ==
    \E e \in DeliveryType :
        /\ e.state # "absent" /\ e.incident = d.incident
        /\ deliveries' = [deliveries EXCEPT ![n] = e]
        /\ \/ e = d /\ sending' = sending
           \/ /\ channel = "paused" /\ d.state \notin {"delivered", "dead"}
              /\ e.state = "failed" /\ e.try = d.try + 1
              /\ sending' = sending
           \/ /\ channel # "paused" /\ d.state \notin {"delivered", "dead"}
              /\ e = d
              /\ \E k \in 1..MaxSends :
                   sending' = sending \cup {[of |-> n, try |-> d.try + 1, nth |-> k]}

\* A call gets the next number of its attempt, which is at most the number of calls in flight.
LEMMA AttemptFacts ==
    ASSUME Shaped, NEW n \in Notices, NEW d \in DeliveryType, d.state # "absent", Attempt(n, d)
    PROVE  AttemptMade(n, d)
<1>1. CASE /\ d.state \in {"delivered", "dead"} \/ ~d.due
           /\ deliveries' = [deliveries EXCEPT ![n] = d]
           /\ UNCHANGED sending
  BY <1>1 DEF AttemptMade
<1>2. CASE /\ channel = "paused" /\ d.state \notin {"delivered", "dead"}
           /\ deliveries' = [deliveries EXCEPT ![n] = [d EXCEPT !.state = "failed", !.try = @ + 1]]
           /\ UNCHANGED sending
  <2> DEFINE e == [d EXCEPT !.state = "failed", !.try = @ + 1]
  <2>1. e \in DeliveryType /\ e.state = "failed" /\ e.try = d.try + 1 /\ e.incident = d.incident
    <3>1. PICK k \in Nat : k = d.try + 1
      BY DEF DeliveryType
    <3>2. e = [d EXCEPT !.state = "failed", !.try = k]
      BY <3>1
    <3> HIDE DEF e
    <3>3. e = [state |-> "failed", try |-> k, due |-> d.due, incident |-> d.incident]
      BY <3>2 DEF DeliveryType
    <3> QED BY <3>1, <3>3 DEF DeliveryType, DeliveryStates
  <2>2. deliveries' = [deliveries EXCEPT ![n] = e]
    BY <1>2
  <2> HIDE DEF e
  <2> QED BY <1>2, <2>1, <2>2 DEF AttemptMade
<1>3. CASE /\ channel # "paused" /\ d.state \notin {"delivered", "dead"}
           /\ deliveries' = [deliveries EXCEPT ![n] = d]
           /\ Cardinality(sending) < MaxSends
           /\ sending' = sending \cup {NextCall(n, d.try + 1)}
  <2> DEFINE calls == Calls(n, d.try + 1)
  <2>1. calls \in SUBSET sending /\ IsFiniteSet(sending)
    BY DEF Calls, Shaped
  <2>2. Cardinality(calls) <= Cardinality(sending) /\ Cardinality(sending) \in Nat
        /\ IsFiniteSet(calls)
    BY <2>1, FS_Subset, FS_CardinalityType
  <2>3. Cardinality(calls) \in Nat
    BY <2>2, FS_CardinalityType
  <2>4. Cardinality(calls) + 1 \in 1..MaxSends
    <3> HIDE DEF calls
    <3> QED BY <1>3, <2>2, <2>3, RuleTyped
  <2> QED BY <1>3, <2>4 DEF AttemptMade, NextCall
<1> QED BY <1>1, <1>2, <1>3 DEF Attempt

\* The delivery enqueue stores.
LEMMA EnqueuedFacts ==
    ASSUME Shaped, NEW t \in telling
    PROVE  LET d == IF deliveries[t.notice].state # "absent" THEN deliveries[t.notice]
                    ELSE [state |-> "pending", try |-> 0, incident |-> t.incident,
                          due |-> t.notice.event = "resolved" \/ ~rule.wait]
           IN /\ d \in DeliveryType /\ d.state # "absent"
              /\ t.notice \in Notices /\ t.incident \in Nat
BY AlertsAssumption DEF Shaped, DeliveryType, DeliveryStates, AlertsAssumption

\* The delivery a retry by hand attempts.
LEMMA RedeliveredFacts ==
    ASSUME Shaped, NEW n \in Notices, NEW d,
           d = [deliveries[n] EXCEPT !.state = "retrying", !.due = TRUE,
                                     !.try = IF @ = 0 THEN 0 ELSE @ - 1]
    PROVE  /\ d \in DeliveryType /\ d.state = "retrying" /\ d.incident = deliveries[n].incident
           /\ d.try = IF deliveries[n].try = 0 THEN 0 ELSE deliveries[n].try - 1
<1>1. deliveries[n] \in DeliveryType
  BY DEF Shaped
<1>2. d = [state |-> "retrying", due |-> TRUE, incident |-> deliveries[n].incident,
           try |-> IF deliveries[n].try = 0 THEN 0 ELSE deliveries[n].try - 1]
  BY <1>1 DEF DeliveryType
<1>3. (IF deliveries[n].try = 0 THEN 0 ELSE deliveries[n].try - 1) \in Nat
  BY <1>1 DEF DeliveryType
<1> QED BY <1>1, <1>2, <1>3 DEF DeliveryType, DeliveryStates

\* An attempt keeps the shape of the tables.
LEMMA AttemptShaped ==
    ASSUME Shaped, NEW n \in Notices, NEW d \in DeliveryType, d.state # "absent", Attempt(n, d)
    PROVE  /\ deliveries' \in [Notices -> DeliveryType]
           /\ sending' \subseteq CallType /\ IsFiniteSet(sending')
           /\ \A c \in sending' : deliveries'[c.of].state # "absent"
<1>1. PICK e \in DeliveryType :
        /\ e.state # "absent" /\ deliveries' = [deliveries EXCEPT ![n] = e]
        /\ \/ sending' = sending
           \/ \E k \in 1..MaxSends :
                sending' = sending \cup {[of |-> n, try |-> d.try + 1, nth |-> k]}
  BY AttemptFacts DEF AttemptMade
<1>2. deliveries \in [Notices -> DeliveryType] /\ sending \subseteq CallType
      /\ IsFiniteSet(sending) /\ \A c \in sending : deliveries[c.of].state # "absent"
  BY DEF Shaped
<1>3. \A c \in sending : c.of \in Notices
  BY <1>2 DEF CallType
<1>4. CASE sending' = sending
  BY <1>1, <1>2, <1>3, <1>4
<1>5. ASSUME NEW k \in 1..MaxSends,
             sending' = sending \cup {[of |-> n, try |-> d.try + 1, nth |-> k]}
      PROVE  /\ sending' \subseteq CallType /\ IsFiniteSet(sending')
             /\ \A c \in sending' : c \in sending \/ c.of = n
  <2>1. [of |-> n, try |-> d.try + 1, nth |-> k] \in CallType
    BY DEF DeliveryType, CallType
  <2> QED BY <1>2, <1>5, <2>1, FS_AddElement
<1> QED BY <1>1, <1>2, <1>3, <1>4, <1>5

\* The initial tables have their shape, and nothing has been tried or told.
LEMMA InitCounted == AlertInit => Shaped /\ AlertReset /\ TriesCounted /\ IncidentsCounted
<1> SUFFICES ASSUME AlertInit PROVE Shaped /\ AlertReset /\ TriesCounted /\ IncidentsCounted
  OBVIOUS
<1>1. Shaped
  BY AlertsAssumption, FS_EmptySet
     DEF AlertInit, Shaped, AlertsAssumption, AlertType, AlertStates, DeliveryType, DeliveryStates
<1>2. TriesCounted
  BY AlertsAssumption DEF AlertInit, TriesCounted, Affordable, DeliveryTries, AlertsAssumption
<1>3. IncidentsCounted
  BY AlertsAssumption DEF AlertInit, IncidentsCounted, Noted, Stored, AlertsAssumption
<1>4. AlertReset
  BY DEF AlertInit, AlertReset
<1> QED BY <1>1, <1>2, <1>3, <1>4

\* An evaluation changes the alert as EvaluatedFacts says.
LEMMA EvaluateShaped ==
    ASSUME Shaped, AlertReset, NEW byServer \in BOOLEAN, Evaluate(byServer),
           touches' \in 0..MaxTouches
    PROVE  Shaped' /\ AlertReset'
<1>1. PICK sample \in Samples, covered \in BOOLEAN :
        LET at == samples + 1
            next == Evaluated(sample, at, covered)
            number == IF Raised(next) /\ ~Raised(alert) THEN incident + 1 ELSE incident
        IN /\ samples < MaxSamples
           /\ samples' = at /\ alert' = next /\ incident' = number
           /\ telling' = IF byServer /\ Notable(next)
                           THEN telling \cup {[notice |-> NoticeOf(next), incident |-> number]}
                           ELSE telling
           /\ untold' = IF ~byServer /\ Notable(next)
                          THEN untold \cup {[event |-> next.state, incident |-> number]}
                          ELSE untold
           /\ UNCHANGED <<rule, deliveries, sending, channel>>
  BY DEF Evaluate, Samples
<1>2. /\ alert' \in AlertType
      /\ alert'.state \in {"none", "pending"} => alert'.firingAt = 0
      /\ alert'.state = "resolved" => alert'.fails = 0
      /\ alert'.firingAt \in {0, alert.firingAt, samples + 1}
      /\ alert'.state = "resolved" /\ alert.state # "resolved" => alert'.resolvedAt = samples + 1
      /\ alert'.state = "firing" /\ alert.state # "firing" =>
           alert'.firingAt = IF alert.firingAt = 0 THEN samples + 1 ELSE alert.firingAt
  BY <1>1, EvaluatedFacts
<1>3. samples + 1 \in 1..MaxSamples /\ incident' \in Nat /\ alert.firingAt \in 0..MaxSamples
  BY <1>1, RuleTyped DEF Shaped, AlertType
<1>4. Notable(alert') => NoticeOf(alert') \in Notices /\ alert'.state \in {"firing", "resolved"}
  BY <1>2, <1>3 DEF Notable, NoticeOf, Notices, Times
<1>5. /\ telling' \subseteq [notice : Notices, incident : Nat]
      /\ untold' \subseteq [event : {"firing", "resolved"}, incident : Nat]
  BY <1>1, <1>3, <1>4 DEF Shaped
<1>6. alert'.firingAt <= samples' /\ samples' \in 0..MaxSamples
  BY <1>1, <1>2, <1>3 DEF AlertReset, Shaped
<1> QED BY <1>1, <1>2, <1>3, <1>5, <1>6 DEF Shaped, AlertReset, AlertType

\* Whatever happens, the tables keep their shape.
LEMMA ShapeKept ==
    ASSUME Shaped, AlertReset, [AlertNext]_alertVars
    PROVE  Shaped' /\ AlertReset'
<1> DEFINE Goal == Shaped' /\ AlertReset'
<1> SUFFICES Goal
  OBVIOUS
<1>a. ASSUME Touch PROVE touches' \in 0..MaxTouches
  BY <1>a, RuleTyped DEF Touch, Shaped
<1>b. /\ \A n \in Notices : deliveries[n] \in DeliveryType
      /\ \A c \in sending : c \in CallType /\ c.of \in Notices /\ c.try \in Nat
                            /\ deliveries[c.of].state # "absent"
  BY DEF Shaped, CallType
<1>1. CASE EvaluateInServer
  <2>1. touches' \in 0..MaxTouches
    BY <1>1 DEF EvaluateInServer, Shaped
  <2> QED BY <1>1, <2>1, EvaluateShaped DEF EvaluateInServer
<1>2. CASE EvaluateByCommand
  BY <1>2, <1>a, EvaluateShaped DEF EvaluateByCommand
<1>3. CASE Silence
  <2>1. PICK until \in samples + 1..MaxSamples + 1 :
          alert' = [alert EXCEPT !.state = "silenced", !.until = until]
    BY <1>3 DEF Silence
  <2>2. alert' \in AlertType /\ alert'.state = "silenced" /\ alert'.firingAt = alert.firingAt
    BY <2>1, SilencedFacts
  <2>3. touches' \in 0..MaxTouches /\ incident' \in Nat
    BY <1>3, <1>a DEF Silence, Shaped
  <2> QED BY <1>3, <2>2, <2>3 DEF Silence, Shaped, AlertReset, AlertType
<1>4. CASE Tell
  <2>1. PICK t \in telling :
          /\ telling' = telling \ {t}
          /\ \/ /\ untold' = untold \cup {[event |-> t.notice.event, incident |-> t.incident]}
                /\ UNCHANGED <<deliveries, sending>>
             \/ /\ Attempt(t.notice,
                      IF deliveries[t.notice].state # "absent" THEN deliveries[t.notice]
                      ELSE [state |-> "pending", try |-> 0, incident |-> t.incident,
                            due |-> t.notice.event = "resolved" \/ ~rule.wait])
                /\ UNCHANGED untold
    BY <1>4 DEF Tell
  <2>2. [event |-> t.notice.event, incident |-> t.incident]
          \in [event : {"firing", "resolved"}, incident : Nat]
    BY DEF Shaped, Notices
  <2>3. /\ deliveries' \in [Notices -> DeliveryType]
        /\ sending' \subseteq CallType /\ IsFiniteSet(sending')
        /\ \A c \in sending' : deliveries'[c.of].state # "absent"
    BY <2>1, EnqueuedFacts, AttemptShaped DEF Shaped
  <2> QED BY <1>4, <2>1, <2>2, <2>3 DEF Tell, Shaped, AlertReset, AlertType
<1>5. CASE Ripen
  <2>1. PICK n \in Notices : deliveries' = [deliveries EXCEPT ![n].due = TRUE]
                             /\ UNCHANGED <<rule, alert, samples, incident, untold, telling,
                                            sending, channel, touches>>
    BY <1>5 DEF Ripen
  <2>2. /\ [deliveries[n] EXCEPT !.due = TRUE] \in DeliveryType
        /\ [deliveries[n] EXCEPT !.due = TRUE].state = deliveries[n].state
    BY <1>b DEF DeliveryType
  <2>3. deliveries' \in [Notices -> DeliveryType]
        /\ \A c \in sending : deliveries'[c.of].state # "absent"
    BY <1>b, <2>1, <2>2 DEF Shaped
  <2> QED BY <2>1, <2>3 DEF Shaped, AlertReset, AlertType
<1>6. CASE RetryDue
  <2>1. PICK n \in Notices : deliveries[n].state \in {"pending", "retrying"}
                             /\ Attempt(n, deliveries[n])
    BY <1>6 DEF RetryDue
  <2>2. /\ deliveries' \in [Notices -> DeliveryType]
        /\ sending' \subseteq CallType /\ IsFiniteSet(sending')
        /\ \A c \in sending' : deliveries'[c.of].state # "absent"
    BY <1>b, <2>1, AttemptShaped
  <2> QED BY <1>6, <2>2 DEF RetryDue, Shaped, AlertReset, AlertType
<1>7. CASE Answered
  <2>1. PICK c \in sending, answer \in {"ok", "refused", "unavailable"} :
          /\ channel' = IF answer = "ok" THEN "active" ELSE "failing"
          /\ deliveries' = [deliveries EXCEPT ![c.of] =
                 [@ EXCEPT !.state = AfterAnswer(answer, c.try), !.try = c.try,
                           !.due = AfterAnswer(answer, c.try) # "retrying"]]
          /\ sending' = sending \ {c}
          /\ UNCHANGED <<rule, alert, samples, incident, untold, telling, touches>>
    BY <1>7 DEF Answered
  <2> DEFINE state == AfterAnswer(answer, c.try)
             e == [deliveries[c.of] EXCEPT !.state = state, !.try = c.try,
                                           !.due = state # "retrying"]
  <2>2. state \in {"delivered", "dead", "retrying"}
    BY DEF AfterAnswer
  <2>3. e \in DeliveryType /\ e.state = state
    <3> HIDE DEF state
    <3> QED BY <1>b, <2>2 DEF DeliveryType, DeliveryStates
  <2>4. deliveries' = [deliveries EXCEPT ![c.of] = e]
    BY <2>1
  <2>5. /\ deliveries' \in [Notices -> DeliveryType]
        /\ \A b \in sending : deliveries'[b.of].state # "absent"
    <3> HIDE DEF e, state
    <3> QED BY <1>b, <2>2, <2>3, <2>4 DEF Shaped
  <2>6. IsFiniteSet(sending') /\ sending' \subseteq sending
    BY <2>1, FS_RemoveElement DEF Shaped
  <2> QED BY <2>1, <2>5, <2>6 DEF Shaped, AlertReset, AlertType
<1>8. CASE RedeliverByHand
  <2>1. PICK n \in Notices :
          /\ deliveries[n].state # "absent"
          /\ Attempt(n, [deliveries[n] EXCEPT !.state = "retrying", !.due = TRUE,
                                              !.try = IF @ = 0 THEN 0 ELSE @ - 1])
    BY <1>8 DEF RedeliverByHand
  <2>2. /\ deliveries' \in [Notices -> DeliveryType]
        /\ sending' \subseteq CallType /\ IsFiniteSet(sending')
        /\ \A c \in sending' : deliveries'[c.of].state # "absent"
    BY <2>1, RedeliveredFacts, AttemptShaped
  <2>3. touches' \in 0..MaxTouches
    BY <1>8, <1>a DEF RedeliverByHand
  <2> QED BY <1>8, <2>2, <2>3 DEF RedeliverByHand, Shaped, AlertReset, AlertType
<1>9. CASE SetChannel
  BY <1>9, <1>a DEF SetChannel, Shaped, AlertReset, AlertType
<1>10. CASE Restart
  <2>1. \A t \in telling : [event |-> t.notice.event, incident |-> t.incident]
                             \in [event : {"firing", "resolved"}, incident : Nat]
    BY DEF Shaped, Notices
  <2> QED BY <1>10, <1>a, <2>1, FS_EmptySet DEF Restart, Shaped, AlertReset, AlertType
<1>11. CASE UNCHANGED alertVars
  BY <1>11 DEF alertVars, Shaped, AlertReset, AlertType
<1> QED BY <1>1, <1>2, <1>3, <1>4, <1>5, <1>6, <1>7, <1>8, <1>9, <1>10, <1>11 DEF AlertNext

-----------------------------------------------------------------------------
(* How often a delivery is tried.                                          *)

\* An attempt costs one try, and one that a paused channel ends costs it at once: with most
\* tries affordable before, most are after.
LEMMA AttemptAffordable ==
    ASSUME Shaped, NEW most \in Nat, NEW n \in Notices, NEW d \in DeliveryType,
           d.state # "absent", Attempt(n, d),
           channel' = channel,
           d.state \in {"failed"} => channel # "paused",
           Affordable(d, most, channel),
           \A m \in Notices : Affordable(deliveries[m], most, channel),
           \A c \in sending : c.try <= most
    PROVE  /\ \A m \in Notices : Affordable(deliveries'[m], most, channel')
           /\ \A c \in sending' : c.try <= most
<1>1. PICK e \in DeliveryType :
        /\ e.state # "absent" /\ e.incident = d.incident
        /\ deliveries' = [deliveries EXCEPT ![n] = e]
        /\ \/ e = d /\ sending' = sending
           \/ /\ channel = "paused" /\ d.state \notin {"delivered", "dead"}
              /\ e.state = "failed" /\ e.try = d.try + 1
              /\ sending' = sending
           \/ /\ channel # "paused" /\ d.state \notin {"delivered", "dead"}
              /\ e = d
              /\ \E k \in 1..MaxSends :
                   sending' = sending \cup {[of |-> n, try |-> d.try + 1, nth |-> k]}
  BY AttemptFacts DEF AttemptMade
<1>2. d.try \in Nat /\ d.state \in DeliveryStates
  BY DEF DeliveryType
<1>3. Affordable(e, most, channel)
  BY <1>1, <1>2 DEF Affordable, DeliveryStates
<1>4. \A m \in Notices : deliveries'[m] = IF m = n THEN e ELSE deliveries[m]
  BY <1>1 DEF Shaped
<1>5. \A m \in Notices : Affordable(deliveries'[m], most, channel')
  BY <1>3, <1>4 DEF Affordable
<1>6. \A c \in sending' : c.try <= most
  BY <1>1, <1>2 DEF Affordable
<1> QED BY <1>5, <1>6

\* What is affordable stays so when a touch is added and the channel as it was.
LEMMA MoreAffordable ==
    ASSUME NEW a \in Nat, NEW b \in Nat, a <= b, NEW d, d.try \in Nat, Affordable(d, a, channel)
    PROVE  Affordable(d, b, channel)
BY DEF Affordable

\* No step tries a delivery more often than the touches so far pay for.
LEMMA TriesKept ==
    ASSUME Shaped, TriesCounted, [AlertNext]_alertVars
    PROVE  TriesCounted'
<1> DEFINE most == DeliveryTries + touches
<1>a. touches \in Nat /\ most \in Nat /\ most + 1 \in Nat /\ DeliveryTries + touches = most
  BY RuleTyped DEF Shaped, DeliveryTries
<1>b. /\ \A n \in Notices : deliveries[n] \in DeliveryType /\ deliveries[n].try \in Nat
                            /\ deliveries[n].state \in DeliveryStates
      /\ \A c \in sending : c.of \in Notices /\ c.try \in Nat
  BY DEF Shaped, CallType, DeliveryType
<1>c. /\ \A n \in Notices : Affordable(deliveries[n], most, channel)
      /\ \A c \in sending : c.try <= most
  BY DEF TriesCounted
<1>d. ASSUME Touch PROVE DeliveryTries + touches' = most + 1
  BY <1>a, <1>d DEF Touch, DeliveryTries
<1>e. /\ \A n \in Notices : Affordable(deliveries[n], most + 1, channel)
      /\ \A c \in sending : c.try <= most + 1
  BY <1>a, <1>b, <1>c, MoreAffordable
<1> HIDE DEF most
<1>1. CASE UNCHANGED <<deliveries, sending, channel, touches>>
  BY <1>1 DEF TriesCounted, Affordable
<1>2. CASE Touch /\ UNCHANGED <<deliveries, channel>> /\ sending' \subseteq sending
  <2>1. DeliveryTries + touches' = most + 1
    BY <1>2, <1>d
  <2> QED BY <1>2, <1>e, <2>1 DEF TriesCounted, Affordable
<1>3. CASE Tell
  <2>1. PICK t \in telling :
          \/ UNCHANGED <<deliveries, sending>>
          \/ /\ channel = "active"
             /\ Attempt(t.notice,
                   IF deliveries[t.notice].state # "absent" THEN deliveries[t.notice]
                   ELSE [state |-> "pending", try |-> 0, incident |-> t.incident,
                         due |-> t.notice.event = "resolved" \/ ~rule.wait])
    BY <1>3 DEF Tell
  <2>2. CASE UNCHANGED <<deliveries, sending>>
    BY <1>1, <1>3, <2>2 DEF Tell
  <2>3. CASE channel = "active" /\ ~UNCHANGED <<deliveries, sending>>
    <3> DEFINE fresh == [state |-> "pending", try |-> 0, incident |-> t.incident,
                         due |-> t.notice.event = "resolved" \/ ~rule.wait]
               d == IF deliveries[t.notice].state # "absent" THEN deliveries[t.notice] ELSE fresh
    <3>1. d \in DeliveryType /\ d.state # "absent" /\ t.notice \in Notices
      BY EnqueuedFacts
    <3>2. Affordable(fresh, most, channel)
      BY <1>a, <2>3 DEF Affordable, DeliveryTries
    <3>3. Affordable(d, most, channel)
      <4> HIDE DEF fresh
      <4> QED BY <1>c, <3>1, <3>2
    <3>4. Attempt(t.notice, d) /\ channel' = channel
      BY <1>3, <2>1, <2>3 DEF Tell
    <3> HIDE DEF d
    <3>5. /\ \A m \in Notices : Affordable(deliveries'[m], most, channel')
          /\ \A c \in sending' : c.try <= most
      BY <1>a, <1>c, <2>3, <3>1, <3>3, <3>4, AttemptAffordable
    <3> QED BY <1>3, <3>5, <1>a DEF Tell, TriesCounted, Affordable, most
  <2> QED BY <2>1, <2>2, <2>3
<1>4. CASE Ripen
  <2>1. PICK n \in Notices : deliveries' = [deliveries EXCEPT ![n].due = TRUE]
    BY <1>4 DEF Ripen
  <2>2. \A m \in Notices : deliveries'[m].try = deliveries[m].try
                           /\ deliveries'[m].state = deliveries[m].state
    BY <1>b, <2>1 DEF Shaped, DeliveryType
  <2> QED BY <1>4, <2>2 DEF Ripen, TriesCounted, Affordable
<1>5. CASE RetryDue
  <2>1. PICK n \in Notices : deliveries[n].state \in {"pending", "retrying"}
                             /\ Attempt(n, deliveries[n])
    BY <1>5 DEF RetryDue
  <2>2. channel' = channel /\ touches' = touches
    BY <1>5 DEF RetryDue
  <2>3. /\ \A m \in Notices : Affordable(deliveries'[m], most, channel')
        /\ \A c \in sending' : c.try <= most
    BY <1>a, <1>b, <1>c, <2>1, <2>2, AttemptAffordable
  <2> QED BY <2>2, <2>3 DEF TriesCounted, Affordable, most
<1>6. CASE Answered
  <2>1. PICK c \in sending, answer \in {"ok", "refused", "unavailable"} :
          /\ channel' = IF answer = "ok" THEN "active" ELSE "failing"
          /\ deliveries' = [deliveries EXCEPT ![c.of] =
                 [@ EXCEPT !.state = AfterAnswer(answer, c.try), !.try = c.try,
                           !.due = AfterAnswer(answer, c.try) # "retrying"]]
          /\ sending' = sending \ {c} /\ touches' = touches
    BY <1>6 DEF Answered
  <2> DEFINE state == AfterAnswer(answer, c.try)
  <2>2. state \in {"delivered", "dead"} \/ (state = "retrying" /\ c.try < DeliveryTries)
    BY <1>b, <2>1 DEF AfterAnswer, DeliveryTries
  <2>3. /\ \A m \in Notices : m # c.of => deliveries'[m] = deliveries[m]
        /\ deliveries'[c.of].state = state /\ deliveries'[c.of].try = c.try
    <3> HIDE DEF state
    <3> QED BY <1>b, <2>1 DEF Shaped, DeliveryType, state
  <2>4. c.try <= most /\ DeliveryTries <= most
    BY <1>a, <1>c DEF DeliveryTries
  <2>5. channel' # "paused"
    BY <2>1
  <2>6. \A m \in Notices : Affordable(deliveries'[m], most, channel')
    <3> HIDE DEF state
    <3>1. Affordable(deliveries'[c.of], most, channel')
      BY <1>a, <1>b, <2>2, <2>3, <2>4, <2>5 DEF Affordable, DeliveryTries
    <3>2. ASSUME NEW m \in Notices, m # c.of PROVE Affordable(deliveries'[m], most, channel')
      BY <1>c, <2>3, <2>5, <3>2 DEF Affordable
    <3> QED BY <3>1, <3>2
  <2> QED BY <1>c, <2>1, <2>6 DEF TriesCounted, Affordable, most
<1>7. CASE RedeliverByHand
  <2>1. PICK n \in Notices :
          /\ deliveries[n].state # "absent"
          /\ Attempt(n, [deliveries[n] EXCEPT !.state = "retrying", !.due = TRUE,
                                              !.try = IF @ = 0 THEN 0 ELSE @ - 1])
    BY <1>7 DEF RedeliverByHand
  <2>2. channel' = channel /\ DeliveryTries + touches' = most + 1
    BY <1>7, <1>d DEF RedeliverByHand
  <2>3. PICK d : d = [deliveries[n] EXCEPT !.state = "retrying", !.due = TRUE,
                                           !.try = IF @ = 0 THEN 0 ELSE @ - 1]
    OBVIOUS
  <2>4. d \in DeliveryType /\ d.state = "retrying"
        /\ d.try = IF deliveries[n].try = 0 THEN 0 ELSE deliveries[n].try - 1
    BY <2>3, RedeliveredFacts
  <2>5. Affordable(d, most + 1, channel) /\ Attempt(n, d)
    BY <1>a, <1>b, <1>c, <2>1, <2>3, <2>4 DEF Affordable, most, DeliveryTries
  <2>6. /\ \A m \in Notices : Affordable(deliveries'[m], most + 1, channel')
        /\ \A c \in sending' : c.try <= most + 1
    BY <1>a, <1>e, <2>2, <2>3, <2>4, <2>5, AttemptAffordable
  <2> QED BY <2>2, <2>6 DEF TriesCounted, Affordable
<1>8. CASE SetChannel
  <2>1. DeliveryTries + touches' = most + 1
    BY <1>8, <1>d DEF SetChannel
  <2>2. \A n \in Notices : Affordable(deliveries[n], most + 1, channel')
    BY <1>8, <1>a, <1>b, <1>c DEF SetChannel, Affordable, most
  <2> QED BY <1>8, <1>e, <2>1, <2>2 DEF SetChannel, TriesCounted, Affordable
<1> QED BY <1>1, <1>2, <1>3, <1>4, <1>5, <1>6, <1>7, <1>8
        DEF AlertNext, alertVars, EvaluateInServer, EvaluateByCommand, Evaluate, Silence, Restart

-----------------------------------------------------------------------------
(* Which incident a notice is of.                                          *)

\* What the notices are after a step that leaves the alert alone: none is new, and one that
\* is gone was given up as untold or had a key that was taken.
NoticesCarried ==
    /\ UNCHANGED <<rule, alert, samples, incident>>
    /\ touches' \in {touches, touches + 1}
    /\ untold \subseteq untold'
    /\ \A n \in Notices : deliveries'[n].incident <= incident
    /\ \A n \in Notices, i \in Nat : Noted(n, i)' => Noted(n, i)
    /\ \A n \in Notices, i \in Nat : Noted(n, i) =>
         \/ Noted(n, i)'
         \/ [event |-> n.event, incident |-> i] \in untold'
         \/ \E j \in Nat : Noted(n, j) /\ Noted(n, j)'

\* After an attempt the delivery is stored with the incident it had.
LEMMA AttemptStored ==
    ASSUME Shaped, NEW n \in Notices, NEW d \in DeliveryType, d.state # "absent", Attempt(n, d)
    PROVE  /\ \A i \in Nat : Stored(n, i)' <=> i = d.incident
           /\ \A m \in Notices : m # n => deliveries'[m] = deliveries[m]
           /\ deliveries'[n].incident = d.incident
<1>1. PICK e \in DeliveryType : e.state # "absent" /\ e.incident = d.incident
                                /\ deliveries' = [deliveries EXCEPT ![n] = e]
  BY AttemptFacts DEF AttemptMade
<1> QED BY <1>1 DEF Shaped, Stored

\* An attempt of a delivery that exists leaves the notices as they are.
LEMMA AttemptCarries ==
    ASSUME Shaped, NEW n \in Notices, NEW d \in DeliveryType, d.state # "absent",
           d.incident = deliveries[n].incident, deliveries[n].state # "absent",
           Attempt(n, d), telling' = telling
    PROVE  /\ \A m \in Notices, i \in Nat : Noted(m, i)' <=> Noted(m, i)
           /\ \A m \in Notices : deliveries'[m].incident = deliveries[m].incident
<1>1. /\ \A i \in Nat : Stored(n, i)' <=> i = d.incident
      /\ \A m \in Notices : m # n => deliveries'[m] = deliveries[m]
      /\ deliveries'[n].incident = d.incident
  BY AttemptStored
<1> QED BY <1>1 DEF Noted, Stored

\* Every step of the router, of its operators and of the process is such a step.
LEMMA RouterCarries ==
    ASSUME Shaped, IncidentsCounted,
           Tell \/ Ripen \/ RetryDue \/ Answered \/ RedeliverByHand \/ SetChannel \/ Restart
    PROVE  NoticesCarried
<1>a. /\ \A n \in Notices : deliveries[n] \in DeliveryType
      /\ \A c \in sending : c.of \in Notices /\ deliveries[c.of].state # "absent"
      /\ \A t \in telling : t.notice \in Notices /\ t.incident \in Nat
                            /\ t = [notice |-> t.notice, incident |-> t.incident]
                            /\ Noted(t.notice, t.incident)
      /\ touches \in Nat /\ incident \in Nat
      /\ \A n \in Notices : deliveries[n].incident <= incident
  BY DEF Shaped, CallType, IncidentsCounted, Noted
<1>b. ASSUME Touch PROVE touches' \in {touches, touches + 1}
  BY <1>b DEF Touch
<1>1. CASE Tell
  <2>1. PICK t \in telling :
          /\ telling' = telling \ {t}
          /\ \/ /\ untold' = untold \cup {[event |-> t.notice.event, incident |-> t.incident]}
                /\ UNCHANGED <<deliveries, sending>>
             \/ /\ Attempt(t.notice,
                      IF deliveries[t.notice].state # "absent" THEN deliveries[t.notice]
                      ELSE [state |-> "pending", try |-> 0, incident |-> t.incident,
                            due |-> t.notice.event = "resolved" \/ ~rule.wait])
                /\ UNCHANGED untold
          /\ UNCHANGED <<rule, alert, samples, incident, channel, touches>>
    BY <1>1 DEF Tell
  <2>2. CASE /\ untold' = untold \cup {[event |-> t.notice.event, incident |-> t.incident]}
             /\ UNCHANGED <<deliveries, sending>>
    BY <1>a, <2>1, <2>2 DEF NoticesCarried, Noted, Stored
  <2>3. ASSUME NEW d,
               d = IF deliveries[t.notice].state # "absent" THEN deliveries[t.notice]
                   ELSE [state |-> "pending", try |-> 0, incident |-> t.incident,
                         due |-> t.notice.event = "resolved" \/ ~rule.wait],
               Attempt(t.notice, d), UNCHANGED untold
        PROVE  NoticesCarried
    <3>1. d \in DeliveryType /\ d.state # "absent" /\ t.notice \in Notices /\ t.incident \in Nat
      BY <2>3, EnqueuedFacts
    <3>2. /\ \A i \in Nat : Stored(t.notice, i)' <=> i = d.incident
          /\ \A m \in Notices : m # t.notice => deliveries'[m] = deliveries[m]
          /\ deliveries'[t.notice].incident = d.incident
      BY <2>3, <3>1, AttemptStored
    <3>3. d.incident \in Nat /\ Noted(t.notice, d.incident) /\ d.incident <= incident
      BY <1>a, <2>3, <3>1 DEF Noted, Stored, DeliveryType, IncidentsCounted
    <3>4. \A n \in Notices, i \in Nat : Noted(n, i)' => Noted(n, i)
      BY <2>1, <3>2, <3>3 DEF Noted, Stored
    <3>5. Noted(t.notice, d.incident)'
      BY <3>2, <3>3 DEF Noted
    <3>6. \A n \in Notices, i \in Nat : Noted(n, i) => Noted(n, i)' \/ n = t.notice
      BY <1>a, <2>1, <3>2 DEF Noted, Stored
    <3>7. \A n \in Notices : deliveries'[n].incident <= incident
      BY <1>a, <3>2, <3>3
    <3> QED BY <2>1, <2>3, <3>3, <3>4, <3>5, <3>6, <3>7 DEF NoticesCarried
  <2> QED BY <2>1, <2>2, <2>3
<1>2. CASE Ripen
  <2>1. PICK n \in Notices : deliveries' = [deliveries EXCEPT ![n].due = TRUE]
    BY <1>2 DEF Ripen
  <2>2. \A m \in Notices : deliveries'[m].incident = deliveries[m].incident
                           /\ deliveries'[m].state = deliveries[m].state
    BY <1>a, <2>1 DEF Shaped, DeliveryType
  <2>3. \A m \in Notices, i \in Nat : Noted(m, i)' <=> Noted(m, i)
    BY <1>2, <2>2 DEF Ripen, Noted, Stored
  <2> QED BY <1>2, <1>a, <2>2, <2>3 DEF Ripen, NoticesCarried
<1>3. CASE RetryDue
  <2>1. PICK n \in Notices : deliveries[n].state \in {"pending", "retrying"}
                             /\ Attempt(n, deliveries[n])
    BY <1>3 DEF RetryDue
  <2>2. /\ \A m \in Notices, i \in Nat : Noted(m, i)' <=> Noted(m, i)
        /\ \A m \in Notices : deliveries'[m].incident = deliveries[m].incident
    BY <1>3, <1>a, <2>1, AttemptCarries DEF RetryDue
  <2> QED BY <1>3, <1>a, <2>2 DEF RetryDue, NoticesCarried
<1>4. CASE Answered
  <2>1. PICK c \in sending, answer \in {"ok", "refused", "unavailable"} :
          /\ deliveries' = [deliveries EXCEPT ![c.of] =
                 [@ EXCEPT !.state = AfterAnswer(answer, c.try), !.try = c.try,
                           !.due = AfterAnswer(answer, c.try) # "retrying"]]
          /\ UNCHANGED <<rule, alert, samples, incident, untold, telling, touches>>
    BY <1>4 DEF Answered
  <2>2. AfterAnswer(answer, c.try) # "absent"
    BY DEF AfterAnswer
  <2>3. /\ \A m \in Notices : deliveries'[m].incident = deliveries[m].incident
        /\ \A m \in Notices : deliveries'[m].state = "absent" <=> deliveries[m].state = "absent"
    BY <1>a, <2>1, <2>2 DEF Shaped, DeliveryType
  <2>4. \A m \in Notices, i \in Nat : Noted(m, i)' <=> Noted(m, i)
    BY <2>1, <2>3 DEF Noted, Stored
  <2> QED BY <1>a, <2>1, <2>3, <2>4 DEF NoticesCarried
<1>5. CASE RedeliverByHand
  <2>1. PICK n \in Notices :
          /\ deliveries[n].state # "absent"
          /\ Attempt(n, [deliveries[n] EXCEPT !.state = "retrying", !.due = TRUE,
                                              !.try = IF @ = 0 THEN 0 ELSE @ - 1])
    BY <1>5 DEF RedeliverByHand
  <2>2. PICK d : d = [deliveries[n] EXCEPT !.state = "retrying", !.due = TRUE,
                                           !.try = IF @ = 0 THEN 0 ELSE @ - 1]
    OBVIOUS
  <2>3. d \in DeliveryType /\ d.state = "retrying" /\ d.incident = deliveries[n].incident
    BY <2>2, RedeliveredFacts
  <2>4. Attempt(n, d)
    BY <2>1, <2>2
  <2>5. /\ \A m \in Notices, i \in Nat : Noted(m, i)' <=> Noted(m, i)
        /\ \A m \in Notices : deliveries'[m].incident = deliveries[m].incident
    BY <1>5, <2>1, <2>3, <2>4, AttemptCarries DEF RedeliverByHand
  <2> QED BY <1>5, <1>a, <1>b, <2>5 DEF RedeliverByHand, NoticesCarried
<1>6. CASE SetChannel
  BY <1>6, <1>a, <1>b DEF SetChannel, NoticesCarried, Noted, Stored
<1>7. CASE Restart
  <2>1. \A n \in Notices, i \in Nat : [notice |-> n, incident |-> i] \in telling =>
          [event |-> n.event, incident |-> i] \in untold'
    BY <1>7 DEF Restart
  <2> QED BY <1>7, <1>a, <1>b, <2>1 DEF Restart, NoticesCarried, Noted, Stored
<1> QED BY <1>1, <1>2, <1>3, <1>4, <1>5, <1>6, <1>7

\* Such a step keeps what is known of the incidents.
LEMMA CarriedKept ==
    ASSUME Shaped, IncidentsCounted, IncidentsKnown, NoticesCarried
    PROVE  IncidentsCounted' /\ IncidentsKnown'
<1>1. IncidentsCounted'
  <2>1. touches \in Nat /\ samples \in Nat /\ incident \in Nat
    BY RuleTyped DEF Shaped
  <2>2. incident <= samples + touches
    BY DEF IncidentsCounted
  <2>3. incident' = incident /\ samples' = samples /\ (touches' = touches \/ touches' = touches + 1)
    BY DEF NoticesCarried
  <2>4. incident' <= samples' + touches'
    <3>1. CASE touches' = touches
      BY <2>2, <2>3, <3>1
    <3>2. CASE touches' = touches + 1
      BY <2>1, <2>2, <2>3, <3>2
    <3> QED BY <2>3, <3>1, <3>2
  <2> QED BY <2>4 DEF IncidentsCounted, NoticesCarried
<1> USE DEF NoticesCarried
<1>2. OneNoticeEach'
  BY DEF IncidentsKnown, OneNoticeEach
<1>3. OwnFiringAt'
  BY DEF IncidentsKnown, OwnFiringAt, Raised, Shaped
<1>4. FreshFiringAt'
  BY DEF IncidentsKnown, FreshFiringAt, Raised
<1>5. OneIncidentEach'
  BY DEF IncidentsKnown, OneIncidentEach, Lasting
<1>6. StateIsTold'
  <2> SUFFICES ASSUME NEW event \in {"firing", "resolved"}, alert.state = event, Lasting(event)
               PROVE  ToldSoFar(event)'
    BY DEF StateIsTold, Lasting
  <2>1. ToldSoFar(event) /\ incident \in Nat
    BY DEF IncidentsKnown, StateIsTold, Shaped
  <2>2. CASE [event |-> event, incident |-> incident] \in untold
    BY <2>2 DEF ToldSoFar
  <2>3. ASSUME NEW n \in Notices, n.event = event, Noted(n, incident) PROVE ToldSoFar(event)'
    <3>1. \A j \in Nat : Noted(n, j) => j = incident
      BY <2>1, <2>3 DEF IncidentsKnown, OneIncidentEach
    <3> QED BY <2>1, <2>3, <3>1 DEF ToldSoFar
  <2> QED BY <2>1, <2>2, <2>3 DEF ToldSoFar
<1> QED BY <1>1, <1>2, <1>3, <1>4, <1>5, <1>6 DEF IncidentsKnown

\* What an evaluation does to the notices: those there are stay, and a transition that is to
\* be told has a notice, or is known not to have one.
LEMMA EvaluateNotes ==
    ASSUME Shaped, AlertReset, NEW byServer \in BOOLEAN, Evaluate(byServer)
    PROVE  /\ \A n \in Notices, i \in Nat : Noted(n, i) => Noted(n, i)'
           /\ \A n \in Notices, i \in Nat : Noted(n, i)' =>
                \/ Noted(n, i)
                \/ Notable(alert') /\ n = NoticeOf(alert') /\ i = incident'
           /\ untold \subseteq untold'
           /\ Notable(alert') =>
                \/ Noted(NoticeOf(alert), incident)'
                \/ [event |-> alert'.state, incident |-> incident'] \in untold'
           /\ samples' = samples + 1 /\ samples < MaxSamples
           /\ incident' = IF Raised(alert') /\ ~Raised(alert) THEN incident + 1 ELSE incident
           /\ UNCHANGED <<rule, deliveries>>
           /\ \E sample \in Samples, covered \in BOOLEAN :
                alert' = Evaluated(sample, samples + 1, covered)
<1>1. PICK sample \in Samples, covered \in BOOLEAN :
        LET at == samples + 1
            next == Evaluated(sample, at, covered)
            number == IF Raised(next) /\ ~Raised(alert) THEN incident + 1 ELSE incident
        IN /\ samples < MaxSamples
           /\ samples' = at /\ alert' = next /\ incident' = number
           /\ telling' = IF byServer /\ Notable(next)
                           THEN telling \cup {[notice |-> NoticeOf(next), incident |-> number]}
                           ELSE telling
           /\ untold' = IF ~byServer /\ Notable(next)
                          THEN untold \cup {[event |-> next.state, incident |-> number]}
                          ELSE untold
           /\ UNCHANGED <<rule, deliveries, sending, channel>>
  BY DEF Evaluate, Samples
<1>2. /\ samples' = samples + 1 /\ samples < MaxSamples
      /\ incident' = IF Raised(alert') /\ ~Raised(alert) THEN incident + 1 ELSE incident
      /\ UNCHANGED <<rule, deliveries>>
      /\ \E s \in Samples, c \in BOOLEAN : alert' = Evaluated(s, samples + 1, c)
      /\ telling' = IF byServer /\ Notable(alert')
                      THEN telling \cup {[notice |-> NoticeOf(alert'), incident |-> incident']}
                      ELSE telling
      /\ untold' = IF ~byServer /\ Notable(alert')
                     THEN untold \cup {[event |-> alert'.state, incident |-> incident']}
                     ELSE untold
  BY <1>1
<1>3. \A n, i : [notice |-> n, incident |-> i]
                  = [notice |-> NoticeOf(alert'), incident |-> incident']
                <=> n = NoticeOf(alert') /\ i = incident'
  OBVIOUS
<1> QED BY <1>2, <1>3 DEF Noted, Stored

\* An evaluation keeps what is known of the incidents.
LEMMA EvaluateKept ==
    ASSUME Shaped, AlertReset, IncidentsCounted, IncidentsKnown,
           NEW byServer \in BOOLEAN, Evaluate(byServer), touches' \in {touches, touches + 1}
    PROVE  IncidentsCounted' /\ IncidentsKnown'
<1> USE DEF Raised
<1>1. /\ \A n \in Notices, i \in Nat : Noted(n, i) => Noted(n, i)'
      /\ \A n \in Notices, i \in Nat : Noted(n, i)' =>
           \/ Noted(n, i)
           \/ Notable(alert') /\ n = NoticeOf(alert') /\ i = incident'
      /\ untold \subseteq untold'
      /\ Notable(alert') =>
           \/ Noted(NoticeOf(alert), incident)'
           \/ [event |-> alert'.state, incident |-> incident'] \in untold'
      /\ samples' = samples + 1 /\ samples < MaxSamples
      /\ incident' = IF Raised(alert') /\ ~Raised(alert) THEN incident + 1 ELSE incident
      /\ UNCHANGED <<rule, deliveries>>
  BY EvaluateNotes
<1>2. /\ alert'.state = "resolved" /\ alert.state # "resolved" => alert'.resolvedAt = samples + 1
      /\ alert'.firingAt \in {0, alert.firingAt, samples + 1}
      /\ Raised(alert') /\ Raised(alert) /\ alert.firingAt # 0 =>
           alert'.firingAt = alert.firingAt
      /\ alert'.state = "firing" /\ alert.state # "firing" =>
           alert'.firingAt = IF alert.firingAt = 0 THEN samples + 1 ELSE alert.firingAt
      /\ rule.consecutive > 1 /\ Raised(alert') =>
           IF Raised(alert) THEN alert'.fails > 0 => alert.fails > 0
                            ELSE alert'.firingAt = samples + 1
      /\ rule.consecutive > 1 /\ alert'.state = "firing" /\ alert.state # "firing" =>
           alert.fails > 0
      /\ alert' \in AlertType
  BY EvaluateNotes, EvaluatedFacts
<1>3. /\ samples \in Nat /\ touches \in Nat /\ incident \in Nat /\ incident' \in Nat
      /\ alert.firingAt \in Nat /\ alert.firingAt <= samples
      /\ alert.fails \in Nat /\ alert'.fails \in Nat /\ alert'.firingAt \in Nat
      /\ rule.consecutive \in Nat /\ MaxSamples \in Nat
      /\ \A n \in Notices : n.at \in 1..MaxSamples /\ n.event \in {"firing", "resolved"}
                            /\ n = [event |-> n.event, at |-> n.at]
      /\ \A n \in Notices : deliveries[n].incident \in Nat
  <2>1. /\ samples \in Nat /\ touches \in Nat /\ incident \in Nat
        /\ alert \in AlertType
        /\ rule.consecutive \in Nat /\ MaxSamples \in Nat
    BY RuleTyped DEF Shaped
  <2>2. incident' \in Nat
    BY <1>1, <2>1
  <2>3. /\ alert.firingAt \in Nat /\ alert.firingAt <= samples
        /\ alert.fails \in Nat /\ alert'.fails \in Nat /\ alert'.firingAt \in Nat
    BY <1>1, <1>2, <2>1 DEF AlertReset, AlertType
  <2>4. \A n \in Notices : n.at \in 1..MaxSamples /\ n.event \in {"firing", "resolved"}
                           /\ n = [event |-> n.event, at |-> n.at]
    BY DEF Notices, Times
  <2>5. \A n \in Notices : deliveries[n].incident \in Nat
    BY DEF Shaped, DeliveryType
  <2> QED BY <2>1, <2>2, <2>3, <2>4, <2>5
<1>4. Notable(alert') =>
        /\ NoticeOf(alert') \in Notices /\ NoticeOf(alert').event = alert'.state
        /\ alert'.state # alert.state /\ alert'.state \in {"firing", "resolved"}
        /\ NoticeOf(alert').at = IF alert'.state = "resolved" \/ alert.firingAt = 0
                                   THEN samples + 1 ELSE alert.firingAt
        /\ alert'.state = "firing" => NoticeOf(alert').at = alert'.firingAt
  BY <1>1, <1>2, <1>3 DEF Notable, NoticeOf, Notices, Times
<1>5. \A n \in Notices, i \in Nat : Noted(n, i) => n.at <= samples /\ i <= incident
  BY DEF IncidentsCounted
<1>6. IncidentsCounted'
  <2>1. incident' <= samples' + touches' /\ incident <= incident'
    BY <1>1, <1>3 DEF IncidentsCounted
  <2>2. \A n \in Notices : deliveries'[n].incident <= incident'
    BY <1>1, <1>3, <2>1 DEF IncidentsCounted
  <2>3. \A n \in Notices, i \in Nat : Noted(n, i)' => i <= incident' /\ n.at <= samples'
    BY <1>1, <1>3, <1>4, <1>5, <2>1
  <2> QED BY <2>1, <2>2, <2>3 DEF IncidentsCounted
<1>7. OneNoticeEach'
  <2> SUFFICES ASSUME NEW n \in Notices, NEW i \in Nat, n.event = "firing",
                      Noted(n, i), Notable(alert'), alert'.state = "firing", i = incident'
               PROVE  n = NoticeOf(alert')
    BY <1>1, <1>4 DEF IncidentsKnown, OneNoticeEach
  <2>1. Raised(alert) /\ i = incident
    BY <1>1, <1>3, <1>5
  <2>2. n.at = alert.firingAt
    BY <2>1 DEF IncidentsKnown, OwnFiringAt
  <2> QED BY <1>3, <1>4, <2>2
<1>8. OwnFiringAt'
  <2> SUFFICES ASSUME Raised(alert'), NEW n \in Notices, n.event = "firing",
                      Noted(n, incident)'
               PROVE  n.at = alert'.firingAt
    BY DEF OwnFiringAt
  <2>1. CASE Notable(alert') /\ n = NoticeOf(alert')
    BY <1>4, <2>1
  <2>2. CASE Noted(n, incident')
    <3>1. Raised(alert) /\ incident' = incident
      BY <1>1, <1>3, <1>5, <2>2
    <3>2. n.at = alert.firingAt
      BY <2>2, <3>1 DEF IncidentsKnown, OwnFiringAt
    <3> QED BY <1>2, <1>3, <3>1, <3>2
  <2> QED BY <1>1, <1>3, <2>1, <2>2
<1>9. FreshFiringAt'
  <2> SUFFICES ASSUME Raised(alert'), alert'.fails > 0, rule.consecutive > 1,
                      NEW n \in Notices, NEW i \in Nat,
                      n.event = "firing", n.at = alert'.firingAt, Noted(n, i)
               PROVE  i = incident'
    BY <1>1 DEF FreshFiringAt
  <2>1. Raised(alert) /\ alert.fails > 0 /\ alert'.firingAt = alert.firingAt
    BY <1>2, <1>3, <1>5
  <2> QED BY <1>1, <2>1 DEF IncidentsKnown, FreshFiringAt
<1>10. OneIncidentEach'
  <2> SUFFICES ASSUME NEW n \in Notices, NEW i \in Nat, Lasting(n.event), Noted(n, i),
                      Notable(alert'), n = NoticeOf(alert')
               PROVE  i = incident'
    BY <1>1 DEF IncidentsKnown, OneIncidentEach, Lasting
  <2>1. n.at <= samples
    BY <1>5
  <2>2. alert'.state = "firing" /\ rule.consecutive > 1 /\ n.at = alert.firingAt
    BY <1>3, <1>4, <2>1 DEF Lasting
  <2>3. Raised(alert) /\ alert.fails > 0
    BY <1>2, <1>3, <1>4, <2>1, <2>2
  <2>4. i = incident
    BY <1>4, <2>2, <2>3 DEF IncidentsKnown, FreshFiringAt
  <2> QED BY <1>1, <2>3, <2>4
<1>11. StateIsTold'
  <2> SUFFICES ASSUME NEW event \in {"firing", "resolved"}, alert'.state = event, Lasting(event)
               PROVE  ToldSoFar(event)'
    BY <1>1 DEF StateIsTold, Lasting
  <2>1. CASE alert.state # event
    <3>1. Notable(alert')
      BY <2>1 DEF Notable
    <3> QED BY <1>1, <1>4, <3>1 DEF ToldSoFar
  <2>2. CASE alert.state = event
    <3>1. ToldSoFar(event) /\ incident' = incident
      BY <1>1, <2>2 DEF IncidentsKnown, StateIsTold
    <3> QED BY <1>1, <1>3, <3>1 DEF ToldSoFar
  <2> QED BY <2>1, <2>2
<1> QED BY <1>6, <1>7, <1>8, <1>9, <1>10, <1>11 DEF IncidentsKnown

\* Silencing an alert that is neither firing nor silenced begins an incident without notices.
LEMMA SilenceKept ==
    ASSUME Shaped, AlertReset, IncidentsCounted, IncidentsKnown, Silence
    PROVE  IncidentsCounted' /\ IncidentsKnown'
<1>1. PICK until \in samples + 1..MaxSamples + 1 :
        alert' = [alert EXCEPT !.state = "silenced", !.until = until]
  BY DEF Silence
<1>2. alert'.state = "silenced" /\ alert'.firingAt = alert.firingAt /\ alert'.fails = alert.fails
  BY <1>1, SilencedFacts
<1>3. /\ touches' = touches + 1 /\ alert.state # "none"
      /\ incident' = IF Raised(alert) THEN incident ELSE incident + 1
      /\ UNCHANGED <<rule, samples, untold, telling, deliveries>>
  BY DEF Silence, Touch
<1>4. /\ samples \in Nat /\ touches \in Nat /\ incident \in Nat
      /\ alert.state \in AlertStates /\ alert.fails \in Nat
      /\ \A n \in Notices : deliveries[n].incident \in Nat /\ n.at \in 1..MaxSamples
      /\ MaxSamples \in Nat
  <2>1. /\ samples \in Nat /\ touches \in Nat /\ incident \in Nat /\ alert \in AlertType
        /\ rule.consecutive \in Nat /\ MaxSamples \in Nat
    BY RuleTyped DEF Shaped
  <2>2. \A n \in Notices : deliveries[n].incident \in Nat /\ n.at \in 1..MaxSamples
    BY DEF Shaped, DeliveryType, Notices, Times
  <2> QED BY <2>1, <2>2 DEF AlertType
<1>5. \A n \in Notices, i \in Nat : (Noted(n, i)' <=> Noted(n, i))
                                    /\ (Noted(n, i) => i <= incident /\ n.at <= samples)
  BY <1>3 DEF Noted, Stored, IncidentsCounted
<1>6. IncidentsCounted'
  <2>1. incident' <= samples' + touches' /\ incident <= incident'
    BY <1>3, <1>4 DEF IncidentsCounted
  <2>2. \A n \in Notices : deliveries'[n].incident <= incident'
    BY <1>3, <1>4, <2>1 DEF IncidentsCounted
  <2>3. \A n \in Notices, i \in Nat : Noted(n, i)' => i <= incident' /\ n.at <= samples'
    BY <1>3, <1>4, <1>5, <2>1
  <2> QED BY <2>1, <2>2, <2>3 DEF IncidentsCounted
<1>7. OneNoticeEach'
  BY <1>5 DEF IncidentsKnown, OneNoticeEach
<1>8. OwnFiringAt'
  <2>1. CASE Raised(alert)
    BY <1>2, <1>3, <1>4, <1>5, <2>1 DEF IncidentsKnown, OwnFiringAt, Raised
  <2>2. CASE ~Raised(alert)
    <3>1. \A n \in Notices : ~Noted(n, incident)'
      <4>1. \A n \in Notices : ~Noted(n, incident + 1)
        BY <1>4, <1>5
      <4> QED BY <1>3, <2>2, <4>1 DEF Noted, Stored
    <3> QED BY <3>1 DEF OwnFiringAt
  <2> QED BY <2>1, <2>2
<1>9. FreshFiringAt'
  <2>1. CASE Raised(alert)
    BY <1>2, <1>3, <1>5, <2>1 DEF IncidentsKnown, FreshFiringAt, Raised
  <2>2. CASE ~Raised(alert)
    <3>1. alert.state \in {"pending", "resolved"}
      BY <1>3, <1>4, <2>2 DEF Raised, AlertStates
    <3>2. alert'.fails = 0 \/ alert'.firingAt = 0
      BY <1>2, <3>1 DEF AlertReset
    <3> QED BY <1>4, <3>2 DEF FreshFiringAt
  <2> QED BY <2>1, <2>2
<1>10. OneIncidentEach'
  BY <1>3, <1>5 DEF IncidentsKnown, OneIncidentEach, Lasting
<1>11. StateIsTold'
  BY <1>2 DEF StateIsTold
<1> QED BY <1>6, <1>7, <1>8, <1>9, <1>10, <1>11 DEF IncidentsKnown

-----------------------------------------------------------------------------
AlertInv == Shaped /\ AlertReset /\ TriesCounted /\ IncidentsCounted /\ IncidentsKnown

\* In the initial state there is no alert and no notice.
LEMMA AlertInvInit == AlertInit => AlertInv
<1> SUFFICES ASSUME AlertInit PROVE AlertInv
  OBVIOUS
<1>1. Shaped /\ AlertReset /\ TriesCounted /\ IncidentsCounted
  BY InitCounted
<1>2. \A n \in Notices, i \in Nat : ~Noted(n, i)
  BY DEF AlertInit, Noted, Stored
<1>3. alert.state = "none"
  BY DEF AlertInit
<1>4. IncidentsKnown
  <2>1. OneNoticeEach /\ OneIncidentEach
    BY <1>2 DEF OneNoticeEach, OneIncidentEach
  <2>2. OwnFiringAt /\ FreshFiringAt /\ StateIsTold
    BY <1>3 DEF OwnFiringAt, FreshFiringAt, StateIsTold, Raised
  <2> QED BY <2>1, <2>2 DEF IncidentsKnown
<1> QED BY <1>1, <1>4 DEF AlertInv

\* Every step keeps it.
LEMMA AlertInvStep == AlertInv /\ [AlertNext]_alertVars => AlertInv'
<1> SUFFICES ASSUME AlertInv, [AlertNext]_alertVars PROVE AlertInv'
  OBVIOUS
<1>1. Shaped /\ AlertReset /\ TriesCounted /\ IncidentsCounted /\ IncidentsKnown
  BY DEF AlertInv
<1>2. Shaped' /\ AlertReset' /\ TriesCounted'
  BY <1>1, ShapeKept, TriesKept
<1>3. IncidentsCounted' /\ IncidentsKnown'
  <2>1. CASE EvaluateInServer \/ EvaluateByCommand
    BY <1>1, <2>1, EvaluateKept DEF EvaluateInServer, EvaluateByCommand, Touch
  <2>2. CASE Silence
    BY <1>1, <2>2, SilenceKept
  <2>3. CASE Tell \/ Ripen \/ RetryDue \/ Answered \/ RedeliverByHand \/ SetChannel \/ Restart
    BY <1>1, <2>3, RouterCarries, CarriedKept
  <2>4. CASE UNCHANGED alertVars
    <3>1. UNCHANGED <<rule, alert, samples, incident, untold, touches, telling, deliveries>>
      BY <2>4 DEF alertVars
    <3>2. NoticesCarried
      BY <1>1, <3>1 DEF NoticesCarried, Noted, Stored, IncidentsCounted
    <3> QED BY <1>1, <3>2, CarriedKept
  <2> QED BY <2>1, <2>2, <2>3, <2>4 DEF AlertNext
<1> QED BY <1>2, <1>3 DEF AlertInv

\* The counts give the bounds of the type invariant.
LEMMA AlertInvTyped == AlertInv => AlertTypeOK
<1> SUFFICES ASSUME AlertInv PROVE AlertTypeOK
  OBVIOUS
<1>1. Shaped /\ TriesCounted /\ IncidentsCounted
  BY DEF AlertInv
<1>2. touches \in 0..MaxTouches /\ samples \in 0..MaxSamples /\ incident \in Nat
      /\ MaxTouches \in Nat /\ MaxSamples \in Nat
  BY <1>1, RuleTyped DEF Shaped
<1>3. incident \in 0..MaxSamples + MaxTouches
  BY <1>1, <1>2 DEF IncidentsCounted
<1>4. \A n \in Notices : deliveries[n] \in
        [state : DeliveryStates, try : 0..DeliveryTries + MaxTouches, due : BOOLEAN,
         incident : 0..incident]
  <2> TAKE n \in Notices
  <2>1. deliveries[n] \in DeliveryType
    BY <1>1 DEF Shaped
  <2>2. deliveries[n].try <= DeliveryTries + touches /\ deliveries[n].incident <= incident
    BY <1>1 DEF TriesCounted, Affordable, IncidentsCounted
  <2> QED BY <1>2, <2>1, <2>2 DEF DeliveryType, DeliveryTries
<1>5. sending \subseteq [of : Notices, try : 1..DeliveryTries + MaxTouches, nth : 1..MaxSends]
  <2> SUFFICES ASSUME NEW c \in sending
               PROVE  c \in [of : Notices, try : 1..DeliveryTries + MaxTouches, nth : 1..MaxSends]
    OBVIOUS
  <2>1. c \in CallType /\ c.try <= DeliveryTries + touches
    BY <1>1 DEF Shaped, TriesCounted
  <2> QED BY <1>2, <2>1 DEF CallType, DeliveryTries
<1>6. deliveries \in [Notices -> [state : DeliveryStates, try : 0..DeliveryTries + MaxTouches,
                                  due : BOOLEAN, incident : 0..incident]]
  BY <1>1, <1>4 DEF Shaped
<1> QED BY <1>1, <1>3, <1>5, <1>6 DEF Shaped, AlertTypeOK, AlertType, AlertStates, DeliveryStates

\* What is known of the incidents is more than what is promised of them.
LEMMA AlertInvTold == AlertInv => IncidentsAreTold
<1> SUFFICES ASSUME AlertInv PROVE IncidentsAreTold
  OBVIOUS
<1>1. Shaped /\ IncidentsKnown
  BY DEF AlertInv
<1>2. \A n \in Notices : deliveries[n].incident \in Nat
  BY <1>1 DEF Shaped, DeliveryType
<1>3. \A n, m \in Notices :
        /\ n.event = "firing" /\ m.event = "firing"
        /\ deliveries[n].state # "absent" /\ deliveries[m].state # "absent"
        /\ deliveries[n].incident = deliveries[m].incident
        => n = m
  BY <1>1, <1>2 DEF IncidentsKnown, OneNoticeEach, Noted, Stored
<1>4. ASSUME NEW event \in {"firing", "resolved"}, alert.state = event, Lasting(event)
      PROVE  Told(event)
  <2>1. ToldSoFar(event)
    BY <1>1, <1>4 DEF IncidentsKnown, StateIsTold
  <2> QED BY <2>1 DEF ToldSoFar, Told, Noted, Stored
<1> QED BY <1>3, <1>4 DEF IncidentsAreTold, Lasting

\* The alert, its notices and the deliveries of them are well typed; a delivery is tried more
\* than three times only when its channel was paused or an operator asked for it.
THEOREM AlertsTyped == AlertSpec => []AlertTypeOK
<1>1. AlertSpec => []AlertInv
  BY AlertInvInit, AlertInvStep, PTL DEF AlertSpec
<1> QED BY <1>1, AlertInvTyped, PTL

\* An incident is announced by one notice however often it is silenced and evaluated, and the
\* present state of the alert has its notice unless it could not be enqueued at its time
\* (evaluate, enqueue and deliverAll).
THEOREM IncidentsTold == AlertSpec => []IncidentsAreTold
<1>1. AlertSpec => []AlertInv
  BY AlertInvInit, AlertInvStep, PTL DEF AlertSpec
<1> QED BY <1>1, AlertInvTold, PTL
=============================================================================
