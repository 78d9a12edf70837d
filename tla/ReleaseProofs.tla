----------------------------- MODULE ReleaseProofs -----------------------------
(***************************************************************************)
(* Theorems about ReleaseActivation, for any releases, clients, handlers,  *)
(* faults and bounds.                                                      *)
(*                                                                         *)
(* Marking a release active and superseding the one before are two steps:  *)
(* what carries at most one active release across them is that no client's *)
(* step makes a release active or changes what a handler wants, and that   *)
(* only one handler at a time is between two awaits, so that after the     *)
(* first step nothing but the wanted release is active.  A handler that    *)
(* began alone is alone to its end, because the next operation starts only *)
(* when its own has ended: so nobody moves the traffic behind it from the  *)
(* driver's answer to the end, and success is not reported of the store    *)
(* alone.                                                                  *)
(***************************************************************************)
EXTENDS ReleaseActivation, FiniteSetTheorems, TLAPS

Pcs == {"idle", "drive", "health", "gate", "complete", "supersede", "fail", "followUp",
        "record", "restore", "end"}
Inside == {"complete", "supersede", "followUp", "record", "restore", "end"}
HandlerType == [pc : Pcs, key : Keys \cup {None}, seen : Statuses,
                result : {"succeeded", "failed", "queued"},
                awaited : BOOLEAN, beside : BOOLEAN]
OpType == [state : OpStates, tries : 0..2]

\* An operation that may start has an attempt left.
AttemptsCounted ==
    \A k \in Keys : op[k].state \in {"absent", "queued"} => op[k].tries < MaxAttempts(k)

\* An operation is one of a release that exists; it is rolled back automatically only to a
\* release that was active.
OperationsKnown ==
    \A k \in Keys : op[k].state # "absent" =>
        status[k.of] # "absent" /\ (k.kind = "automatic" => previous[k.of] # None)

\* A handler works on an operation, which runs as long as it waits for the handler; its
\* result is set when it ends, or fails.
Knows(h) ==
    /\ handler[h].pc # "idle" => Key(h) \in Keys /\ op[Key(h)].state # "absent"
    /\ handler[h].result = "succeeded" => handler[h].pc = "end"
    /\ handler[h].awaited =>
         /\ handler[h].pc # "idle" /\ op[Key(h)].state = "running"
         /\ handler[h].result = "queued" => op[Key(h)].tries < MaxAttempts(Key(h))

\* Which way a handler goes: an activation completes, a rollback records and restores.
Way(h) ==
    /\ handler[h].pc \in {"gate", "complete"} => Key(h).kind = "activate"
    /\ handler[h].pc \in {"record", "restore"} => Key(h).kind # "activate"
    /\ handler[h].pc = "record" => rollbacks[Key(h).of] < MaxRollbacks
    /\ handler[h].pc \in {"drive", "health", "record", "restore", "supersede"}
         /\ Key(h).kind # "activate" => Target(Key(h)) # Key(h).of

\* Between the two statements of a transition nothing else is active.
Front(h) == handler[h].pc = "supersede" => Active \subseteq {Wanted(h)}

IsRolledBack(h) == Key(h).kind # "activate" => status[Key(h).of] \in {"rolled_back", "activating"}
Stands(h) == status[Wanted(h)] = "active" \/ Wanted(h) \in remarked

\* What a handler relies on that is alone.
Relies(h) ==
    handler[h].awaited /\ ~handler[h].beside =>
      /\ handler[h].pc \in {"health", "gate", "complete", "supersede", "record", "restore"} =>
           serving = Wanted(h)
      /\ handler[h].pc \in {"drive", "health", "record"} /\ Key(h).kind # "activate"
           /\ handler[h].seen = "active" => Stands(h)
      /\ handler[h].pc \in {"restore", "supersede"} => IsRolledBack(h)
      /\ handler[h].pc = "end" /\ handler[h].result = "succeeded" =>
           serving = Wanted(h) /\ Stands(h) /\ IsRolledBack(h)

Own(h) == Knows(h) /\ Way(h) /\ Front(h) /\ Relies(h)

\* One operation at a time waits for a handler; the handler is alone unless one that was
\* given up was there before it.
Together ==
    \A g, h \in Handlers :
        /\ handler[g].awaited /\ handler[h].awaited => g = h
        /\ handler[g].pc \in Inside /\ handler[h].pc \in Inside => g = h
        /\ handler[h].awaited /\ ~handler[h].beside /\ g # h => handler[g].pc = "idle"

AtMostOne == \A r, s \in Active : r = s

ReleaseInv ==
    /\ TypeOK /\ AttemptsCounted /\ OperationsKnown
    /\ \A h \in Handlers : Own(h)
    /\ Together /\ AtMostOne

-----------------------------------------------------------------------------
(* Lemmas about the helpers.                                               *)

\* An operation is tried once or twice.
LEMMA OneOrTwo == \A k : MaxAttempts(k) \in {1, 2}
BY DEF MaxAttempts

\* What a transition leaves: only an activating release becomes active.
LEMMA AllowedSteps ==
    \A s \in Statuses :
        /\ "activating" \in Allowed[s] => s \in {"built", "failed", "rolled_back", "superseded"}
        /\ "active" \in Allowed[s] => s = "activating"
        /\ "rolled_back" \in Allowed[s] => s \in {"activating", "active", "failed"}
<1> SUFFICES ASSUME NEW s \in Statuses
             PROVE  /\ "activating" \in Allowed[s] =>
                         s \in {"built", "failed", "rolled_back", "superseded"}
                    /\ "active" \in Allowed[s] => s = "activating"
                    /\ "rolled_back" \in Allowed[s] => s \in {"activating", "active", "failed"}
    OBVIOUS
<1>1. CASE s = "built"
    BY <1>1 DEF Allowed
<1>2. CASE s = "awaiting_approval"
    BY <1>2 DEF Allowed
<1>3. CASE s = "activating"
    BY <1>3 DEF Allowed
<1>4. CASE s = "active"
    BY <1>4 DEF Allowed
<1>5. CASE s = "failed"
    BY <1>5 DEF Allowed
<1>6. CASE s \in {"rolled_back", "superseded"}
    BY <1>6 DEF Allowed
<1>7. CASE s = "absent"
    BY <1>7 DEF Allowed
<1> QED
    BY <1>1, <1>2, <1>3, <1>4, <1>5, <1>6, <1>7 DEF Statuses

\* A transition changes the status of one release.
LEMMA BecomeTyped ==
    ASSUME TypeOK, NEW r \in Releases, NEW s \in Statuses, Become(r, s)
    PROVE  /\ status' \in [Releases -> Statuses] /\ status'[r] = s
           /\ \A q \in Releases \ {r} : status'[q] = status[q]
BY DEF TypeOK, Become

\* Enqueueing creates an operation where there was none.
LEMMA EnqueuedTyped ==
    ASSUME TypeOK, NEW k \in Keys, op' = Enqueued(k)
    PROVE  /\ op' \in [Keys -> OpType]
           /\ \A j \in Keys : /\ op'[j].tries = op[j].tries
                              /\ op'[j].state = op[j].state
                                   \/ (j = k /\ op[j].state = "absent" /\ op'[j].state = "queued")
<1>1. op \in [Keys -> OpType]
    BY DEF TypeOK, OpType
<1>2. CASE op[k].state # "absent"
    BY <1>1, <1>2 DEF Enqueued
<1>3. CASE op[k].state = "absent"
  <2> DEFINE o == [op[k] EXCEPT !.state = "queued"]
  <2>1. o \in OpType /\ o.state = "queued" /\ o.tries = op[k].tries
      BY <1>1 DEF OpType, OpStates
  <2>2. op' = [op EXCEPT ![k] = o]
      BY <1>3 DEF Enqueued
  <2> HIDE DEF o
  <2> QED
      BY <1>1, <1>3, <2>1, <2>2
<1> QED
    BY <1>2, <1>3

\* What is typed.
LEMMA Typed ==
    ASSUME ReleaseInv
    PROVE  /\ op \in [Keys -> OpType] /\ status \in [Releases -> Statuses]
           /\ previous \in [Releases -> Releases \cup {None}]
           /\ rollbacks \in [Releases -> 0..MaxRollbacks]
           /\ handler \in [Handlers -> HandlerType]
           /\ call \in [Clients -> [of : Releases \cup {None}, read : BOOLEAN]]
           /\ serving \in Releases \cup {None} /\ remarked \subseteq Releases
BY DEF ReleaseInv, TypeOK, OpType, HandlerType, Pcs

LEMMA TypedNext ==
    ASSUME op' \in [Keys -> OpType], status' \in [Releases -> Statuses],
           previous' \in [Releases -> Releases \cup {None}],
           rollbacks' \in [Releases -> 0..MaxRollbacks],
           handler' \in [Handlers -> HandlerType],
           call' \in [Clients -> [of : Releases \cup {None}, read : BOOLEAN]],
           serving' \in Releases \cup {None}, remarked' \subseteq Releases
    PROVE  TypeOK'
BY DEF TypeOK, OpType, HandlerType, Pcs

\* A handler wants a release.
LEMMA WantedTyped ==
    ASSUME ReleaseInv, NEW h \in Handlers, handler[h].pc # "idle"
    PROVE  /\ Key(h) \in Keys /\ Key(h).of \in Releases /\ status[Key(h).of] # "absent"
           /\ Wanted(h) \in Releases
<1>1. Key(h) \in Keys /\ op[Key(h)].state # "absent"
    BY DEF ReleaseInv, Own, Knows
<1>2. status[Key(h).of] # "absent" /\ (Key(h).kind = "automatic" => previous[Key(h).of] # None)
    BY <1>1 DEF ReleaseInv, OperationsKnown
<1>3. Key(h).of \in Releases /\ Key(h).kind \in {"activate", "automatic", "manual"}
      /\ (Key(h).kind = "manual" => Key(h).arg \in Releases)
    BY <1>1 DEF Keys
<1>4. previous[Key(h).of] \in Releases \cup {None}
    BY <1>3, Typed
<1> QED
    BY <1>1, <1>2, <1>3, <1>4 DEF Wanted, Target

-----------------------------------------------------------------------------
(* Steps of others than the handlers.                                      *)

\* What clients and the queue leave of the operations.
OpsKept ==
    /\ op' \in [Keys -> OpType]
    /\ \A k \in Keys :
         /\ op'[k].tries = op[k].tries
         /\ op'[k].state \in {"absent", "queued"} => op[k].tries < MaxAttempts(k)
         /\ op[k].state # "absent" => op'[k].state # "absent"
         /\ op[k].state = "running" =>
              \/ op'[k].state = "running"
              \/ \A h \in Handlers : Key(h) = k => ~handler[h].awaited
         /\ op'[k].state # "absent" /\ op[k].state = "absent" =>
              status'[k.of] # "absent" /\ k.kind # "automatic"

\* What they leave of the releases: none becomes active; one that stops being active was
\* marked by a client that had read before; what is rolled back is at most asked for again.
StatusKept ==
    /\ status' \in [Releases -> Statuses] /\ previous' \in [Releases -> Releases \cup {None}]
    /\ remarked' \subseteq Releases /\ remarked \subseteq remarked'
    /\ \A r \in Releases :
         /\ status'[r] = "active" => status[r] = "active"
         /\ status[r] = "active" => status'[r] = "active" \/ r \in remarked'
         /\ status[r] # "absent" => status'[r] # "absent" /\ previous'[r] = previous[r]
         /\ status[r] \in {"rolled_back", "activating"} =>
              status'[r] \in {"rolled_back", "activating"}

\* Clients and the queue leave the handlers and what they rely on alone.
LEMMA OthersKeep ==
    ASSUME ReleaseInv, UNCHANGED <<handler, serving, rollbacks>>, OpsKept, StatusKept,
           call' \in [Clients -> [of : Releases \cup {None}, read : BOOLEAN]]
    PROVE  ReleaseInv'
<1>1. TypeOK'
    BY Typed, TypedNext DEF OpsKept, StatusKept
<1>2. AttemptsCounted'
    BY DEF AttemptsCounted, MaxAttempts, OpsKept
<1>3. \A k \in Keys : k.of \in Releases
    BY DEF Keys
<1>4. OperationsKnown'
    BY <1>3 DEF ReleaseInv, OperationsKnown, OpsKept, StatusKept
<1>5. Active' \subseteq Active
    BY DEF Active, StatusKept
<1>6. ASSUME NEW h \in Handlers PROVE Own(h)'
  <2>1. CASE handler[h].pc = "idle"
    <3>1. ~handler[h].awaited
        BY <1>6, <2>1 DEF ReleaseInv, Own, Knows
    <3> QED
        BY <1>6, <2>1, <3>1 DEF Own, Knows, Way, Front, Relies, ReleaseInv
  <2>2. CASE handler[h].pc # "idle"
    <3>1. Key(h) \in Keys /\ Key(h).of \in Releases /\ status[Key(h).of] # "absent"
          /\ Wanted(h) \in Releases
        BY <1>6, <2>2, WantedTyped
    <3>2. Key(h)' = Key(h) /\ Wanted(h)' = Wanted(h) /\ Target(Key(h))' = Target(Key(h))
        BY <3>1 DEF Wanted, Target, Key, StatusKept
    <3>3. Knows(h) /\ Way(h) /\ Front(h) /\ Relies(h)
        BY <1>6 DEF ReleaseInv, Own
    <3>4. Knows(h)'
        BY <3>1, <3>2, <3>3 DEF Knows, OpsKept, MaxAttempts
    <3>5. Way(h)'
        BY <3>1, <3>2, <3>3 DEF Way
    <3>6. Front(h)'
        BY <1>5, <3>2, <3>3 DEF Front
    <3>7. (IsRolledBack(h) => IsRolledBack(h)') /\ (Stands(h) => Stands(h)')
        BY <3>1, <3>2 DEF IsRolledBack, Stands, StatusKept
    <3>8. Relies(h)'
        BY <3>2, <3>3, <3>7 DEF Relies
    <3> QED
        BY <3>4, <3>5, <3>6, <3>8 DEF Own
  <2> QED
      BY <2>1, <2>2
<1>7. Together'
    BY DEF ReleaseInv, Together
<1>8. AtMostOne'
    BY <1>5 DEF ReleaseInv, AtMostOne
<1> QED
    BY <1>1, <1>2, <1>4, <1>6, <1>7, <1>8 DEF ReleaseInv

\* Enqueueing an operation of a release that exists keeps the operations.
LEMMA EnqueuedKept ==
    ASSUME ReleaseInv, NEW k \in Keys, op' = Enqueued(k),
           status'[k.of] # "absent", k.kind # "automatic"
    PROVE  OpsKept
<1>1. TypeOK /\ AttemptsCounted
    BY DEF ReleaseInv
<1> QED
    BY <1>1, EnqueuedTyped DEF OpsKept, AttemptsCounted

\* Clients create, approve, ask for an activation or a rollback, and mark.
LEMMA ClientsKeep ==
    ASSUME ReleaseInv,
           \/ \E c \in Clients, r \in Releases :
                \/ Create(c, r) \/ Approve(c, r) \/ RequestActivation(c, r)
                \/ \E t \in Releases : RequestRollback(c, r, t)
           \/ \E c \in Clients : MarkRead(c) \/ MarkActivating(c)
    PROVE  ReleaseInv'
<1>0. /\ op \in [Keys -> OpType] /\ status \in [Releases -> Statuses]
      /\ previous \in [Releases -> Releases \cup {None}] /\ remarked \subseteq Releases
      /\ call \in [Clients -> [of : Releases \cup {None}, read : BOOLEAN]]
      /\ TypeOK
    BY Typed DEF ReleaseInv
<1>01. UNCHANGED <<op, status>> => OpsKept
    BY <1>0 DEF ReleaseInv, AttemptsCounted, OpsKept
<1>1. ASSUME NEW c \in Clients, NEW r \in Releases, Create(c, r) PROVE ReleaseInv'
  <2>1. PICK s \in {"awaiting_approval", "built"} : Become(r, s)
      BY <1>1 DEF Create
  <2>2. PICK p \in Releases \cup {None} : previous' = [previous EXCEPT ![r] = p]
      BY <1>1 DEF Create, Active
  <2>3. /\ status' \in [Releases -> Statuses] /\ status'[r] = s
        /\ \A q \in Releases \ {r} : status'[q] = status[q]
      BY <1>0, <2>1, BecomeTyped DEF Statuses
  <2>4. /\ previous' \in [Releases -> Releases \cup {None}]
        /\ \A q \in Releases \ {r} : previous'[q] = previous[q]
      BY <1>0, <2>2
  <2>5. status[r] = "absent"
        /\ UNCHANGED <<rollbacks, op, handler, call, serving, remarked>>
      BY <1>1 DEF Create
  <2>6. StatusKept
      BY <1>0, <2>3, <2>4, <2>5 DEF StatusKept
  <2>7. OpsKept
      BY <1>0, <2>5 DEF ReleaseInv, AttemptsCounted, OpsKept
  <2> QED
      BY <1>0, <2>5, <2>6, <2>7, OthersKeep
<1>2. ASSUME NEW c \in Clients, NEW r \in Releases, Approve(c, r) PROVE ReleaseInv'
  <2>1. PICK s \in {"built", "failed"} : Become(r, s)
      BY <1>2 DEF Approve
  <2>2. /\ status' \in [Releases -> Statuses] /\ status'[r] = s
        /\ \A q \in Releases \ {r} : status'[q] = status[q]
      BY <1>0, <2>1, BecomeTyped DEF Statuses
  <2>3. status[r] = "awaiting_approval"
        /\ UNCHANGED <<previous, rollbacks, op, handler, call, serving, remarked>>
      BY <1>2 DEF Approve
  <2>4. StatusKept
      BY <1>0, <2>2, <2>3 DEF StatusKept
  <2>5. OpsKept
      BY <1>0, <2>3 DEF ReleaseInv, AttemptsCounted, OpsKept
  <2> QED
      BY <1>0, <2>3, <2>4, <2>5, OthersKeep
<1>3. ASSUME NEW c \in Clients, NEW r \in Releases, RequestActivation(c, r) PROVE ReleaseInv'
  <2>1. ActivationKey(r) \in Keys /\ ActivationKey(r).of = r /\ ActivationKey(r).kind = "activate"
      BY Typed DEF ActivationKey, Keys
  <2>2. /\ status[r] \in {"built", "failed", "rolled_back", "superseded"}
        /\ UNCHANGED <<previous, rollbacks, handler, serving, remarked>>
        /\ op' = Enqueued(ActivationKey(r))
      BY <1>3 DEF RequestActivation
  <2>3. /\ status' \in [Releases -> Statuses]
        /\ status'[r] \in {status[r], "activating"}
        /\ \A q \in Releases \ {r} : status'[q] = status[q]
        /\ call' \in [Clients -> [of : Releases \cup {None}, read : BOOLEAN]]
    <3>1. CASE c \in LocalClients
        BY <1>0, <1>3, <3>1, BecomeTyped DEF RequestActivation, Statuses
    <3>2. CASE c \notin LocalClients
        BY <1>0, <1>3, <3>2 DEF RequestActivation
    <3> QED
        BY <3>1, <3>2
  <2>4. StatusKept
      BY <1>0, <2>2, <2>3 DEF StatusKept
  <2>5. status'[r] # "absent"
      BY <2>2, <2>3
  <2>6. OpsKept
      BY <2>1, <2>2, <2>5, EnqueuedKept
  <2> QED
      BY <2>2, <2>3, <2>4, <2>6, OthersKeep
<1>4. ASSUME NEW c \in Clients, NEW r \in Releases, NEW t \in Releases, RequestRollback(c, r, t)
      PROVE  ReleaseInv'
  <2>1. ManualKey(r, t) \in Keys /\ ManualKey(r, t).of = r /\ ManualKey(r, t).kind = "manual"
      BY DEF ManualKey, Keys
  <2>2. /\ status[r] = "active" /\ op' = Enqueued(ManualKey(r, t))
        /\ UNCHANGED <<status, previous, rollbacks, handler, call, serving, remarked>>
      BY <1>4 DEF RequestRollback
  <2>3. StatusKept
      BY <1>0, <2>2 DEF StatusKept
  <2>4. OpsKept
      BY <2>1, <2>2, EnqueuedKept
  <2> QED
      BY <1>0, <2>2, <2>3, <2>4, OthersKeep
<1>5. ASSUME NEW c \in Clients, MarkRead(c) PROVE ReleaseInv'
  <2>1. UNCHANGED <<status, previous, rollbacks, op, handler, serving, remarked>>
      BY <1>5 DEF MarkRead
  <2>2. call' \in [Clients -> [of : Releases \cup {None}, read : BOOLEAN]]
      BY <1>0, <1>5 DEF MarkRead, NoCall
  <2>3. StatusKept
      BY <1>0, <2>1 DEF StatusKept
  <2> QED
      BY <1>01, <2>1, <2>2, <2>3, OthersKeep
<1>6. ASSUME NEW c \in Clients, MarkActivating(c) PROVE ReleaseInv'
  <2> DEFINE r == call[c].of
  <2>1. /\ Become(r, "activating") /\ remarked' = remarked \cup (Active \cap {r})
        /\ call' = [call EXCEPT ![c] = NoCall]
        /\ UNCHANGED <<previous, rollbacks, op, handler, serving>>
      BY <1>6 DEF MarkActivating
  <2>2. /\ status' \in [Releases -> Statuses]
        /\ \A q \in Releases : status'[q] = IF q = r THEN "activating" ELSE status[q]
      BY <1>0, <2>1 DEF Become, Statuses
  <2>3. StatusKept
      BY <1>0, <2>1, <2>2 DEF StatusKept, Active
  <2>4. OpsKept
      BY <1>0, <2>1, <2>2 DEF ReleaseInv, AttemptsCounted, OpsKept
  <2>5. call' \in [Clients -> [of : Releases \cup {None}, read : BOOLEAN]]
      BY <1>0, <2>1 DEF NoCall
  <2> QED
      BY <2>1, <2>3, <2>4, <2>5, OthersKeep
<1> QED
    BY <1>1, <1>2, <1>3, <1>4, <1>5, <1>6

\* The queue cancels, retries and recovers operations.
LEMMA QueueKeeps ==
    ASSUME ReleaseInv, NEW k \in Keys,
           CancelQueued(k) \/ RetryOperation(k) \/ RecoverOperation(k)
    PROVE  ReleaseInv'
<1>0. op \in [Keys -> OpType] /\ UNCHANGED <<status, previous, rollbacks, handler, call, serving, remarked>>
    BY Typed DEF CancelQueued, RetryOperation, RecoverOperation
<1>1. PICK s \in {"cancelled", "queued", "failed"} :
        /\ op' = [op EXCEPT ![k].state = s]
        /\ s = "queued" => op[k].tries < MaxAttempts(k)
        /\ op[k].state # "absent"
        /\ op[k].state = "running" => \A h \in Handlers : Key(h) = k => ~handler[h].awaited
    BY DEF CancelQueued, RetryOperation, RecoverOperation, AttemptsLeft
<1>2. /\ op' \in [Keys -> OpType] /\ op'[k].state = s
      /\ \A j \in Keys : op'[j].tries = op[j].tries
      /\ \A j \in Keys \ {k} : op'[j] = op[j]
    BY <1>0, <1>1 DEF OpType, OpStates
<1>3. OpsKept
    BY <1>0, <1>1, <1>2 DEF ReleaseInv, AttemptsCounted, OpsKept
<1>4. StatusKept
    BY <1>0, Typed DEF StatusKept
<1> QED
    BY <1>0, <1>3, <1>4, Typed, OthersKeep

-----------------------------------------------------------------------------
(* Steps of the handlers.                                                  *)

\* Handler h moves and no other one.
MovesOnly(h) ==
    /\ handler' \in [Handlers -> HandlerType]
    /\ \A g \in Handlers \ {h} : handler'[g] = handler[g]

\* Its operation, and what it keeps in mind of it, stay.
Remembers(h) ==
    /\ handler'[h].key = handler[h].key /\ handler'[h].seen = handler[h].seen
    /\ handler'[h].awaited = handler[h].awaited /\ handler'[h].beside = handler[h].beside

LEMMA ProceedMoves ==
    ASSUME ReleaseInv, NEW h \in Handlers, NEW pc \in Pcs, Proceed(h, pc)
    PROVE  /\ MovesOnly(h) /\ Remembers(h)
           /\ handler'[h].pc = pc /\ handler'[h].result = handler[h].result
<1>1. handler \in [Handlers -> HandlerType]
    BY Typed
<1> QED
    BY <1>1 DEF Proceed, MovesOnly, Remembers, HandlerType

LEMMA FinishMoves ==
    ASSUME ReleaseInv, NEW h \in Handlers, NEW result \in {"succeeded", "failed", "queued"},
           Finish(h, result)
    PROVE  /\ MovesOnly(h) /\ Remembers(h)
           /\ handler'[h].pc = "end" /\ handler'[h].result = result
<1>1. handler \in [Handlers -> HandlerType]
    BY Typed
<1> QED
    BY <1>1 DEF Finish, MovesOnly, Remembers, HandlerType, Pcs

\* No other handler is between two awaits.
Turn(h) == \A g \in Handlers \ {h} : handler[g].pc \notin Inside

LEMMA TurnTaken ==
    ASSUME ReleaseInv, NEW h \in Handlers, ~Busy \/ handler[h].pc \in Inside
    PROVE  Turn(h)
BY DEF ReleaseInv, Together, Turn, Busy, Inside

\* What a handler's step leaves to be shown of the others: nothing, if it keeps the
\* operations they wait for and touches releases only when it has the thread.
LEMMA StepKeeps ==
    ASSUME ReleaseInv, NEW h \in Handlers, handler[h].pc # "idle", MovesOnly(h),
           UNCHANGED <<previous, call>>,
           handler'[h].awaited => handler[h].awaited /\ handler'[h].beside = handler[h].beside,
           Turn(h) \/ (UNCHANGED <<status, rollbacks>> /\ handler'[h].pc \notin Inside),
           op' \in [Keys -> OpType],
           \A k \in Keys :
             /\ op'[k].tries = op[k].tries
             /\ op[k].state # "absent" => op'[k].state # "absent"
             /\ op[k].state = "running" => op'[k].state = "running" \/ handler[h].awaited,
           TypeOK', AttemptsCounted', OperationsKnown', AtMostOne', Own(h)'
    PROVE  ReleaseInv'
<1>1. ASSUME NEW g \in Handlers PROVE Own(g)'
  <2>1. CASE g = h
      BY <2>1
  <2>2. CASE g # h
    <3>1. handler'[g] = handler[g] /\ Key(g)' = Key(g)
        BY <1>1, <2>2 DEF MovesOnly, Key
    <3>2. Wanted(g)' = Wanted(g) /\ Target(Key(g))' = Target(Key(g))
        BY <3>1 DEF Wanted, Target
    <3>3. Knows(g) /\ Way(g) /\ Front(g)
        BY <1>1 DEF ReleaseInv, Own
    <3>4. handler[g].awaited => ~handler[h].awaited /\ handler[g].beside
        BY <1>1, <2>2, Typed DEF ReleaseInv, Together, HandlerType
    <3>5. Knows(g)'
        BY <3>1, <3>3, <3>4 DEF Knows, MaxAttempts
    <3>6. Way(g)'
        BY <1>1, <2>2, <3>1, <3>2, <3>3 DEF Way, Turn, Inside
    <3>7. Front(g)'
        BY <1>1, <2>2, <3>1, <3>2, <3>3 DEF Front, Turn, Inside, Active
    <3>8. Relies(g)'
        BY <3>1, <3>4 DEF Relies
    <3> QED
        BY <3>5, <3>6, <3>7, <3>8 DEF Own
  <2> QED
      BY <2>1, <2>2
<1>2. Together'
    BY DEF ReleaseInv, Together, MovesOnly, Turn, Inside
<1> QED
    BY <1>1, <1>2 DEF ReleaseInv

\* A step that leaves the operations alone, and no release absent that exists, leaves the
\* operations counted and known.
LEMMA OperationsStay ==
    ASSUME ReleaseInv, UNCHANGED <<op, previous>>,
           \A r \in Releases : status[r] # "absent" => status'[r] # "absent"
    PROVE  AttemptsCounted' /\ OperationsKnown'
<1>1. \A k \in Keys : k.of \in Releases
    BY DEF Keys
<1>2. AttemptsCounted'
    BY DEF ReleaseInv, AttemptsCounted, MaxAttempts
<1> QED
    BY <1>1, <1>2 DEF ReleaseInv, OperationsKnown

\* The queue starts an operation.
LEMMA ClaimKeeps ==
    ASSUME ReleaseInv, NEW h \in Handlers, NEW k \in Keys, Claim(h, k) PROVE ReleaseInv'
<1> DEFINE seen == IF Target(k) = None THEN "absent" ELSE status[Target(k)]
           pc == IF k.kind # "activate" /\ Target(k) = k.of THEN "end" ELSE "drive"
           beside == \E g \in Handlers : handler[g].pc # "idle"
           w == [pc |-> pc, key |-> k, seen |-> seen, result |-> "failed", awaited |-> TRUE,
                 beside |-> beside]
           o == [state |-> "running", tries |-> op[k].tries + 1]
<1>0. /\ op \in [Keys -> OpType] /\ status \in [Releases -> Statuses]
      /\ previous \in [Releases -> Releases \cup {None}]
      /\ handler \in [Handlers -> HandlerType]
    BY Typed
<1>1. op[k].state = "queued" /\ op[k].tries < MaxAttempts(k)
    BY DEF Claim, ReleaseInv, AttemptsCounted
<1>2. op' = [op EXCEPT ![k] = o] /\ o \in OpType /\ o.state = "running"
    BY <1>0, <1>1, OneOrTwo DEF Claim, OpType, OpStates
<1> HIDE DEF o
<1>3. op' \in [Keys -> OpType] /\ op'[k] = o /\ \A j \in Keys \ {k} : op'[j] = op[j]
    BY <1>0, <1>2
<1>4. Target(k) \in Releases \cup {None} /\ k.of \in Releases
    BY <1>0 DEF Target, Keys
<1>5. seen \in Statuses /\ pc \in {"end", "drive"} /\ beside \in BOOLEAN
    BY <1>0, <1>4 DEF Statuses
<1>6. /\ handler' = [handler EXCEPT ![h] = w]
      /\ UNCHANGED <<status, previous, rollbacks, call, serving, remarked>>
    BY DEF Claim
<1> HIDE DEF pc, seen, beside
<1>7. /\ w \in HandlerType
      /\ handler'[h] = w /\ MovesOnly(h)
  <2>1. w \in HandlerType
      BY <1>5 DEF HandlerType, Pcs
  <2> QED
      BY <1>0, <1>6, <2>1 DEF MovesOnly
<1>8. TypeOK'
    BY <1>3, <1>6, <1>7, Typed, TypedNext DEF MovesOnly
<1>9. AttemptsCounted'
    BY <1>2, <1>3 DEF ReleaseInv, AttemptsCounted, MaxAttempts
<1>10. OperationsKnown'
    BY <1>1, <1>3, <1>6 DEF ReleaseInv, OperationsKnown
<1>11. Key(h)' = k /\ Target(k)' = Target(k)
    BY <1>6, <1>7 DEF Key, Target
<1>12. \A g \in Handlers : ~handler[g].awaited /\ handler[g].pc \notin Inside
    BY DEF Claim, ReleaseInv, Own, Knows, Busy, Inside
<1>13. Knows(h)'
    BY <1>2, <1>3, <1>5, <1>7, <1>11 DEF Knows
<1>14. Way(h)'
  <2>1. pc = "drive" /\ k.kind # "activate" => Target(k) # k.of
      BY DEF pc
  <2> QED
      BY <1>5, <1>7, <1>11, <2>1 DEF Way
<1>15. Relies(h)' /\ Front(h)'
  <2>1. Target(k) # None /\ seen = "active" => status[Target(k)] = "active"
      BY DEF seen
  <2>2. Target(k) = None => seen = "absent"
      BY DEF seen
  <2>3. k.kind # "activate" => Wanted(h)' = Target(k)
      BY <1>11 DEF Wanted
  <2> QED
      BY <1>5, <1>6, <1>7, <1>11, <2>1, <2>2, <2>3 DEF Relies, Front, Stands
<1>16. ASSUME NEW g \in Handlers PROVE Own(g)'
  <2>1. CASE g = h
      BY <1>13, <1>14, <1>15, <2>1 DEF Own
  <2>2. CASE g # h
    <3>1. handler'[g] = handler[g] /\ Key(g)' = Key(g)
        BY <1>7, <1>16, <2>2 DEF MovesOnly, Key
    <3>2. Wanted(g)' = Wanted(g) /\ Target(Key(g))' = Target(Key(g)) /\ Active' = Active
        BY <1>6, <3>1 DEF Wanted, Target, Active
    <3>3. Knows(g) /\ Way(g) /\ Front(g) /\ ~handler[g].awaited
        BY <1>12, <1>16 DEF ReleaseInv, Own
    <3>4. Knows(g)'
        BY <1>2, <1>3, <3>1, <3>3 DEF Knows
    <3> QED
        BY <1>6, <3>1, <3>2, <3>3, <3>4 DEF Own, Way, Front, Relies
  <2> QED
      BY <2>1, <2>2
<1>17. Together'
  <2>1. ~beside => \A g \in Handlers : handler[g].pc = "idle"
      BY DEF beside
  <2>2. handler'[h].beside = beside
      BY <1>7
  <2> QED
      BY <1>7, <1>12, <2>1, <2>2 DEF ReleaseInv, Together, MovesOnly, Inside
<1>18. AtMostOne'
    BY <1>6 DEF ReleaseInv, AtMostOne, Active
<1> QED
    BY <1>8, <1>9, <1>10, <1>16, <1>17, <1>18 DEF ReleaseInv

\* A step of a handler that leaves releases and operations as they are.
LEMMA WaitKeeps ==
    ASSUME ReleaseInv, NEW h \in Handlers, handler[h].pc # "idle", MovesOnly(h), Remembers(h),
           UNCHANGED <<status, previous, rollbacks, op, call, remarked>>,
           serving' \in Releases \cup {None},
           Turn(h) \/ handler'[h].pc \notin Inside,
           Own(h)'
    PROVE  ReleaseInv'
<1>1. TypeOK'
    BY Typed, TypedNext DEF MovesOnly
<1>2. AttemptsCounted' /\ OperationsKnown'
    BY OperationsStay
<1>3. AtMostOne'
    BY DEF ReleaseInv, AtMostOne, Active
<1> QED
    BY <1>1, <1>2, <1>3, Typed, StepKeeps DEF Remembers

\* Its operation stays, and so does what the handler wants.
LEMMA SameKey ==
    ASSUME NEW h \in Handlers, Remembers(h), UNCHANGED previous
    PROVE  Key(h)' = Key(h) /\ Wanted(h)' = Wanted(h) /\ Target(Key(h))' = Target(Key(h))
BY DEF Remembers, Key, Wanted, Target

\* The driver answers, or is not asked; the answer is accepted or not; a gate says no.
LEMMA AnswersKeep ==
    ASSUME ReleaseInv, NEW h \in Handlers,
           \/ StopBeforeDriver(h) \/ DriverSucceeds(h) \/ DriverFails(h)
           \/ HealthCheckpoint(h) \/ GateAnswers(h)
    PROVE  ReleaseInv'
<1>0. /\ handler \in [Handlers -> HandlerType] /\ serving \in Releases \cup {None}
      /\ handler[h].pc \in {"drive", "health", "gate"}
      /\ Key(h) \in Keys /\ Wanted(h) \in Releases
      /\ handler[h].result # "succeeded"
      /\ Knows(h) /\ Way(h) /\ Relies(h)
  <2>1. handler[h].pc \in {"drive", "health", "gate"}
      BY DEF StopBeforeDriver, DriverSucceeds, DriverFails, HealthCheckpoint, GateAnswers
  <2>2. Knows(h) /\ Way(h) /\ Relies(h)
      BY DEF ReleaseInv, Own
  <2>3. handler[h].result # "succeeded"
      BY <2>1, <2>2 DEF Knows
  <2> QED
      BY <2>1, <2>2, <2>3, WantedTyped, Typed
<1>1. UNCHANGED <<status, previous, rollbacks, op, call, remarked>>
    BY DEF StopBeforeDriver, DriverSucceeds, DriverFails, HealthCheckpoint, GateAnswers
<1>2. ASSUME MovesOnly(h), Remembers(h), serving' \in Releases \cup {None},
             Turn(h) \/ handler'[h].pc \notin Inside,
             handler'[h].pc \in {"health", "fail", "end", "gate", "complete", "record"},
             handler'[h].result = handler[h].result \/ handler'[h].result = "failed"
               \/ (handler'[h].result = "queued" /\ op[Key(h)].tries < MaxAttempts(Key(h))),
             handler'[h].pc \in {"health", "gate", "complete", "record"} =>
               serving' = Wanted(h) \/ (handler[h].pc \in {"health", "gate"} /\ UNCHANGED serving),
             handler'[h].pc \in {"gate", "complete"} => Key(h).kind = "activate",
             handler'[h].pc = "record" =>
               Key(h).kind # "activate" /\ rollbacks[Key(h).of] < MaxRollbacks,
             handler'[h].pc = "health" => handler[h].pc = "drive",
             handler'[h].pc = "record" => handler[h].pc = "health"
      PROVE  ReleaseInv'
  <2>1. Key(h)' = Key(h) /\ Wanted(h)' = Wanted(h) /\ Target(Key(h))' = Target(Key(h))
      BY <1>1, <1>2, SameKey
  <2>2. handler'[h].result # "succeeded"
      BY <1>0, <1>2
  <2>3. Knows(h)'
      BY <1>0, <1>1, <1>2, <2>1, <2>2 DEF Knows, Remembers, MaxAttempts
  <2>4. Way(h)'
      BY <1>0, <1>1, <1>2, <2>1 DEF Way
  <2>5. Front(h)'
      BY <1>2 DEF Front
  <2>6. Stands(h) => Stands(h)'
      BY <1>1, <2>1 DEF Stands
  <2>7. Relies(h)'
      BY <1>0, <1>2, <2>1, <2>2, <2>6 DEF Relies, Remembers
  <2> QED
      BY <1>0, <1>1, <1>2, <2>3, <2>4, <2>5, <2>7, WaitKeeps DEF Own
<1>3. CASE StopBeforeDriver(h)
  <2>1. Turn(h)
      BY <1>3, TurnTaken DEF StopBeforeDriver
  <2>2. UNCHANGED serving /\ Finish(h, "failed")
      BY <1>3 DEF StopBeforeDriver
  <2> QED
      BY <1>0, <1>2, <2>1, <2>2, FinishMoves
<1>4. CASE DriverSucceeds(h)
  <2>1. serving' = Wanted(h) /\ Proceed(h, "health") /\ handler[h].pc = "drive"
      BY <1>4 DEF DriverSucceeds
  <2> QED
      BY <1>0, <1>2, <2>1, ProceedMoves DEF Pcs, Inside
<1>5. CASE DriverFails(h)
  <2>1. PICK result \in {"failed", "queued"} :
          /\ handler' = [handler EXCEPT ![h].pc = "fail", ![h].result = result]
          /\ result = "queued" => op[Key(h)].tries < MaxAttempts(Key(h))
      BY <1>5 DEF DriverFails, AttemptsLeft
  <2>2. /\ MovesOnly(h) /\ Remembers(h)
        /\ handler'[h].pc = "fail" /\ handler'[h].result = result
      BY <1>0, <2>1 DEF MovesOnly, Remembers, HandlerType, Pcs
  <2>3. serving' \in Releases \cup {None}
      BY <1>0, <1>5 DEF DriverFails
  <2> QED
      BY <1>0, <1>2, <2>1, <2>2, <2>3 DEF Inside
<1>6. CASE HealthCheckpoint(h)
  <2>1. Turn(h)
      BY <1>6, TurnTaken DEF HealthCheckpoint
  <2>2. UNCHANGED serving /\ handler[h].pc = "health"
      BY <1>6 DEF HealthCheckpoint
  <2>3. CASE /\ Key(h).kind # "activate" => rollbacks[Key(h).of] < MaxRollbacks
             /\ Proceed(h, IF Key(h).kind # "activate" THEN "record"
                           ELSE IF Key(h).of \in NamedGates THEN "gate" ELSE "complete")
      BY <1>0, <1>2, <2>1, <2>2, <2>3, ProceedMoves DEF Pcs
  <2>4. CASE Finish(h, "failed")
      BY <1>0, <1>2, <2>1, <2>2, <2>4, FinishMoves
  <2> QED
      BY <1>6, <2>3, <2>4 DEF HealthCheckpoint
<1>7. CASE GateAnswers(h)
  <2>1. PICK pc \in {"complete", "fail"} : Proceed(h, pc)
      BY <1>7 DEF GateAnswers
  <2>2. Turn(h)
      BY <1>7, TurnTaken DEF GateAnswers
  <2>3. UNCHANGED serving /\ handler[h].pc = "gate"
      BY <1>7 DEF GateAnswers
  <2>4. MovesOnly(h) /\ Remembers(h) /\ handler'[h].pc = pc /\ handler'[h].result = handler[h].result
      BY <2>1, ProceedMoves DEF Pcs
  <2>5. Key(h).kind = "activate"
      BY <1>0, <2>3 DEF Way
  <2> QED
      BY <1>0, <1>2, <2>1, <2>2, <2>3, <2>4, <2>5
<1> QED
    BY <1>3, <1>4, <1>5, <1>6, <1>7

\* An operation is given up; its handler goes on.
LEMMA LetGoKeeps == ASSUME ReleaseInv, NEW h \in Handlers, LetGo(h) PROVE ReleaseInv'
<1>0. /\ handler \in [Handlers -> HandlerType] /\ op \in [Keys -> OpType]
      /\ Key(h) \in Keys /\ op[Key(h)].state = "running" /\ handler[h].pc # "idle"
      /\ handler[h].pc \in {"drive", "health", "gate", "fail"}
      /\ handler[h].awaited /\ ~Busy
    BY Typed DEF ReleaseInv, Own, Knows, LetGo
<1>1. UNCHANGED <<status, previous, rollbacks, call, serving, remarked>>
    BY DEF LetGo
<1>2. /\ MovesOnly(h) /\ handler'[h].pc = handler[h].pc /\ handler'[h].key = handler[h].key
      /\ handler'[h].seen = handler[h].seen /\ handler'[h].result = handler[h].result
      /\ ~handler'[h].awaited
    BY <1>0 DEF LetGo, MovesOnly, HandlerType
<1>3. PICK result \in {"cancelled", "failed"} : op' = [op EXCEPT ![Key(h)].state = result]
    BY DEF LetGo
<1>4. /\ op' \in [Keys -> OpType] /\ op'[Key(h)].state = result
      /\ \A k \in Keys : op'[k].tries = op[k].tries
      /\ \A k \in Keys \ {Key(h)} : op'[k] = op[k]
    BY <1>0, <1>3 DEF OpType, OpStates
<1>5. TypeOK'
    BY <1>1, <1>2, <1>4, Typed, TypedNext DEF MovesOnly
<1>6. AttemptsCounted'
    BY <1>4 DEF ReleaseInv, AttemptsCounted, MaxAttempts
<1>7. OperationsKnown'
  <2>1. \A k \in Keys : op'[k].state # "absent" => op[k].state # "absent"
      BY <1>0, <1>4
  <2> QED
      BY <1>1, <2>1 DEF ReleaseInv, OperationsKnown
<1>8. AtMostOne'
    BY <1>1 DEF ReleaseInv, AtMostOne, Active
<1>9. Own(h)'
  <2>1. Key(h)' = Key(h) /\ Wanted(h)' = Wanted(h) /\ Target(Key(h))' = Target(Key(h))
      BY <1>1, <1>2 DEF Key, Wanted, Target
  <2>2. Knows(h) /\ Way(h)
      BY DEF ReleaseInv, Own
  <2> QED
      BY <1>0, <1>1, <1>2, <1>4, <2>1, <2>2 DEF Own, Knows, Way, Front, Relies
<1>10. Turn(h)
    BY <1>0, TurnTaken
<1> QED
    BY <1>0, <1>1, <1>2, <1>4, <1>5, <1>6, <1>7, <1>8, <1>9, <1>10, StepKeeps

\* A step of a handler that has the thread and leaves the operations as they are.
LEMMA StatusStep ==
    ASSUME ReleaseInv, NEW h \in Handlers, handler[h].pc # "idle", MovesOnly(h), Remembers(h),
           Turn(h), UNCHANGED <<previous, op, call, serving>>,
           status' \in [Releases -> Statuses], rollbacks' \in [Releases -> 0..MaxRollbacks],
           remarked' \subseteq Releases,
           \A r \in Releases : status[r] # "absent" => status'[r] # "absent",
           AtMostOne', Own(h)'
    PROVE  ReleaseInv'
<1>1. TypeOK'
    BY Typed, TypedNext DEF MovesOnly
<1>2. AttemptsCounted' /\ OperationsKnown'
    BY OperationsStay
<1> QED
    BY <1>1, <1>2, Typed, StepKeeps DEF Remembers

\* The release before is superseded, and the wanted one marked active.
LEMMA SupersedeKeeps == ASSUME ReleaseInv, NEW h \in Handlers, Supersede(h) PROVE ReleaseInv'
<1>0. /\ handler[h].pc \in {"complete", "restore"} /\ handler[h].pc # "idle" /\ Turn(h)
      /\ Key(h) \in Keys /\ Key(h).of \in Releases /\ Wanted(h) \in Releases
      /\ status \in [Releases -> Statuses] /\ handler[h].result # "succeeded"
      /\ Knows(h) /\ Way(h) /\ Relies(h) /\ TypeOK
  <2>1. handler[h].pc \in {"complete", "restore"}
      BY DEF Supersede
  <2>2. Turn(h)
      BY TurnTaken DEF Supersede, Inside
  <2>3. Knows(h) /\ Way(h) /\ Relies(h) /\ TypeOK
      BY DEF ReleaseInv, Own
  <2>4. handler[h].result # "succeeded"
      BY <2>1, <2>3 DEF Knows
  <2> QED
      BY <2>1, <2>2, <2>3, <2>4, WantedTyped, Typed
<1>1. UNCHANGED <<previous, rollbacks, op, call, serving, remarked>>
    BY DEF Supersede
<1>2. /\ status' \in [Releases -> Statuses]
      /\ \A r \in Releases : \/ status'[r] = status[r]
                             \/ status[r] = "active" /\ status'[r] = "superseded"
      /\ handler'[h].pc = "supersede" => Active' \subseteq {Wanted(h)}
      /\ handler'[h].pc \in {"supersede", "end"} /\ MovesOnly(h) /\ Remembers(h)
      /\ handler'[h].result \in {handler[h].result, "failed"}
  <2>1. CASE CanBecome(Wanted(h), "active")
    <3>1. Proceed(h, "supersede")
        BY <2>1 DEF Supersede
    <3>2. /\ MovesOnly(h) /\ Remembers(h) /\ handler'[h].pc = "supersede"
          /\ handler'[h].result = handler[h].result
        BY <3>1, ProceedMoves DEF Pcs
    <3>3. CASE Active \subseteq {Wanted(h)} /\ UNCHANGED status
        BY <1>0, <3>2, <3>3 DEF Active
    <3>4. CASE \E p \in Active \ {Wanted(h)} : Become(p, "superseded")
      <4>1. PICK p \in Active \ {Wanted(h)} : Become(p, "superseded")
          BY <3>4
      <4>2. p \in Releases /\ status[p] = "active"
          BY <4>1 DEF Active
      <4>3. /\ status' \in [Releases -> Statuses] /\ status'[p] = "superseded"
            /\ \A q \in Releases \ {p} : status'[q] = status[q]
          BY <1>0, <4>1, <4>2, BecomeTyped DEF Statuses
      <4>4. Active' \subseteq {}
          BY <4>2, <4>3 DEF ReleaseInv, AtMostOne, Active
      <4> QED
          BY <3>2, <4>2, <4>3, <4>4
    <3> QED
        BY <2>1, <3>3, <3>4 DEF Supersede
  <2>2. CASE ~CanBecome(Wanted(h), "active")
    <3>1. Finish(h, "failed") /\ UNCHANGED status
        BY <2>2 DEF Supersede
    <3> QED
        BY <1>0, <3>1, FinishMoves
  <2> QED
      BY <2>1, <2>2
<1>3. Key(h)' = Key(h) /\ Wanted(h)' = Wanted(h) /\ Target(Key(h))' = Target(Key(h))
    BY <1>1, <1>2, SameKey
<1>4. IsRolledBack(h) => IsRolledBack(h)'
    BY <1>0, <1>2, <1>3 DEF IsRolledBack
<1>5. handler'[h].result # "succeeded"
    BY <1>0, <1>2
<1>6. Knows(h)' /\ Way(h)' /\ Front(h)'
    BY <1>0, <1>1, <1>2, <1>3, <1>5 DEF Knows, Way, Front, Remembers, MaxAttempts
<1>7. Relies(h)'
  <2>1. Key(h).kind # "activate" => handler[h].pc = "restore"
      BY <1>0 DEF Way
  <2>2. handler[h].awaited /\ ~handler[h].beside => IsRolledBack(h)
      BY <1>0, <2>1 DEF Relies, IsRolledBack
  <2> QED
      BY <1>0, <1>1, <1>2, <1>3, <1>4, <1>5, <2>2 DEF Relies, Remembers
<1>8. AtMostOne'
    BY <1>2 DEF ReleaseInv, AtMostOne, Active
<1> QED
    BY <1>0, <1>1, <1>2, <1>6, <1>7, <1>8, Typed, StatusStep DEF Own

LEMMA SetActiveKeeps == ASSUME ReleaseInv, NEW h \in Handlers, SetActive(h) PROVE ReleaseInv'
<1>0. /\ handler[h].pc = "supersede" /\ handler[h].pc # "idle" /\ Turn(h)
      /\ Key(h) \in Keys /\ Key(h).of \in Releases /\ Wanted(h) \in Releases
      /\ Knows(h) /\ Way(h) /\ Front(h) /\ Relies(h) /\ TypeOK
  <2>1. handler[h].pc = "supersede"
      BY DEF SetActive
  <2> QED
      BY <2>1, TurnTaken, WantedTyped DEF ReleaseInv, Own, Inside
<1>1. UNCHANGED <<previous, rollbacks, op, call, serving>> /\ remarked' = remarked \ {Wanted(h)}
    BY DEF SetActive
<1>2. /\ status' \in [Releases -> Statuses] /\ status'[Wanted(h)] = "active"
      /\ \A q \in Releases \ {Wanted(h)} : status'[q] = status[q]
    BY <1>0, BecomeTyped DEF SetActive, Statuses
<1>3. MovesOnly(h) /\ Remembers(h) /\ handler'[h].pc = "end" /\ handler'[h].result = "succeeded"
    BY FinishMoves DEF SetActive
<1>4. Key(h)' = Key(h) /\ Wanted(h)' = Wanted(h) /\ Target(Key(h))' = Target(Key(h))
    BY <1>1, <1>3, SameKey
<1>5. Knows(h)' /\ Way(h)' /\ Front(h)'
    BY <1>0, <1>1, <1>3, <1>4 DEF Knows, Way, Front, Remembers
<1>6. IsRolledBack(h) => IsRolledBack(h)'
  <2>1. Key(h).kind # "activate" => Wanted(h) # Key(h).of
      BY <1>0 DEF Way, Wanted
  <2> QED
      BY <1>0, <1>2, <1>4, <2>1 DEF IsRolledBack
<1>7. Relies(h)'
    BY <1>0, <1>1, <1>2, <1>3, <1>4, <1>6 DEF Relies, Stands, Remembers
<1>8. AtMostOne'
    BY <1>0, <1>2 DEF Front, AtMostOne, Active
<1> QED
    BY <1>0, <1>1, <1>2, <1>3, <1>5, <1>7, <1>8, Typed, StatusStep DEF Own

\* A release whose activation has failed is marked, and its rollback queued.
LEMMA FailureKeeps == ASSUME ReleaseInv, NEW h \in Handlers, FailRelease(h) PROVE ReleaseInv'
<1>0. /\ handler[h].pc = "fail" /\ handler[h].pc # "idle" /\ Turn(h) /\ TypeOK
      /\ Key(h) \in Keys /\ Key(h).of \in Releases
      /\ status \in [Releases -> Statuses] /\ Knows(h)
    BY TurnTaken, WantedTyped, Typed DEF FailRelease, ReleaseInv, Own
<1>1. UNCHANGED <<previous, rollbacks, op, call, serving, remarked>>
    BY DEF FailRelease
<1>2. PICK pc \in {"followUp", "end"} : Proceed(h, pc)
    BY DEF FailRelease
<1>3. /\ MovesOnly(h) /\ Remembers(h) /\ handler'[h].pc = pc
      /\ handler'[h].result = handler[h].result
    BY <1>2, ProceedMoves DEF Pcs
<1>4. Key(h)' = Key(h) /\ Wanted(h)' = Wanted(h) /\ Target(Key(h))' = Target(Key(h))
    BY <1>1, <1>3, SameKey
<1>5. handler'[h].result # "succeeded"
    BY <1>0, <1>3 DEF Knows
<1>6. Own(h)'
    BY <1>0, <1>1, <1>2, <1>3, <1>4, <1>5 DEF Own, Knows, Way, Front, Relies, Remembers, MaxAttempts
<1>7. /\ status' \in [Releases -> Statuses]
      /\ \A r \in Releases : \/ status'[r] = status[r]
                             \/ status[r] = "activating" /\ status'[r] = "failed"
  <2>1. CASE status[Key(h).of] = "activating" /\ Become(Key(h).of, "failed")
      BY <1>0, <2>1, BecomeTyped DEF Statuses
  <2>2. CASE UNCHANGED status
      BY <1>0, <2>2
  <2> QED
      BY <2>1, <2>2 DEF FailRelease
<1>8. AtMostOne'
    BY <1>7 DEF ReleaseInv, AtMostOne, Active
<1> QED
    BY <1>0, <1>1, <1>3, <1>6, <1>7, <1>8, Typed, StatusStep

LEMMA FollowUpKeeps ==
    ASSUME ReleaseInv, NEW h \in Handlers, QueueAutomaticRollback(h) PROVE ReleaseInv'
<1>0. /\ handler[h].pc = "followUp" /\ handler[h].pc # "idle" /\ Turn(h) /\ TypeOK
      /\ Key(h) \in Keys /\ Key(h).of \in Releases /\ status[Key(h).of] # "absent"
      /\ op \in [Keys -> OpType] /\ Knows(h)
    BY TurnTaken, WantedTyped, Typed DEF QueueAutomaticRollback, ReleaseInv, Own, Inside
<1>1. UNCHANGED <<status, previous, rollbacks, call, serving, remarked>>
    BY DEF QueueAutomaticRollback
<1>2. /\ MovesOnly(h) /\ Remembers(h) /\ handler'[h].pc = "end"
      /\ handler'[h].result = handler[h].result
    BY ProceedMoves DEF QueueAutomaticRollback, Pcs
<1> DEFINE k == AutomaticKey(Key(h).of)
<1>3. k \in Keys /\ k.of = Key(h).of
    BY <1>0 DEF AutomaticKey, Keys
<1>4. /\ op' \in [Keys -> OpType]
      /\ \A j \in Keys :
           /\ op'[j].tries = op[j].tries
           /\ \/ op'[j].state = op[j].state
              \/ /\ j = k /\ op[j].state = "absent" /\ op'[j].state = "queued"
                 /\ previous[Key(h).of] # None
  <2>1. CASE op' = op
      BY <1>0, <2>1
  <2>2. CASE op' = Enqueued(k) /\ previous[Key(h).of] # None
    <3> HIDE DEF k
    <3> QED
        BY <1>0, <1>3, <2>2, EnqueuedTyped
  <2> QED
      BY <2>1, <2>2 DEF QueueAutomaticRollback
<1> HIDE DEF k
<1>5. TypeOK'
    BY <1>1, <1>2, <1>4, Typed, TypedNext DEF MovesOnly
<1>6. AttemptsCounted'
    BY <1>4 DEF ReleaseInv, AttemptsCounted, MaxAttempts
<1>7. OperationsKnown'
    BY <1>0, <1>1, <1>3, <1>4 DEF ReleaseInv, OperationsKnown
<1>8. AtMostOne'
    BY <1>1 DEF ReleaseInv, AtMostOne, Active
<1>9. Key(h)' = Key(h)
    BY <1>1, <1>2, SameKey
<1>10. handler'[h].result # "succeeded"
    BY <1>0, <1>2 DEF Knows
<1>11. Own(h)'
    BY <1>0, <1>2, <1>4, <1>9, <1>10 DEF Own, Knows, Way, Front, Relies, Remembers, MaxAttempts
<1> QED
    BY <1>0, <1>1, <1>2, <1>4, <1>5, <1>6, <1>7, <1>8, <1>11, StepKeeps DEF Remembers

\* A rollback is recorded, and its target marked on its way.
LEMMA RecordKeeps == ASSUME ReleaseInv, NEW h \in Handlers, RecordRollback(h) PROVE ReleaseInv'
<1>0. /\ handler[h].pc = "record" /\ handler[h].pc # "idle" /\ Turn(h) /\ TypeOK
      /\ Key(h) \in Keys /\ Key(h).of \in Releases /\ Wanted(h) \in Releases
      /\ status \in [Releases -> Statuses] /\ handler[h].result # "succeeded"
      /\ Key(h).kind # "activate" /\ Wanted(h) # Key(h).of
      /\ rollbacks[Key(h).of] < MaxRollbacks /\ rollbacks \in [Releases -> 0..MaxRollbacks]
      /\ Knows(h) /\ Way(h) /\ Relies(h)
  <2>1. handler[h].pc = "record" /\ handler[h].pc # "idle"
      BY DEF RecordRollback
  <2>2. Turn(h) /\ TypeOK /\ Knows(h) /\ Way(h) /\ Relies(h)
      BY <2>1, TurnTaken DEF ReleaseInv, Own, Inside
  <2>3. /\ Key(h) \in Keys /\ Key(h).of \in Releases /\ Wanted(h) \in Releases
        /\ status \in [Releases -> Statuses] /\ rollbacks \in [Releases -> 0..MaxRollbacks]
      BY <2>1, WantedTyped, Typed
  <2> QED
      BY <2>1, <2>2, <2>3 DEF Way, Knows, Wanted
<1>1. UNCHANGED <<previous, op, call, serving, remarked>>
    BY DEF RecordRollback
<1>2. /\ MovesOnly(h) /\ Remembers(h)
      /\ \/ /\ handler'[h].pc = "end" /\ handler'[h].result = "succeeded"
            /\ handler[h].seen = "active" /\ status'[Key(h).of] = "rolled_back"
         \/ /\ handler'[h].pc = "restore" /\ handler'[h].result = handler[h].result
            /\ status'[Key(h).of] = "rolled_back"
         \/ handler'[h].pc = "end" /\ handler'[h].result = "failed"
  <2>1. \/ /\ IF handler[h].seen = "active" THEN Finish(h, "succeeded")
                                            ELSE Proceed(h, "restore")
           /\ status'[Key(h).of] = "rolled_back"
        \/ Finish(h, "failed")
      BY <1>0 DEF RecordRollback, Become
  <2>2. CASE handler[h].seen = "active" /\ Finish(h, "succeeded")
             /\ status'[Key(h).of] = "rolled_back"
      BY <2>2, FinishMoves
  <2>3. CASE Proceed(h, "restore") /\ status'[Key(h).of] = "rolled_back"
      BY <2>3, ProceedMoves DEF Pcs
  <2>4. CASE Finish(h, "failed")
      BY <2>4, FinishMoves
  <2> QED
      BY <2>1, <2>2, <2>3, <2>4
<1>3. /\ status' \in [Releases -> Statuses]
      /\ status'[Key(h).of] \in {status[Key(h).of], "rolled_back"}
      /\ \A q \in Releases \ {Key(h).of} : status'[q] = status[q]
  <2>1. CASE UNCHANGED status
      BY <1>0, <2>1
  <2>2. CASE Become(Key(h).of, "rolled_back")
      BY <1>0, <2>2, BecomeTyped DEF Statuses
  <2> QED
      BY <2>1, <2>2 DEF RecordRollback
<1>4. rollbacks' \in [Releases -> 0..MaxRollbacks]
  <2>1. MaxRollbacks \in Nat
      BY ReleaseAssumption DEF ReleaseAssumption
  <2>2. UNCHANGED rollbacks \/ rollbacks' = [rollbacks EXCEPT ![Key(h).of] = @ + 1]
      BY DEF RecordRollback
  <2>3. rollbacks[Key(h).of] + 1 \in 0..MaxRollbacks
      BY <1>0, <2>1
  <2> QED
      BY <1>0, <2>1, <2>2, <2>3
<1>5. Key(h)' = Key(h) /\ Wanted(h)' = Wanted(h) /\ Target(Key(h))' = Target(Key(h))
    BY <1>1, <1>2, SameKey
<1>6. Knows(h)' /\ Way(h)' /\ Front(h)'
    BY <1>0, <1>1, <1>2, <1>5 DEF Knows, Way, Front, Remembers, MaxAttempts
<1>7. Relies(h)'
  <2>1. status'[Key(h).of] = "rolled_back" => IsRolledBack(h)'
      BY <1>5 DEF IsRolledBack
  <2>2. Stands(h) => Stands(h)'
      BY <1>0, <1>1, <1>3, <1>5 DEF Stands
  <2> QED
      BY <1>0, <1>1, <1>2, <1>5, <2>1, <2>2 DEF Relies, Remembers
<1>8. AtMostOne'
    BY <1>0, <1>3 DEF ReleaseInv, AtMostOne, Active
<1>9. \A r \in Releases : status[r] # "absent" => status'[r] # "absent"
    BY <1>3
<1> QED
    BY <1>0, <1>1, <1>2, <1>3, <1>4, <1>6, <1>7, <1>8, <1>9, Typed, StatusStep DEF Own

LEMMA RestoreKeeps == ASSUME ReleaseInv, NEW h \in Handlers, RestoreTarget(h) PROVE ReleaseInv'
<1>0. /\ handler[h].pc = "restore" /\ handler[h].pc # "idle" /\ Turn(h) /\ TypeOK
      /\ Key(h) \in Keys /\ Key(h).of \in Releases /\ Wanted(h) \in Releases
      /\ status \in [Releases -> Statuses] /\ handler[h].result # "succeeded"
      /\ Key(h).kind # "activate" /\ Wanted(h) # Key(h).of
      /\ Knows(h) /\ Way(h) /\ Relies(h) /\ handler \in [Handlers -> HandlerType]
  <2>1. handler[h].pc = "restore" /\ handler[h].pc # "idle"
      BY DEF RestoreTarget
  <2>2. Turn(h) /\ TypeOK /\ Knows(h) /\ Way(h) /\ Relies(h)
      BY <2>1, TurnTaken DEF ReleaseInv, Own, Inside
  <2>3. /\ Key(h) \in Keys /\ Key(h).of \in Releases /\ Wanted(h) \in Releases
        /\ status \in [Releases -> Statuses] /\ handler \in [Handlers -> HandlerType]
      BY <2>1, WantedTyped, Typed
  <2> QED
      BY <2>1, <2>2, <2>3 DEF Way, Knows, Wanted
<1>1. UNCHANGED <<previous, rollbacks, op, call, serving, remarked>>
    BY DEF RestoreTarget
<1>2. /\ status' \in [Releases -> Statuses]
      /\ \A q \in Releases \ {Wanted(h)} : status'[q] = status[q]
      /\ \/ status'[Wanted(h)] = status[Wanted(h)]
         \/ status'[Wanted(h)] = "activating" /\ status[Wanted(h)] \notin {"active", "absent"}
      /\ MovesOnly(h) /\ handler'[h].key = handler[h].key
      /\ handler'[h].awaited = handler[h].awaited /\ handler'[h].beside = handler[h].beside
      /\ \/ handler'[h].pc = "restore" /\ handler'[h].result = handler[h].result
         \/ handler'[h].pc = "end" /\ handler'[h].result = "failed"
  <2>1. CASE CanBecome(Wanted(h), "activating")
    <3>1. Become(Wanted(h), "activating") /\ handler' = [handler EXCEPT ![h].seen = "activating"]
        BY <2>1 DEF RestoreTarget
    <3>2. status[Wanted(h)] \notin {"active", "absent"}
        BY <1>0, <2>1, AllowedSteps DEF CanBecome
    <3>3. /\ MovesOnly(h) /\ handler'[h].key = handler[h].key
          /\ handler'[h].awaited = handler[h].awaited /\ handler'[h].beside = handler[h].beside
          /\ handler'[h].pc = "restore" /\ handler'[h].result = handler[h].result
        BY <1>0, <3>1 DEF MovesOnly, HandlerType, Statuses
    <3> QED
        BY <1>0, <3>1, <3>2, <3>3, BecomeTyped DEF Statuses
  <2>2. CASE ~CanBecome(Wanted(h), "activating")
    <3>1. Finish(h, "failed") /\ UNCHANGED status
        BY <2>2 DEF RestoreTarget
    <3> QED
        BY <1>0, <3>1, FinishMoves DEF Remembers
  <2> QED
      BY <2>1, <2>2
<1>3. Key(h)' = Key(h) /\ Wanted(h)' = Wanted(h) /\ Target(Key(h))' = Target(Key(h))
    BY <1>1, <1>2 DEF Key, Wanted, Target
<1>4. Knows(h)' /\ Way(h)' /\ Front(h)'
    BY <1>0, <1>1, <1>2, <1>3 DEF Knows, Way, Front, MaxAttempts
<1>5. IsRolledBack(h) => IsRolledBack(h)'
    BY <1>0, <1>2, <1>3 DEF IsRolledBack
<1>6. Relies(h)'
    BY <1>0, <1>1, <1>2, <1>3, <1>5 DEF Relies
<1>7. TypeOK'
    BY <1>1, <1>2, Typed, TypedNext DEF MovesOnly
<1>8. AttemptsCounted' /\ OperationsKnown'
  <2>1. \A r \in Releases : status[r] # "absent" => status'[r] # "absent"
      BY <1>2
  <2> QED
      BY <1>1, <2>1, OperationsStay
<1>9. AtMostOne'
    BY <1>2 DEF ReleaseInv, AtMostOne, Active
<1> QED
    BY <1>0, <1>1, <1>2, <1>4, <1>6, <1>7, <1>8, <1>9, Typed, StepKeeps DEF Own

\* The outcome is written, if somebody waits for it.
LEMMA EndKeeps == ASSUME ReleaseInv, NEW h \in Handlers, OperationEnds(h) PROVE ReleaseInv'
<1>0. /\ handler[h].pc = "end" /\ handler[h].pc # "idle" /\ Turn(h) /\ TypeOK /\ Knows(h)
      /\ Key(h) \in Keys /\ op[Key(h)].state # "absent" /\ op \in [Keys -> OpType]
      /\ handler \in [Handlers -> HandlerType]
      /\ handler[h].result \in {"succeeded", "failed", "queued"}
    BY TurnTaken, Typed DEF OperationEnds, ReleaseInv, Own, Knows, Inside, HandlerType
<1>1. UNCHANGED <<status, previous, rollbacks, call, serving, remarked>>
    BY DEF OperationEnds
<1>2. /\ MovesOnly(h) /\ handler'[h].pc = "idle" /\ ~handler'[h].awaited
      /\ handler'[h].result = "failed"
  <2>1. Resting \in HandlerType /\ Resting.pc = "idle" /\ ~Resting.awaited
        /\ Resting.result = "failed"
      BY DEF Resting, HandlerType, Pcs, Statuses
  <2>2. handler' = [handler EXCEPT ![h] = Resting]
      BY DEF OperationEnds
  <2> QED
      BY <1>0, <2>1, <2>2 DEF MovesOnly
<1>3. /\ op' \in [Keys -> OpType]
      /\ \A k \in Keys :
           /\ op'[k].tries = op[k].tries
           /\ \/ op'[k].state = op[k].state
              \/ /\ k = Key(h) /\ handler[h].awaited
                 /\ op'[k].state \in {handler[h].result, "cancelled"}
  <2>1. CASE UNCHANGED op
      BY <1>0, <2>1
  <2>2. CASE handler[h].awaited
             /\ \E result \in {handler[h].result, "cancelled"} :
                  op' = [op EXCEPT ![Key(h)].state = result]
      BY <1>0, <2>2 DEF OpType, OpStates
  <2> QED
      BY <2>1, <2>2 DEF OperationEnds
<1>4. TypeOK'
    BY <1>1, <1>2, <1>3, Typed, TypedNext DEF MovesOnly
<1>5. AttemptsCounted'
  <2>1. \A k \in Keys : op'[k].state \in {"absent", "queued"} => op'[k].tries < MaxAttempts(k)
      BY <1>0, <1>3 DEF ReleaseInv, AttemptsCounted, Knows
  <2> QED
      BY <2>1 DEF AttemptsCounted, MaxAttempts
<1>6. OperationsKnown'
  <2>1. \A k \in Keys : op'[k].state # "absent" => op[k].state # "absent"
      BY <1>0, <1>3
  <2> QED
      BY <1>1, <2>1 DEF ReleaseInv, OperationsKnown
<1>7. AtMostOne'
    BY <1>1 DEF ReleaseInv, AtMostOne, Active
<1>8. Own(h)'
    BY <1>2 DEF Own, Knows, Way, Front, Relies
<1>9. \A k \in Keys : op[k].state # "absent" => op'[k].state # "absent"
    BY <1>0, <1>3
<1> QED
    BY <1>0, <1>1, <1>2, <1>3, <1>4, <1>5, <1>6, <1>7, <1>8, <1>9, StepKeeps

\* The process of the handlers ends.
LEMMA CrashKeeps == ASSUME ReleaseInv, Crash PROVE ReleaseInv'
<1>0. UNCHANGED <<status, previous, rollbacks, op, call, serving, remarked>>
    BY DEF Crash
<1>1. /\ handler' \in [Handlers -> HandlerType]
      /\ \A h \in Handlers : /\ handler'[h].pc = "idle" /\ handler'[h].result = "failed"
                             /\ ~handler'[h].awaited
    BY DEF Crash, Resting, HandlerType, Pcs, Statuses
<1>2. TypeOK'
    BY <1>0, <1>1, Typed, TypedNext
<1>3. AttemptsCounted' /\ OperationsKnown'
    BY <1>0, OperationsStay
<1>4. (\A h \in Handlers : Own(h)') /\ Together'
    BY <1>1 DEF Own, Knows, Way, Front, Relies, Together, Inside
<1>5. AtMostOne'
    BY <1>0 DEF ReleaseInv, AtMostOne, Active
<1> QED
    BY <1>2, <1>3, <1>4, <1>5 DEF ReleaseInv

-----------------------------------------------------------------------------
(* The theorems.                                                           *)

\* Nothing has happened initially.
LEMMA InitReleases == Init => ReleaseInv
<1> SUFFICES ASSUME Init PROVE ReleaseInv
    OBVIOUS
<1>1. /\ handler \in [Handlers -> HandlerType]
      /\ \A h \in Handlers : /\ handler[h].pc = "idle" /\ handler[h].result = "failed"
                             /\ ~handler[h].awaited
    BY DEF Init, Resting, HandlerType, Pcs, Statuses
<1>2. TypeOK
  <2>1. 0 \in 0..MaxRollbacks /\ 0 \in 0..2
      BY ReleaseAssumption DEF ReleaseAssumption
  <2> QED
      BY <1>1, <2>1 DEF Init, TypeOK, HandlerType, Pcs, Statuses, OpStates, NoCall
<1>3. AttemptsCounted /\ OperationsKnown /\ AtMostOne
    BY OneOrTwo DEF Init, AttemptsCounted, OperationsKnown, AtMostOne, Active
<1>4. (\A h \in Handlers : Own(h)) /\ Together
    BY <1>1 DEF Own, Knows, Way, Front, Relies, Together, Inside
<1> QED
    BY <1>2, <1>3, <1>4 DEF ReleaseInv

LEMMA StepReleases == ReleaseInv /\ [Next]_vars => ReleaseInv'
<1> SUFFICES ASSUME ReleaseInv, [Next]_vars PROVE ReleaseInv'
    OBVIOUS
<1>1. CASE UNCHANGED vars
    BY <1>1 DEF vars, ReleaseInv, TypeOK, AttemptsCounted, OperationsKnown, Own, Knows, Way,
                Front, Relies, Together, AtMostOne, Active, IsRolledBack, Stands, Wanted,
                Target, Key, MaxAttempts
<1>2. ASSUME NEW h \in Handlers, ReleaseHandlerStep(h) PROVE ReleaseInv'
    BY <1>2, ClaimKeeps, LetGoKeeps, AnswersKeep, SupersedeKeeps, SetActiveKeeps, FailureKeeps,
       FollowUpKeeps, RecordKeeps, RestoreKeeps, EndKeeps DEF ReleaseHandlerStep
<1>3. CASE Next
    BY <1>2, <1>3, ClientsKeep, QueueKeeps, CrashKeeps DEF Next
<1> QED
    BY <1>1, <1>3

\* The invariant, for any releases, clients, handlers, faults and bounds.
THEOREM ReleaseInvariant == Spec => []ReleaseInv
BY InitReleases, StepReleases, PTL DEF Spec

\* The tables, the handlers and the clients are well typed.
THEOREM ReleasesTyped == Spec => []TypeOK
<1>1. ReleaseInv => TypeOK
    BY DEF ReleaseInv
<1> QED
    BY <1>1, ReleaseInvariant, PTL

\* At most one release of the resource is active, although marking a release active and
\* superseding the one before are statements of their own, and although handlers that were
\* given up may be at it.
THEOREM OneReleaseActive == Spec => []OneActive
<1>1. ReleaseInv => OneActive
  <2> SUFFICES ASSUME ReleaseInv PROVE Cardinality(Active) <= 1
      BY DEF OneActive
  <2>1. CASE Active = {}
      BY <2>1, FS_EmptySet
  <2>2. CASE Active # {}
    <3>1. PICK r : Active = {r}
        BY <2>2 DEF ReleaseInv, AtMostOne
    <3> QED
        BY <3>1, FS_Singleton
  <2> QED
      BY <2>1, <2>2
<1> QED
    BY <1>1, ReleaseInvariant, PTL

\* An operation that somebody waits for succeeds only by its handler's own end.
LEMMA SuccessIsAnEnd ==
    ASSUME ReleaseInv, [Next]_vars, NEW h \in Handlers, handler[h].awaited,
           op[Key(h)].state # "succeeded", op'[Key(h)].state = "succeeded"
    PROVE  handler[h].pc = "end" /\ handler[h].result = "succeeded"
<1> DEFINE k == Key(h)
<1>0. op \in [Keys -> OpType] /\ k \in Keys /\ TypeOK
    BY Typed DEF ReleaseInv, Own, Knows
<1>1. op' # op
    OBVIOUS
<1> HIDE DEF k
<1>2. \A j \in Keys : op' # Enqueued(j)
  <2> SUFFICES ASSUME NEW j \in Keys, op' = Enqueued(j) PROVE FALSE
      OBVIOUS
  <2>1. op'[k].state = op[k].state \/ op'[k].state = "queued"
      BY <1>0, EnqueuedTyped
  <2> QED
      BY <2>1 DEF k
<1>3. \A j \in Keys : \A s \in {"cancelled", "queued", "failed"} :
        op' # [op EXCEPT ![j].state = s]
  <2> SUFFICES ASSUME NEW j \in Keys, NEW s \in {"cancelled", "queued", "failed"},
                      op' = [op EXCEPT ![j].state = s]
               PROVE  FALSE
      OBVIOUS
  <2>1. op'[k].state = op[k].state \/ op'[k].state = s
      BY <1>0 DEF OpType
  <2> QED
      BY <2>1 DEF k
<1>4. \A c \in Clients, r \in Releases, t \in Releases :
        ~RequestActivation(c, r) /\ ~RequestRollback(c, r, t)
  <2>1. \A r \in Releases : ActivationKey(r) \in Keys
      BY Typed DEF ActivationKey, Keys
  <2>2. \A r, t \in Releases : ManualKey(r, t) \in Keys
      BY DEF ManualKey, Keys
  <2> QED
      BY <1>2, <2>1, <2>2 DEF RequestActivation, RequestRollback
<1>5. \A j \in Keys : ~CancelQueued(j) /\ ~RetryOperation(j) /\ ~RecoverOperation(j)
    BY <1>3 DEF CancelQueued, RetryOperation, RecoverOperation
<1>6. \E g \in Handlers : ReleaseHandlerStep(g)
  <2>1. ~UNCHANGED vars
      BY <1>1 DEF vars
  <2> QED
      BY <1>1, <1>4, <1>5, <2>1 DEF Next, Create, Approve, MarkRead, MarkActivating, Crash
<1>7. PICK g \in Handlers : ReleaseHandlerStep(g)
    BY <1>6
<1>8. \A j \in Keys : ~Claim(g, j)
  <2> SUFFICES ASSUME NEW j \in Keys, Claim(g, j) PROVE FALSE
      OBVIOUS
  <2>1. op' = [op EXCEPT ![j] = [state |-> "running", tries |-> op[j].tries + 1]]
      BY DEF Claim
  <2>2. op'[k].state = op[k].state \/ op'[k].state = "running"
      BY <1>0, <2>1
  <2> QED
      BY <2>2 DEF k
<1>9. ~LetGo(g)
  <2> SUFFICES ASSUME LetGo(g) PROVE FALSE
      OBVIOUS
  <2>1. Key(g) \in Keys
      BY DEF LetGo, ReleaseInv, Own, Knows
  <2>2. \E s \in {"cancelled", "failed"} : op' = [op EXCEPT ![Key(g)].state = s]
      BY DEF LetGo
  <2> QED
      BY <1>3, <2>1, <2>2
<1>10. ~QueueAutomaticRollback(g)
  <2> SUFFICES ASSUME QueueAutomaticRollback(g) PROVE FALSE
      OBVIOUS
  <2>1. Key(g) \in Keys
      BY DEF QueueAutomaticRollback, ReleaseInv, Own, Knows
  <2>2. AutomaticKey(Key(g).of) \in Keys
      BY <2>1 DEF AutomaticKey, Keys
  <2> QED
      BY <1>1, <1>2, <2>2 DEF QueueAutomaticRollback
<1>11. OperationEnds(g)
    BY <1>1, <1>7, <1>8, <1>9, <1>10
    DEF ReleaseHandlerStep, StopBeforeDriver, DriverSucceeds, DriverFails, HealthCheckpoint,
        GateAnswers, Supersede, SetActive, FailRelease, RecordRollback, RestoreTarget
<1>12. handler[g].awaited /\ handler[g].pc = "end"
    BY <1>1, <1>11 DEF OperationEnds
<1>13. g = h
    BY <1>12 DEF ReleaseInv, Together
<1>14. PICK result \in {handler[h].result, "cancelled"} : op' = [op EXCEPT ![k].state = result]
    BY <1>1, <1>11, <1>13 DEF OperationEnds, k
<1>15. op'[k].state = result
    BY <1>0, <1>14 DEF OpType
<1> QED
    BY <1>12, <1>13, <1>15 DEF k

\* An operation that began when no handler given up before was still at work succeeds only
\* if the provider serves the release it was to bring and the store says so, whatever
\* fails, crashes, is cancelled, given up or asked for meanwhile.
THEOREM SuccessIsNeverClaimed == Spec => SuccessIsReal
<1> DEFINE Claimed(h) ==
             /\ handler[h].awaited /\ ~handler[h].beside
             /\ op[Key(h)].state # "succeeded" /\ op'[Key(h)].state = "succeeded"
           Real(h) ==
             LET k == Key(h)
                 r == IF k.kind = "activate" THEN k.of ELSE Target(k)
             IN  /\ serving = r /\ (status[r] = "active" \/ r \in remarked)
                 /\ k.kind # "activate" => status[k.of] \in {"rolled_back", "activating"}
<1>1. ASSUME ReleaseInv, [Next]_vars, NEW h \in Handlers, Claimed(h) PROVE Real(h)
  <2>1. handler[h].pc = "end" /\ handler[h].result = "succeeded"
      BY <1>1, SuccessIsAnEnd
  <2>2. serving = Wanted(h) /\ Stands(h) /\ IsRolledBack(h)
      BY <1>1, <2>1 DEF ReleaseInv, Own, Relies
  <2> QED
      BY <2>2 DEF Wanted, IsRolledBack, Stands
<1>2. ReleaseInv /\ [Next]_vars => [\A h \in Handlers : Claimed(h) => Real(h)]_vars
    BY <1>1
<1> QED
    BY <1>2, ReleaseInvariant, PTL DEF Spec, SuccessIsReal
=============================================================================
