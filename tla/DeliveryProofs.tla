---------------------------- MODULE DeliveryProofs ----------------------------
(***************************************************************************)
(* Proofs about Delivery, for any number of notifications, files and        *)
(* senders, and any deployments.                                            *)
(***************************************************************************)
EXTENDS Delivery, FiniteSetTheorems, TLAPS

\* Only senders of this world work; the rows of a query wait in queue until they are
\* serialized, and what is sent is one of the serialized notifications.
AtWork ==
  \A s \in Senders :
    /\ pc[s] # "idle" => s \in world.senders
    /\ pc[s] # "serialize" => queue[s] = {}
    /\ cur[s] # NULL => cur[s] \in DOMAIN view[s]

\* The type invariant, and that view is a function on the senders.
Typed ==
  /\ TypeOK
  /\ AtWork
  /\ view = [s \in Senders |-> view[s]]

\* A caller's step, and a sender's.
CallerStep ==
  \/ \E n \in Notes :
       \/ Persist(n) \/ StoreAttachment(n) \/ StopPersisting(n) \/ Cancel(n)
       \/ CheckUpdate(n) \/ LinkUpdate(n) \/ Detach(n) \/ Deactivate(n)

-----------------------------------------------------------------------------
(* Types *)

\* Nothing is listed or sent at first.
LEMMA TypedInit == Init => Typed
<1> SUFFICES ASSUME Init PROVE Typed
  OBVIOUS
<1>1. world \in World
  BY WorldsAssumption DEF Init
<1>2. \A s \in Senders : /\ DOMAIN view[s] = {}
                         /\ view[s] \in [DOMAIN view[s] -> Serialized]
  BY DEF Init
<1>3. outbox \in [Notes -> Seq(Email)]
  BY DEF Init
<1>4. stops \in 0 .. MaxStops
  BY StopsAssumption DEF Init
<1>5. QED
  BY <1>1, <1>2, <1>3, <1>4 DEF Init, Typed, TypeOK, AtWork

\* What callers do leaves the senders alone and the rows well formed.
LEMMA TypedCaller ==
  ASSUME Typed, CallerStep
  PROVE  Typed'
<1> USE DEF rows, sender
<1>1. ASSUME NEW n \in Notes,
             \/ Persist(n) \/ StoreAttachment(n) \/ StopPersisting(n) \/ Cancel(n)
             \/ CheckUpdate(n) \/ LinkUpdate(n) \/ Detach(n) \/ Deactivate(n)
      PROVE  Typed'
  <2>1. status' \in [Notes -> {"none", "PENDING_SEND"} \cup Decided]
    <3>1. \E x \in {"PENDING_SEND", "CANCELLED"} :
            status' = status \/ status' = [status EXCEPT ![n] = x]
      BY <1>1 DEF Persist, StoreAttachment, StopPersisting, Cancel, CheckUpdate, LinkUpdate,
                  Detach, Deactivate
    <3>2. QED
      BY <3>1 DEF Typed, TypeOK, Decided
  <2>b. update' \in [Notes -> {"none", "checked", "done"}]
    <3>1. \E x \in {"checked", "done"} :
            update' = update \/ update' = [update EXCEPT ![n] = x]
      BY <1>1 DEF Persist, StoreAttachment, StopPersisting, Cancel, CheckUpdate, LinkUpdate,
                  Detach, Deactivate
    <3>2. QED
      BY <3>1 DEF Typed, TypeOK
  <2>a. stage' \in [Notes -> {"none", "storing", "stored", "stopped"}]
    <3>1. \E x \in {"none", "storing", "stored", "stopped"} :
            stage' = stage \/ stage' = [stage EXCEPT ![n] = x]
      BY <1>1 DEF Persist, StoreAttachment, StopPersisting, Cancel, CheckUpdate, LinkUpdate,
                  Detach, Deactivate
    <3>2. QED
      BY <3>1 DEF Typed, TypeOK
  <2>2. linked' \in [Notes -> SUBSET Files] /\ detached' \in [Notes -> SUBSET Files]
    <3>1. linked \in [Notes -> SUBSET Files] /\ detached \in [Notes -> SUBSET Files]
      BY DEF Typed, TypeOK
    <3>2. CASE StoreAttachment(n)
      <4>1. PICK f \in Unstored(n) : linked' = [linked EXCEPT ![n] = @ \cup {f}]
        BY <3>2 DEF StoreAttachment
      <4>2. f \in Files /\ detached' = detached
        BY <3>2, FilesAssumption DEF StoreAttachment, Unstored
      <4>3. QED
        BY <3>1, <4>1, <4>2
    <3>3. CASE LinkUpdate(n)
      BY <3>1, <3>3, FilesAssumption DEF LinkUpdate
    <3>4. CASE Detach(n)
      <4>1. PICK f \in linked[n] : /\ linked' = [linked EXCEPT ![n] = @ \ {f}]
                                   /\ detached' = [detached EXCEPT ![n] = @ \cup {f}]
        BY <3>4 DEF Detach
      <4>2. QED
        BY <3>1, <4>1
    <3>5. CASE Persist(n) \/ StopPersisting(n) \/ Cancel(n) \/ CheckUpdate(n) \/ Deactivate(n)
      BY <3>1, <3>5 DEF Persist, StopPersisting, Cancel, CheckUpdate, Deactivate
    <3>6. QED
      BY <1>1, <3>2, <3>3, <3>4, <3>5
  <2>3. inactive' \subseteq Notes
    BY <1>1 DEF Typed, TypeOK, Persist, StoreAttachment, StopPersisting, Cancel,
                CheckUpdate, LinkUpdate, Detach, Deactivate
  <2>4. stops' \in 0 .. MaxStops
    BY <1>1, StopsAssumption
       DEF Typed, TypeOK, Persist, StoreAttachment, StopPersisting, Cancel,
           CheckUpdate, LinkUpdate, Detach, Deactivate
  <2>5. UNCHANGED <<world, sender, outbox>>
    BY <1>1 DEF Persist, StoreAttachment, StopPersisting, Cancel,
                CheckUpdate, LinkUpdate, Detach, Deactivate
  <2>6. QED
    BY <2>1, <2>a, <2>b, <2>2, <2>3, <2>4, <2>5 DEF Typed, TypeOK, AtWork
<1>2. QED
  BY <1>1 DEF CallerStep

\* A query returns rows, and of those it serializes each is a listed notification.
LEMMA TypedListing ==
  ASSUME Typed, NEW s \in Senders, List(s) \/ Serialize(s)
  PROVE  Typed'
<1> USE DEF rows
<1>1. UNCHANGED <<rows, cur, tried, attached, failed, outbox, stops>>
  BY DEF List, Serialize
<1>2. CASE List(s)
  <2>1. Pending \subseteq Notes
    BY DEF Pending
  <2>2. QED
    BY <1>1, <1>2, <2>1 DEF List, Typed, TypeOK, AtWork
<1>3. CASE Serialize(s)
  <2>1. PICK n \in queue[s] :
          IF linked[n] \cap world.broken # {}
          THEN /\ queue' = [queue EXCEPT ![s] = {}]
               /\ view' = [view EXCEPT ![s] = <<>>]
               /\ pc' = [pc EXCEPT ![s] = "idle"]
          ELSE /\ queue' = [queue EXCEPT ![s] = @ \ {n}]
               /\ view' = [view EXCEPT ![s] =
                    [m \in DOMAIN @ \cup {n} |->
                       IF m = n THEN View(n) ELSE @[m]]]
               /\ pc' = [pc EXCEPT ![s] = IF queue[s] = {n} THEN "next" ELSE "serialize"]
    BY <1>3 DEF Serialize
  <2>2. n \in Notes /\ pc[s] = "serialize" /\ cur[s] = NULL /\ s \in world.senders
    BY <1>3 DEF Serialize, Typed, TypeOK, AtWork
  <2>3. CASE linked[n] \cap world.broken # {}
    <3>1. view' = [t \in Senders |-> view'[t]]
          /\ \A t \in Senders \ {s} : view'[t] = view[t]
      BY <2>1, <2>3 DEF Typed
    <3>2. DOMAIN view'[s] = {} /\ view'[s] \in [DOMAIN view'[s] -> Serialized]
      BY <2>1, <2>3 DEF Typed
    <3>3. queue' \in [Senders -> SUBSET Notes] /\ queue'[s] = {} /\ pc'[s] = "idle"
          /\ pc' \in [Senders -> {"idle", "serialize", "next", "attach", "mark_sent", "mark_failed"}]
          /\ \A t \in Senders \ {s} : queue'[t] = queue[t] /\ pc'[t] = pc[t]
      BY <2>1, <2>3 DEF Typed, TypeOK
    <3>4. QED
      <4>1. \A t \in Senders : DOMAIN view'[t] \subseteq Notes
                                /\ view'[t] \in [DOMAIN view'[t] -> Serialized]
        BY <3>1, <3>2 DEF Typed, TypeOK
      <4>2. \A t \in Senders : /\ cur'[t] = NULL <=> pc'[t] \in {"idle", "serialize", "next"}
                               /\ pc'[t] = "next" => DOMAIN view'[t] # {}
        <5>1. \A t \in Senders : /\ cur[t] = NULL <=> pc[t] \in {"idle", "serialize", "next"}
                                 /\ pc[t] = "next" => DOMAIN view[t] # {}
          BY DEF Typed, TypeOK
        <5>2. QED
          BY <5>1, <1>1, <2>2, <3>1, <3>3
      <4>3. AtWork'
        BY <1>1, <2>2, <3>1, <3>3 DEF Typed, AtWork
      <4>4. QED
        <5>1. TypeOK'
          BY <1>1, <3>3, <4>1, <4>2 DEF Typed, TypeOK
        <5>2. QED
          BY <3>1, <4>3, <5>1 DEF Typed
  <2>4. CASE linked[n] \cap world.broken = {}
    <3> DEFINE e == View(n)
               v == [m \in DOMAIN view[s] \cup {n} |-> IF m = n THEN e ELSE view[s][m]]
    <3>1. e \in Serialized
      BY <2>2 DEF View, Serialized, Typed, TypeOK
    <3>2. DOMAIN v \subseteq Notes /\ v \in [DOMAIN v -> Serialized] /\ DOMAIN v # {}
      BY <2>2, <3>1 DEF Typed, TypeOK
    <3>3. view' = [view EXCEPT ![s] = v]
      BY <2>1, <2>4
    <3> HIDE DEF e, v
    <3>4. view' = [t \in Senders |-> view'[t]] /\ view'[s] = v
          /\ \A t \in Senders \ {s} : view'[t] = view[t]
      BY <3>3 DEF Typed
    <3>5. /\ queue' \in [Senders -> SUBSET Notes]
          /\ \A t \in Senders \ {s} : queue'[t] = queue[t]
          /\ queue[s] = {n} => queue'[s] = {}
      <4>1. queue' = [queue EXCEPT ![s] = @ \ {n}]
        BY <2>1, <2>4
      <4>2. QED
        BY <4>1 DEF Typed, TypeOK
    <3>a. /\ pc' \in [Senders -> {"idle", "serialize", "next", "attach", "mark_sent", "mark_failed"}]
          /\ \A t \in Senders \ {s} : pc'[t] = pc[t]
          /\ pc'[s] = IF queue[s] = {n} THEN "next" ELSE "serialize"
      BY <2>1, <2>2, <2>4 DEF Typed, TypeOK
    <3>6. \A t \in Senders : DOMAIN view'[t] \subseteq Notes
                              /\ view'[t] \in [DOMAIN view'[t] -> Serialized]
      BY <3>2, <3>4 DEF Typed, TypeOK
    <3>7. \A t \in Senders : /\ cur'[t] = NULL <=> pc'[t] \in {"idle", "serialize", "next"}
                             /\ pc'[t] = "next" => DOMAIN view'[t] # {}
      <4>1. \A t \in Senders : /\ cur[t] = NULL <=> pc[t] \in {"idle", "serialize", "next"}
                               /\ pc[t] = "next" => DOMAIN view[t] # {}
        BY DEF Typed, TypeOK
      <4>2. QED
        BY <1>1, <2>2, <3>2, <3>4, <3>a, <4>1
    <3>8. AtWork'
      <4>1. \A t \in Senders : /\ pc[t] # "idle" => t \in world.senders
                               /\ pc[t] # "serialize" => queue[t] = {}
                               /\ cur[t] # NULL => cur[t] \in DOMAIN view[t]
        BY DEF Typed, AtWork
      <4>2. QED
        BY <1>1, <2>2, <3>4, <3>5, <3>a, <4>1 DEF AtWork
    <3>9. TypeOK'
      BY <1>1, <3>5, <3>6, <3>7, <3>a DEF Typed, TypeOK
    <3> QED
      BY <3>4, <3>8, <3>9 DEF Typed
  <2>5. QED
    BY <2>3, <2>4
<1>4. QED
  BY <1>2, <1>3

\* What is composed is one of the serialized notifications; a mark ends with it.
LEMMA TypedSending ==
  ASSUME Typed, NEW s \in Senders, Compose(s) \/ AttachFile(s) \/ Send(s) \/ Mark(s) \/ Crash(s)
  PROVE  Typed'
<1> USE DEF rows
<1>0. s \in world.senders /\ pc[s] # "idle" /\ cur[s] \in Notes \cup {NULL}
  BY DEF Compose, AttachFile, Send, Mark, Crash, Typed, TypeOK, AtWork
<1>1. CASE Compose(s)
  <2>1. PICK n \in DOMAIN view[s] :
          /\ cur' = [cur EXCEPT ![s] = n]
          /\ pc' = [pc EXCEPT ![s] =
               IF Reachable(n) /\ Rendered(n) THEN "attach" ELSE "mark_failed"]
    BY <1>1 DEF Compose
  <2>2. n \in Notes /\ n # NULL /\ pc[s] = "next"
    BY <1>1, NullAssumption DEF Compose, Typed, TypeOK
  <2>3. /\ cur' \in [Senders -> Notes \cup {NULL}] /\ cur'[s] = n
        /\ pc' \in [Senders -> {"idle", "serialize", "next", "attach", "mark_sent", "mark_failed"}]
        /\ pc'[s] \in {"attach", "mark_failed"}
        /\ \A t \in Senders \ {s} : pc'[t] = pc[t] /\ cur'[t] = cur[t]
    BY <2>1, <2>2 DEF Typed, TypeOK
  <2>4. UNCHANGED <<rows, queue, view, tried, attached, failed, outbox, stops>>
    BY <1>1 DEF Compose
  <2>5. QED
    BY <1>0, <2>2, <2>3, <2>4 DEF Typed, TypeOK, AtWork
<1>2. CASE AttachFile(s)
  <2>1. PICK f \in view[s][cur[s]].files \ tried[s] :
          /\ tried' = [tried EXCEPT ![s] = @ \cup {f}]
          /\ \/ attached' = [attached EXCEPT ![s] = @ \cup {f}] /\ failed' = failed
             \/ failed' = [failed EXCEPT ![s] = @ \cup {f}] /\ attached' = attached
    BY <1>2 DEF AttachFile
  <2>2. UNCHANGED <<rows, pc, queue, view, cur, outbox, stops>> /\ pc[s] = "attach"
    BY <1>2 DEF AttachFile
  <2>3. f \in Files
    <3>1. cur[s] \in DOMAIN view[s] /\ view[s][cur[s]] \in Serialized
      BY <1>0, <2>2 DEF Typed, TypeOK, AtWork
    <3>2. QED
      BY <2>1, <3>1 DEF Serialized
  <2>4. /\ tried' \in [Senders -> SUBSET Files] /\ attached' \in [Senders -> SUBSET Files]
        /\ failed' \in [Senders -> SUBSET Files]
    <3>1. /\ tried \in [Senders -> SUBSET Files] /\ attached \in [Senders -> SUBSET Files]
          /\ failed \in [Senders -> SUBSET Files]
      BY DEF Typed, TypeOK
    <3>2. \E X \in SUBSET Files : attached' = attached \/ attached' = [attached EXCEPT ![s] = @ \cup X]
      BY <2>1, <2>3
    <3>3. \E X \in SUBSET Files : failed' = failed \/ failed' = [failed EXCEPT ![s] = @ \cup X]
      BY <2>1, <2>3
    <3>4. attached' \in [Senders -> SUBSET Files]
      BY <3>1, <3>2
    <3>5. failed' \in [Senders -> SUBSET Files]
      BY <3>1, <3>3
    <3>6. QED
      BY <2>1, <2>3, <3>1, <3>4, <3>5
  <2>5. QED
    BY <2>2, <2>4 DEF Typed, TypeOK, AtWork
<1>3. CASE Send(s)
  <2>1. cur[s] \in DOMAIN view[s] /\ cur[s] \in Notes /\ view[s][cur[s]] \in Serialized
    BY <1>0, <1>3 DEF Send, Typed, TypeOK, AtWork
  <2> DEFINE e == [listed |-> view[s][cur[s]], attached |-> attached[s],
                   failed |-> failed[s], decided |-> status[cur[s]] \in Decided]
  <2>2. e \in Email
    BY <2>1 DEF Email, Typed, TypeOK
  <2>3. outbox' = [outbox EXCEPT ![cur[s]] = Append(@, e)] \/ outbox' = outbox
    BY <1>3 DEF Send
  <2> HIDE DEF e
  <2>4. outbox' \in [Notes -> Seq(Email)]
    <3>1. outbox[cur[s]] \in Seq(Email)
      BY <2>1 DEF Typed, TypeOK
    <3>2. Append(outbox[cur[s]], e) \in Seq(Email)
      BY <3>1, <2>2
    <3>3. outbox \in [Notes -> Seq(Email)]
      BY DEF Typed, TypeOK
    <3>4. QED
      BY <2>1, <2>3, <3>2, <3>3
  <2>5. pc' \in [Senders -> {"idle", "serialize", "next", "attach", "mark_sent", "mark_failed"}]
        /\ pc'[s] \in {"mark_sent", "mark_failed"} /\ pc[s] = "attach"
        /\ \A t \in Senders \ {s} : pc'[t] = pc[t]
    BY <1>3 DEF Send, Typed, TypeOK
  <2>6. /\ tried' \in [Senders -> SUBSET Files] /\ attached' \in [Senders -> SUBSET Files]
        /\ failed' \in [Senders -> SUBSET Files]
    BY <1>3 DEF Send, Typed, TypeOK
  <2>7. UNCHANGED <<rows, queue, view, cur, stops>>
    BY <1>3 DEF Send
  <2>8. QED
    BY <1>0, <2>4, <2>5, <2>6, <2>7 DEF Typed, TypeOK, AtWork
<1>4. CASE Mark(s)
  <2>1. cur[s] \in DOMAIN view[s] /\ cur[s] \in Notes
    BY <1>0, <1>4 DEF Mark, Typed, TypeOK, AtWork
  <2> DEFINE v == [m \in DOMAIN view[s] \ {cur[s]} |-> view[s][m]]
  <2>2. view' = [view EXCEPT ![s] = v]
    BY <1>4 DEF Mark, Leave
  <2>3. /\ DOMAIN v \subseteq Notes /\ v \in [DOMAIN v -> Serialized]
        /\ DOMAIN v = {} => DOMAIN view[s] = {cur[s]}
    BY <2>1 DEF Typed, TypeOK
  <2> HIDE DEF v
  <2>4. view' = [t \in Senders |-> view'[t]] /\ view'[s] = v
        /\ \A t \in Senders \ {s} : view'[t] = view[t]
    BY <2>2 DEF Typed
  <2>5. status' \in [Notes -> {"none", "PENDING_SEND"} \cup Decided]
    BY <1>4 DEF Mark, Decided, Typed, TypeOK
  <2>6. /\ pc' = [pc EXCEPT ![s] = IF DOMAIN view[s] = {cur[s]} THEN "idle" ELSE "next"]
        /\ cur' = [cur EXCEPT ![s] = NULL]
        /\ UNCHANGED <<world, stage, update, linked, detached, inactive, queue,
                       tried, attached, failed, outbox, stops>>
        /\ pc[s] # "serialize"
    BY <1>4 DEF Mark, Leave
  <2>7. QED
    BY <1>0, <2>3, <2>4, <2>5, <2>6 DEF Typed, TypeOK, AtWork
<1>5. CASE Crash(s)
  <2>1. stops' \in 0 .. MaxStops
    BY <1>5, StopsAssumption DEF Crash, Typed, TypeOK
  <2>2. view' = [t \in Senders |-> view'[t]]
        /\ \A t \in Senders \ {s} : view'[t] = view[t]
    BY <1>5 DEF Crash, Typed
  <2>3. DOMAIN view'[s] = {} /\ view'[s] \in [DOMAIN view'[s] -> Serialized]
    BY <1>5 DEF Crash, Typed
  <2>4. /\ queue' \in [Senders -> SUBSET Notes] /\ queue'[s] = {} /\ pc'[s] = "idle"
        /\ pc' \in [Senders -> {"idle", "serialize", "next", "attach", "mark_sent", "mark_failed"}]
        /\ cur' \in [Senders -> Notes \cup {NULL}] /\ cur'[s] = NULL
        /\ tried' \in [Senders -> SUBSET Files] /\ attached' \in [Senders -> SUBSET Files]
        /\ failed' \in [Senders -> SUBSET Files]
        /\ \A t \in Senders \ {s} : queue'[t] = queue[t] /\ pc'[t] = pc[t] /\ cur'[t] = cur[t]
    BY <1>5 DEF Crash, Typed, TypeOK
  <2>5. UNCHANGED <<rows, outbox>>
    BY <1>5 DEF Crash
  <2>6. QED
    <3>1. \A t \in Senders : DOMAIN view'[t] \subseteq Notes
                              /\ view'[t] \in [DOMAIN view'[t] -> Serialized]
      BY <2>2, <2>3 DEF Typed, TypeOK
    <3>2. \A t \in Senders : /\ cur'[t] = NULL <=> pc'[t] \in {"idle", "serialize", "next"}
                             /\ pc'[t] = "next" => DOMAIN view'[t] # {}
      <4>1. \A t \in Senders : /\ cur[t] = NULL <=> pc[t] \in {"idle", "serialize", "next"}
                               /\ pc[t] = "next" => DOMAIN view[t] # {}
        BY DEF Typed, TypeOK
      <4>2. QED
        BY <4>1, <2>2, <2>4
    <3>3. AtWork'
      BY <1>0, <2>2, <2>4, <2>5 DEF Typed, AtWork
    <3>4. QED
      BY <2>1, <2>2, <2>4, <2>5, <3>1, <3>2, <3>3 DEF Typed, TypeOK
<1>6. QED
  BY <1>1, <1>2, <1>3, <1>4, <1>5

\* Every step is one of these.
LEMMA Steps ==
  ASSUME Next
  PROVE  \/ CallerStep
         \/ \E s \in Senders : Work(s) \/ Crash(s)
BY DEF Next, CallerStep

\* Types are kept.
LEMMA TypedStep ==
  ASSUME Typed, [Next]_vars
  PROVE  Typed'
<1>1. CASE Next
  BY <1>1, Steps, TypedCaller, TypedListing, TypedSending DEF Work
<1>2. CASE UNCHANGED vars
  BY <1>2 DEF vars, rows, sender, Typed, TypeOK, AtWork
<1>3. QED
  BY <1>1, <1>2

\* Rows, lists, emails and senders stay well formed, whoever stops and wherever.
THEOREM TypeCorrect == Spec => []TypeOK
<1>1. Init => Typed
  BY TypedInit
<1>2. Typed /\ [Next]_vars => Typed'
  BY TypedStep
<1>3. Typed => TypeOK
  BY DEF Typed
<1>4. QED
  BY <1>1, <1>2, <1>3, PTL DEF Spec

-----------------------------------------------------------------------------
(* What steps do to lists, statuses and emails *)

\* The notifications a sender has listed and not left behind.
Holding(s) == queue[s] \cup DOMAIN view[s]

\* The email a sender has made.
EmailOf(s) == [listed |-> view[s][cur[s]], attached |-> attached[s],
               failed |-> failed[s], decided |-> status[cur[s]] \in Decided]

\* A caller's step concerns no sender.
LEMMA CallersAside ==
  ASSUME CallerStep
  PROVE  UNCHANGED <<world, sender, outbox>>
BY DEF CallerStep, Persist, StoreAttachment, StopPersisting, Cancel, CheckUpdate, LinkUpdate,
       Detach, Deactivate, rows, sender

\* Serializing one row moves it from the queue to the view, or drops the list.
LEMMA SerializeOne ==
  ASSUME Typed, NEW s \in Senders, Serialize(s)
  PROVE  /\ \A t \in Senders \ {s} : queue'[t] = queue[t] /\ view'[t] = view[t] /\ pc'[t] = pc[t]
         /\ pc'[s] \in {"idle", "next", "serialize"}
         /\ \/ queue'[s] = {} /\ DOMAIN view'[s] = {}
            \/ \E n \in queue[s] :
                 /\ queue'[s] = queue[s] \ {n}
                 /\ DOMAIN view'[s] = DOMAIN view[s] \cup {n}
                 /\ view'[s][n] = View(n)
                 /\ \A m \in DOMAIN view[s] \ {n} : view'[s][m] = view[s][m]
<1>1. PICK n \in queue[s] :
        IF linked[n] \cap world.broken # {}
        THEN /\ queue' = [queue EXCEPT ![s] = {}]
             /\ view' = [view EXCEPT ![s] = <<>>]
             /\ pc' = [pc EXCEPT ![s] = "idle"]
        ELSE /\ queue' = [queue EXCEPT ![s] = @ \ {n}]
             /\ view' = [view EXCEPT ![s] =
                  [m \in DOMAIN @ \cup {n} |->
                     IF m = n THEN View(n) ELSE @[m]]]
             /\ pc' = [pc EXCEPT ![s] = IF queue[s] = {n} THEN "next" ELSE "serialize"]
  BY DEF Serialize
<1>2. queue \in [Senders -> SUBSET Notes] /\ view = [t \in Senders |-> view[t]]
      /\ pc \in [Senders -> {"idle", "serialize", "next", "attach", "mark_sent", "mark_failed"}]
  BY DEF Typed, TypeOK
<1>3. CASE linked[n] \cap world.broken # {}
  BY <1>1, <1>2, <1>3
<1>4. CASE linked[n] \cap world.broken = {}
  <2> DEFINE e == View(n)
             v == [m \in DOMAIN view[s] \cup {n} |-> IF m = n THEN e ELSE view[s][m]]
  <2>1. DOMAIN v = DOMAIN view[s] \cup {n} /\ v[n] = e
        /\ \A m \in DOMAIN view[s] \ {n} : v[m] = view[s][m]
    OBVIOUS
  <2>2. view' = [view EXCEPT ![s] = v]
    BY <1>1, <1>4
  <2>3. queue' = [queue EXCEPT ![s] = @ \ {n}]
        /\ pc' = [pc EXCEPT ![s] = IF queue[s] = {n} THEN "next" ELSE "serialize"]
    BY <1>1, <1>4
  <2>4. /\ \A t \in Senders \ {s} : queue'[t] = queue[t] /\ view'[t] = view[t] /\ pc'[t] = pc[t]
        /\ pc'[s] \in {"next", "serialize"}
        /\ queue'[s] = queue[s] \ {n} /\ view'[s] = v
    <3> HIDE DEF v
    <3> QED
      BY <1>2, <2>2, <2>3
  <2>5. QED
    BY <2>1, <2>4
<1>5. QED
  BY <1>3, <1>4

\* A mark takes the notification off the view, and touches no other.
LEMMA MarkOne ==
  ASSUME Typed, NEW s \in Senders, Mark(s)
  PROVE  /\ \A t \in Senders \ {s} : view'[t] = view[t] /\ pc'[t] = pc[t] /\ cur'[t] = cur[t]
         /\ pc'[s] \in {"idle", "next"}
         /\ UNCHANGED <<world, queue, outbox, stops>>
         /\ queue[s] = {}
         /\ cur[s] \in Notes
         /\ DOMAIN view'[s] = DOMAIN view[s] \ {cur[s]}
         /\ \A m \in DOMAIN view'[s] : view'[s][m] = view[s][m]
         /\ \A n \in Notes : status'[n] # status[n] =>
              /\ n = cur[s] /\ status[n] = "PENDING_SEND"
              /\ status'[n] = IF pc[s] = "mark_sent" THEN "SENT" ELSE "FAILED"
<1>1. /\ view = [t \in Senders |-> view[t]] /\ cur \in [Senders -> Notes \cup {NULL}]
      /\ pc \in [Senders -> {"idle", "serialize", "next", "attach", "mark_sent", "mark_failed"}]
      /\ status \in [Notes -> {"none", "PENDING_SEND"} \cup Decided]
  BY DEF Typed, TypeOK
<1>2. pc[s] \in {"mark_sent", "mark_failed"}
  BY DEF Mark
<1>3. cur[s] \in Notes /\ queue[s] = {}
  BY <1>2 DEF Typed, TypeOK, AtWork
<1> DEFINE v == [m \in DOMAIN view[s] \ {cur[s]} |-> view[s][m]]
<1>4. /\ view' = [view EXCEPT ![s] = v]
      /\ pc' = [pc EXCEPT ![s] = IF DOMAIN view[s] = {cur[s]} THEN "idle" ELSE "next"]
      /\ cur' = [cur EXCEPT ![s] = NULL]
  BY DEF Mark, Leave
<1>5. DOMAIN v = DOMAIN view[s] \ {cur[s]} /\ \A m \in DOMAIN v : v[m] = view[s][m]
  OBVIOUS
<1>6. view'[s] = v /\ \A t \in Senders \ {s} : view'[t] = view[t]
  <2> HIDE DEF v
  <2> QED
    BY <1>1, <1>4
<1>7. pc'[s] \in {"idle", "next"} /\ \A t \in Senders \ {s} : pc'[t] = pc[t] /\ cur'[t] = cur[t]
  BY <1>1, <1>4
<1>8. \A n \in Notes : status'[n] # status[n] =>
        /\ n = cur[s] /\ status[n] = "PENDING_SEND"
        /\ status'[n] = IF pc[s] = "mark_sent" THEN "SENT" ELSE "FAILED"
  BY <1>1, <1>2 DEF Mark
<1>9. UNCHANGED <<world, queue, outbox, stops>>
  BY DEF Mark
<1>10. QED
  BY <1>3, <1>5, <1>6, <1>7, <1>8, <1>9

\* A sender lists what is pending and nothing else.
LEMMA HoldingSteps ==
  ASSUME Typed, Next, NEW s \in Senders
  PROVE  Holding(s)' \subseteq Holding(s) \cup Pending
<1>0. /\ queue \in [Senders -> SUBSET Notes] /\ view = [t \in Senders |-> view[t]]
  BY DEF Typed, TypeOK
<1>1. CASE CallerStep
  BY <1>1, CallersAside DEF Holding, sender
<1>2. ASSUME NEW t \in Senders, List(t)
      PROVE  Holding(s)' \subseteq Holding(s) \cup Pending
  BY <1>0, <1>2 DEF List, Holding
<1>3. ASSUME NEW t \in Senders, Serialize(t)
      PROVE  Holding(s)' \subseteq Holding(s) \cup Pending
  <2>1. CASE t = s
    <3>1. CASE queue'[s] = {} /\ DOMAIN view'[s] = {}
      BY <3>1 DEF Holding
    <3>2. ASSUME NEW n \in queue[s], queue'[s] = queue[s] \ {n},
                 DOMAIN view'[s] = DOMAIN view[s] \cup {n}
          PROVE  Holding(s)' \subseteq Holding(s)
      BY <3>2 DEF Holding
    <3>3. QED
      BY <1>3, <2>1, <3>1, <3>2, SerializeOne
  <2>2. CASE t # s
    BY <1>3, <2>2, SerializeOne DEF Holding
  <2>3. QED
    BY <2>1, <2>2
<1>4. ASSUME NEW t \in Senders, Compose(t) \/ AttachFile(t) \/ Send(t)
      PROVE  Holding(s)' \subseteq Holding(s) \cup Pending
  BY <1>4 DEF Compose, AttachFile, Send, Holding
<1>5. ASSUME NEW t \in Senders, Mark(t)
      PROVE  Holding(s)' \subseteq Holding(s) \cup Pending
  BY <1>5, MarkOne DEF Holding
<1>6. ASSUME NEW t \in Senders, Crash(t)
      PROVE  Holding(s)' \subseteq Holding(s) \cup Pending
  BY <1>0, <1>6 DEF Crash, Holding
<1>7. QED
  BY <1>1, <1>2, <1>3, <1>4, <1>5, <1>6, Steps DEF Work

\* A status only moves forward, and to SENT by the mark of a sender that emailed.
LEMMA StatusSteps ==
  ASSUME Typed, Next, NEW n \in Notes
  PROVE  \/ status'[n] = status[n]
         \/ status[n] = "none" /\ status'[n] = "PENDING_SEND"
         \/ status[n] = "PENDING_SEND" /\ status'[n] = "CANCELLED"
         \/ \E s \in Senders :
              /\ Mark(s) /\ cur[s] = n /\ status[n] = "PENDING_SEND"
              /\ status'[n] = IF pc[s] = "mark_sent" THEN "SENT" ELSE "FAILED"
<1>0. status \in [Notes -> {"none", "PENDING_SEND"} \cup Decided]
  BY DEF Typed, TypeOK
<1>1. CASE CallerStep
  BY <1>0, <1>1 DEF CallerStep, Persist, StoreAttachment, StopPersisting, Cancel, CheckUpdate,
                    LinkUpdate, Detach, Deactivate
<1>2. ASSUME NEW s \in Senders, Work(s) \/ Crash(s), ~Mark(s)
      PROVE  status'[n] = status[n]
  BY <1>2 DEF Work, List, Serialize, Compose, AttachFile, Send, Crash, rows
<1>3. ASSUME NEW s \in Senders, Mark(s)
      PROVE  \/ status'[n] = status[n]
             \/ /\ Mark(s) /\ cur[s] = n /\ status[n] = "PENDING_SEND"
                /\ status'[n] = IF pc[s] = "mark_sent" THEN "SENT" ELSE "FAILED"
  BY <1>3, MarkOne
<1>4. QED
  BY <1>1, <1>2, <1>3, Steps

\* An email goes out for what a sender is at, and the sender then has to mark it.
LEMMA OutboxSteps ==
  ASSUME Typed, Next, NEW n \in Notes
  PROVE  \/ outbox'[n] = outbox[n]
         \/ \E s \in Senders :
              /\ Send(s) /\ pc[s] = "attach" /\ pc'[s] = "mark_sent"
              /\ cur[s] = n /\ n \in DOMAIN view[s]
              /\ outbox'[n] = Append(outbox[n], EmailOf(s))
              /\ \A t \in Senders \ {s} : pc'[t] = pc[t]
<1>1. CASE CallerStep
  BY <1>1, CallersAside
<1>2. ASSUME NEW s \in Senders, Work(s) \/ Crash(s), ~Send(s)
      PROVE  outbox'[n] = outbox[n]
  BY <1>2 DEF Work, List, Serialize, Compose, AttachFile, Mark, Crash
<1>3. ASSUME NEW s \in Senders, Send(s), outbox'[n] # outbox[n]
      PROVE  /\ pc[s] = "attach" /\ pc'[s] = "mark_sent"
             /\ cur[s] = n /\ n \in DOMAIN view[s]
             /\ outbox'[n] = Append(outbox[n], EmailOf(s))
             /\ \A t \in Senders \ {s} : pc'[t] = pc[t]
  <2> DEFINE e == EmailOf(s)
  <2>1. outbox' = [outbox EXCEPT ![cur[s]] = Append(@, e)] /\ pc' = [pc EXCEPT ![s] = "mark_sent"]
    BY <1>3 DEF Send, EmailOf
  <2> HIDE DEF e
  <2>2. cur[s] \in DOMAIN view[s] /\ cur[s] \in Notes /\ pc[s] = "attach"
    BY <1>3 DEF Send, Typed, TypeOK, AtWork
  <2>3. outbox \in [Notes -> Seq(Email)]
        /\ pc \in [Senders -> {"idle", "serialize", "next", "attach", "mark_sent", "mark_failed"}]
    BY DEF Typed, TypeOK
  <2>4. cur[s] = n /\ outbox'[n] = Append(outbox[n], e)
    BY <1>3, <2>1, <2>2, <2>3
  <2>5. QED
    BY <2>1, <2>2, <2>3, <2>4 DEF e
<1>4. QED
  BY <1>1, <1>2, <1>3, Steps

-----------------------------------------------------------------------------
(* What is marked was emailed *)

\* Nothing is listed before it is persisted, and a sender marks as sent what it has
\* emailed.
Accounted ==
  /\ SentWasEmailed
  /\ \A s \in Senders : \A n \in Holding(s) : status[n] # "none"
  /\ \A s \in Senders : pc[s] = "mark_sent" => outbox[cur[s]] # <<>>

\* The marks that a sender is about to make.
LEMMA MarkingSteps ==
  ASSUME Typed, Next, NEW s \in Senders, pc'[s] = "mark_sent"
  PROVE  /\ cur'[s] = cur[s] /\ cur[s] \in Notes
         /\ \/ pc[s] = "mark_sent"
            \/ Send(s) /\ outbox'[cur[s]] = Append(outbox[cur[s]], EmailOf(s))
<1>0. /\ pc \in [Senders -> {"idle", "serialize", "next", "attach", "mark_sent", "mark_failed"}]
      /\ cur \in [Senders -> Notes \cup {NULL}] /\ outbox \in [Notes -> Seq(Email)]
      /\ pc[s] \in {"mark_sent", "attach"} => cur[s] \in Notes
  BY DEF Typed, TypeOK
<1>1. CASE CallerStep
  BY <1>0, <1>1, CallersAside DEF sender
<1>2. ASSUME NEW t \in Senders, List(t)
      PROVE  pc[s] = "mark_sent" /\ cur'[s] = cur[s]
  BY <1>0, <1>2 DEF List
<1>3. ASSUME NEW t \in Senders, Serialize(t)
      PROVE  pc[s] = "mark_sent" /\ cur'[s] = cur[s]
  <2>1. cur' = cur
    BY <1>3 DEF Serialize
  <2>2. QED
    BY <1>3, <2>1, SerializeOne
<1>4. ASSUME NEW t \in Senders, Compose(t)
      PROVE  pc[s] = "mark_sent" /\ cur'[s] = cur[s]
  BY <1>0, <1>4 DEF Compose
<1>5. ASSUME NEW t \in Senders, AttachFile(t)
      PROVE  pc[s] = "mark_sent" /\ cur'[s] = cur[s]
  BY <1>5 DEF AttachFile
<1>6. ASSUME NEW t \in Senders, Send(t)
      PROVE  /\ cur'[s] = cur[s]
             /\ \/ pc[s] = "mark_sent"
                \/ Send(s) /\ outbox'[cur[s]] = Append(outbox[cur[s]], EmailOf(s))
  <2>1. cur' = cur /\ pc[t] = "attach"
    BY <1>6 DEF Send
  <2>2. CASE t # s
    BY <1>0, <1>6, <2>1, <2>2 DEF Send
  <2>3. CASE t = s
    <3> DEFINE e == EmailOf(s)
    <3>1. outbox' = [outbox EXCEPT ![cur[s]] = Append(@, e)] \/ pc' = [pc EXCEPT ![s] = "mark_failed"]
      BY <1>6, <2>3 DEF Send, EmailOf
    <3> HIDE DEF e
    <3>2. outbox'[cur[s]] = Append(outbox[cur[s]], e)
      BY <1>0, <2>1, <2>3, <3>1
    <3>3. QED
      BY <1>6, <2>1, <2>3, <3>2 DEF e
  <2>4. QED
    BY <2>2, <2>3
<1>7. ASSUME NEW t \in Senders, Mark(t)
      PROVE  pc[s] = "mark_sent" /\ cur'[s] = cur[s]
  BY <1>7, MarkOne
<1>8. ASSUME NEW t \in Senders, Crash(t)
      PROVE  pc[s] = "mark_sent" /\ cur'[s] = cur[s]
  BY <1>0, <1>8 DEF Crash
<1>9. ASSUME NEW t \in Senders, Work(t) \/ Crash(t)
      PROVE  /\ cur'[s] = cur[s]
             /\ \/ pc[s] = "mark_sent"
                \/ Send(s) /\ outbox'[cur[s]] = Append(outbox[cur[s]], EmailOf(s))
  BY <1>2, <1>3, <1>4, <1>5, <1>6, <1>7, <1>8, <1>9 DEF Work
<1>10. /\ cur'[s] = cur[s]
       /\ \/ pc[s] = "mark_sent"
          \/ Send(s) /\ outbox'[cur[s]] = Append(outbox[cur[s]], EmailOf(s))
  BY <1>1, <1>9, Steps
<1>11. pc[s] \in {"mark_sent", "attach"}
  BY <1>10 DEF Send
<1>12. QED
  BY <1>0, <1>10, <1>11

\* What is appended to is not empty.
LEMMA AppendNonempty ==
  ASSUME NEW S, NEW q \in Seq(S), NEW x
  PROVE  Append(q, x) # <<>>
<1>1. Len(Append(q, x)) = Len(q) + 1 /\ Len(q) \in Nat
  OBVIOUS
<1>2. Len(<<>>) = 0
  OBVIOUS
<1>3. QED
  BY <1>1, <1>2

\* An email that went out is not taken back.
LEMMA EmailsStay ==
  ASSUME Typed, Next, NEW n \in Notes, outbox[n] # <<>>
  PROVE  outbox'[n] # <<>>
<1>1. CASE outbox'[n] = outbox[n]
  BY <1>1
<1>2. ASSUME NEW s \in Senders, outbox'[n] = Append(outbox[n], EmailOf(s))
      PROVE  outbox'[n] # <<>>
  <2>1. outbox[n] \in Seq(Email)
    BY DEF Typed, TypeOK
  <2>2. QED
    BY <1>2, <2>1, AppendNonempty
<1>3. QED
  BY <1>1, <1>2, OutboxSteps

\* Marks follow emails, and emails the listing of a persisted row.
LEMMA AccountedStep ==
  ASSUME Typed, Accounted, [Next]_vars
  PROVE  Accounted'
<1>1. CASE UNCHANGED vars
  BY <1>1 DEF vars, rows, sender, Accounted, SentWasEmailed, Holding
<1>2. CASE Next
  <2>1. ASSUME NEW n \in Notes, status[n] # "none"
        PROVE  status'[n] # "none"
    BY <1>2, <2>1, StatusSteps
  <2>2. ASSUME NEW s \in Senders, NEW n \in Holding(s)'
        PROVE  status'[n] # "none"
    <3>1. n \in Holding(s) \cup Pending
      BY <1>2, <2>2, HoldingSteps
    <3>2. n \in Notes
      BY <3>1 DEF Holding, Pending, Typed, TypeOK
    <3>3. status[n] # "none"
      BY <3>1 DEF Accounted, Pending
    <3>4. QED
      BY <2>1, <3>2, <3>3
  <2>3. ASSUME NEW s \in Senders, pc'[s] = "mark_sent"
        PROVE  outbox'[cur'[s]] # <<>>
    <3>1. cur'[s] = cur[s] /\ cur[s] \in Notes
      BY <1>2, <2>3, MarkingSteps
    <3>2. CASE pc[s] = "mark_sent"
      BY <1>2, <3>1, <3>2, EmailsStay DEF Accounted
    <3>3. CASE outbox'[cur[s]] = Append(outbox[cur[s]], EmailOf(s))
      <4>1. outbox[cur[s]] \in Seq(Email)
        BY <3>1 DEF Typed, TypeOK
      <4>2. QED
        BY <3>1, <3>3, <4>1, AppendNonempty
    <3>4. QED
      BY <1>2, <2>3, <3>2, <3>3, MarkingSteps
  <2>4. ASSUME NEW n \in Notes, status'[n] = "SENT"
        PROVE  outbox'[n] # <<>>
    <3>1. status[n] = "SENT" \/ \E s \in Senders : pc[s] = "mark_sent" /\ cur[s] = n
      BY <1>2, <2>4, StatusSteps
    <3>2. outbox[n] # <<>>
      BY <3>1 DEF Accounted, SentWasEmailed
    <3>3. QED
      BY <1>2, <3>2, EmailsStay
  <2>5. ASSUME NEW n \in Notes, outbox'[n] # <<>>
        PROVE  status'[n] # "none"
    <3>1. outbox'[n] = outbox[n] \/ \E s \in Senders : n \in DOMAIN view[s]
      BY <1>2, OutboxSteps
    <3>2. status[n] # "none"
      BY <2>5, <3>1 DEF Accounted, SentWasEmailed, Holding
    <3>3. QED
      BY <2>1, <3>2
  <2>6. QED
    BY <2>2, <2>3, <2>4, <2>5 DEF Accounted, SentWasEmailed
<1>3. QED
  BY <1>1, <1>2

\* At first nothing is sent.
LEMMA AccountedInit == Init => Accounted
BY DEF Init, Accounted, SentWasEmailed, Holding

\* No notification is SENT that was not emailed and none is emailed that was never
\* persisted, however senders, callers and crashes interleave.
THEOREM SentWasEmailedTheorem == Spec => []SentWasEmailed
<1>1. Init => Typed /\ Accounted
  BY TypedInit, AccountedInit
<1>2. Typed /\ Accounted /\ [Next]_vars => (Typed /\ Accounted)'
  BY TypedStep, AccountedStep
<1>3. Accounted => SentWasEmailed
  BY DEF Accounted
<1>4. QED
  BY <1>1, <1>2, <1>3, PTL DEF Spec

-----------------------------------------------------------------------------
(* Why an email lacks an attachment *)

\* A gap in an email.
Explains(n, e) ==
  /\ Wanted[n] \ e.attached
       \subseteq e.failed \cup e.listed.detached \cup (IF e.listed.early THEN Files ELSE {})
  /\ e.listed.files \ e.attached \subseteq e.failed

\* What was tried and is not attached could not be read; what was stored in full is
\* linked or was detached, and so it was when a sender serialized it.
Explained ==
  /\ \A n \in Notes : \A k \in DOMAIN outbox[n] : Explains(n, outbox[n][k])
  /\ \A s \in Senders : tried[s] \ attached[s] \subseteq failed[s]
  /\ \A n \in Notes : stage[n] = "stored" => Wanted[n] \subseteq linked[n] \cup detached[n]
  /\ \A s \in Senders : \A n \in DOMAIN view[s] :
       ~view[s][n].early => Wanted[n] \subseteq view[s][n].files \cup view[s][n].detached

\* A file that was tried is attached, or could not be read.
LEMMA TriedStep ==
  ASSUME Typed, Explained, Next, NEW s \in Senders
  PROVE  tried'[s] \ attached'[s] \subseteq failed'[s]
<1>0. /\ tried \in [Senders -> SUBSET Files] /\ attached \in [Senders -> SUBSET Files]
      /\ failed \in [Senders -> SUBSET Files] /\ tried[s] \ attached[s] \subseteq failed[s]
  BY DEF Typed, TypeOK, Explained
<1>1. CASE CallerStep
  BY <1>0, <1>1, CallersAside DEF sender
<1>2. ASSUME NEW t \in Senders, List(t) \/ Serialize(t) \/ Compose(t) \/ Mark(t)
      PROVE  tried'[s] \ attached'[s] \subseteq failed'[s]
  <2>1. tried' = tried /\ attached' = attached /\ failed' = failed
    BY <1>2 DEF List, Serialize, Compose, Mark
  <2>2. QED
    BY <1>0, <2>1
<1>3. ASSUME NEW t \in Senders, AttachFile(t)
      PROVE  tried'[s] \ attached'[s] \subseteq failed'[s]
  <2>1. PICK f \in view[t][cur[t]].files \ tried[t] :
          /\ tried' = [tried EXCEPT ![t] = @ \cup {f}]
          /\ \/ attached' = [attached EXCEPT ![t] = @ \cup {f}] /\ failed' = failed
             \/ failed' = [failed EXCEPT ![t] = @ \cup {f}] /\ attached' = attached
    BY <1>3 DEF AttachFile
  <2>2. CASE t = s
    BY <1>0, <2>1, <2>2
  <2>3. CASE t # s
    BY <1>0, <2>1, <2>3
  <2>4. QED
    BY <2>2, <2>3
<1>4. ASSUME NEW t \in Senders, Send(t) \/ Crash(t)
      PROVE  tried'[s] \ attached'[s] \subseteq failed'[s]
  <2>1. /\ tried' = [tried EXCEPT ![t] = {}] /\ attached' = [attached EXCEPT ![t] = {}]
        /\ failed' = [failed EXCEPT ![t] = {}]
    BY <1>4 DEF Send, Crash
  <2>2. QED
    BY <1>0, <2>1
<1>5. QED
  BY <1>1, <1>2, <1>3, <1>4, Steps DEF Work

\* Persisting ends only when every join row was inserted; those removed are detached.
LEMMA StoredStep ==
  ASSUME Typed, Explained, Next, NEW n \in Notes, stage'[n] = "stored"
  PROVE  Wanted[n] \subseteq linked'[n] \cup detached'[n]
<1>0. /\ stage \in [Notes -> {"none", "storing", "stored", "stopped"}]
      /\ linked \in [Notes -> SUBSET Files] /\ detached \in [Notes -> SUBSET Files]
      /\ stage[n] = "stored" => Wanted[n] \subseteq linked[n] \cup detached[n]
  BY DEF Typed, TypeOK, Explained
<1>1. ASSUME NEW m \in Notes, Persist(m)
      PROVE  Wanted[n] \subseteq linked'[n] \cup detached'[n]
  BY <1>0, <1>1 DEF Persist
<1>2. ASSUME NEW m \in Notes, StoreAttachment(m)
      PROVE  Wanted[n] \subseteq linked'[n] \cup detached'[n]
  <2>1. PICK f \in Unstored(m) :
          /\ linked' = [linked EXCEPT ![m] = @ \cup {f}]
          /\ detached' = detached
          /\ stage' = [stage EXCEPT ![m] = IF Unstored(m) = {f} /\ f \notin world.broken
                                           THEN "stored"
                                           ELSE IF f \in world.broken THEN "stopped" ELSE "storing"]
    BY <1>2 DEF StoreAttachment
  <2>2. CASE m = n
    BY <1>0, <2>1, <2>2 DEF Unstored
  <2>3. CASE m # n
    BY <1>0, <2>1, <2>3
  <2>4. QED
    BY <2>2, <2>3
<1>3. ASSUME NEW m \in Notes, StopPersisting(m) \/ Cancel(m) \/ CheckUpdate(m) \/ Deactivate(m)
      PROVE  Wanted[n] \subseteq linked'[n] \cup detached'[n]
  BY <1>0, <1>3 DEF StopPersisting, Cancel, CheckUpdate, Deactivate
<1>4. ASSUME NEW m \in Notes, LinkUpdate(m)
      PROVE  Wanted[n] \subseteq linked'[n] \cup detached'[n]
  BY <1>0, <1>4 DEF LinkUpdate
<1>5. ASSUME NEW m \in Notes, Detach(m)
      PROVE  Wanted[n] \subseteq linked'[n] \cup detached'[n]
  BY <1>0, <1>5 DEF Detach
<1>6. ASSUME NEW s \in Senders, Work(s) \/ Crash(s)
      PROVE  Wanted[n] \subseteq linked'[n] \cup detached'[n]
  <2>1. stage' = stage /\ linked' = linked /\ detached' = detached
    BY <1>6 DEF Work, List, Serialize, Compose, AttachFile, Send, Mark, Crash, rows
  <2>2. QED
    BY <1>0, <2>1
<1>7. QED
  BY <1>1, <1>2, <1>3, <1>4, <1>5, <1>6, Steps DEF CallerStep

\* A serialized notification is as it was when its attachments were queried.
LEMMA ViewSteps ==
  ASSUME Typed, Next, NEW s \in Senders, NEW n \in DOMAIN view'[s]
  PROVE  \/ n \in DOMAIN view[s] /\ view'[s][n] = view[s][n]
         \/ view'[s][n] = View(n)
<1>0. view = [t \in Senders |-> view[t]]
  BY DEF Typed
<1>1. CASE CallerStep
  BY <1>1, CallersAside DEF sender
<1>2. ASSUME NEW t \in Senders, List(t) \/ Compose(t) \/ AttachFile(t) \/ Send(t)
      PROVE  n \in DOMAIN view[s] /\ view'[s][n] = view[s][n]
  BY <1>2 DEF List, Compose, AttachFile, Send
<1>3. ASSUME NEW t \in Senders, Serialize(t)
      PROVE  \/ n \in DOMAIN view[s] /\ view'[s][n] = view[s][n]
             \/ view'[s][n] = View(n)
  <2>1. CASE t # s
    BY <1>3, <2>1, SerializeOne
  <2>2. CASE t = s
    <3>1. PICK m \in queue[s] :
            /\ DOMAIN view'[s] = DOMAIN view[s] \cup {m}
            /\ view'[s][m] = View(m)
            /\ \A i \in DOMAIN view[s] \ {m} : view'[s][i] = view[s][i]
      BY <1>3, <2>2, SerializeOne
    <3>2. CASE n = m
      BY <3>1, <3>2
    <3>3. CASE n # m
      BY <3>1, <3>3
    <3>4. QED
      BY <3>2, <3>3
  <2>3. QED
    BY <2>1, <2>2
<1>4. ASSUME NEW t \in Senders, Mark(t)
      PROVE  n \in DOMAIN view[s] /\ view'[s][n] = view[s][n]
  <2>1. CASE t # s
    BY <1>4, <2>1, MarkOne
  <2>2. CASE t = s
    BY <1>4, <2>2, MarkOne
  <2>3. QED
    BY <2>1, <2>2
<1>5. ASSUME NEW t \in Senders, Crash(t)
      PROVE  n \in DOMAIN view[s] /\ view'[s][n] = view[s][n]
  BY <1>0, <1>5 DEF Crash
<1>6. QED
  BY <1>1, <1>2, <1>3, <1>4, <1>5, Steps DEF Work

\* An email goes out when every file its sender listed was tried.
LEMMA SendExplains ==
  ASSUME Typed, Explained, NEW s \in Senders, Send(s)
  PROVE  Explains(cur[s], EmailOf(s))
<1>1. /\ cur[s] \in DOMAIN view[s] /\ cur[s] \in Notes
      /\ tried[s] = view[s][cur[s]].files /\ tried[s] \ attached[s] \subseteq failed[s]
      /\ ~view[s][cur[s]].early =>
           Wanted[cur[s]] \subseteq view[s][cur[s]].files \cup view[s][cur[s]].detached
      /\ Wanted[cur[s]] \subseteq Files
  BY FilesAssumption DEF Send, Typed, TypeOK, AtWork, Explained
<1>2. /\ EmailOf(s).listed = view[s][cur[s]] /\ EmailOf(s).attached = attached[s]
      /\ EmailOf(s).failed = failed[s]
  BY DEF EmailOf
<1>3. QED
  BY <1>1, <1>2 DEF Explains

\* An email that went out is explained for good.
LEMMA ExplainedStep ==
  ASSUME Typed, Explained, [Next]_vars
  PROVE  Explained'
<1>1. CASE UNCHANGED vars
  BY <1>1 DEF vars, rows, sender, Explained, Explains
<1>2. CASE Next
  <2>1. \A s \in Senders : tried'[s] \ attached'[s] \subseteq failed'[s]
    BY <1>2, TriedStep
  <2>2. \A n \in Notes : stage'[n] = "stored" => Wanted[n] \subseteq linked'[n] \cup detached'[n]
    BY <1>2, StoredStep
  <2>3. ASSUME NEW s \in Senders, NEW n \in DOMAIN view'[s], ~view'[s][n].early
        PROVE  Wanted[n] \subseteq view'[s][n].files \cup view'[s][n].detached
    <3>1. CASE n \in DOMAIN view[s] /\ view'[s][n] = view[s][n]
      BY <2>3, <3>1 DEF Explained
    <3>2. CASE view'[s][n] = View(n)
      <4>a. /\ view'[s][n].early = (stage[n] # "stored") /\ view'[s][n].files = linked[n]
            /\ view'[s][n].detached = detached[n]
        BY <3>2 DEF View
      <4>1. /\ stage[n] = "stored" /\ view'[s][n].files = linked[n]
            /\ view'[s][n].detached = detached[n]
        BY <2>3, <4>a
      <4>2. n \in Notes
        BY <1>2, TypedStep DEF Typed, TypeOK
      <4>3. QED
        BY <4>1, <4>2 DEF Explained
    <3>3. QED
      BY <1>2, <3>1, <3>2, ViewSteps
  <2>4. ASSUME NEW n \in Notes, NEW k \in DOMAIN outbox'[n]
        PROVE  Explains(n, outbox[n][k])'
    <3>1. Explains(n, outbox'[n][k])
      <4>1. CASE outbox'[n] = outbox[n]
        BY <4>1 DEF Explained
      <4>2. ASSUME NEW s \in Senders, Send(s), cur[s] = n,
                   outbox'[n] = Append(outbox[n], EmailOf(s))
            PROVE  Explains(n, outbox'[n][k])
        <5> DEFINE e == EmailOf(s)
        <5>1. Explains(n, e)
          BY <4>2, SendExplains
        <5>2. outbox[n] \in Seq(Email)
          BY DEF Typed, TypeOK
        <5> HIDE DEF e
        <5>3. \/ k \in DOMAIN outbox[n] /\ Append(outbox[n], e)[k] = outbox[n][k]
              \/ Append(outbox[n], e)[k] = e
          BY <2>4, <4>2, <5>2 DEF e
        <5>4. QED
          BY <4>2, <5>1, <5>3 DEF Explained, e
      <4>3. QED
        BY <1>2, <4>1, <4>2, OutboxSteps
    <3>2. QED
      BY <3>1 DEF Explains
  <2>5. QED
    BY <2>1, <2>2, <2>3, <2>4 DEF Explained
<1>3. QED
  BY <1>1, <1>2

\* Nothing needs an explanation at first.
LEMMA ExplainedInit == Init => Explained
BY DEF Init, Explained

\* Every attachment an email lacks could not be read, was detached before, or was stored
\* after the notification was listed, however callers and senders interleave.
THEOREM GapsExplainedTheorem == Spec => []GapsExplained
<1>1. Init => Typed /\ Explained
  BY TypedInit, ExplainedInit
<1>2. Typed /\ Explained /\ [Next]_vars => (Typed /\ Explained)'
  BY TypedStep, ExplainedStep
<1>3. Explained => GapsExplained
  BY DEF Explained, Explains, GapsExplained
<1>4. QED
  BY <1>1, <1>2, <1>3, PTL DEF Spec

-----------------------------------------------------------------------------
(* How many emails there are *)

\* The emails for n that went out after it was decided.
EmailedLate(n) == {k \in DOMAIN outbox[n] : outbox[n][k].decided}

\* The senders that have n listed and have not come to mark it.
MayEmail(n) ==
  {s \in world.senders : /\ n \in Holding(s)
                         /\ ~(cur[s] = n /\ pc[s] \in {"mark_sent", "mark_failed"})}

\* The senders that have emailed n and not marked it.
Marking(n) == {s \in world.senders : pc[s] = "mark_sent" /\ cur[s] = n}

\* While it is not decided no email is late; from then on every late email is one of a
\* sender that had it listed, and the sender that decided it is not among them.
Quiet ==
  \A n \in Notes :
    /\ status[n] \notin Decided => EmailedLate(n) = {}
    /\ status[n] \in Decided =>
         Cardinality(EmailedLate(n)) + Cardinality(MayEmail(n))
           <= Cardinality(world.senders) - (IF status[n] \in {"SENT", "FAILED"} THEN 1 ELSE 0)

\* While it is not decided every email is one of a sender that still has to mark it,
\* or that stopped; from then on no sender lists it again.
Few ==
  \A n \in Notes :
    /\ status[n] \notin Decided => Len(outbox[n]) <= Cardinality(Marking(n)) + stops
    /\ status[n] \in Decided =>
         Len(outbox[n]) + Cardinality(MayEmail(n)) <= Cardinality(world.senders) + stops

\* The sets that are counted are finite.
LEMMA Countable ==
  ASSUME Typed, NEW n \in Notes
  PROVE  /\ IsFiniteSet(world.senders) /\ Cardinality(world.senders) \in Nat
         /\ IsFiniteSet(MayEmail(n)) /\ Cardinality(MayEmail(n)) \in Nat
         /\ Cardinality(MayEmail(n)) <= Cardinality(world.senders)
         /\ IsFiniteSet(Marking(n)) /\ Cardinality(Marking(n)) \in Nat
         /\ IsFiniteSet(EmailedLate(n)) /\ Cardinality(EmailedLate(n)) \in Nat
         /\ outbox[n] \in Seq(Email) /\ Len(outbox[n]) \in Nat /\ stops \in Nat
<1>1. world.senders \subseteq Senders
  BY DEF Typed, TypeOK, World
<1>2. IsFiniteSet(world.senders)
  BY <1>1, SendersAssumption, FS_Subset
<1>3. MayEmail(n) \subseteq world.senders /\ Marking(n) \subseteq world.senders
  BY DEF MayEmail, Marking
<1>4. outbox[n] \in Seq(Email)
  BY DEF Typed, TypeOK
<1>5. EmailedLate(n) \subseteq 1 .. Len(outbox[n]) /\ Len(outbox[n]) \in Nat
  BY <1>4 DEF EmailedLate
<1>6. IsFiniteSet(1 .. Len(outbox[n]))
  BY <1>5, FS_Interval
<1>7. IsFiniteSet(EmailedLate(n))
  BY <1>5, <1>6, FS_Subset
<1>8. stops \in Nat
  BY StopsAssumption DEF Typed, TypeOK
<1>9. QED
  BY <1>2, <1>3, <1>4, <1>5, <1>7, <1>8, FS_Subset, FS_CardinalityType

\* The deployment stays, and stops are counted.
LEMMA StopsStep ==
  ASSUME Typed, Next
  PROVE  world' = world /\ stops' >= stops
<1>0. stops \in Nat
  BY StopsAssumption DEF Typed, TypeOK
<1>1. CASE CallerStep
  BY <1>0, <1>1 DEF CallerStep, Persist, StoreAttachment, StopPersisting, Cancel, CheckUpdate,
                    LinkUpdate, Detach, Deactivate
<1>2. ASSUME NEW s \in Senders, Work(s) \/ Crash(s)
      PROVE  world' = world /\ stops' >= stops
  BY <1>0, <1>2 DEF Work, List, Serialize, Compose, AttachFile, Send, Mark, Crash, rows
<1>3. QED
  BY <1>1, <1>2, Steps

\* What is not pending is not listed any more, so fewer and fewer may email it.
LEMMA MayEmailStep ==
  ASSUME Typed, Next, NEW n \in Notes, n \notin Pending
  PROVE  MayEmail(n)' \subseteq MayEmail(n)
<1> SUFFICES ASSUME NEW s \in MayEmail(n)'
             PROVE  s \in MayEmail(n)
  OBVIOUS
<1>1. s \in world.senders /\ s \in Senders
  BY StopsStep DEF MayEmail, Typed, TypeOK, World
<1>2. n \in Holding(s)' /\ n \in Holding(s)
  BY <1>1, HoldingSteps DEF MayEmail
<1>3. SUFFICES ASSUME cur[s] = n, pc[s] \in {"mark_sent", "mark_failed"}
               PROVE  FALSE
  BY <1>1, <1>2 DEF MayEmail
<1>4. ~(cur'[s] = n /\ pc'[s] \in {"mark_sent", "mark_failed"})
  BY DEF MayEmail
<1>0. /\ pc \in [Senders -> {"idle", "serialize", "next", "attach", "mark_sent", "mark_failed"}]
      /\ cur \in [Senders -> Notes \cup {NULL}]
      /\ queue \in [Senders -> SUBSET Notes] /\ view = [t \in Senders |-> view[t]]
  BY DEF Typed, TypeOK
<1>5. CASE CallerStep
  BY <1>3, <1>4, <1>5, CallersAside DEF sender
<1>6. ASSUME NEW t \in Senders, List(t) \/ Compose(t) \/ AttachFile(t) \/ Send(t)
      PROVE  FALSE
  <2>1. pc[t] \in {"idle", "next", "attach"}
    BY <1>6 DEF List, Compose, AttachFile, Send
  <2>2. t # s
    BY <1>3, <2>1
  <2>3. pc'[s] = pc[s] /\ cur'[s] = cur[s]
    BY <1>0, <1>1, <1>6, <2>2 DEF List, Compose, AttachFile, Send
  <2>4. QED
    BY <1>3, <1>4, <2>3
<1>7. ASSUME NEW t \in Senders, Serialize(t)
      PROVE  FALSE
  <2>1. pc[t] = "serialize" /\ cur' = cur
    BY <1>7 DEF Serialize
  <2>2. t # s
    BY <1>3, <2>1
  <2>3. pc'[s] = pc[s] /\ cur'[s] = cur[s]
    BY <1>1, <1>7, <2>1, <2>2, SerializeOne
  <2>4. QED
    BY <1>3, <1>4, <2>3
<1>8. ASSUME NEW t \in Senders, Mark(t)
      PROVE  FALSE
  <2>1. CASE t # s
    BY <1>1, <1>3, <1>4, <1>8, <2>1, MarkOne
  <2>2. CASE t = s
    BY <1>2, <1>3, <1>8, <2>2, MarkOne DEF Holding
  <2>3. QED
    BY <2>1, <2>2
<1>9. ASSUME NEW t \in Senders, Crash(t)
      PROVE  FALSE
  <2>1. CASE t # s
    BY <1>0, <1>1, <1>3, <1>4, <1>9, <2>1 DEF Crash
  <2>2. CASE t = s
    BY <1>0, <1>1, <1>2, <1>9, <2>2 DEF Crash, Holding
  <2>3. QED
    BY <2>1, <2>2
<1>10. QED
  BY <1>5, <1>6, <1>7, <1>8, <1>9, Steps DEF Work

\* A sender that emails is one that might, and then is not.
LEMMA SenderLeaves ==
  ASSUME Typed, Next, NEW n \in Notes, n \notin Pending, NEW s \in Senders,
         Send(s), pc[s] = "attach", pc'[s] = "mark_sent", cur[s] = n, n \in DOMAIN view[s]
  PROVE  Cardinality(MayEmail(n)') <= Cardinality(MayEmail(n)) - 1
<1>1. s \in world.senders /\ cur' = cur
  BY DEF Typed, AtWork, Send
<1>2. s \in MayEmail(n) /\ s \notin MayEmail(n)'
  BY <1>1 DEF MayEmail, Holding
<1>3. MayEmail(n)' \subseteq MayEmail(n) \ {s}
  BY <1>2, MayEmailStep
<1>4. IsFiniteSet(MayEmail(n))
  BY Countable
<1>5. /\ IsFiniteSet(MayEmail(n) \ {s})
      /\ Cardinality(MayEmail(n) \ {s}) = Cardinality(MayEmail(n)) - 1
  BY <1>2, <1>4, FS_RemoveElement
<1>6. Cardinality(MayEmail(n)') <= Cardinality(MayEmail(n) \ {s})
  BY <1>3, <1>5, FS_Subset
<1>7. QED
  BY <1>5, <1>6

\* An email adds one late email if n was decided, and none otherwise.
LEMMA LateStep ==
  ASSUME Typed, Next, NEW n \in Notes, NEW s \in Senders,
         cur[s] = n, outbox'[n] = Append(outbox[n], EmailOf(s))
  PROVE  /\ Len(outbox'[n]) = Len(outbox[n]) + 1
         /\ status[n] \notin Decided => EmailedLate(n)' = EmailedLate(n)
         /\ status[n] \in Decided =>
              Cardinality(EmailedLate(n)') = Cardinality(EmailedLate(n)) + 1
<1> DEFINE e == EmailOf(s)
           k == Len(outbox[n]) + 1
<1>1. outbox[n] \in Seq(Email) /\ Len(outbox[n]) \in Nat
  BY Countable
<1>2. e.decided = (status[n] \in Decided)
  BY DEF EmailOf
<1>3. outbox'[n] = Append(outbox[n], e)
  OBVIOUS
<1> HIDE DEF e
<1>4. /\ Len(outbox'[n]) = k /\ DOMAIN outbox'[n] = DOMAIN outbox[n] \cup {k}
      /\ outbox'[n][k] = e /\ \A i \in DOMAIN outbox[n] : outbox'[n][i] = outbox[n][i]
      /\ k \notin DOMAIN outbox[n]
  BY <1>1, <1>3
<1>5. CASE status[n] \notin Decided
  <2>1. ~e.decided
    BY <1>2, <1>5
  <2>2. EmailedLate(n)' = EmailedLate(n)
    BY <1>4, <2>1 DEF EmailedLate
  <2>3. QED
    BY <1>4, <1>5, <2>2
<1>6. CASE status[n] \in Decided
  <2>1. e.decided
    BY <1>2, <1>6
  <2>2. EmailedLate(n)' = EmailedLate(n) \cup {k} /\ k \notin EmailedLate(n)
    BY <1>4, <2>1 DEF EmailedLate
  <2>3. Cardinality(EmailedLate(n) \cup {k}) = Cardinality(EmailedLate(n)) + 1
    BY <2>2, Countable, FS_AddElement
  <2>4. QED
    BY <1>4, <1>6, <2>2, <2>3
<1>7. QED
  BY <1>5, <1>6

\* A notification is decided by a cancel, or by the mark of a sender that is done
\* with it then; a decision stands, and emails nothing.
LEMMA DecisionSteps ==
  ASSUME Typed, Next, NEW n \in Notes
  PROVE  /\ status[n] \in Decided => status'[n] = status[n] /\ n \notin Pending
         /\ status[n] \notin Decided /\ status'[n] \in Decided =>
              /\ outbox'[n] = outbox[n] /\ n \in Pending
              /\ status'[n] \in {"SENT", "FAILED"} => \E s \in Senders : Mark(s) /\ cur[s] = n
              /\ status'[n] \notin {"SENT", "FAILED"} => CallerStep
<1>1. status[n] \in Decided => status'[n] = status[n] /\ n \notin Pending
  BY StatusSteps DEF Decided, Pending
<1>2. ASSUME status[n] \notin Decided, status'[n] \in Decided
      PROVE  /\ outbox'[n] = outbox[n] /\ n \in Pending
             /\ status'[n] \in {"SENT", "FAILED"} => \E s \in Senders : Mark(s) /\ cur[s] = n
             /\ status'[n] \notin {"SENT", "FAILED"} => CallerStep
  <2>1. n \in Pending
    BY <1>2, StatusSteps DEF Decided, Pending
  <2>2. status'[n] \in {"SENT", "FAILED"} => \E s \in Senders : Mark(s) /\ cur[s] = n
    BY <1>2, StatusSteps DEF Decided
  <2>3. status'[n] \notin {"SENT", "FAILED"} => CallerStep
    <3>1. ASSUME NEW s \in Senders, Work(s) \/ Crash(s)
          PROVE  status'[n] \in {"SENT", "FAILED"}
      <4>1. Mark(s)
        BY <1>2, <3>1 DEF Work, List, Serialize, Compose, AttachFile, Send, Crash, rows
      <4>2. status'[n] = "SENT" \/ status'[n] = "FAILED"
        BY <1>2, <4>1, MarkOne
      <4>3. QED
        BY <4>2
    <3>2. QED
      BY <3>1, Steps
  <2>4. ASSUME NEW s \in Senders, Send(s)
        PROVE  FALSE
    BY <1>2, <2>4 DEF Send, rows
  <2>5. QED
    BY <2>1, <2>2, <2>3, <2>4, OutboxSteps
<1>3. QED
  BY <1>1, <1>2

\* The sender whose mark decides it does not email it again.
LEMMA MarkerDone ==
  ASSUME Typed, NEW n \in Notes, NEW s \in Senders, Mark(s), cur[s] = n
  PROVE  s \in world.senders /\ s \notin MayEmail(n)'
BY MarkOne DEF MayEmail, Holding, Mark, Typed, AtWork

\* Late emails stay few.
LEMMA QuietStep ==
  ASSUME Typed, Quiet, [Next]_vars
  PROVE  Quiet'
<1>1. CASE UNCHANGED vars
  BY <1>1 DEF vars, rows, sender, Quiet, EmailedLate, MayEmail, Holding
<1>2. CASE Next
  <2> SUFFICES ASSUME NEW n \in Notes
               PROVE  /\ status'[n] \notin Decided => EmailedLate(n)' = {}
                      /\ status'[n] \in Decided =>
                           Cardinality(EmailedLate(n)') + Cardinality(MayEmail(n)')
                             <= Cardinality(world'.senders)
                                  - (IF status'[n] \in {"SENT", "FAILED"} THEN 1 ELSE 0)
    BY DEF Quiet
  <2>0. /\ Typed' /\ world' = world
        /\ Cardinality(world.senders) \in Nat
        /\ Cardinality(MayEmail(n)) \in Nat /\ Cardinality(EmailedLate(n)) \in Nat
    BY <1>2, TypedStep, StopsStep, Countable
  <2>1. Cardinality(MayEmail(n)') \in Nat /\ Cardinality(MayEmail(n)') <= Cardinality(world.senders)
    <3>1. MayEmail(n)' \subseteq world.senders
      BY <2>0 DEF MayEmail
    <3>2. IsFiniteSet(world.senders)
      BY Countable
    <3>3. QED
      BY <3>1, <3>2, FS_Subset, FS_CardinalityType
  <2>2. CASE status[n] \notin Decided /\ status'[n] \notin Decided
    <3>1. CASE outbox'[n] = outbox[n]
      BY <2>2, <3>1 DEF EmailedLate, Quiet
    <3>2. ASSUME NEW s \in Senders, cur[s] = n, outbox'[n] = Append(outbox[n], EmailOf(s))
          PROVE  EmailedLate(n)' = {}
      BY <1>2, <2>2, <3>2, LateStep DEF Quiet
    <3>3. QED
      BY <1>2, <2>2, <3>1, <3>2, OutboxSteps DEF Quiet, EmailedLate
  <2>3. CASE status[n] \notin Decided /\ status'[n] \in Decided
    <3>1. outbox'[n] = outbox[n]
      BY <1>2, <2>3, DecisionSteps
    <3>2. EmailedLate(n)' = {}
      BY <2>3, <3>1 DEF EmailedLate, Quiet
    <3>3. Cardinality(EmailedLate(n)') = 0
      BY <3>2, FS_EmptySet
    <3>4. CASE status'[n] \notin {"SENT", "FAILED"}
      BY <2>0, <2>1, <2>3, <3>3, <3>4
    <3>5. CASE status'[n] \in {"SENT", "FAILED"}
      <4>1. PICK s \in Senders : Mark(s) /\ cur[s] = n
        BY <1>2, <2>3, <3>5, DecisionSteps
      <4>2. s \in world.senders /\ s \notin MayEmail(n)'
        BY <4>1, MarkerDone
      <4>3. MayEmail(n)' \subseteq world.senders \ {s}
        BY <2>0, <4>2 DEF MayEmail
      <4>4. /\ IsFiniteSet(world.senders \ {s})
            /\ Cardinality(world.senders \ {s}) = Cardinality(world.senders) - 1
        BY <4>2, Countable, FS_RemoveElement
      <4>5. Cardinality(MayEmail(n)') <= Cardinality(world.senders) - 1
        BY <4>3, <4>4, FS_Subset
      <4>6. QED
        BY <2>0, <2>1, <2>3, <3>3, <3>5, <4>5
    <3>6. QED
      BY <3>4, <3>5
  <2>4. CASE status[n] \in Decided
    <3>1. status'[n] = status[n] /\ n \notin Pending
      BY <1>2, <2>4, DecisionSteps
    <3>2. CASE outbox'[n] = outbox[n]
      <4>1. EmailedLate(n)' = EmailedLate(n)
        BY <3>2 DEF EmailedLate
      <4>2. Cardinality(MayEmail(n)') <= Cardinality(MayEmail(n))
        BY <1>2, <3>1, MayEmailStep, Countable, FS_Subset
      <4>3. QED
        BY <2>0, <2>1, <2>4, <3>1, <4>1, <4>2 DEF Quiet
    <3>3. ASSUME NEW s \in Senders, Send(s), pc[s] = "attach", pc'[s] = "mark_sent",
                 cur[s] = n, n \in DOMAIN view[s], outbox'[n] = Append(outbox[n], EmailOf(s))
          PROVE  /\ Cardinality(EmailedLate(n)') \in Nat
                 /\ Cardinality(EmailedLate(n)') + Cardinality(MayEmail(n)')
                      <= Cardinality(EmailedLate(n)) + Cardinality(MayEmail(n))
      <4>1. Cardinality(EmailedLate(n)') = Cardinality(EmailedLate(n)) + 1
        BY <1>2, <2>4, <3>3, LateStep
      <4>2. Cardinality(MayEmail(n)') <= Cardinality(MayEmail(n)) - 1
        BY <1>2, <3>1, <3>3, SenderLeaves
      <4>3. QED
        BY <2>0, <2>1, <4>1, <4>2
    <3>4. CASE /\ Cardinality(EmailedLate(n)') \in Nat
               /\ Cardinality(EmailedLate(n)') + Cardinality(MayEmail(n)')
                    <= Cardinality(EmailedLate(n)) + Cardinality(MayEmail(n))
      <4>1. Cardinality(EmailedLate(n)) + Cardinality(MayEmail(n))
              <= Cardinality(world.senders) - (IF status[n] \in {"SENT", "FAILED"} THEN 1 ELSE 0)
        BY <2>4 DEF Quiet
      <4>2. QED
        BY <2>0, <2>1, <2>4, <3>1, <3>4, <4>1
    <3>5. QED
      BY <1>2, <3>2, <3>3, <3>4, OutboxSteps
  <2>5. QED
    BY <2>2, <2>3, <2>4
<1>3. QED
  BY <1>1, <1>2

\* Nothing is emailed or decided at first.
LEMMA CountsInit == Init => Quiet /\ Few
<1> SUFFICES ASSUME Init PROVE Quiet /\ Few
  OBVIOUS
<1>1. Typed
  BY TypedInit
<1>2. ASSUME NEW n \in Notes
      PROVE  /\ status[n] \notin Decided /\ EmailedLate(n) = {}
             /\ Len(outbox[n]) = 0 /\ stops = 0 /\ Cardinality(Marking(n)) \in Nat
  BY <1>1, Countable DEF Init, Decided, EmailedLate
<1>3. Quiet
  BY <1>2 DEF Quiet
<1>4. Few
  BY <1>2 DEF Few
<1>5. QED
  BY <1>3, <1>4

\* Once a notification is decided, by a cancel or by a mark, only senders that had it
\* listed email it, each once, and the one that decided it does not.
THEOREM DecidedStayQuietTheorem == Spec => []DecidedStayQuiet
<1>1. Init => Typed /\ Quiet
  BY TypedInit, CountsInit
<1>2. Typed /\ Quiet /\ [Next]_vars => (Typed /\ Quiet)'
  BY TypedStep, QuietStep
<1>3. ASSUME Typed, Quiet
      PROVE  DecidedStayQuiet
  <2> SUFFICES ASSUME NEW n \in Notes
               PROVE  Cardinality(EmailedLate(n))
                        <= Cardinality(world.senders) - (IF status[n] \in {"SENT", "FAILED"} THEN 1 ELSE 0)
    BY DEF DecidedStayQuiet, EmailedLate
  <2>1. CASE status[n] \in Decided
    BY <1>3, <2>1, Countable DEF Quiet
  <2>2. CASE status[n] \notin Decided
    <3>1. Cardinality(EmailedLate(n)) = 0 /\ status[n] \notin {"SENT", "FAILED"}
      BY <1>3, <2>2, FS_EmptySet DEF Quiet, Decided
    <3>2. QED
      BY <1>3, <3>1, Countable
  <2>3. QED
    BY <2>1, <2>2
<1>4. QED
  BY <1>1, <1>2, <1>3, PTL DEF Spec

-----------------------------------------------------------------------------

\* A sender that has emailed a notification and not marked it marks it next, which
\* decides it, or stops.
LEMMA MarkingStay ==
  ASSUME Typed, Next, NEW n \in Notes, n \in Pending, status'[n] \notin Decided
  PROVE  \/ Marking(n) \subseteq Marking(n)'
         \/ \E t \in Senders : /\ Marking(n) \subseteq Marking(n)' \cup {t}
                               /\ stops' = stops + 1 /\ outbox' = outbox
<1>0. /\ pc \in [Senders -> {"idle", "serialize", "next", "attach", "mark_sent", "mark_failed"}]
      /\ cur \in [Senders -> Notes \cup {NULL}] /\ world.senders \subseteq Senders
      /\ status \in [Notes -> {"none", "PENDING_SEND"} \cup Decided]
      /\ world' = world
  BY StopsStep DEF Typed, TypeOK, World
<1>1. CASE CallerStep
  BY <1>1, CallersAside DEF Marking, sender
<1>2. ASSUME NEW t \in Senders, List(t) \/ Compose(t) \/ AttachFile(t) \/ Send(t)
      PROVE  Marking(n) \subseteq Marking(n)'
  BY <1>0, <1>2 DEF List, Compose, AttachFile, Send, Marking
<1>3. ASSUME NEW t \in Senders, Serialize(t)
      PROVE  Marking(n) \subseteq Marking(n)'
  <2>1. cur' = cur /\ pc[t] = "serialize"
    BY <1>3 DEF Serialize
  <2>2. \A s \in Senders \ {t} : pc'[s] = pc[s]
    BY <1>3, SerializeOne
  <2>3. QED
    BY <1>0, <2>1, <2>2 DEF Marking
<1>4. ASSUME NEW t \in Senders, Mark(t)
      PROVE  Marking(n) \subseteq Marking(n)'
  <2>1. cur[t] # n
    BY <1>0, <1>4 DEF Mark, Pending, Decided
  <2>2. \A s \in Senders \ {t} : pc'[s] = pc[s] /\ cur'[s] = cur[s]
    BY <1>4, MarkOne
  <2>3. QED
    BY <1>0, <2>1, <2>2 DEF Marking
<1>5. ASSUME NEW t \in Senders, Crash(t)
      PROVE  /\ Marking(n) \subseteq Marking(n)' \cup {t}
             /\ stops' = stops + 1 /\ outbox' = outbox
  BY <1>0, <1>5 DEF Crash, Marking
<1>6. QED
  BY <1>1, <1>2, <1>3, <1>4, <1>5, Steps DEF Work

\* Who is marking a notification when it is decided will not email it again.
LEMMA MarkersLeave ==
  ASSUME Typed, Next, NEW n \in Notes, status[n] \notin Decided, status'[n] \in Decided
  PROVE  Marking(n) \cap MayEmail(n)' = {}
<1>1. CASE CallerStep
  BY <1>1, CallersAside DEF Marking, MayEmail, sender
<1>2. CASE ~CallerStep
  <2>1. PICK s \in Senders : Mark(s) /\ cur[s] = n
    BY <1>2, DecisionSteps
  <2>2. s \notin MayEmail(n)'
    BY <2>1, MarkerDone
  <2>3. \A t \in Senders \ {s} : pc'[t] = pc[t] /\ cur'[t] = cur[t]
    BY <2>1, MarkOne
  <2>4. world.senders \subseteq Senders
    BY DEF Typed, TypeOK, World
  <2>5. QED
    BY <2>2, <2>3, <2>4 DEF Marking, MayEmail
<1>3. QED
  BY <1>1, <1>2

\* One element more makes a set larger by one at most.
LEMMA AddedOne ==
  ASSUME NEW S, IsFiniteSet(S), NEW x
  PROVE  /\ IsFiniteSet(S \cup {x})
         /\ Cardinality(S \cup {x}) <= Cardinality(S) + 1
<1>1. Cardinality(S) \in Nat
  BY FS_CardinalityType
<1>2. CASE x \in S
  <2>1. S \cup {x} = S
    BY <1>2
  <2>2. IsFiniteSet(S \cup {x}) /\ Cardinality(S \cup {x}) = Cardinality(S)
    BY <2>1, Zenon
  <2>3. QED
    BY <1>1, <2>2
<1>3. CASE x \notin S
  BY <1>1, <1>3, FS_AddElement
<1>4. QED
  BY <1>2, <1>3

\* Emails stay few.
LEMMA FewStep ==
  ASSUME Typed, Accounted, Few, [Next]_vars
  PROVE  Few'
<1>1. CASE UNCHANGED vars
  BY <1>1 DEF vars, rows, sender, Few, MayEmail, Marking, Holding
<1>2. CASE Next
  <2> SUFFICES ASSUME NEW n \in Notes
               PROVE  /\ status'[n] \notin Decided =>
                           Len(outbox'[n]) <= Cardinality(Marking(n)') + stops'
                      /\ status'[n] \in Decided =>
                           Len(outbox'[n]) + Cardinality(MayEmail(n)')
                             <= Cardinality(world'.senders) + stops'
    BY DEF Few
  <2>0. /\ world' = world /\ stops' >= stops /\ stops \in Nat /\ stops' \in Nat
        /\ IsFiniteSet(world.senders) /\ Cardinality(world.senders) \in Nat
        /\ Cardinality(MayEmail(n)) \in Nat /\ Cardinality(Marking(n)) \in Nat
        /\ outbox[n] \in Seq(Email) /\ Len(outbox[n]) \in Nat
    BY <1>2, TypedStep, StopsStep, Countable, StopsAssumption DEF Typed, TypeOK
  <2>1. /\ IsFiniteSet(Marking(n)') /\ Cardinality(Marking(n)') \in Nat
        /\ IsFiniteSet(MayEmail(n)') /\ Cardinality(MayEmail(n)') \in Nat
    <3>1. MayEmail(n)' \subseteq world.senders /\ Marking(n)' \subseteq world.senders
      BY <2>0 DEF MayEmail, Marking
    <3>2. QED
      BY <2>0, <3>1, FS_Subset, FS_CardinalityType
  <2>2. CASE status[n] = "none" /\ status'[n] \notin Decided
    <3>1. outbox[n] = <<>>
      BY <2>2 DEF Accounted, SentWasEmailed
    <3>2. outbox'[n] = outbox[n]
      BY <1>2, <2>2, OutboxSteps DEF Accounted, Holding
    <3>3. QED
      BY <2>0, <2>1, <2>2, <3>1, <3>2
  <2>3. CASE n \in Pending /\ status'[n] \notin Decided
    <3>0. Len(outbox[n]) <= Cardinality(Marking(n)) + stops
      BY <2>3 DEF Few, Pending, Decided
    <3>1. ASSUME NEW s \in Senders, Send(s), pc[s] = "attach", pc'[s] = "mark_sent",
                 cur[s] = n, outbox'[n] = Append(outbox[n], EmailOf(s)),
                 \A t \in Senders \ {s} : pc'[t] = pc[t]
          PROVE  Len(outbox'[n]) <= Cardinality(Marking(n)') + stops'
      <4>1. s \in world.senders /\ cur' = cur /\ world.senders \subseteq Senders
        BY <3>1 DEF Send, Typed, TypeOK, AtWork, World
      <4>2. Marking(n)' = Marking(n) \cup {s} /\ s \notin Marking(n)
        BY <2>0, <3>1, <4>1 DEF Marking
      <4>3. Cardinality(Marking(n) \cup {s}) = Cardinality(Marking(n)) + 1
        BY <4>2, Countable, FS_AddElement
      <4>4. Len(outbox'[n]) = Len(outbox[n]) + 1
        BY <1>2, <3>1, LateStep
      <4>5. QED
        BY <2>0, <3>0, <4>2, <4>3, <4>4
    <3>2. ASSUME outbox'[n] = outbox[n], Marking(n) \subseteq Marking(n)'
          PROVE  Len(outbox'[n]) <= Cardinality(Marking(n)') + stops'
      <4>1. Cardinality(Marking(n)) <= Cardinality(Marking(n)')
        BY <2>1, <3>2, FS_Subset
      <4>2. QED
        BY <2>0, <2>1, <3>0, <3>2, <4>1
    <3>3. ASSUME NEW t \in Senders, Marking(n) \subseteq Marking(n)' \cup {t},
                 stops' = stops + 1, outbox' = outbox
          PROVE  Len(outbox'[n]) <= Cardinality(Marking(n)') + stops'
      <4>1. /\ IsFiniteSet(Marking(n)' \cup {t})
            /\ Cardinality(Marking(n)' \cup {t}) <= Cardinality(Marking(n)') + 1
        BY <2>1, AddedOne
      <4>2. Cardinality(Marking(n)) <= Cardinality(Marking(n)' \cup {t})
        BY <3>3, <4>1, FS_Subset
      <4>3. Cardinality(Marking(n)' \cup {t}) \in Nat
        BY <4>1, FS_CardinalityType
      <4>4. QED
        BY <2>0, <2>1, <3>0, <3>3, <4>1, <4>2, <4>3
    <3>4. Len(outbox'[n]) <= Cardinality(Marking(n)') + stops'
      BY <1>2, <2>3, <3>1, <3>2, <3>3, OutboxSteps, MarkingStay
    <3>5. QED
      BY <2>3, <3>4
  <2>4. CASE status[n] \notin Decided /\ status'[n] \in Decided
    <3>1. /\ outbox'[n] = outbox[n]
          /\ Len(outbox[n]) <= Cardinality(Marking(n)) + stops
      BY <1>2, <2>4, DecisionSteps DEF Few
    <3>2. Marking(n) \cap MayEmail(n)' = {}
      BY <1>2, <2>4, MarkersLeave
    <3>3. Marking(n) \cup MayEmail(n)' \subseteq world.senders
      BY <2>0 DEF Marking, MayEmail
    <3>4. Cardinality(Marking(n) \cup MayEmail(n)') <= Cardinality(world.senders)
      BY <2>0, <3>3, FS_Subset
    <3>5. IsFiniteSet(Marking(n))
      BY Countable
    <3>6. Cardinality(Marking(n) \cup MayEmail(n)')
            = Cardinality(Marking(n)) + Cardinality(MayEmail(n)') - Cardinality({})
      BY <2>1, <3>2, <3>5, FS_Union
    <3>7. QED
      BY <2>0, <2>1, <2>4, <3>1, <3>4, <3>6, FS_EmptySet
  <2>5. CASE status[n] \in Decided
    <3>1. status'[n] = status[n] /\ n \notin Pending
      BY <1>2, <2>5, DecisionSteps
    <3>2. Len(outbox[n]) + Cardinality(MayEmail(n)) <= Cardinality(world.senders) + stops
      BY <2>5 DEF Few
    <3>3. CASE outbox'[n] = outbox[n]
      <4>1. Cardinality(MayEmail(n)') <= Cardinality(MayEmail(n))
        BY <1>2, <3>1, MayEmailStep, Countable, FS_Subset
      <4>2. QED
        BY <2>0, <2>1, <2>5, <3>1, <3>2, <3>3, <4>1
    <3>4. ASSUME NEW s \in Senders, Send(s), pc[s] = "attach", pc'[s] = "mark_sent",
                 cur[s] = n, n \in DOMAIN view[s], outbox'[n] = Append(outbox[n], EmailOf(s))
          PROVE  Len(outbox'[n]) + Cardinality(MayEmail(n)')
                   <= Cardinality(world.senders) + stops'
      <4>1. Len(outbox'[n]) = Len(outbox[n]) + 1
        BY <1>2, <3>4, LateStep
      <4>2. Cardinality(MayEmail(n)') <= Cardinality(MayEmail(n)) - 1
        BY <1>2, <3>1, <3>4, SenderLeaves
      <4>3. QED
        BY <2>0, <2>1, <3>2, <4>1, <4>2
    <3>5. QED
      BY <1>2, <2>0, <2>5, <3>1, <3>3, <3>4, OutboxSteps
  <2>6. QED
    <3>1. status[n] \in Decided \/ n \in Pending \/ status[n] = "none"
      BY DEF Typed, TypeOK, Pending
    <3>2. QED
      BY <2>2, <2>3, <2>4, <2>5, <3>1
<1>3. QED
  BY <1>1, <1>2

\* No notification is emailed more often than there are senders and stops, however
\* they overlap.
THEOREM FewRepeatsTheorem == Spec => []FewRepeats
<1>1. Init => Typed /\ Accounted /\ Few
  BY TypedInit, AccountedInit, CountsInit
<1>2. Typed /\ Accounted /\ Few /\ [Next]_vars => (Typed /\ Accounted /\ Few)'
  BY TypedStep, AccountedStep, FewStep
<1>3. ASSUME Typed, Few
      PROVE  FewRepeats
  <2> SUFFICES ASSUME NEW n \in Notes
               PROVE  Len(outbox[n]) <= Cardinality(world.senders) + stops
    BY DEF FewRepeats
  <2>1. CASE status[n] \in Decided
    BY <1>3, <2>1, Countable DEF Few
  <2>2. CASE status[n] \notin Decided
    <3>1. Marking(n) \subseteq world.senders
      BY DEF Marking
    <3>2. Cardinality(Marking(n)) <= Cardinality(world.senders)
      BY <1>3, <3>1, Countable, FS_Subset
    <3>3. QED
      BY <1>3, <2>2, <3>2, Countable DEF Few
  <2>3. QED
    BY <2>1, <2>2
<1>4. QED
  BY <1>1, <1>2, <1>3, PTL DEF Spec

-----------------------------------------------------------------------------
(* Deliveries implement the life of a notification *)

\* A step changes the status of one notification at most.
LEMMA OneStatus ==
  ASSUME Typed, Next
  PROVE  \/ status' = status
         \/ \E n \in Notes : \A m \in Notes \ {n} : status'[m] = status[m]
<1>0. status \in [Notes -> {"none", "PENDING_SEND"} \cup Decided]
  BY DEF Typed, TypeOK
<1>1. ASSUME NEW n \in Notes, Persist(n) \/ Cancel(n)
      PROVE  \A m \in Notes \ {n} : status'[m] = status[m]
  BY <1>0, <1>1 DEF Persist, Cancel
<1>2. CASE CallerStep /\ ~(\E n \in Notes : Persist(n) \/ Cancel(n))
  BY <1>2 DEF CallerStep, StoreAttachment, StopPersisting, CheckUpdate, LinkUpdate, Detach, Deactivate
<1>3. ASSUME NEW s \in Senders, Work(s) \/ Crash(s), ~Mark(s)
      PROVE  status' = status
  BY <1>3 DEF Work, List, Serialize, Compose, AttachFile, Send, Crash, rows
<1>4. ASSUME NEW s \in Senders, Mark(s)
      PROVE  cur[s] \in Notes /\ \A m \in Notes \ {cur[s]} : status'[m] = status[m]
  <2>1. cur[s] \in Notes
    BY <1>4, MarkOne
  <2>2. QED
    BY <1>0, <1>4, <2>1 DEF Mark
<1>5. QED
  BY <1>1, <1>2, <1>3, <1>4, Steps

\* Nothing is persisted at first.
LEMMA LifeInit == Init => Life!Init
<1> SUFFICES ASSUME Init PROVE Life!Init
  OBVIOUS
<1>1. \A n \in Notes : LifeState(n) = "NONE" /\ status[n] \notin Decided
  BY DEF Init, LifeState, Decided
<1> QED
  BY <1>1 DEF Life!Init

\* A step persists one notification, decides one, or leaves them all as they are.
LEMMA LifeStep ==
  ASSUME Typed, [Next]_vars
  PROVE  [Life!Next]_Life!vars
<1>1. CASE status' = status
  <2>1. UNCHANGED Life!vars
    BY <1>1 DEF Life!vars, LifeState
  <2> QED
    BY <2>1
<1>2. ASSUME Next, NEW n \in Notes, \A m \in Notes \ {n} : status'[m] = status[m],
             status'[n] # status[n]
      PROVE  Life!Next
  <2>0. status[n] \in {"none", "PENDING_SEND"} \cup Decided
    BY DEF Typed, TypeOK
  <2>1. \/ status[n] = "none" /\ status'[n] = "PENDING_SEND"
        \/ status[n] = "PENDING_SEND" /\ status'[n] \in Decided
    <3>1. \/ status'[n] = status[n]
          \/ status[n] = "none" /\ status'[n] = "PENDING_SEND"
          \/ status[n] = "PENDING_SEND" /\ status'[n] = "CANCELLED"
          \/ status[n] = "PENDING_SEND" /\ status'[n] \in {"SENT", "FAILED"}
      BY <1>2, StatusSteps
    <3> QED
      BY <1>2, <3>1 DEF Decided
  <2>2. \A m \in Notes \ {n} : /\ LifeState(m)' = LifeState(m)
                               /\ status'[m] \in Decided <=> status[m] \in Decided
    BY <1>2 DEF LifeState
  <2>3. CASE status[n] = "none"
    <3>1. LifeState(n) = "NONE" /\ LifeState(n)' = "PENDING_SEND"
      BY <2>1, <2>3 DEF LifeState
    <3>2. status[n] \notin Decided /\ status'[n] \notin Decided
      BY <2>1, <2>3 DEF Decided
    <3>3. Life!Create(n)
      BY <2>2, <3>1, <3>2 DEF Life!Create
    <3> QED
      BY <3>3 DEF Life!Next
  <2>4. CASE status[n] = "PENDING_SEND"
    <3>1. /\ LifeState(n) = "PENDING_SEND" /\ LifeState(n)' = status'[n]
          /\ status'[n] \in Decided /\ status[n] \notin Decided
      BY <2>1, <2>4 DEF LifeState, Decided
    <3>2. \A m \in Notes : n \notin (IF status[m] \in Decided THEN {m} ELSE {}) \cup {}
      BY <3>1
    <3>3. PICK s \in Life!Outcomes : s = status'[n]
      BY <3>1 DEF Decided, Life!Outcomes
    <3>4. Life!Settle(n, n)
      BY <2>2, <3>1, <3>2, <3>3 DEF Life!Settle, Life!Idle
    <3> QED
      BY <3>4 DEF Life!Next
  <2> QED
    BY <2>1, <2>3, <2>4
<1>3. CASE UNCHANGED vars
  BY <1>1, <1>3 DEF vars, rows
<1>4. CASE Next /\ status' # status
  <2>1. PICK n \in Notes : \A m \in Notes \ {n} : status'[m] = status[m]
    BY <1>4, OneStatus
  <2>2. status'[n] # status[n]
    <3>1. status \in [Notes -> {"none", "PENDING_SEND"} \cup Decided]
      BY DEF Typed, TypeOK
    <3>2. status' \in [Notes -> {"none", "PENDING_SEND"} \cup Decided]
      BY <1>4, TypedStep DEF Typed, TypeOK, Decided
    <3> QED
      BY <1>4, <2>1, <3>1, <3>2
  <2> QED
    BY <1>2, <1>4, <2>1, <2>2
<1> QED
  BY <1>1, <1>3, <1>4

\* Whatever the senders repeat and wherever they stop, every notification lives as
\* Lifecycle has it: it is decided once, by one mark or cancel.
THEOREM DeliveryImplementsLifecycle == Spec => ImplementsLifecycle
<1>1. Init => Typed
  BY TypedInit
<1>2. Typed /\ [Next]_vars => Typed'
  BY TypedStep
<1>3. QED
  BY <1>1, <1>2, LifeInit, LifeStep, PTL DEF Spec, ImplementsLifecycle, Life!Spec

==============================================================================
