---------------------------- MODULE Ingestion_proofs ----------------------------
(***************************************************************************)
(* Proofs about Ingestion, for any messages, any number of workers and any *)
(* capacity of the queues and of the request channel.                      *)
(***************************************************************************)
EXTENDS Ingestion, TLAPS

-----------------------------------------------------------------------------
(* The inductive invariant. *)

Working == {"run", "persist", "dlq"}

(* The source, alone: what it dispatches is a message. *)
SourceInv ==
  MqttTypeOK /\ (spc = "dispatch" => held # NoMessage) /\ ReadyMeansSubscribed

(* A worker that works has a message; one that leaves has found its queue  *)
(* empty after the signal.                                                 *)
WorkerInv ==
  \A w \in Workers :
    /\ wpc[w] \in Working => hand[w] # NoMessage
    /\ wpc[w] = "leaving" => shutdown /\ Range(queues[w]) \subseteq late
    /\ wpc[w] = "gone" => queues[w] = <<>>

(* A message that is not done is somewhere. *)
JobInv ==
  /\ \A m \in Messages : job[m] = "lost" => m \in late
  /\ \A m \in Messages : job[m] = "queued" => \E w \in Workers : m \in Range(queues[w])
  /\ \A m \in Messages : job[m] = "running" =>
       \E w \in Workers : wpc[w] \in Working /\ hand[w] = m

PoolInv == PoolTypeOK /\ WorkerInv /\ JobInv

(* The sequence of main: signal, source, workers. *)
ShutdownInv ==
  /\ main \in {"serve", "join_source", "join_workers", "drain", "stopped"}
  /\ main # "serve" => shutdown
  /\ SendersDropped => SourceGone
  /\ main \in {"drain", "stopped"} => \A w \in Workers : wpc[w] = "gone"

IngestionInv == SourceInv /\ PoolInv /\ ShutdownInv

-----------------------------------------------------------------------------
(* Sequences. *)

LEMMA RangeOfAppend ==
  ASSUME NEW S, NEW q \in Seq(S), NEW m \in S
  PROVE  Range(Append(q, m)) = Range(q) \cup {m}
<1>1. /\ DOMAIN Append(q, m) = 1..(Len(q) + 1) /\ DOMAIN q = 1..Len(q) /\ Len(q) \in Nat
      /\ Append(q, m)[Len(q) + 1] = m
      /\ \A i \in 1..Len(q) : Append(q, m)[i] = q[i]
  OBVIOUS
<1>2. \A i \in 1..(Len(q) + 1) : i \in 1..Len(q) \/ i = Len(q) + 1
  BY <1>1
<1>3. 1..Len(q) \subseteq 1..(Len(q) + 1) /\ Len(q) + 1 \in 1..(Len(q) + 1)
  BY <1>1
<1> QED
  BY <1>1, <1>2, <1>3, Zenon DEF Range

LEMMA RangeOfTail ==
  ASSUME NEW S, NEW q \in Seq(S), q # <<>>
  PROVE  /\ Head(q) \in S /\ Tail(q) \in Seq(S) /\ Len(Tail(q)) = Len(q) - 1
         /\ Range(q) = {Head(q)} \cup Range(Tail(q))
<1>1. /\ DOMAIN Tail(q) = 1..(Len(q) - 1) /\ DOMAIN q = 1..Len(q) /\ Len(q) \in Nat \ {0}
      /\ q[1] = Head(q) /\ Head(q) \in S /\ Tail(q) \in Seq(S) /\ Len(Tail(q)) = Len(q) - 1
      /\ \A i \in 1..(Len(q) - 1) : Tail(q)[i] = q[i + 1]
  OBVIOUS
<1>2. ASSUME NEW x \in Range(q) PROVE x \in {Head(q)} \cup Range(Tail(q))
  <2>1. PICK i \in 1..Len(q) : q[i] = x
    BY <1>1 DEF Range
  <2>2. CASE i = 1
    BY <1>1, <2>1, <2>2
  <2>3. CASE i # 1
    <3>1. i - 1 \in 1..(Len(q) - 1) /\ (i - 1) + 1 = i
      BY <1>1, <2>1, <2>3
    <3>2. Tail(q)[i - 1] = x
      BY <1>1, <2>1, <3>1
    <3> QED
      BY <1>1, <3>1, <3>2 DEF Range
  <2> QED
    BY <2>2, <2>3
<1>3. ASSUME NEW x \in {Head(q)} \cup Range(Tail(q)) PROVE x \in Range(q)
  <2>1. CASE x = Head(q)
    BY <1>1, <2>1 DEF Range
  <2>2. CASE x \in Range(Tail(q))
    <3>1. PICK i \in 1..(Len(q) - 1) : Tail(q)[i] = x
      BY <1>1, <2>2 DEF Range
    <3>2. i + 1 \in 1..Len(q) /\ q[i + 1] = x
      BY <1>1, <3>1
    <3> QED
      BY <1>1, <3>2 DEF Range
  <2> QED
    BY <1>3, <2>1, <2>2
<1> QED
  BY <1>1, <1>2, <1>3

LEMMA RangeOfEmpty == Range(<<>>) = {}
  BY DEF Range

(* Round robin. *)
LEMMA NextIsWorker == ASSUME NEW k \in Workers PROVE (k + 1) % WorkerTotal \in Workers
  BY PoolAssumption DEF Workers

-----------------------------------------------------------------------------
LEMMA InitIngestion == Init => IngestionInv
<1> SUFFICES ASSUME Init PROVE IngestionInv
  OBVIOUS
<1> USE DEF Init, PoolInit, MqttInit
<1>1. PoolTypeOK
  BY PoolAssumption DEF PoolTypeOK, Workers, WorkerPlaces, JobStates
<1>2. MqttTypeOK
  <2>1. requests \in Seq(Messages \cup {Subscribe}) /\ Len(requests) <= RequestCapacity
    BY RequestCapacityAssumption
  <2>2. {subscribe_pending, ready, granted, refused} \subseteq BOOLEAN
    BY Zenon
  <2> QED
    BY <2>1, <2>2 DEF MqttTypeOK
<1>3. WorkerInv /\ ShutdownInv /\ JobInv /\ ReadyMeansSubscribed
  BY DEF WorkerInv, ShutdownInv, SendersDropped, JobInv, ReadyMeansSubscribed, Working
<1> QED
  BY <1>1, <1>2, <1>3 DEF IngestionInv, SourceInv, PoolInv

-----------------------------------------------------------------------------
(* The source. *)

LEMMA AfterEventKeeps ==
  ASSUME NEW m \in Messages \cup {NoMessage}, AfterEvent(m)
  PROVE  /\ held' \in Messages \cup {NoMessage}
         /\ spc' \in {"poll", "subscribe", "dispatch"}
         /\ spc' = "dispatch" => held' # NoMessage
<1>1. held' = m
  BY DEF AfterEvent
<1>2. CASE subscribe_pending'
  <2>1. spc' = "subscribe"
    BY <1>2, Zenon DEF AfterEvent
  <2> QED
    BY <1>1, <2>1
<1>3. CASE ~subscribe_pending' /\ m # NoMessage
  <2>1. spc' = "dispatch"
    BY <1>3, Zenon DEF AfterEvent
  <2> QED
    BY <1>1, <1>3, <2>1
<1>4. CASE ~subscribe_pending' /\ m = NoMessage
  <2>1. spc' = "poll"
    BY <1>4, Zenon DEF AfterEvent
  <2> QED
    BY <1>1, <1>4, <2>1
<1> QED
  BY <1>2, <1>3, <1>4, Zenon

LEMMA EventStep ==
  ASSUME SourceInv, NEW m \in Messages \cup {NoMessage},
         ConnAck \/ SendRequest \/ SubAck \/ DisconnectPacket \/ ReceivePublish(m)
  PROVE  SourceInv' /\ ~SourceGone /\ ~SourceGone'
<1> USE DEF SourceInv, MqttTypeOK
<1>1. spc = "poll" /\ ~SourceGone
  BY DEF ConnAck, SendRequest, SubAck, DisconnectPacket, ReceivePublish, SourceGone
<1>2. PICK message \in Messages \cup {NoMessage} : AfterEvent(message)
  BY DEF ConnAck, SendRequest, SubAck, DisconnectPacket, ReceivePublish
<1>3. /\ held' \in Messages \cup {NoMessage}
      /\ spc' \in {"poll", "subscribe", "dispatch"}
      /\ spc' = "dispatch" => held' # NoMessage
  BY <1>2, AfterEventKeeps
<1>4. ~SourceGone'
  BY <1>3 DEF SourceGone
<1>5. link' \in {"down", "up", "closing"}
  BY DEF ConnAck, SendRequest, SubAck, DisconnectPacket, ReceivePublish, connVars
<1>6. requests' \in Seq(Messages \cup {Subscribe}) /\ Len(requests') <= RequestCapacity
  <2>1. CASE SendRequest
    <3>1. requests' = Tail(requests) /\ requests # <<>>
      BY <2>1 DEF SendRequest
    <3>2. Len(requests) \in Nat /\ RequestCapacity \in Nat
      BY RequestCapacityAssumption
    <3> QED
      BY <3>1, <3>2, RangeOfTail
  <2>2. CASE requests' = requests
    BY <2>2
  <2> QED
    BY <2>1, <2>2 DEF ConnAck, SubAck, DisconnectPacket, ReceivePublish
<1>7. unanswered' \in Nat
  BY DEF ConnAck, SendRequest, SubAck, DisconnectPacket, ReceivePublish, connVars
<1>8. /\ {subscribe_pending', ready', granted', refused'} \subseteq BOOLEAN
      /\ ready' => granted' /\ link' = "up"
  <2>1. ready => granted /\ link = "up"
    BY <1>1, Zenon DEF ReadyMeansSubscribed
  <2>2. CASE ConnAck
    <3>1. ~ready
      BY <2>1, <2>2 DEF ConnAck
    <3> QED
      BY <2>2, <3>1, Zenon DEF ConnAck
  <2>3. CASE SendRequest
    <3>1. UNCHANGED <<subscribe_pending, ready, link, granted, refused>>
      BY <2>3, Zenon DEF SendRequest
    <3> QED
      BY <2>1, <3>1, Zenon
  <2>4. CASE SubAck
    <3>1. link' = "up" /\ subscribe_pending' = subscribe_pending
      BY <2>4, Zenon DEF SubAck
    <3>2. CASE ready' = TRUE /\ granted' = TRUE /\ refused' = refused
      BY <3>1, <3>2, Zenon
    <3>3. CASE refused' = TRUE /\ ready' = ready /\ granted' = granted
      BY <2>1, <3>1, <3>3, Zenon
    <3> QED
      BY <2>4, <3>2, <3>3 DEF SubAck
  <2>5. CASE DisconnectPacket
    BY <2>1, <2>5, Zenon DEF DisconnectPacket
  <2>6. CASE ReceivePublish(m)
    BY <2>1, <2>6, Zenon DEF ReceivePublish, connVars
  <2> QED
    BY <2>2, <2>3, <2>4, <2>5, <2>6
<1> QED
  BY <1>1, <1>3, <1>4, <1>5, <1>6, <1>7, <1>8, Zenon DEF ReadyMeansSubscribed

LEMMA LossStep ==
  ASSUME SourceInv, NEW how \in {"gone", "panicked"},
         PollFails \/ BackoffEnds \/ TrySubscribe
           \/ (spc \in {"poll", "backoff"} /\ TaskEnds(how))
  PROVE  SourceInv' /\ ~SourceGone
<1> USE DEF SourceInv, MqttTypeOK
<1>1. ~SourceGone
  BY DEF PollFails, BackoffEnds, TrySubscribe, SourceGone
<1>2. <<>> \in Seq(Messages \cup {Subscribe}) /\ Len(<<>>) = 0 /\ 0 <= RequestCapacity
  BY RequestCapacityAssumption
<1>3. CASE PollFails
  <2>1. requests' = requests \/ requests' = <<>>
    BY <1>3 DEF PollFails
  <2>2. /\ ready' = FALSE /\ granted' = FALSE /\ refused' = FALSE
        /\ subscribe_pending' = subscribe_pending
    BY <1>3, Zenon DEF PollFails
  <2>3. {subscribe_pending', ready', granted', refused'} \subseteq BOOLEAN /\ ReadyMeansSubscribed'
    BY <2>2, Zenon DEF ReadyMeansSubscribed
  <2>4. spc' = "backoff" /\ link' = "down" /\ unanswered' = 0 /\ held' = held
    BY <1>3 DEF PollFails
  <2> QED
    BY <1>1, <1>2, <2>1, <2>3, <2>4
<1>4. CASE BackoffEnds
  <2>1. UNCHANGED <<ready, granted, refused, subscribe_pending, link>> /\ spc' = "poll"
    BY <1>4 DEF BackoffEnds, connVars
  <2>2. {subscribe_pending', ready', granted', refused'} \subseteq BOOLEAN /\ ReadyMeansSubscribed'
    BY <1>1, <2>1, Zenon DEF ReadyMeansSubscribed
  <2>3. UNCHANGED <<held, requests, unanswered>>
    BY <1>4 DEF BackoffEnds, connVars
  <2> QED
    BY <1>1, <2>1, <2>2, <2>3
<1>5. CASE TrySubscribe
  <2>1. UNCHANGED <<ready, granted, refused, link, unanswered, held>>
    BY <1>5 DEF TrySubscribe, connVars
  <2>2. subscribe_pending' \in BOOLEAN
    BY <1>5, Zenon DEF TrySubscribe
  <2>3. {subscribe_pending', ready', granted', refused'} \subseteq BOOLEAN /\ ReadyMeansSubscribed'
    BY <1>1, <2>1, <2>2, Zenon DEF ReadyMeansSubscribed
  <2>4. spc' \in {"poll", "dispatch"} /\ (spc' = "dispatch" => held' # NoMessage)
    BY <1>5, <2>1 DEF TrySubscribe, HandedOver
  <2>5. requests' \in Seq(Messages \cup {Subscribe}) /\ Len(requests') <= RequestCapacity
    BY <1>5, RequestCapacityAssumption DEF TrySubscribe, RequestFits
  <2> QED
    BY <1>1, <2>1, <2>3, <2>4, <2>5
<1>6. CASE TaskEnds(how)
  <2>1. /\ granted' = FALSE /\ refused' = FALSE /\ subscribe_pending' = FALSE /\ ready' = ready
        /\ SourceGone'
    BY <1>6, Zenon DEF TaskEnds, SourceGone
  <2>2. {subscribe_pending', ready', granted', refused'} \subseteq BOOLEAN /\ ReadyMeansSubscribed'
    BY <2>1, Zenon DEF ReadyMeansSubscribed
  <2>3. /\ spc' = how /\ link' = "down" /\ unanswered' = 0 /\ held' = held
        /\ requests' = <<>>
    BY <1>6 DEF TaskEnds
  <2> QED
    BY <1>1, <1>2, <2>2, <2>3
<1> QED
  BY <1>3, <1>4, <1>5, <1>6

-----------------------------------------------------------------------------
(* The queues and the workers. *)

LEMMA DispatchStep == ASSUME PoolInv, NEW m \in Messages, Dispatch(m) PROVE PoolInv'
<1> USE DEF PoolInv
<1>1. /\ queues \in [Workers -> Seq(Messages)] /\ next \in Workers
      /\ job \in [Messages -> JobStates] /\ late \subseteq Messages
      /\ UNCHANGED <<wpc, hand, shutdown>>
  BY DEF PoolTypeOK, Dispatch
<1>2. next' \in Workers
  BY <1>1, NextIsWorker DEF Dispatch
<1>3. late' \subseteq Messages /\ late \subseteq late' /\ (shutdown => m \in late')
  BY <1>1, Zenon DEF Dispatch
<1>4. CASE HasRoom(next) /\ queues' = [queues EXCEPT ![next] = Append(@, m)]
           /\ job' = [job EXCEPT ![m] = "queued"]
  <2>1. /\ Append(queues[next], m) \in Seq(Messages)
        /\ Len(Append(queues[next], m)) = Len(queues[next]) + 1
        /\ Range(Append(queues[next], m)) = Range(queues[next]) \cup {m}
    BY <1>1, RangeOfAppend
  <2>2. /\ queues' \in [Workers -> Seq(Messages)]
        /\ \A w \in Workers : w # next => queues'[w] = queues[w]
        /\ queues'[next] = Append(queues[next], m)
    BY <1>1, <1>4, <2>1
  <2>3. PoolTypeOK'
    <3>1. \A w \in Workers : Len(queues'[w]) <= PerWorkerCap
      BY <1>1, <1>4, <2>1, <2>2, PoolAssumption DEF HasRoom, PoolTypeOK
    <3>2. job' \in [Messages -> JobStates]
      BY <1>1, <1>4 DEF JobStates
    <3> QED
      BY <1>1, <1>2, <1>3, <2>2, <3>1, <3>2 DEF PoolTypeOK
  <2>4. WorkerInv'
    <3> SUFFICES ASSUME NEW w \in Workers
                 PROVE  /\ wpc[w] \in Working => hand[w] # NoMessage
                        /\ wpc[w] = "leaving" => shutdown /\ Range(queues'[w]) \subseteq late'
                        /\ wpc[w] = "gone" => queues'[w] = <<>>
      BY <1>1 DEF WorkerInv
    <3>1. CASE w = next
      BY <1>3, <1>4, <2>1, <2>2, <3>1 DEF WorkerInv, HasRoom
    <3>2. CASE w # next
      BY <1>3, <2>2, <3>2 DEF WorkerInv
    <3> QED
      BY <3>1, <3>2
  <2>5. JobInv'
    <3>1. \A k \in Messages : job'[k] = IF k = m THEN "queued" ELSE job[k]
      BY <1>1, <1>4
    <3>2. \A w \in Workers : Range(queues[w]) \subseteq Range(queues'[w])
      BY <2>1, <2>2
    <3>3. m \in Range(queues'[next])
      BY <2>1, <2>2
    <3> QED
      BY <1>1, <1>3, <3>1, <3>2, <3>3 DEF JobInv
  <2> QED
    BY <2>3, <2>4, <2>5
<1>5. CASE job' = [job EXCEPT ![m] = "rejected"] /\ UNCHANGED queues
  <2>1. PoolTypeOK'
    BY <1>1, <1>2, <1>3, <1>5 DEF PoolTypeOK, JobStates
  <2>2. WorkerInv'
    BY <1>1, <1>3, <1>5 DEF WorkerInv
  <2>3. JobInv'
    BY <1>1, <1>3, <1>5 DEF JobInv
  <2> QED
    BY <2>1, <2>2, <2>3
<1> QED
  BY <1>4, <1>5 DEF Dispatch

LEMMA TakeStep ==
  ASSUME PoolInv, NEW w \in Workers, wpc[w] \in {"check", "select"}, Take(w)
  PROVE  PoolInv'
<1> USE DEF PoolInv
<1> DEFINE m == Head(queues[w])
<1>1. /\ queues \in [Workers -> Seq(Messages)] /\ wpc \in [Workers -> WorkerPlaces]
      /\ hand \in [Workers -> Messages \cup {NoMessage}] /\ job \in [Messages -> JobStates]
      /\ queues[w] # <<>> /\ UNCHANGED <<next, late, shutdown>>
      /\ hand' = [hand EXCEPT ![w] = m] /\ job' = [job EXCEPT ![m] = "running"]
      /\ queues' = [queues EXCEPT ![w] = Tail(@)] /\ wpc' = [wpc EXCEPT ![w] = "run"]
  BY DEF PoolTypeOK, Take, GoesTo
<1>2. /\ m \in Messages /\ Tail(queues[w]) \in Seq(Messages)
      /\ Len(Tail(queues[w])) = Len(queues[w]) - 1 /\ Len(queues[w]) \in Nat
      /\ Range(queues[w]) = {m} \cup Range(Tail(queues[w]))
  BY <1>1, RangeOfTail
<1>3. \A v \in Workers :
        /\ v = w => queues'[v] = Tail(queues[w]) /\ hand'[v] = m /\ wpc'[v] = "run"
        /\ v # w => queues'[v] = queues[v] /\ hand'[v] = hand[v] /\ wpc'[v] = wpc[v]
  BY <1>1
<1>4. \A k \in Messages : job'[k] = IF k = m THEN "running" ELSE job[k]
  BY <1>1, <1>2
<1> HIDE DEF m
<1>5. PoolTypeOK'
  <2>1. \A v \in Workers : Len(queues'[v]) <= PerWorkerCap
    BY <1>2, <1>3, PoolAssumption DEF PoolTypeOK
  <2>2. queues' \in [Workers -> Seq(Messages)] /\ hand' \in [Workers -> Messages \cup {NoMessage}]
    BY <1>1, <1>2
  <2>3. wpc' \in [Workers -> WorkerPlaces] /\ job' \in [Messages -> JobStates]
    BY <1>1, <1>2 DEF WorkerPlaces, JobStates
  <2> QED
    BY <1>1, <2>1, <2>2, <2>3 DEF PoolTypeOK
<1>6. WorkerInv'
  BY <1>1, <1>2, <1>3, NoMessageAssumption DEF WorkerInv, Working
<1>7. JobInv'
  <2>1. ASSUME NEW k \in Messages, job'[k] = "lost" PROVE k \in late'
    BY <1>1, <1>4, <2>1 DEF JobInv
  <2>2. ASSUME NEW k \in Messages, job'[k] = "queued"
        PROVE  \E v \in Workers : k \in Range(queues'[v])
    <3>1. k # m /\ job[k] = "queued"
      BY <1>4, <2>2
    <3>2. PICK v \in Workers : k \in Range(queues[v])
      BY <3>1 DEF JobInv
    <3>3. k \in Range(queues'[v])
      BY <1>2, <1>3, <3>1, <3>2
    <3> QED
      BY <3>3
  <2>3. ASSUME NEW k \in Messages, job'[k] = "running"
        PROVE  \E v \in Workers : wpc'[v] \in Working /\ hand'[v] = k
    <3>1. CASE k = m
      BY <1>3, <3>1 DEF Working
    <3>2. CASE k # m
      <4>1. PICK v \in Workers : wpc[v] \in Working /\ hand[v] = k
        BY <1>4, <2>3, <3>2 DEF JobInv
      <4>2. v # w
        BY <4>1 DEF Working
      <4> QED
        BY <1>3, <4>1, <4>2
    <3> QED
      BY <3>1, <3>2
  <2> QED
    BY <2>1, <2>2, <2>3 DEF JobInv
<1> QED
  BY <1>5, <1>6, <1>7

LEMMA LeaveStep == ASSUME PoolInv, NEW w \in Workers, Leave(w) PROVE PoolInv'
<1> USE DEF PoolInv
<1>1. /\ queues \in [Workers -> Seq(Messages)] /\ wpc \in [Workers -> WorkerPlaces]
      /\ wpc[w] = "leaving" /\ UNCHANGED <<next, hand, late, shutdown>>
      /\ job' = [m \in Messages |-> IF m \in Range(queues[w]) THEN "lost" ELSE job[m]]
      /\ queues' = [queues EXCEPT ![w] = <<>>] /\ wpc' = [wpc EXCEPT ![w] = "gone"]
  BY DEF PoolTypeOK, Leave, GoesTo
<1>2. \A v \in Workers :
        /\ v = w => queues'[v] = <<>> /\ wpc'[v] = "gone"
        /\ v # w => queues'[v] = queues[v] /\ wpc'[v] = wpc[v]
  BY <1>1
<1>3. Range(queues[w]) \subseteq late
  BY <1>1 DEF WorkerInv
<1>4. PoolTypeOK'
  <2>1. \A v \in Workers : Len(queues'[v]) <= PerWorkerCap
    BY <1>2, PoolAssumption DEF PoolTypeOK
  <2>2. queues' \in [Workers -> Seq(Messages)] /\ wpc' \in [Workers -> WorkerPlaces]
    BY <1>1 DEF WorkerPlaces
  <2>3. job' \in [Messages -> JobStates]
    BY <1>1 DEF JobStates, PoolTypeOK
  <2> QED
    BY <1>1, <2>1, <2>2, <2>3 DEF PoolTypeOK
<1>5. WorkerInv'
  BY <1>1, <1>2 DEF WorkerInv, Working
<1>6. JobInv'
  <2>1. ASSUME NEW k \in Messages, job'[k] = "lost" PROVE k \in late'
    BY <1>1, <1>3, <2>1 DEF JobInv
  <2>2. ASSUME NEW k \in Messages, job'[k] = "queued"
        PROVE  \E v \in Workers : k \in Range(queues'[v])
    <3>1. job[k] = "queued" /\ k \notin Range(queues[w])
      BY <1>1, <2>2
    <3>2. PICK v \in Workers : k \in Range(queues[v])
      BY <3>1 DEF JobInv
    <3> QED
      BY <1>2, <3>1, <3>2
  <2>3. ASSUME NEW k \in Messages, job'[k] = "running"
        PROVE  \E v \in Workers : wpc'[v] \in Working /\ hand'[v] = k
    <3>1. job[k] = "running"
      BY <1>1, <2>3
    <3>2. PICK v \in Workers : wpc[v] \in Working /\ hand[v] = k
      BY <3>1 DEF JobInv
    <3>3. v # w
      BY <1>1, <3>2 DEF Working
    <3> QED
      BY <1>1, <1>2, <3>2, <3>3
  <2> QED
    BY <2>1, <2>2, <2>3 DEF JobInv
<1> QED
  BY <1>4, <1>5, <1>6

LEMMA EndsStep ==
  ASSUME PoolInv, NEW w \in Workers, wpc[w] \in Working,
         NEW outcome \in {"persisted", "dlq_queued", "dlq_failed"}, Ends(w, outcome),
         UNCHANGED <<next, queues, late, shutdown>>
  PROVE  PoolInv'
<1> USE DEF PoolInv
<1>1. /\ wpc \in [Workers -> WorkerPlaces] /\ hand \in [Workers -> Messages \cup {NoMessage}]
      /\ job \in [Messages -> JobStates] /\ hand[w] \in Messages
      /\ hand' = [hand EXCEPT ![w] = NoMessage] /\ job' = [job EXCEPT ![hand[w]] = outcome]
      /\ wpc' = [wpc EXCEPT ![w] = "check"]
  BY DEF PoolTypeOK, WorkerInv, Ends, GoesTo
<1>2. \A v \in Workers :
        /\ v = w => wpc'[v] = "check"
        /\ v # w => hand'[v] = hand[v] /\ wpc'[v] = wpc[v]
  BY <1>1
<1>3. \A k \in Messages : job'[k] = IF k = hand[w] THEN outcome ELSE job[k]
  BY <1>1
<1>4. PoolTypeOK'
  <2>1. job' \in [Messages -> JobStates]
    BY <1>1 DEF JobStates
  <2>2. wpc' \in [Workers -> WorkerPlaces] /\ hand' \in [Workers -> Messages \cup {NoMessage}]
    BY <1>1 DEF WorkerPlaces
  <2> QED
    BY <2>1, <2>2 DEF PoolTypeOK
<1>5. WorkerInv'
  BY <1>2 DEF WorkerInv, Working
<1>6. JobInv'
  <2>1. ASSUME NEW k \in Messages, job'[k] = "running"
        PROVE  \E v \in Workers : wpc'[v] \in Working /\ hand'[v] = k
    <3>1. k # hand[w] /\ job[k] = "running"
      BY <1>3, <2>1
    <3>2. PICK v \in Workers : wpc[v] \in Working /\ hand[v] = k
      BY <3>1 DEF JobInv
    <3> QED
      BY <1>2, <3>1, <3>2
  <2> QED
    BY <1>3, <2>1 DEF JobInv
<1> QED
  BY <1>4, <1>5, <1>6

(* A worker goes on, with its message or without one. *)
LEMMA MoveStep ==
  ASSUME PoolInv, NEW w \in Workers, NEW place, GoesTo(w, place),
         UNCHANGED <<next, queues, hand, job, late, shutdown>>,
         \/ wpc[w] \in Working /\ place \in Working
         \/ wpc[w] \in {"check", "select"} /\ place \in {"check", "select"}
         \/ /\ wpc[w] \in {"check", "select"} /\ place = "leaving"
            /\ shutdown /\ queues[w] = <<>>
  PROVE  PoolInv'
<1> USE DEF PoolInv
<1>1. /\ wpc \in [Workers -> WorkerPlaces] /\ wpc' = [wpc EXCEPT ![w] = place]
      /\ place \in WorkerPlaces
  BY DEF PoolTypeOK, GoesTo, Working, WorkerPlaces
<1>2. \A v \in Workers : wpc'[v] = IF v = w THEN place ELSE wpc[v]
  BY <1>1
<1>3. PoolTypeOK'
  BY <1>1 DEF PoolTypeOK
<1>4. WorkerInv'
  <2> SUFFICES ASSUME NEW v \in Workers
               PROVE  /\ wpc'[v] \in Working => hand[v] # NoMessage
                      /\ wpc'[v] = "leaving" => shutdown /\ Range(queues[v]) \subseteq late
                      /\ wpc'[v] = "gone" => queues[v] = <<>>
    BY DEF WorkerInv
  <2>1. CASE v # w
    BY <1>2, <2>1 DEF WorkerInv
  <2>2. CASE v = w
    BY <1>2, <2>2, RangeOfEmpty DEF WorkerInv, Working
  <2> QED
    BY <2>1, <2>2
<1>5. JobInv'
  BY <1>2 DEF JobInv, Working
<1> QED
  BY <1>3, <1>4, <1>5

(* What a worker does: it is not gone, and its own place is all that       *)
(* changes of the places.                                                  *)
LEMMA WorkerStep ==
  ASSUME PoolInv, SourceInv, NEW w \in Workers, Worker(w), SendersDropped => shutdown
  PROVE  /\ PoolInv' /\ SourceInv' /\ wpc[w] # "gone" /\ shutdown' = shutdown
         /\ (SourceGone' <=> SourceGone)
<1>1. CASE RecvWorkerJob(w)
  <2>1. SourceInv' /\ (SourceGone' <=> SourceGone)
    BY <1>1 DEF RecvWorkerJob, mqttVars, connVars, SourceInv, MqttTypeOK, ReadyMeansSubscribed,
                SourceGone
  <2>2. CASE WaitForJob(w)
    BY <2>1, <2>2, MoveStep DEF WaitForJob
  <2>3. CASE TryRecv(w)
    BY <2>1, <2>3, MoveStep, TakeStep DEF TryRecv, Take
  <2>4. CASE Recv(w)
    BY <2>1, <2>4, TakeStep DEF Recv, Take
  <2>5. CASE SeesSignal(w)
    BY <2>1, <2>5, MoveStep DEF SeesSignal
  <2>6. CASE SeesClosed(w, SendersDropped)
    BY <2>1, <2>6, MoveStep DEF SeesClosed
  <2>7. CASE Leave(w)
    BY <2>1, <2>7, LeaveStep DEF Leave
  <2> QED
    BY <1>1, <2>2, <2>3, <2>4, <2>5, <2>6, <2>7 DEF RecvWorkerJob
<1>2. CASE RunStages(w) \/ Persisted(w) \/ PersistFails(w)
  <2>1. SourceInv' /\ (SourceGone' <=> SourceGone)
    BY <1>2 DEF RunStages, Persisted, PersistFails, mqttVars, connVars, SourceInv, MqttTypeOK,
                ReadyMeansSubscribed, SourceGone
  <2>2. CASE RunStages(w)
    <3>1. PICK place \in {"persist", "dlq"} : GoesTo(w, place)
      BY <2>2 DEF RunStages
    <3> QED
      BY <2>1, <2>2, <3>1, MoveStep DEF RunStages, Working
  <2>3. CASE Persisted(w)
    BY <2>1, <2>3, EndsStep DEF Persisted, Working
  <2>4. CASE PersistFails(w)
    BY <2>1, <2>4, MoveStep DEF PersistFails, Working
  <2> QED
    BY <1>2, <2>2, <2>3, <2>4
<1>3. CASE DlqPublish(w)
  <2>1. /\ wpc[w] = "dlq" /\ UNCHANGED <<next, queues, late, shutdown>>
        /\ UNCHANGED <<spc, held, subscribe_pending, ready, connVars>>
        /\ \/ ~SourceGone /\ RequestFits /\ requests' = Append(requests, hand[w])
              /\ Ends(w, "dlq_queued")
           \/ Ends(w, "dlq_failed") /\ UNCHANGED requests
    BY <1>3 DEF DlqPublish
  <2>2. PoolInv'
    BY <2>1, EndsStep DEF Working
  <2>3. hand[w] \in Messages
    BY <2>1 DEF PoolInv, WorkerInv, PoolTypeOK, Working
  <2>4. requests' \in Seq(Messages \cup {Subscribe}) /\ Len(requests') <= RequestCapacity
    BY <2>1, <2>3, RequestCapacityAssumption DEF RequestFits, SourceInv, MqttTypeOK
  <2>5. SourceInv' /\ (SourceGone' <=> SourceGone)
    BY <2>1, <2>4 DEF connVars, SourceInv, MqttTypeOK, ReadyMeansSubscribed, SourceGone
  <2> QED
    BY <2>1, <2>2, <2>5
<1> QED
  BY <1>1, <1>2, <1>3 DEF Worker, RunPipeline

-----------------------------------------------------------------------------
(* main *)
LEMMA MainStep ==
  ASSUME IngestionInv, Signal \/ Main
  PROVE  IngestionInv'
<1> USE DEF IngestionInv
<1>1. CASE Signal
  <2>1. shutdown' = TRUE /\ main' = "join_source" /\ UNCHANGED <<next, queues, wpc, hand, job, late>>
    BY <1>1, Zenon DEF Signal
  <2>2. PoolInv'
    <3>1. PoolTypeOK' BY <2>1 DEF PoolInv, PoolTypeOK
    <3>2. WorkerInv' BY <2>1 DEF PoolInv, WorkerInv
    <3>3. JobInv' BY <2>1 DEF PoolInv, JobInv
    <3> QED BY <3>1, <3>2, <3>3 DEF PoolInv
  <2>3. SourceInv'
    BY <1>1 DEF Signal, mqttVars, connVars, SourceInv, MqttTypeOK, ReadyMeansSubscribed, SourceGone
  <2>4. ShutdownInv'
    BY <2>1 DEF ShutdownInv, SendersDropped
  <2> QED
    BY <2>2, <2>3, <2>4
<1>2. CASE SourceEnded \/ JoinSource
  <2>1. /\ SourceGone /\ main' = "join_workers" /\ ready' = (ready /\ spc # "panicked")
        /\ UNCHANGED <<spc, held, requests, subscribe_pending, connVars>>
        /\ UNCHANGED <<next, queues, wpc, hand, job, late>>
    BY <1>2, Zenon DEF SourceEnded, JoinSource, JoinedSource, poolVars
  <2>2. shutdown' = TRUE
    <3>1. CASE SourceEnded BY <3>1, Zenon DEF SourceEnded
    <3>2. CASE JoinSource
      <4>1. shutdown' = shutdown /\ main = "join_source"
        BY <3>2, Zenon DEF JoinSource, poolVars
      <4>2. main # "serve"
        BY <4>1
      <4>3. shutdown
        BY <4>2, Zenon DEF ShutdownInv
      <4>4. shutdown \in BOOLEAN
        BY Zenon DEF PoolInv, PoolTypeOK
      <4> QED BY <4>1, <4>3, <4>4, Zenon
    <3> QED BY <1>2, <3>1, <3>2
  <2>3. PoolInv'
    <3>1. PoolTypeOK' BY <2>1, <2>2 DEF PoolInv, PoolTypeOK
    <3>2. WorkerInv' BY <2>1, <2>2 DEF PoolInv, WorkerInv
    <3>3. JobInv' BY <2>1 DEF PoolInv, JobInv
    <3> QED BY <3>1, <3>2, <3>3 DEF PoolInv
  <2>4. SourceInv'
    <3>1. SourceGone' BY <2>1 DEF SourceGone
    <3>2. ready' \in BOOLEAN BY <2>1, Zenon
    <3>3. MqttTypeOK' BY <2>1, <3>2 DEF SourceInv, MqttTypeOK, connVars
    <3>4. ReadyMeansSubscribed' BY <3>1, Zenon DEF ReadyMeansSubscribed
    <3> QED BY <2>1, <3>3, <3>4 DEF SourceInv
  <2>5. ShutdownInv'
    BY <2>1, <2>2 DEF ShutdownInv, SendersDropped, SourceGone
  <2> QED
    BY <2>3, <2>4, <2>5
<1>3. CASE JoinWorkers \/ Drained
  <2>1. UNCHANGED <<poolVars, mqttVars>>
    BY <1>3 DEF JoinWorkers, Drained
  <2>2. PoolInv'
    <3>1. PoolTypeOK' BY <2>1 DEF PoolInv, PoolTypeOK, poolVars
    <3>2. WorkerInv' BY <2>1 DEF PoolInv, WorkerInv, poolVars
    <3>3. JobInv' BY <2>1 DEF PoolInv, JobInv, poolVars
    <3> QED BY <3>1, <3>2, <3>3 DEF PoolInv
  <2>3. SourceInv'
    BY <2>1 DEF mqttVars, connVars, SourceInv, MqttTypeOK, ReadyMeansSubscribed, SourceGone
  <2>4. ShutdownInv'
    BY <1>3, <2>1 DEF JoinWorkers, Drained, ShutdownInv, SendersDropped, SourceGone, poolVars,
                      mqttVars
  <2> QED
    BY <2>2, <2>3, <2>4
<1> QED
  BY <1>1, <1>2, <1>3 DEF Main

LEMMA StepIngestion == IngestionInv /\ [Next]_vars => IngestionInv'
<1> SUFFICES ASSUME IngestionInv, [Next]_vars PROVE IngestionInv'
  OBVIOUS
<1> USE DEF IngestionInv
<1>1. ASSUME UNCHANGED poolVars PROVE PoolInv'
  <2>1. PoolTypeOK' BY <1>1 DEF PoolInv, PoolTypeOK, poolVars
  <2>2. WorkerInv' BY <1>1 DEF PoolInv, WorkerInv, poolVars
  <2>3. JobInv' BY <1>1 DEF PoolInv, JobInv, poolVars
  <2> QED BY <2>1, <2>2, <2>3 DEF PoolInv
<1>2. CASE SourceLoop \/ SourceReceives \/ SourceSeesShutdown \/ SourceFails
  <2>1. UNCHANGED <<poolVars, main>>
    BY <1>2 DEF SourceLoop, SourceReceives, SourceSeesShutdown, SourceFails
  <2>2. SourceInv' /\ ~SourceGone
    <3>1. CASE SourceLoop
      BY <3>1, EventStep, LossStep DEF SourceLoop, SourceEvent
    <3>2. CASE SourceReceives
      BY <3>2, EventStep DEF SourceReceives
    <3>3. CASE SourceSeesShutdown \/ SourceFails
      BY <3>3, LossStep DEF SourceSeesShutdown, SourceStops, SourceFails, SourcePanics
    <3> QED
      BY <1>2, <3>1, <3>2, <3>3
  <2>3. ShutdownInv'
    BY <2>1, <2>2 DEF ShutdownInv, SendersDropped, poolVars
  <2> QED
    BY <1>1, <2>1, <2>2, <2>3
<1>3. CASE SourceDispatches
  <2>1. /\ spc = "dispatch" /\ Dispatch(held) /\ held' = NoMessage /\ spc' = "poll"
        /\ UNCHANGED <<requests, subscribe_pending, ready, link, unanswered, granted, refused, main>>
    BY <1>3 DEF SourceDispatches, connVars
  <2>2. held \in Messages
    BY <2>1 DEF SourceInv, MqttTypeOK
  <2>3. PoolInv'
    BY <2>1, <2>2, DispatchStep
  <2>4. ~SourceGone /\ ~SourceGone'
    BY <2>1 DEF SourceGone
  <2>5. ReadyMeansSubscribed'
    BY <2>1, <2>4, Zenon DEF ReadyMeansSubscribed, SourceInv
  <2>6. MqttTypeOK'
    BY <2>1 DEF SourceInv, MqttTypeOK
  <2>7. SourceInv'
    BY <2>1, <2>5, <2>6 DEF SourceInv
  <2>8. ShutdownInv'
    BY <2>1, <2>4 DEF ShutdownInv, SendersDropped, Dispatch
  <2> QED
    BY <2>3, <2>7, <2>8
<1>4. ASSUME NEW w \in Workers, Worker(w) PROVE IngestionInv'
  <2>1. SendersDropped => shutdown
    BY DEF ShutdownInv, SendersDropped
  <2>2. /\ PoolInv' /\ SourceInv' /\ wpc[w] # "gone" /\ shutdown' = shutdown
        /\ (SourceGone' <=> SourceGone) /\ main' = main
    BY <1>4, <2>1, WorkerStep DEF Worker
  <2>3. main \notin {"drain", "stopped"}
    BY <2>2 DEF ShutdownInv
  <2>4. ShutdownInv'
    BY <2>2, <2>3 DEF ShutdownInv, SendersDropped
  <2> QED
    BY <2>2, <2>4
<1>5. CASE Signal \/ Main
  BY <1>5, MainStep
<1>6. CASE UNCHANGED vars
  <2>1. UNCHANGED <<poolVars, mqttVars, main>>
    BY <1>6 DEF vars
  <2>2. SourceInv'
    BY <2>1 DEF mqttVars, connVars, SourceInv, MqttTypeOK, ReadyMeansSubscribed, SourceGone
  <2>3. ShutdownInv'
    BY <2>1 DEF ShutdownInv, SendersDropped, SourceGone, poolVars, mqttVars
  <2> QED
    BY <1>1, <2>1, <2>2, <2>3
<1> QED
  BY <1>2, <1>3, <1>4, <1>5, <1>6 DEF Next, Source

LEMMA InvariantHolds == Spec => []IngestionInv
  BY InitIngestion, StepIngestion, PTL DEF Spec

-----------------------------------------------------------------------------
(* Queues and the request channel never exceed their capacity, and each    *)
(* part keeps its type: IngestionTypeOK.                                   *)
THEOREM IngestionIsTypeCorrect == Spec => []IngestionTypeOK
<1>1. IngestionInv => IngestionTypeOK
  BY DEF IngestionInv, SourceInv, PoolInv, ShutdownInv, IngestionTypeOK
<1> QED
  BY <1>1, InvariantHolds, PTL

(* /readyz is truthful: ReadyMeansSubscribed, whatever the connections do  *)
(* and however full the request channel is.                                *)
THEOREM ReadinessIsTruthful == Spec => []ReadyMeansSubscribed
<1>1. IngestionInv => ReadyMeansSubscribed
  BY DEF IngestionInv, SourceInv
<1> QED
  BY <1>1, InvariantHolds, PTL

(* A normal stop settles what was queued before the signal:                *)
(* BacklogIsSettled, for any number of workers and messages.               *)
THEOREM ShutdownSettlesTheBacklog == Spec => []BacklogIsSettled
<1>1. IngestionInv => BacklogIsSettled
  <2> SUFFICES ASSUME IngestionInv PROVE BacklogIsSettled
    OBVIOUS
  <2>1. ASSUME main = "stopped", NEW m \in Messages PROVE job[m] \notin {"queued", "running"}
    <3>1. \A w \in Workers : wpc[w] = "gone" /\ queues[w] = <<>>
      BY <2>1 DEF IngestionInv, ShutdownInv, PoolInv, WorkerInv
    <3>2. job[m] # "queued"
      BY <3>1, RangeOfEmpty DEF IngestionInv, PoolInv, JobInv
    <3>3. job[m] # "running"
      BY <3>1 DEF IngestionInv, PoolInv, JobInv, Working
    <3> QED
      BY <3>2, <3>3
  <2> QED
    BY <2>1 DEF BacklogIsSettled, IngestionInv, PoolInv, JobInv
<1> QED
  BY <1>1, InvariantHolds, PTL

-----------------------------------------------------------------------------
(* The jobs, one by one: what JobInv says of a job, the other way round. A  *)
(* job stands once in one queue, and is in the hand of one worker.          *)

QueuesInv ==
  /\ \A w \in Workers :
       IsInjective(queues[w]) /\ \A m \in Range(queues[w]) : job[m] = "queued"
  /\ \A v, w \in Workers : v # w => Range(queues[v]) \cap Range(queues[w]) = {}

HandsInv ==
  /\ \A w \in Workers : wpc[w] \in Working => job[hand[w]] = "running"
  /\ \A v, w \in Workers :
       v # w /\ wpc[v] \in Working /\ wpc[w] \in Working => hand[v] # hand[w]

OnceInv == QueuesInv /\ HandsInv

(* What the source holds has not been dispatched. *)
HeldInv ==
  held # NoMessage => job[held] = "new" /\ spc \in {"subscribe", "dispatch"}

LEMMA AppendIsInjective ==
  ASSUME NEW S, NEW q \in Seq(S), NEW m \in S, IsInjective(q), m \notin Range(q)
  PROVE  IsInjective(Append(q, m))
<1> DEFINE n == Len(q)
           r == Append(q, m)
<1>1. /\ n \in Nat /\ DOMAIN q = 1..n /\ DOMAIN r = 1..(n + 1)
      /\ r[n + 1] = m /\ \A i \in 1..n : r[i] = q[i]
  OBVIOUS
<1>2. \A i \in 1..n : q[i] # m
  BY <1>1 DEF Range
<1>3. \A i \in 1..(n + 1) : i \in 1..n \/ i = n + 1
  BY <1>1
<1>4. \A i, k \in 1..n : q[i] = q[k] => i = k
  BY <1>1 DEF IsInjective
<1> HIDE DEF n, r
<1>5. \A i, k \in 1..(n + 1) : r[i] = r[k] => i = k
  BY <1>1, <1>2, <1>3, <1>4
<1> QED
  BY <1>1, <1>5 DEF IsInjective, r

LEMMA TailIsInjective ==
  ASSUME NEW S, NEW q \in Seq(S), q # <<>>, IsInjective(q)
  PROVE  IsInjective(Tail(q)) /\ Head(q) \notin Range(Tail(q))
<1> DEFINE n == Len(q)
           r == Tail(q)
<1>1. /\ n \in Nat \ {0} /\ DOMAIN q = 1..n /\ DOMAIN r = 1..(n - 1)
      /\ Head(q) = q[1] /\ \A i \in 1..(n - 1) : r[i] = q[i + 1]
  OBVIOUS
<1>2. \A i, k \in 1..n : q[i] = q[k] => i = k
  BY <1>1 DEF IsInjective
<1>3. \A i \in 1..(n - 1) : i + 1 \in 1..n /\ i + 1 # 1
  BY <1>1
<1>4. 1 \in 1..n
  BY <1>1
<1>5. \A i, k \in 1..(n - 1) : i + 1 = k + 1 => i = k
  BY <1>1
<1> HIDE DEF n, r
<1>6. \A i, k \in 1..(n - 1) : r[i] = r[k] => i = k
  BY <1>1, <1>2, <1>3, <1>5
<1>7. \A i \in 1..(n - 1) : r[i] # Head(q)
  BY <1>1, <1>2, <1>3, <1>4
<1> QED
  BY <1>1, <1>6, <1>7 DEF IsInjective, Range, r

LEMMA EmptyIsInjective == IsInjective(<<>>)
  BY DEF IsInjective

-----------------------------------------------------------------------------
(* Each step of the queues and the workers is one of the ledger.            *)

LedgerStep == [Ledger!Next]_(Ledger!ledgerVars)

(* A job that is new stays new, but for the one that is dispatched.         *)
NewStays == \A m \in Messages : job[m] = "new" => job'[m] = "new"

LEMMA DispatchOnce ==
  ASSUME PoolInv, OnceInv, NEW m \in Messages, job[m] = "new", Dispatch(m)
  PROVE  OnceInv' /\ Ledger!Dispatch(m)
<1> USE DEF PoolInv
<1>1. /\ queues \in [Workers -> Seq(Messages)] /\ next \in Workers
      /\ job \in [Messages -> JobStates] /\ UNCHANGED <<wpc, hand, shutdown>>
  BY DEF PoolTypeOK, Dispatch
<1>2. PICK to \in {"queued", "rejected"} : job' = [job EXCEPT ![m] = to]
  BY DEF Dispatch
<1>3. Ledger!Dispatch(m)
  <2>1. late' = IF shutdown THEN late \cup {m} ELSE late
    BY DEF Dispatch
  <2> QED
    BY <1>1, <1>2, <2>1 DEF Ledger!Dispatch, Ledger!Move
<1>4. \A k \in Messages : job'[k] = IF k = m THEN to ELSE job[k]
  BY <1>1, <1>2
<1>5. \A w \in Workers : Range(queues[w]) \subseteq Messages /\ m \notin Range(queues[w])
  BY <1>1 DEF OnceInv, QueuesInv, Range
<1>6. HandsInv'
  <2>1. \A w \in Workers : wpc[w] \in Working => hand[w] \in Messages /\ hand[w] # m
    BY DEF OnceInv, HandsInv, WorkerInv, PoolTypeOK
  <2> QED
    BY <1>1, <1>4, <2>1 DEF OnceInv, HandsInv
<1>7. CASE UNCHANGED queues
  BY <1>4, <1>5, <1>6, <1>7, <1>3 DEF OnceInv, QueuesInv
<1>8. CASE queues' = [queues EXCEPT ![next] = Append(@, m)] /\ job' = [job EXCEPT ![m] = "queued"]
  <2>1. /\ Range(Append(queues[next], m)) = Range(queues[next]) \cup {m}
        /\ IsInjective(Append(queues[next], m))
    BY <1>1, <1>5, RangeOfAppend, AppendIsInjective DEF OnceInv, QueuesInv
  <2>2. /\ \A w \in Workers : w # next => queues'[w] = queues[w]
        /\ queues'[next] = Append(queues[next], m)
    BY <1>1, <1>8
  <2>3. \A k \in Messages : job'[k] = IF k = m THEN "queued" ELSE job[k]
    BY <1>1, <1>8
  <2>4. \A w \in Workers :
          IsInjective(queues'[w]) /\ \A k \in Range(queues'[w]) : job'[k] = "queued"
    BY <1>5, <2>1, <2>2, <2>3 DEF OnceInv, QueuesInv
  <2>5. \A v, w \in Workers : v # w => Range(queues'[v]) \cap Range(queues'[w]) = {}
    <3> SUFFICES ASSUME NEW v \in Workers, NEW w \in Workers, v # w, NEW k,
                        k \in Range(queues'[v]), k \in Range(queues'[w])
                 PROVE  FALSE
      OBVIOUS
    <3>1. \A x \in Workers : Range(queues'[x]) = IF x = next THEN Range(queues[x]) \cup {m}
                                                 ELSE Range(queues[x])
      BY <2>1, <2>2
    <3> QED
      BY <1>5, <3>1 DEF OnceInv, QueuesInv
  <2> QED
    BY <1>3, <1>6, <2>4, <2>5 DEF OnceInv, QueuesInv
<1> QED
  BY <1>7, <1>8 DEF Dispatch

LEMMA TakeOnce ==
  ASSUME PoolInv, OnceInv, NEW w \in Workers, wpc[w] \notin Working, Take(w)
  PROVE  OnceInv' /\ NewStays /\ LedgerStep
<1> USE DEF PoolInv
<1> DEFINE m == Head(queues[w])
<1>1. /\ queues \in [Workers -> Seq(Messages)] /\ wpc \in [Workers -> WorkerPlaces]
      /\ hand \in [Workers -> Messages \cup {NoMessage}] /\ job \in [Messages -> JobStates]
      /\ queues[w] # <<>> /\ UNCHANGED <<next, late, shutdown>>
      /\ hand' = [hand EXCEPT ![w] = m] /\ job' = [job EXCEPT ![m] = "running"]
      /\ queues' = [queues EXCEPT ![w] = Tail(@)] /\ wpc' = [wpc EXCEPT ![w] = "run"]
  BY DEF PoolTypeOK, Take, GoesTo
<1>2. /\ m \in Messages
      /\ Range(queues[w]) = {m} \cup Range(Tail(queues[w]))
      /\ IsInjective(Tail(queues[w])) /\ m \notin Range(Tail(queues[w]))
  BY <1>1, RangeOfTail, TailIsInjective DEF OnceInv, QueuesInv
<1>3. \A v \in Workers :
        /\ v = w => queues'[v] = Tail(queues[w]) /\ hand'[v] = m /\ wpc'[v] = "run"
        /\ v # w => queues'[v] = queues[v] /\ hand'[v] = hand[v] /\ wpc'[v] = wpc[v]
  BY <1>1
<1>4. \A k \in Messages : job'[k] = IF k = m THEN "running" ELSE job[k]
  BY <1>1, <1>2
<1>5. job[m] = "queued"
  BY <1>2 DEF OnceInv, QueuesInv
<1>6. LedgerStep /\ NewStays
  <2> HIDE DEF m
  <2>1. Ledger!Start(m)
    BY <1>1, <1>5 DEF Ledger!Start, Ledger!Move
  <2> QED
    BY <1>2, <1>4, <1>5, <2>1 DEF LedgerStep, Ledger!Next, NewStays
<1> HIDE DEF m
<1>7. \A v \in Workers : Range(queues'[v]) \subseteq Range(queues[v]) /\ m \notin Range(queues'[v])
  BY <1>2, <1>3 DEF OnceInv, QueuesInv
<1>8. \A v \in Workers : Range(queues[v]) \subseteq Messages
  BY <1>1 DEF Range
<1>9. QueuesInv'
  BY <1>2, <1>3, <1>4, <1>7, <1>8 DEF OnceInv, QueuesInv
<1>10. HandsInv'
  <2>1. \A v \in Workers : v # w /\ wpc[v] \in Working => hand[v] \in Messages /\ hand[v] # m
    BY <1>5 DEF OnceInv, HandsInv, WorkerInv, PoolTypeOK
  <2> QED
    BY <1>2, <1>3, <1>4, <2>1 DEF OnceInv, HandsInv
<1> QED
  BY <1>6, <1>9, <1>10 DEF OnceInv

LEMMA LeaveOnce ==
  ASSUME PoolInv, OnceInv, NEW w \in Workers, Leave(w)
  PROVE  OnceInv' /\ NewStays /\ LedgerStep
<1> USE DEF PoolInv
<1>1. /\ queues \in [Workers -> Seq(Messages)] /\ wpc \in [Workers -> WorkerPlaces]
      /\ job \in [Messages -> JobStates]
      /\ wpc[w] = "leaving" /\ UNCHANGED <<next, hand, late, shutdown>>
      /\ job' = [m \in Messages |-> IF m \in Range(queues[w]) THEN "lost" ELSE job[m]]
      /\ queues' = [queues EXCEPT ![w] = <<>>] /\ wpc' = [wpc EXCEPT ![w] = "gone"]
  BY DEF PoolTypeOK, Leave, GoesTo
<1>2. \A v \in Workers :
        /\ v = w => queues'[v] = <<>> /\ wpc'[v] = "gone"
        /\ v # w => queues'[v] = queues[v] /\ wpc'[v] = wpc[v]
  BY <1>1
<1>3. /\ Range(queues[w]) \subseteq late /\ shutdown
      /\ \A m \in Range(queues[w]) : job[m] = "queued"
  BY <1>1 DEF WorkerInv, OnceInv, QueuesInv
<1>4. NewStays
  BY <1>1, <1>3 DEF NewStays
<1>5. LedgerStep
  <2>1. Ledger!Drop
    <3>1. Range(queues[w]) \in SUBSET late
      BY <1>3
    <3> QED
      BY <1>1, <1>3, <3>1, Zenon DEF Ledger!Drop
  <2> QED
    BY <2>1 DEF LedgerStep, Ledger!Next
<1>6. QueuesInv'
  <2>1. \A v \in Workers : Range(queues[v]) \subseteq Messages
    BY <1>1 DEF Range
  <2>2. \A v \in Workers : v # w => \A m \in Range(queues[v]) : job'[m] = job[m]
    BY <1>1, <2>1 DEF OnceInv, QueuesInv
  <2> QED
    BY <1>2, <2>2, RangeOfEmpty, EmptyIsInjective DEF OnceInv, QueuesInv
<1>7. HandsInv'
  <2>1. \A v \in Workers : wpc[v] \in Working => hand[v] \in Messages /\ hand[v] \notin Range(queues[w])
    BY <1>3 DEF OnceInv, HandsInv, WorkerInv, PoolTypeOK
  <2> QED
    BY <1>1, <1>2, <2>1 DEF OnceInv, HandsInv, Working
<1> QED
  BY <1>4, <1>5, <1>6, <1>7 DEF OnceInv

LEMMA EndsOnce ==
  ASSUME PoolInv, OnceInv, NEW w \in Workers, wpc[w] \in Working,
         NEW outcome \in {"persisted", "dlq_queued", "dlq_failed"}, Ends(w, outcome),
         UNCHANGED <<next, queues, late, shutdown>>
  PROVE  OnceInv' /\ NewStays /\ LedgerStep
<1> USE DEF PoolInv
<1>1. /\ wpc \in [Workers -> WorkerPlaces] /\ hand \in [Workers -> Messages \cup {NoMessage}]
      /\ job \in [Messages -> JobStates] /\ hand[w] \in Messages
      /\ hand' = [hand EXCEPT ![w] = NoMessage] /\ job' = [job EXCEPT ![hand[w]] = outcome]
      /\ wpc' = [wpc EXCEPT ![w] = "check"] /\ queues \in [Workers -> Seq(Messages)]
  BY DEF PoolTypeOK, WorkerInv, Ends, GoesTo
<1>2. \A v \in Workers :
        /\ v = w => wpc'[v] = "check"
        /\ v # w => hand'[v] = hand[v] /\ wpc'[v] = wpc[v]
  BY <1>1
<1>3. \A k \in Messages : job'[k] = IF k = hand[w] THEN outcome ELSE job[k]
  BY <1>1
<1>4. job[hand[w]] = "running"
  BY DEF OnceInv, HandsInv
<1>5. NewStays
  BY <1>3, <1>4 DEF NewStays
<1>6. LedgerStep
  <2>1. Ledger!Settle(hand[w])
    BY <1>1, <1>4 DEF Ledger!Settle, Ledger!Move, Ledger!Outcomes
  <2> QED
    BY <1>1, <2>1 DEF LedgerStep, Ledger!Next
<1>7. QueuesInv'
  <2>1. \A v \in Workers : Range(queues[v]) \subseteq Messages
    BY <1>1 DEF Range
  <2>2. \A v \in Workers : \A m \in Range(queues[v]) : m # hand[w]
    BY <1>4 DEF OnceInv, QueuesInv
  <2> QED
    BY <1>3, <2>1, <2>2 DEF OnceInv, QueuesInv
<1>8. HandsInv'
  <2>1. \A v \in Workers : wpc[v] \in Working => hand[v] \in Messages
    BY DEF WorkerInv, PoolTypeOK
  <2> QED
    BY <1>2, <1>3, <2>1 DEF OnceInv, HandsInv, Working
<1> QED
  BY <1>5, <1>6, <1>7, <1>8 DEF OnceInv

LEMMA MoveOnce ==
  ASSUME PoolInv, OnceInv, NEW w \in Workers, NEW place, GoesTo(w, place),
         UNCHANGED <<next, queues, hand, job, late, shutdown>>,
         place \in Working => wpc[w] \in Working
  PROVE  OnceInv' /\ NewStays /\ LedgerStep
<1>1. \A v \in Workers : wpc'[v] = IF v = w THEN place ELSE wpc[v]
  BY DEF PoolInv, PoolTypeOK, GoesTo
<1>2. \A v \in Workers : wpc'[v] \in Working => wpc[v] \in Working
  BY <1>1
<1> QED
  BY <1>2 DEF OnceInv, QueuesInv, HandsInv, NewStays, LedgerStep, Ledger!ledgerVars

LEMMA PoolStays ==
  ASSUME OnceInv, UNCHANGED poolVars
  PROVE  OnceInv' /\ NewStays /\ LedgerStep
BY DEF poolVars, OnceInv, QueuesInv, HandsInv, NewStays, LedgerStep, Ledger!ledgerVars

LEMMA WorkerOnce ==
  ASSUME PoolInv, OnceInv, HeldInv, SourceInv, NEW w \in Workers, Worker(w)
  PROVE  OnceInv' /\ HeldInv' /\ LedgerStep
<1>1. CASE RecvWorkerJob(w)
  <2>1. UNCHANGED <<held, spc>>
    BY <1>1 DEF RecvWorkerJob, mqttVars
  <2>2. OnceInv' /\ NewStays /\ LedgerStep
    <3>1. CASE WaitForJob(w) \/ SeesSignal(w) \/ SeesClosed(w, SendersDropped)
      <4>1. \E place \in {"select", "check", "leaving"} : GoesTo(w, place)
        BY <3>1 DEF WaitForJob, SeesSignal, SeesClosed
      <4> QED
        BY <3>1, <4>1, MoveOnce DEF WaitForJob, SeesSignal, SeesClosed, Working
    <3>2. CASE TryRecv(w)
      BY <3>2, TakeOnce, MoveOnce DEF TryRecv, Working
    <3>3. CASE Recv(w)
      BY <3>3, TakeOnce DEF Recv, Working
    <3>4. CASE Leave(w)
      BY <3>4, LeaveOnce
    <3> QED
      BY <1>1, <3>1, <3>2, <3>3, <3>4 DEF RecvWorkerJob
  <2> QED
    BY <2>1, <2>2 DEF NewStays, HeldInv, SourceInv, MqttTypeOK
<1>2. CASE RunPipeline(w)
  <2>1. UNCHANGED <<held, spc>>
    BY <1>2 DEF RunPipeline, RunStages, Persisted, PersistFails, DlqPublish, mqttVars
  <2>2. OnceInv' /\ NewStays /\ LedgerStep
    <3>1. CASE RunStages(w)
      <4>1. PICK place \in {"persist", "dlq"} : GoesTo(w, place)
        BY <3>1 DEF RunStages
      <4> QED
        BY <3>1, <4>1, MoveOnce DEF RunStages, Working
    <3>2. CASE PersistFails(w)
      BY <3>2, MoveOnce DEF PersistFails, Working
    <3>3. CASE Persisted(w)
      BY <3>3, EndsOnce DEF Persisted, Working
    <3>4. CASE DlqPublish(w)
      BY <3>4, EndsOnce DEF DlqPublish, Working
    <3> QED
      BY <1>2, <3>1, <3>2, <3>3, <3>4 DEF RunPipeline
  <2> QED
    BY <2>1, <2>2 DEF NewStays, HeldInv, SourceInv, MqttTypeOK
<1> QED
  BY <1>1, <1>2 DEF Worker

-----------------------------------------------------------------------------
(* The source dispatches what it holds, and holds what is new. *)

LEMMA HeldAfterEvent ==
  ASSUME NEW m \in Messages \cup {NoMessage}, AfterEvent(m),
         m # NoMessage => job[m] = "new", UNCHANGED job
  PROVE  HeldInv'
<1>1. held' = m
  BY DEF AfterEvent
<1>2. m # NoMessage => spc' \in {"subscribe", "dispatch"}
  <2>1. ASSUME m # NoMessage PROVE spc' = "subscribe" \/ spc' = "dispatch"
    BY <2>1, Zenon DEF AfterEvent
  <2> QED
    BY <2>1
<1> QED
  BY <1>1, <1>2 DEF HeldInv

LEMMA SourceOnce ==
  ASSUME HeldInv, SourceInv, UNCHANGED poolVars,
         SourceEvent \/ SourceStops(shutdown) \/ SourcePanics
           \/ \E m \in Messages : job[m] = "new" /\ ReceivePublish(m)
  PROVE  HeldInv'
<1>1. job' = job
  BY DEF poolVars
<1>2. CASE ConnAck \/ SendRequest \/ SubAck \/ DisconnectPacket
  <2>1. AfterEvent(NoMessage)
    BY <1>2 DEF ConnAck, SendRequest, SubAck, DisconnectPacket
  <2> QED
    BY <1>1, <2>1, HeldAfterEvent
<1>3. CASE \E m \in Messages : job[m] = "new" /\ ReceivePublish(m)
  BY <1>1, <1>3, HeldAfterEvent DEF ReceivePublish
<1>4. CASE PollFails \/ BackoffEnds \/ SourceStops(shutdown) \/ SourcePanics
  <2>1. spc \in {"poll", "backoff"} /\ held' = held
    BY <1>4 DEF PollFails, BackoffEnds, SourceStops, SourcePanics, TaskEnds
  <2> QED
    BY <2>1 DEF HeldInv
<1>5. CASE TrySubscribe
  <2>1. held' = held /\ (held # NoMessage => spc' = "dispatch")
    BY <1>5 DEF TrySubscribe, HandedOver
  <2> QED
    BY <1>1, <2>1 DEF HeldInv
<1> QED
  BY <1>2, <1>3, <1>4, <1>5 DEF SourceEvent

LEMMA InitOnce == Init => OnceInv /\ HeldInv /\ Ledger!Init
<1> SUFFICES ASSUME Init PROVE OnceInv /\ HeldInv /\ Ledger!Init
  OBVIOUS
<1> USE DEF Init, PoolInit, MqttInit
<1>1. QueuesInv
  <2>1. \A w \in Workers : queues[w] = <<>>
    OBVIOUS
  <2> QED
    BY <2>1, RangeOfEmpty, EmptyIsInjective DEF QueuesInv
<1>2. HandsInv
  BY DEF HandsInv, Working
<1>3. HeldInv /\ Ledger!Init
  BY DEF HeldInv, Ledger!Init
<1> QED
  BY <1>1, <1>2, <1>3 DEF OnceInv

LEMMA StepOnce ==
  IngestionInv /\ OnceInv /\ HeldInv /\ [Next]_vars => OnceInv' /\ HeldInv' /\ LedgerStep
<1> SUFFICES ASSUME IngestionInv, OnceInv, HeldInv, [Next]_vars
             PROVE  OnceInv' /\ HeldInv' /\ LedgerStep
  OBVIOUS
<1> USE DEF IngestionInv
<1>1. CASE SourceLoop \/ SourceReceives \/ SourceSeesShutdown \/ SourceFails
  <2>1. UNCHANGED poolVars
    BY <1>1 DEF SourceLoop, SourceReceives, SourceSeesShutdown, SourceFails
  <2>2. HeldInv'
    BY <1>1, <2>1, SourceOnce DEF SourceLoop, SourceReceives, SourceSeesShutdown, SourceFails
  <2> QED
    BY <2>1, <2>2, PoolStays
<1>2. CASE SourceDispatches
  <2>1. spc = "dispatch" /\ Dispatch(held) /\ held' = NoMessage
    BY <1>2 DEF SourceDispatches
  <2>2. held \in Messages /\ job[held] = "new"
    BY <2>1 DEF SourceInv, MqttTypeOK, HeldInv
  <2>3. OnceInv' /\ Ledger!Dispatch(held)
    BY <2>1, <2>2, DispatchOnce
  <2>4. HeldInv'
    BY <2>1 DEF HeldInv
  <2> QED
    BY <2>2, <2>3, <2>4 DEF LedgerStep, Ledger!Next
<1>3. ASSUME NEW w \in Workers, Worker(w) PROVE OnceInv' /\ HeldInv' /\ LedgerStep
  BY <1>3, WorkerOnce
<1>4. CASE Signal \/ SourceEnded
  <2>1. shutdown' = TRUE /\ UNCHANGED <<queues, wpc, hand, job, late, held>>
    BY <1>4, Zenon DEF Signal, SourceEnded, JoinedSource, mqttVars
  <2>2. OnceInv'
    BY <2>1 DEF OnceInv, QueuesInv, HandsInv
  <2>3. Ledger!Close
    BY <2>1 DEF Ledger!Close
  <2>4. spc' = spc
    BY <1>4, Zenon DEF Signal, SourceEnded, JoinedSource, mqttVars
  <2>5. HeldInv'
    BY <2>1, <2>4 DEF HeldInv
  <2> QED
    BY <2>2, <2>3, <2>5 DEF LedgerStep, Ledger!Next
<1>5. CASE JoinSource \/ JoinWorkers \/ Drained \/ UNCHANGED vars
  <2>1. UNCHANGED poolVars /\ UNCHANGED <<held, spc>>
    BY <1>5 DEF JoinSource, JoinedSource, JoinWorkers, Drained, vars, mqttVars
  <2>2. HeldInv'
    BY <2>1 DEF HeldInv, poolVars
  <2> QED
    BY <2>1, <2>2, PoolStays
<1> QED
  BY <1>1, <1>2, <1>3, <1>4, <1>5 DEF Next, Source, Main

(* No job is queued, started or settled twice, and none is dropped but a    *)
(* late one at the end: every step of source, workers and main is a step of *)
(* JobLedger or leaves it alone (ImplementsLedger).                         *)
THEOREM IngestionImplementsLedger == Spec => ImplementsLedger
<1>1. Init => OnceInv /\ HeldInv /\ Ledger!Init
  BY InitOnce
<1>2. IngestionInv /\ OnceInv /\ HeldInv /\ [Next]_vars
        => OnceInv' /\ HeldInv' /\ [Ledger!Next]_(Ledger!ledgerVars)
  BY StepOnce DEF LedgerStep
<1> QED
  BY <1>1, <1>2, InvariantHolds, PTL DEF Spec, ImplementsLedger, Ledger!Spec

(* What has become of a message stays so: SettledIsFinal. *)
THEOREM SettledJobsStaySettled == Spec => SettledIsFinal
<1>1. IngestionInv /\ LedgerStep
        => \A m \in Messages : job[m] \notin {"new", "queued", "running"} => job'[m] = job[m]
  <2> SUFFICES ASSUME IngestionInv, LedgerStep, NEW m \in Messages,
                      job[m] \notin {"new", "queued", "running"}
               PROVE  job'[m] = job[m]
    OBVIOUS
  <2>1. job \in [Messages -> JobStates]
    BY DEF IngestionInv, PoolInv, PoolTypeOK
  <2>2. ASSUME NEW j \in Messages, NEW from \in {"new", "queued", "running"}, NEW to,
               Ledger!Move(j, from, to)
        PROVE  job'[m] = job[m]
    BY <2>1, <2>2 DEF Ledger!Move
  <2>3. CASE \E j \in Messages : Ledger!Dispatch(j) \/ Ledger!Start(j) \/ Ledger!Settle(j)
    BY <2>2, <2>3 DEF Ledger!Dispatch, Ledger!Start, Ledger!Settle
  <2>4. CASE Ledger!Drop
    BY <2>4 DEF Ledger!Drop
  <2>5. CASE Ledger!Close \/ UNCHANGED Ledger!ledgerVars
    BY <2>5 DEF Ledger!Close, Ledger!ledgerVars
  <2> QED
    BY <2>3, <2>4, <2>5 DEF LedgerStep, Ledger!Next
<1>2. IngestionInv /\ OnceInv /\ HeldInv /\ [Next]_vars
        => OnceInv' /\ HeldInv' /\ LedgerStep
  BY StepOnce
<1>3. IngestionInv /\ OnceInv /\ HeldInv /\ [Next]_vars
        => [\A m \in Messages : job[m] \notin {"new", "queued", "running"} => job'[m] = job[m]]_vars
  BY <1>1, <1>2
<1>4. Init => OnceInv /\ HeldInv
  BY InitOnce
<1>5. IngestionInv /\ OnceInv /\ HeldInv /\ [Next]_vars => OnceInv' /\ HeldInv'
  BY <1>2
<1> QED
  BY <1>3, <1>4, <1>5, InvariantHolds, PTL DEF Spec, SettledIsFinal
=============================================================================
