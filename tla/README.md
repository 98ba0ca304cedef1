# A TLA+ model of the ingestion service

The service consumes telemetry over MQTT, checks and normalises each message, appends it to a
write-ahead log (WAL) on disk, and forwards the log in batches to InfluxDB. This directory holds a
formal model of it: modules that follow the code function by function, TLC configurations that
check them on small instances, and proofs that TLAPS checks for every value of the constants. Paths
are those of the repository under `src/`; `PROJECT.json` maps each definition to its source lines.

## 1. The system

```
 broker --> MqttSource --> IngestDispatcher --> worker queues --> workers: PipelineRunner
              ^  request channel (subscribe, DLQ) <-- DLQ publish <----+   |        |
              |                                                            |   CacheState --> HTTP, SSE
              +-- /readyz                               Wal::append_durable v
                       queue --> writer thread --> BufWriter --> segment files
                                      | AtomicWalOffset + Notify      |
                                      v                               v
                               WalSubscription::next <---- read, recover, delete
                                      |        ^ commit (cursor file)
                                      v        |
                               run_forwarder --> Sink (InfluxDB)
```

| Component | State it keeps | Operations | Interacts through | Hard parts | Correct when |
|---|---|---|---|---|---|
| Writer thread, appends (`wal/writer.rs`, `wal/wal.rs`) | bounded queue, buffer, pending acks, current segment and byte | `append_durable`, `try_append`, write, flush, rotate, three fatal exits | mpsc queue, oneshot acks, published head, `Notify`, files | partial failures, ack order, an exit with callers waiting | acked or published means in the file; every append returns |
| Published head (`AtomicWalOffset`) | version, two fields | `store` (one writer), `load` | atomics only | interleaving, memory order | a load gives a pair that the reader can act on as if it had been stored |
| Subscription (`wal/subscription.rs`, `cursor.rs`) | position, open descriptor, cursor file, GC watermark | `next`, skip, `commit`, reclaim | head, `Notify`, files | reads race writes, rotations and notifications; `next` is cancelled | nothing is passed by or woken for in vain; reclaim is safe |
| Forwarder (`wal/forwarder.rs`) | batch, ticker | select, flush, retry | subscription, sink | cancellation by the ticker, ambiguous sink answers | the cursor follows the sink; the log drains |
| Recovery (`Wal::open`, `recover.rs`) | none of its own | scan, truncate, check the cursor | files | a stop at any instant | no record owed is lost; the service starts again |
| MQTT source (`source/mqtt.rs`) | `subscribe_pending`, `ready`, request channel | events of `poll`, `try_subscribe` | request channel shared with DLQ publishes, dispatcher | reconnection, a full channel that it alone drains | ready means subscribed; it becomes ready |
| Worker pool, shutdown (`main.rs`, `source/mod.rs`) | one queue per worker, watch channel, senders | `dispatch`, `recv_worker_job`, shutdown sequence | mpsc, watch, joins | signal, dispatch and drain race | the backlog is settled; shutdown ends |
| Pipeline (`pipeline/`) | a context per job | stages, failure stage | cache, WAL, DLQ publisher | a DLQ publish that blocks | each job ends in the log or at the DLQ client |
| Sensor cache (`cache/`) | map behind a lock, broadcast ring | `update_sensor`, snapshots, streams | lock, broadcast | three unlocked steps per update, eviction, lag | bounded; no overtaken value; no silent gap |
| Topics, router, stages (`topic.rs`, `router.rs`, `pipeline/stages/`) | the context of one message | patterns, `find_route`, decode, checks, `transform` | settings, schemas, broker | two matchers (broker, router), routes in the order of a `HashMap`, two sets of bounds | what is stored is canonical, of the type and device of its topic; nothing rejected comes back |
| Output sink (`sink/influx.rs`, retries of `forwarder.rs`) | batch, attempt, pause, outage gauge | `write`, `flush` | HTTP, cursor file | partial writes, permanent refusals, retries inside retries | the cursor follows the database; a repair drains |
| Line protocol (`sink/point.rs`) | none | points, escaping, `build_body` | the log carries the rendered line | delimiters inside texts | the database reads back each point |
| Startup and exit (`config.rs`, `main.rs`, `prometheus.rs`) | the place in `main`, the tasks it has started, the session at the broker | `from_env`, one step per part started, select, joins, drain, exit status | environment, ports, tasks, broker sessions | parts that fail while others start; restarts under another client id | nothing is taken unserved; a kept session is resumed; a failure ends the process |
| Schemas, metrics | none that changes | validation by a library, output | - | - | see section 7 |

## 2. Modules

The core, in the order of the plan:

| Module | Models | State and actions against the code |
|---|---|---|
| `WalShared` | positions, records, files, the cells that writer and reader share | `log` is the history of frames handed to the `BufWriter`; `files[s]` the visible length of each segment. A frame is `RecordLen[m]` units, the first its length prefix, so two units are enough to be torn. |
| `WalWriter` | `append_durable`, `try_append`, `writer_loop` | `wpc` and `phase` are the points of the loop between two effects another task can see; each `BufWriter` flush moves in steps (`FlushBytes`); `PublishHead`, then `NotifyReader`, then the acks, in the code's order; `DropNotify` and `DropReceiver` are what the thread drops at its end. |
| `AtomicWalOffset` | the seqlock, one step per atomic access | accesses take effect in any order the orderings in the code allow: the field loads before or after the version check (`Late`), the field stores before or after the first increment (`Writes`). `Decision` and `AtTail` are what `WalSubscription` makes of a head. |
| `WalSubscription` | `next`, `read_one`, `wait_or_advance`, `skip_corrupt_record`, `commit` | `rpc` is the place in `next`; each look at the head, at the reference count and at the files is a step of its own. `CancelNext` drops the future: descriptor lost, position kept. |
| `WalForwarder` | `run_forwarder`, `flush`, the outcomes of `InfluxSink::write` | `Tick` cancels `next`; a batch stays until sink and commit succeed. |
| `WalSystem` | writer, forwarder and `Wal::open` together, over stops and restarts | `Stop` keeps what is on disk and forgets the rest; `Open` truncates, checks the cursor and starts again. |
| `WalDelivery` | writer and subscription without the ticker | for the wake-up protocol alone. |
| `AtLeastOnceLog` | the abstract log: Store, Forward, Lose, Release | `WalSystem` implements it. |
| `HeadCell` | a cell that is written in one step and read in one, but for the fields a reader is late with | `AtomicWalOffset` implements it. The other modules have a cell of which nobody is late, `head` (note 4). |
| `IngestJobs`, `WorkerPool` | dispatcher, queues, `recv_worker_job` | `Dispatch` includes the rejection of a full or closed queue; `leaving` is the gap between the last `try_recv` and the drop of the receiver. |
| `MqttSource` | `MqttSource::run`, request channel | one action per event of `poll`; `TrySubscribe` follows an event while `subscribe_pending`, then the publish in hand is dispatched, as in the code. |
| `Pipeline` | `PipelineRunner::run` | `RefusedBy` says which checking stage a message fails in; `Persisted`, `PersistFails`, `DlqPublish`. |
| `Ingestion` | source, workers and the shutdown sequence of `main` | `main` is the line of the shutdown sequence it has reached. |
| `JobLedger` | the abstract ingestion side: each job queued or rejected, started and settled once | `Ingestion` implements it. |
| `SensorCache` | `CacheState`, SSE streams | an update is stamp, critical section, broadcast; a client subscribes, polls, polls again when told it lags, and looks up one device. |
| `TopicPattern` | `TopicPattern`, and the matching rule of MQTT beside it | a topic is a sequence of levels, the empty level included; `Matches` is the loop of the router, `MqttMatches` the broker's rule. |
| `MessageStages` | the eight stages on the content of a message, `build_router`, the subscriptions | one action per stage, on a record that keeps the context's fields; numbers are integers (the score scaled so that it stays one), strings are blank, padded or plain. |
| `SinkDelivery` | `flush` and `InfluxSink::write` in detail | the log is `1..Last`, the batch what lies between `cursor` and `taken`; `PostRefused`, `PostFails`, `CommitFails` are the ways out of an attempt. |
| `AtLeastOnceDelivery` | the abstract delivery: Deliver within a window, Pass what has arrived | `SinkDelivery` implements it. |
| `LineProtocol` | `sensor_to_point`, `status_to_point`, `Point`, `build_body` | a text is a sequence of characters; the escapes are replaced one after the other as in the code; `None`, `Only` and `++` are what a `PointBuilder` collects; `Read` is the database's reading, a character at a step, written from the rules of the protocol. |
| `Startup` | `Config::from_env`, `mqtt_session`, `MetricsServer::start`, `main` from its first line to its exit | an environment is the record of the variables it sets; `main` is the part that is started next, `serve`, or the way out; a task is none, starting, runs, ended or failed; `sessions` is what the broker keeps for each client id. |
| `MC*` | instances for TLC | model values and small functions only. |
| `*_proofs` | theorems (section 5) | one per component; `WalSystem_proofs` has those of `WalWriter` first, on which the system's rest. |

Each component module names its variables, Init and actions; a composing module EXTENDS its parts and adds
`UNCHANGED` for the state of the others. Definitions called *Mutant of X* are plausible bugs of `X`;
no specification uses them. They show that each property can fail.

Data is abstract: an event is a model value, a payload is "decodes or not", an I/O error is
`Fault(kind)` with the bound `MaxFaults`, a stop of the process is bounded by `MaxStops`. Nothing
in the WAL is ever fsynced by the code, so "durable" means handed to the operating system: the model has
stops of the process, not losses of power.

## 3. Runs

`tlc -config X.cfg M`, with the module `M` that `PROJECT.json` names.

| Run | Instance | Result |
|---|---|---|
| `AtomicWalOffset` | one reader, three stores of offsets that differ in either field, every order of the accesses, six positions of the subscription | `LookIsSound`; refinement `ImplementsCell` |
| `WalWriter` | four appends, one of a record longer than a segment, one refused by the codec; queue of two, segments of two short frames, torn writes, two I/O errors | `AckedIsReadable`, `HeadIsReadable`, `WaiterIsOwed`; liveness `AppendsReturn` (the type invariant is part of that of the next run) |
| `WalSystem_safety` | three events, segments of two frames, batch of two, torn writes, one stop, one error of nine kinds | type; `CursorIsCovered`, `AckedSurvives`, `ReclaimIsSafe`, `OpenAccepts`, `PositionsOnFrames`, `ExitIsComplete`; refinement `ImplementsAtLeastOnce` |
| `WalSystem_liveness` | two events in a segment each, one of them poisoned, one stop, one error, torn writes | `ShutdownDrains`, `AckedIsForwarded` |
| `WalDelivery_wakeup` | two events in a segment each, one error of the writer | `PublishedIsReturned` |
| `Ingestion` | three messages, two workers, all channels of capacity one, any number of lost connections | type; `BacklogIsSettled`, `ReadyMeansSubscribed`; refinement `ImplementsLedger`; liveness `ConnectedBecomesReady`, `ShutdownCompletes` |
| `SensorCache` | four updates of three sensors, cap two, ring of two, one client, two clock readings | type (with the cap); `NoStaleValue`, `StreamHasNoGap` |
| `MessageStages` | two overlapping routes in either order, one of which covers the DLQ topic, kept subscriptions, topics with empty and padded levels, payloads on the boundaries of each check | type; `SettledOnce`, `DeviceKeepsItsTopic`, `TransformSuffices`, `StoredAsPublished`, `RejectedStaysOut` |
| `SinkDelivery` | four entries, one refused until a repair, batch of two, four transient failures, two restarts | type (with the cap on pauses); refinement `ImplementsDelivery` (which implies `CommittedIsStored`); liveness `RepairDelivers` |
| `LineProtocol` | two messages, each short text of special characters in a tag or a quoted field, with and without the optional fields | `BodyReadsBack` |
| `Startup` | nineteen environments, two starts, two clock readings, two messages, any kills | type; `ConnectedIsWhole`, `SessionIsResumed`; liveness `FailureEnds` |
| `WalSystem_rotation_race` | no fault at all, a segment for each frame | `NothingSkipped` **violated** |

Seven more configurations are kept beside the runs; no result above depends on them. The first two check statements that
section 5 proves and no run has; each of the others has one property, which TLC refutes, and backs a note of section 4.

| Configuration | Module | Instance | Result |
|---|---|---|---|
| `WalSystem_order` | `MCWalSystem` | three events, queue of one, no poisoned frame, one stop, one error | `BatchInOrder`, `BatchHasNoGap`, `AppendedOnce`, `RefusedIsAbsent`, `NoWakeupIsLost`, `ReadingNeverGoesBack` hold |
| `WalSystem_whole` | `MCWalSystem` | whole writes, one poisoned event, every error but a failing read | `FirstSegmentIsWhole`, `LossOnlyAtRotation` hold; with a failing read they do not |
| `WalSystem_torn_skip` | `MCWalSystem` | one segment, torn writes, no fault | `NothingSkipped` **violated** |
| `Startup_no_ticker` | `MCStartup` | `FLUSH_INTERVAL_MS=0` | `ForwarderIsWatched` **violated** |
| `Startup_empty_topic` | `MCStartup` | an empty `MQTT_TOPIC_*` | `EmptyIsUnset` **violated** |
| `MessageStages_empty_level` | `MCMessageStages` | the documented settings | `DeliveredIsRouted` **violated** |
| `LineProtocol_line_break` | `MCLineProtocol` | a line break inside a tag | `TagsAreEscaped` **violated** |

Four refutations need no configuration of their own, only another property (and nothing else of the run's) in that of a run:
`MessageStages` refutes `RejectedOnce`, `WalDelivery_wakeup` refutes `NextEnds`, `Ingestion` refutes `DrainsQueues`,
`SinkDelivery` refutes `PermanentFailureIsDropped`. In the same way `WalWriter` confirms `FramesTile`, `AppendedOnce` and
`RefusedIsAbsent`, `AtomicWalOffset` `TypeOK` and `CoherentUnlessLate`, `SinkDelivery` `DisorderIsBounded`, `Ingestion` `SettledIsFinal`.

### Why these bounds

- In `AtomicWalOffset` a load can overlap the end of one store, the whole of the next and the beginning of a third, and each field can be of
  any of them. A second reader would write nothing that the first one or the writer reads. The positions lie at, before
  and behind each offset stored.
- Two frames per segment and three events give a rotation with the reader in the old segment, in
  the new one and between them. A third segment adds no new order: the reader opens one file at a time
  and the reclaim deletes in order.
- One error at a time is what the code reacts to before it retries; the writer's run has two, so that a
  failed flush can be followed by a fatal exit. A queue of one or two is full at once. The record longer than a segment comes
  first in one, alone in one, or after one that it does not fit behind.
- One stop reaches recovery after every step, and what a second recovery finds is what a first one
  left (`PositionsOnFrames` holds after it).
- In `Ingestion` a capacity of one makes "full" common. Three messages, of which two go to the
  DLQ, fill the request channel and still leave a worker blocked behind it; two workers, the smallest
  number the code starts, give the round robin.
- In `SensorCache` two updates of one sensor, with two others to evict it, order in every way; four
  events overrun a ring of two. Readings of the clock are not monotonic, as `SystemTime` is not.
- In `MessageStages` a topic has up to four levels and a filter three: one level before, at and after each
  wildcard. Each number of a payload takes the values at and beside every bound that a check or a schema has.
- In `SinkDelivery` an entry that is refused shares its batch with one that is not, and another batch waits
  behind it; four failures are enough for all three attempts of a write and a failed commit after them.
- In `LineProtocol` a text of two characters has each pair that an escape could confuse; a second message
  follows the first so that what escapes from one line can damage the next. The database reads one character
  at a step, so a body has as many states as characters and every place of the reader in it is one of them.
- In `Startup` each environment is good or wrong for one reason, and there is one for every way in which a step of `main`
  can end the process, so each failure meets every state of the tasks beside it. A second start is the
  first that can find a session; a third finds what the second left. Two readings of the clock make two ids.

Symmetry sets are used in runs without liveness only, over events whose constants do not tell them apart.
Deadlock is checked, except in `Ingestion` and `Startup` (the service stops) and where the inputs run
out: `SensorCache`, `SinkDelivery`, `LineProtocol`.

### Fairness

- Weak fairness of the writer thread and of the forwarder, the source, each worker and `main`: the operating
  system schedules threads and tokio polls woken tasks. Callers of the log, the broker's publishes,
  stops and errors are owed nothing; errors are bounded.
- `WalSystem`: the forwarder's select is biased and polls the ticker first, so a due tick is taken
  whenever `next` is pending: strong fairness of `RunTick`. With `MissedTickBehavior::Delay` a whole
  interval follows each tick, so a poll of `next` and a skip complete in the end:
  strong fairness of `PollsNext` and `Skips`. This is an assumption on durations (a read takes less than the interval some time),
  on which `AckedIsForwarded` rests; the model cannot test it.
- `Ingestion`: the source's select is unbiased and picks at random among the ready branches, so it cannot
  prefer `poll` over a pending shutdown for ever: strong fairness of `SourceSeesShutdown`. That an append returns is what
  `AppendsReturn` shows of the writer; that the last step of `main` ends is its timeout of five seconds. The
  broker answers a subscribe, or the connection ends. An event of a lost connection is assumed not to be
  delivered after the next ConnAck; this is rumqttc's affair and outside the repository.
- `SinkDelivery`: weak fairness of the forwarder. Failures and restarts are bounded, the operator owes no repair:
  `RepairDelivers` asks only for what follows one.
- `Startup`: weak fairness of `main`, of the two tasks that start, and of the source once it has been told to end
  (`MqttSource` shows that it sees the signal). Nobody owes a signal, a kill, a restart or a message.

## 4. What the violated runs show

The run is `WalSystem_rotation_race` (1); the others are seen with the further configurations.

1. **A reader can leave a segment before its end** (`subscription.rs:306`). It reads end of file; the writer
   appends there, flushes, rotates and stores the head in the new segment; `wait_or_advance` sees a newer
   segment and moves on. The records in between are never read, and are later committed over and deleted. The
   comment at 304-305 assumes that the old segment has been read to its end.
2. **A torn read misaligns the descriptor** (`subscription.rs:423`). `read_one` consumes part of a frame
   and reports end of file; the descriptor stays in the middle of it. The next read decodes garbage there and,
   with the head beyond it, a good record is skipped as corrupt.
3. **`next` can park for ever at shutdown** (`writer.rs:335`): the last notification precedes the drop of
   the writer's `Arc`. In the service the forwarder's ticker comes to the rescue (`ShutdownDrains` holds);
   a consumer of the log without one hangs.
4. **The seqlock can return a head that never was** (`writer.rs:61`). The field loads are Relaxed and no fence keeps them before the second
   load of the version; the field stores are Relaxed and AcqRel does not keep them behind the first increment's write. On a weakly
   ordered processor (arm64 is what the release image is built for) a field may thus be of a store that the version check does not see,
   where the comment at 50-51 says "ensuring readers observe a coherent offset snapshot". This is an argument about the memory
   model, not an observation of a build. `CoherentUnlessLate` and `ImplementsCell` say which fields can be wrong and that each is from a store
   that overlaps the load; `LookIsSound` says that the subscription can live with it: a mixed head makes it advance, read or
   skip only where one of the heads it was mixed of would, all of them flushed before their store begins, and wait only if the look was right
   or a store was not complete then, whose notification is still to come. That is why the other modules have one variable `head`. What this
   leaves to argument: a subscription that has advanced on an early field stands in a segment that the head has not reached until that store
   ends, which `LookIsSound` excludes, and finds nothing there but what that store's flush has put there; a needless read finds end of file.
   The last look, after the writer's `Arc` is gone, has no store beside it, but `Arc::strong_count` does not itself order it after the
   writer's last store (`subscription.rs:322`): the models take that order for granted.
5. **A job can be accepted and dropped at shutdown** (`main.rs:71`): a worker leaves when it first finds its queue
   empty, while the source, whose select is unbiased, may still dispatch. The message was acknowledged to the broker and is
   dropped with the receiver; `docs/operations.md:201` says that a normal stop "drains worker queues".
6. **The router's `+` refuses an empty level** (`topic.rs:77`) that the broker's `+` matches: the service subscribes
   to such topics and sends their messages to the DLQ.
7. **A permanent failure is held, not dropped** (`forwarder.rs:133`), against `docs/architecture.md:143`;
   `docs/wal-and-reliability.md` describes what the code does. `RepairDelivers` and `ImplementsDelivery` show that the retention is
   sound: nothing is committed unstored, and a repair drains the log.
8. **A line break in a tag value is not escaped** (`point.rs:144`). No stage refuses one, the rendered line is
   broken in two, and by (7) the batch that contains it blocks the forwarder until the destination accepts it or the log is
   repaired by hand.
9. **A flush interval of zero** (`forwarder.rs:50`) parses, and the ticker it is given to panics inside the forwarder's task. `main`
   looks at that task only in the drain: the service stays ready and appends, and forwards nothing.
10. **An empty topic is a topic** (`config.rs:302`): `strip_prefixed` takes `MQTT_TOPIC_*` as it stands, where
   `docs/configuration.md:3` says that empty strings are treated as unset.

11. **A filter can cover the DLQ topic** (`mqtt.rs:192`). Only the settings keep the two apart. If one does, each rejected message comes
   back, is rejected for its form and published again, without end: `MessageStages` refutes `RejectedOnce`. What
   `RejectedStaysOut` shows is that it gets no further: what the DLQ publisher wraps around a payload satisfies no schema, so not even
   a good message whose append failed returns as a reading.

The ways of passing by a good record (1, 2, and a read or open error that is treated like a corrupt frame)
are part of the model, so the properties of `WalSystem` that pass are stated with `skipped`: what they show is that
there is no other way to lose a record. Read in the code without a run: a failed deletion is not
retried by the next commit in the same segment as `subscription.rs:267` says.

## 5. Theorems

| Theorem | States | For |
|---|---|---|
| `SeqlockIsCoherent` | `CoherentUnlessLate` | any readers, any stores, every order of the accesses that the memory orderings allow |
| `SeqlockIsACell` | `ImplementsCell`: the refinement of `HeadCell` | the same |
| `LooksAreSound` | `LookIsSound` | the same, and any positions |
| `WriterIsTypeCorrect` | `WriterTypeOK`, the queue within its capacity included | any events, frame widths, segment size, queue, faults |
| `AckedRecordsAreReadable` | `AckedIsReadable` | the same |
| `PublishedRecordsAreReadable` | `HeadIsReadable` | the same |
| `WaitersAreOwed` | `WaiterIsOwed` | the same |
| `SegmentsAreTiled` | `FramesTile` | the same |
| `HeadIsMonotonic` | `HeadNeverMovesBack` | the same |
| `AppendsAreStoredOnce` | `AppendedOnce` | the same |
| `RefusedAppendsAreAbsent` | `RefusedIsAbsent` | the same |
| `SystemIsTypeCorrect` | `SystemTypeOK` of writer, subscription, forwarder and process together | any events, frame widths, sizes of segment, queue and batch, poisoned frames, faults and stops |
| `CommittedIsForwarded` | `CursorIsCovered` | the same |
| `AckedIsDurable` | `AckedSurvives` | the same |
| `ReclaimTakesNothingNeeded` | `ReclaimIsSafe` | the same |
| `OpenNeverRefuses` | `OpenAccepts` | the same |
| `PositionsAreBoundaries` | `PositionsOnFrames` | the same |
| `CursorIsMonotonic` | `CursorNeverMovesBack` | the same |
| `NoAppendIsDoubled` | `AppendedOnce`, over stops and restarts | the same |
| `NoRefusedAppendAppears` | `RefusedIsAbsent`, over stops and restarts | the same |
| `BatchesAreInOrder` | `BatchInOrder` | the same |
| `BatchesHaveNoGap` | `BatchHasNoGap` | the same |
| `ReadingIsMonotonic` | `ReadingNeverGoesBack` | the same |
| `NoWakeupLost` | `NoWakeupIsLost` | the same |
| `GracefulExitIsComplete` | `ExitIsComplete` | the same |
| `OnlyRotationLoses` | `LossOnlyAtRotation` | the same, with `WholeWrites` as hypothesis |
| `OneSegmentLosesNothing` | `FirstSegmentIsWhole` | the same, with `WholeWrites` as hypothesis |
| `SystemImplementsLog` | `ImplementsAtLeastOnce`: the refinement of `AtLeastOnceLog` | the same |
| `CacheIsTypeCorrect` | `CacheTypeOK`, the cap on the map included | any updates, devices, clients, cap and ring |
| `NoStaleValueIsCached` | `NoStaleValue` | the same |
| `StreamsHaveNoGap` | `StreamHasNoGap` | the same |
| `MessagesSettleOnce` | `SettledOnce` | any routes, topics, payloads and settings |
| `StagesAreTypeCorrect` | `StagesTypeOK`: each stage finds in the context what it takes | the same |
| `StoredMessagesAreCanonical` | `StoredIsCanonical` | the same |
| `TransformBoundsSuffice` | `TransformSuffices` | the same, every integer humidity and gas resistance included |
| `DevicesKeepTheirTopic` | `DeviceKeepsItsTopic` | the same |
| `StoredUnderItsFilter` | `StoredAsPublished` | the same, with `FiltersAreStripped` as hypothesis |
| `DeliveredFindsRoute` | `DeliveredIsRouted` | the same, with `FiltersAreStripped` and `NoEmptyLevels` as hypotheses |
| `RejectedMessagesStayOut` | `RejectedStaysOut` | any routes, topics, payloads and settings, filters that cover the DLQ topic included |
| `CommittedEntriesAreStored` | `CommittedIsStored` | any log, batch size, refused entries, failures and restarts |
| `SinkIsTypeCorrect` | `SinkTypeOK`, the cap on the pauses included | the same |
| `OutagesAreSignalled` | `OutageIsSignalled` | the same |
| `BodyReadsBackAlways` | `BodyReadsBack` | any messages that the raw schemas accept, texts of any length and content, any size of a batch, with `NoLineBreakInTags` as hypothesis |
| `TagsAreEscapedWithoutLineBreaks` | `TagsAreEscaped` | the same |
| `LineStep` | the next character leads on in the line, or ends it with its point | any point of the mapping, any place in its line |
| `EscTagKeyEscapes`, `EscStringFieldEscapes` | each character with a meaning gets one backslash, nothing else changes | any text |
| `DisorderStaysInABatch` | `DisorderIsBounded` | the same |
| `SinkImplementsDelivery` | `ImplementsDelivery`: the refinement of `AtLeastOnceDelivery` | the same |
| `NothingIsTakenUnserved` | `ConnectedIsWhole` | any environment, number of starts, clock, messages |
| `PersistentSessionIsResumed` | `SessionIsResumed` | the same |
| `StartupIsTypeCorrect` | `StartupTypeOK` | the same |
| `ShutdownSettlesTheBacklog` | `BacklogIsSettled` | any messages, workers and capacities, any order of broker events and signals |
| `ReadinessIsTruthful` | `ReadyMeansSubscribed` | the same |
| `IngestionIsTypeCorrect` | `IngestionTypeOK` | the same |
| `IngestionImplementsLedger` | `ImplementsLedger`: the refinement of `JobLedger` | the same |
| `SettledJobsStaySettled` | `SettledIsFinal` | the same |

Assumptions: those the modules state on their constants (`RecordLen[m] > 0`, a queue of at least one, and
so on), and the hypotheses named in the table. `FiltersAreStripped` (no filter starts or ends in a slash) and `NoEmptyLevels` (no
topic has two in a row) are there because `TopicPattern` drops such slashes and its `+` refuses an empty level, where the broker
does neither: `MessageStages_empty_level` shows the second. `EnvelopeAssumption`
(what the DLQ publisher sends satisfies no raw schema) holds of the schemas in the repository, which require fields it does not have. `WholeWrites` (no
torn write is seen, no read fails) leaves out two of the three ways in which `next` loses a record, to show that the
third is the only other one.

`NoLineBreakInTags` (no tag of a canonical message has a line break within it) is what the service does not enforce (note 8 of
section 4); `LineProtocol_line_break` shows that the theorems need it. Fields may contain one.
`LineAssumption` says which fields a message has and that a number is written as one token that is neither a delimiter nor a suffix.

**Seqlock.** `StoreInv` says that the version is odd exactly while the first increment of a store is written and the second is not, and that
each field holds the latest published pair until the store writes it, in whatever order it does. `LookInv` and its two companions say of each
load that what it has read of a field is of an offset held since its look, and that a field that is not late is the one published
under the version the load began with, as long as that version has stood: a field of a later store is either read under a version
that has moved, which the check sees, or late. Nothing is assumed of the order of loads and stores beyond what the code's
orderings enforce. `SeqlockIsACell` places the effect of a store at its second increment and that of a load at its first read of the version; a retry is
another look. `LooksAreSound` needs only the two source offsets of a mixed pair and three cases of its place beside the position.

**Writer.** None of the four safety properties is inductive alone. `WriterInv` adds:
`RequestInv` (the thread has a request in hand exactly where it works on one, and has resolved its acks on every
way out of the loop), `FileInv` (the current segment is the newest file, its visible length within what was written,
and nothing is buffered after a flush), `KeptInv` (the writer itself never removes a segment), `LogInv` (each record of
a segment that is there is wholly visible, unless that is the current one), `PendingInv` (acks wait only for records of the current segment), `HeadInv` (the head is at
or behind what is visible) and `TailInv` (the next record starts where the last one ends). Each conjunct has a lemma with one step per action; `StepWriterInv` puts them
together; the theorems follow by PTL. `AppendedOnce` and `RefusedIsAbsent` need `OnceInv` on top: an accepted append is in one place, the
queue, the thread's hand or the log, and in two of them only while its record is being spilled; the steps that neither send, receive
nor store share one lemma (`OnceKept`), which also serves `Stop`, `Open` and the reader's steps in the whole system.

**Log system.** `SystemInv` takes over the writer's invariant but for `KeptInv`, since `commit` deletes segments
(`LogSideInv`), and relates the two sides by `PlaceInv`: the cursor is at or before the reading position, which is at most in
the segment of the head; all three are ends of frames wholly on disk; every segment from the cursor on is there. From this,
what lies below a position can be read, no frame straddles one, and the frame being written lies beyond all of them.
`TaskInv` says which calls of the subscription run in which phase of the forwarder, `BatchInv` that the batch ends between
cursor and reading position, `FreshInv` that until the sink has it the batch is still in the log, and `CoverInv` that what
`next` has passed is with the sink, in the batch or skipped, so that committing the end of a batch the sink has taken leaves
nothing uncovered. `StopInv` says that a stopped process has only its files, in which every frame is whole or absent
from `log`; `Wal::open` then truncates the last segment only beyond its last frame. Each conjunct has a lemma for the
steps of the writer, one for those of the forwarder, and its part in `Stop` and `Open`. For the refinement every step is
named: what the writer makes visible is a Store, the sink's step a Forward, an advance or a skip a Lose of what
was readable and unread, the write of the cursor a Release; deletions, stops and starts change nothing that is stored.

`RunInv` says that the batch lies in order below the reading position and leaves nothing out between its first record and there.
The one step that could break it is the take of a record: as no frame straddles the position, the one taken starts
at it, so every other record lies on one side (`TakenIsNext`). `WholeInv` says that with whole writes each file ends where a
frame does, `ReaderInv` that an open descriptor then stands at the reading position, and that `next` only thinks of skipping where
a poisoned frame starts. `FrameAtPosition` shows that a file longer than the position has a frame that starts exactly
there, found as the least of those that start at or after it; a skip thus passes one record, the poisoned one.

`WakeInv` extends `NoWakeupIsLost` to the moment before parking: a registered reader that has seen nothing newer stays right until the
writer publishes, and the writer then stands before its notification. It is inductive alone. `EndInv` says that the last `Arc` of the
writer is gone only when it can publish no more, so that a `None` of `next`, which looks at the head once more after the count, is given at a head that
is final; from there the forwarder only flushes and leaves. `PublishedInv` says that a record whose append was told Ok lies below
the head, since the writer answers after it has published; a stop keeps it, as what lies below the head is in the file, and
`Wal::open` publishes no less than before. With `CoverInv` and an empty batch, nothing is left behind.

**Cache.** `UpdateInv` says that cached values belong to inserted updates and that what had returned when an update
began stays returned: an update about to be inserted cannot be among the earlier ones of any other. The bound on the
map follows from the cardinality of what an insertion keeps. `ClientInv` says that each update sent is in the
broadcast, and that each client knows it, has it ahead, or has been told to poll; a lagging read re-establishes the
third.

**Stages.** `StagesInv` says of each stage what the ones before it have established: the payload is decoded, the route
is that of the topic and the devices agree (`CheckingInv`), the canonical message is the transform of
the payload and has passed the business checks before it is cached or stored, and each effect is consistent with the
reason for the DLQ, if any (`EffectInv`). A message that has come back from the DLQ satisfies no schema, so it goes no further than `ValidateRaw`. `ScoreIsOnScale` splits the score by the three ranges of the humidity.
`RoutingInv` says that the type a message is handled as is that of the first route whose pattern matches. `MqttMatches` is a recursive function
over the levels of the filter; `MqttMatchesRest` shows that its equation has the closed form `RestMatches` as its only solution, by
the least level from the end at which another one would differ, which needs only that a set of numbers has a least element. With
both matchers as quantified formulas their agreement is a matter of cases.

**Sink.** `BatchInv` says that a batch waiting for its commit is in the database, `StoreInv` that nothing further
than a batch beyond the cursor was ever posted, which a restart does not change; `DisorderIsBounded` follows from the
two ends. For the refinement an answer of the database is a Deliver of what it stored of the batch, confirmed or not,
the write of the cursor a Pass, and all else a stutter.

**Startup.** `OrderInv` says, for each place in `main`, which parts have been started before it, and that the source only
runs between its start and its join; a connection implies a running source. `SessionInv` says that, without a clean session,
every client id in use is the configured one and that the broker knows it as soon as a message is owed.

**Ingestion.** `JobInv` says that a message not yet done is somewhere: a queued one in the queue of a worker, a running one
in the hand of a worker that works. `WorkerInv` says that a worker only leaves its loop after the signal with a
queue empty of anything older: what arrives between its last look and its end, and is dropped with the queue, is late.
`ShutdownInv` follows `main` through its joins, so that at the end every worker is gone, and with them every queue and
every hand. `ReadyMeansSubscribed` is inductive with the types. For the ledger a job must be in one place:
`QueuesInv` (no message twice in a queue or in two queues, and a queued one is marked so), `HandsInv` (two workers never hold the same) and
`HeldInv` (what the source holds has not been dispatched). A step of a worker then moves exactly one job.

**Line protocol.** `ReadInv` says that the batch is the rendering of what has been handled and that the database, once it reads, is
at some place in the line of one message with the points of the earlier ones and the rest of that line before it (`Reading`), or has read
everything. `InLine` names the places: in the measurement, in the key or the value of a tag or a field, behind the
closing quote, in the time. Each has a lemma that says which place the next character leads to; `LineStep` puts them together. What
is read of a text so far and what is still escaped ahead always add up to the text, so a text cannot end early:
`EscTagKeyEscapes` shows that the chain of replacements is one pass (`Escaped`), because the backslash is replaced first, and
the reader takes one pass back. Tags and fields follow in the order of their keys, so what the reader has collected
is the point restricted to the keys before its place, which at the end of the line is all of it.
The induction theorems of the library cannot be used, as they take an operator. What is recursive (`FlattenSeq`, the
body of `BuildBody`) is a recursive function here, and what it computes for every input follows from a
shortest counterexample: its equation would make the one before it a counterexample, too.

Only model-checked: every liveness property (TLAPS does not reach fairness and ENABLED) and the refutations of section 4.

## 6. Plan

Done here: the WAL from append to sink with restarts, the ingestion side, the cache, the content of messages
from topic to line protocol, start and stop of the process; proofs of every safety property of the runs, and of
the four refinements (cell, log, ledger, delivery). In order, next:

1. Losses of power: which part of the written files survives without fsync, and what `Wal::open` makes of a cursor
   beyond the end of the active segment.
2. The ingestion side on top of `WalWriter` instead of the two outcomes of an append.
3. `WalForwarder` with the attempts of `SinkDelivery`, shown to implement its single step.

## 7. Not modelled

- The JSON of a payload and the raw schemas: a payload is accepted by its schema or not. The formulas of dew point and heat
  index, and the rendering of floating-point numbers: a number is an integer.
- The counters and gauges: output only.
- rumqttc, tokio, the HTTP server and InfluxDB, except for what the code relies on.
- Durations. Timeouts and pauses are steps that may happen at any time their guard allows; the forwarder's pause has a length
  in `SinkDelivery`, but nothing waits for it.
- What happens to a DLQ message between the request channel and the broker; the order of one sensor's messages over
  several workers, which the code does not promise.
- A corrupt frame above 1 MiB, which `skip_corrupt_record` refuses; a panic inside a worker.
