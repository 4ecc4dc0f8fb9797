# Verification of bevy-quic-networking

TLA+ models of the crate in `src/`, the TLC runs that check them on small
instances, and proofs, checked by TLAPS, of what holds for every value of the
constants. Paths below are relative to the repository, as in `src/common/...`;
`PROJECT.json` maps every definition to its lines.

## The system

The crate lets a Bevy app, whose systems are synchronous, use s2n-quic, which is
async. Each QUIC object has two halves: a component that systems call, and a
tokio task that owns the s2n-quic object. They share channels, a `JoinHandle`
and, for a connection, two atomic flags. Nothing is locked, and the interesting
behaviour lies in the orders in which the halves act.

| Component | State | Operations | Hard part |
|---|---|---|---|
| Connection (`common/connection/mod.rs`) | command sender, `pending_stream`, `is_open`, `JoinHandle` | `accept_*`, `open_*`, `close`, `is_open`, `should_poll_accept` | flags read before, and written around, a `try_send` that may fail |
| Connection task (`common/connection/task.rs`) | command receiver, `buffered_stream`, `disconnect_flag` | loop, four commands, short polls | sleeps without polling the connection while a stream is buffered |
| Attempts (`common/attempt.rs`) | oneshot receiver or `JoinHandle`, `returned_value` | `attempt_result` | who is given the result, and what a vanished sender means |
| Attempt handlers (`common/stream/plugin.rs`, `common/connection/plugin.rs`) | none | replace an attempt by its result | deferred commands, failures |
| Acceptors (`server/acceptor.rs`, `client/acceptor.rs`) | none | poll every connection in every frame | rely on the flag |
| Send stream (`common/stream/send.rs`) | outbound and control senders, batch, reason | `send_many_drain`, `close`, `flush`, the task's loop | full channels in the middle of a drain; control overtakes data |
| Receive stream (`common/stream/receive.rs`) | inbound receiver, control sender, batch, reason | `recv_many`, `stop_send`, the task's loop and drain | blocking calls on the app's thread; bounded channel on a reliable stream |
| Session systems (`common/stream/session.rs`) | one buffer per frame | move packets, fire events, observe `Disconnect` | a buffer shared by all entities; unordered systems; a wait inside a frame |
| Disconnect handlers (`common/plugin.rs`, `common/task_state.rs`) | cached reason | remove components whose task finished | what still waits in a channel goes with them |
| Endpoints (`server/mod.rs`, `client/mod.rs`), ids | s2n-quic endpoint | accept and open connections | |
| Runtime, plugin groups, markers, status codes | | | registration and constants |

What makes each part correct:

- connection: every peer stream is handed to one attempt or closed, in order,
  and none waits unannounced; the end of the connection is noticed, once; a
  close is not lost;
- attempts: a result is handed out once, an error is the true one, and the
  attempt leaves its entity;
- streams: packets keep their order, are lost only where the code says they
  are, and both the end of the stream and the end of its entity stop the task;
- frames: packets of one stream never reach another, the end of a stream is
  announced at most once, and takes its entity with it.

## Modules

| Module | Models |
|---|---|
| `StreamHandoff` | abstract: what the accept side promises about the streams a peer opens |
| `ConnectionTask` | `QuicConnection`, `ConnectionTask`, the command channel, flags and accept attempts |
| `ConnectionTaskProofs` | the theorems about `ConnectionTask` |
| `ActionAttempt` | `QuicActionAttempt` over both providers, and its handlers |
| `ActionAttemptProofs` | the theorems about `ActionAttempt` |
| `PacketPipe` | abstract: what each stage of a stream, and all of them together, promise about packets |
| `PacketPipeProofs` | what follows from the promise: order, and where packets go missing |
| `SendStream` | `QuicSendStream`, `SendTask`, `aeronet_session_send` |
| `SendStreamProofs` | the theorems about `SendStream` |
| `ReceiveStream` | `QuicReceiveStream`, `RecTask`, `aeronet_session_recv` |
| `ReceiveStreamProofs` | the theorems about `ReceiveStream` |
| `AppFrame` | every system that touches a stream's entity, in its schedule, over any number of apps |
| `AppFrameProofs` | the theorems about `AppFrame` |
| `AppPipe` | one direction of one stream among those of `AppFrame`, seen as a `PacketPipe` |
| `AppPipeProofs` | the theorems about that direction |
| `QueueLemmas` | lemmas about queues that pass items on, which the proofs share |
| `MC...` | the values that the `.cfg` files need |

s2n-quic, tokio's channels and Bevy are external: they are modelled from how
the code uses them.

**ConnectionTask.** At most one call is in progress, because Bevy gives one
system at a time `&mut` access to a component. A call is split where the task
can see it: `StartAccept` clears `pending_stream`, `SendAccept` does the
`try_send`; `StartClose` reads `is_open()`, `SendClose` queues the command or
closes the connection directly. The task is split at its awaits; `pc` is `top` at
the loop's condition, `recv` and `select` in its two waits, `poll` inside
`accept_receive` or `accept_bidirectional`, `dropped` between the return of
`start` and the moment the `JoinHandle` is finished. The select is biased:
an `Incoming...` action needs an empty channel whose sender lives. `attempt` is
the joint state of an attempt and its oneshot channel. The peer opens streams of
two kinds, numbered, so that order can be stated; `link` is what an accept
reports once it does not return a stream.

**ActionAttempt.** One attempt of any kind that the crate creates, on a
`JoinHandle` or a oneshot receiver. `holder` says where the connection or stream
is. A handler only queues commands; `ApplyCommands` applies them. The application
may ask the attempt itself. The error components of two optional features are
not modelled.

**SendStream, ReceiveStream.** Packets are numbers, so order, loss and
duplication can be stated. `send_many_drain` and `transfer_payload_data` are split
at each `try_send`, as the other half empties or fills the channel meanwhile.
`ReceiveStream` keeps the two schedules of a frame apart: `recv_many` blocks
`PreUpdate`, the handler runs in `Update`.

**AppFrame.** The composition. An app is in a schedule, with the systems that
have still to run (`todo`), the commands they queued, and, inside
`aeronet_session_recv`, the entities that are still to be served (`visit`) with
the buffer they share. Systems of one schedule run in any order, since the code
orders none of them; the query yields entities in any order, too. An end of a
stream is an entity with two halves, whose tasks are abstracted to what
`SendStream` and `ReceiveStream` show of them: they carry packets as a
`PacketPipe`, and end. `cached` is a half whose task was joined by the first
system that asked for its reason. The other end is an entity of another app, or
*elsewhere*: in a program without frames, which sends and receives when it
likes. The tasks start before the attempt hands its stream out, as in
`open_bidirectional` and `QuicPeerStream::new`, so a channel may fill, and a half
end, before there is an entity.

**PacketPipe.** Packets are offered, delivered from the front, dropped only
behind `Capacity` others, and cut: of what is in a pipe that is cut only a front
remains. `SendStream` implements it from the session to s2n-quic without
drops, `ReceiveStream` from s2n-quic to the session with the inbound channel's
capacity, and `AppFrame` from session to session, one pipe for each end.

**AppPipe.** It names the end that sends, `From`, and maps its packets, wherever
they are between the two sessions, to one pipe. A packet of another end is
numbered 0 in it, so that a session which is given one is no `PacketPipe`.
`From` is a constant that may be any end; `EveryPipe`, in `MCAppFrame`, takes all
the ends at once for TLC.

## Runs

| Run | Question | Bounds |
|---|---|---|
| `ConnectionTask_safety` | types, streams accounted for, no lost wake-up, one event, closed stays closed, refinement of `StreamHandoff` | 2 attempts, 2 streams of each kind, channel of 2, every user operation |
| `ConnectionTask_acceptor` | liveness with the plugins alone | 2 attempts, 2 streams of each kind, channel of 1 |
| `ConnectionTask_user` | liveness of close, of a dropped connection and of commands | 2 attempts, 1 stream of each kind, channel of 1 |
| `ConnectionTask_settle` | violated: an accept attempt always comes to its end | as `user`, accepts only |
| `ActionAttempt` | results are handed out once, truly, and in the end | finite without bounds |
| `SendStream` | refinement of `PacketPipe`, what a close loses is counted, reason, and liveness under faults and with any peer | 4 packets, channel of 3, batches of 2, control channel of 1 |
| `SendStream_dead` | violated: the task ends with its stream | 3 packets, channels of 1 |
| `ReceiveStream` | refinement of `PacketPipe`, loss, reason, and liveness under faults | 4 packets, channel of 2, batches of 2, transfers of 1 |
| `ReceiveStream_lost` | violated: packets are dropped only when the channel is full | 3 packets, channel of 2, no user operation |
| `AppFrame` | each stream is a pipe of its own, from session to session (`EveryPipe`) | 1 app with 2 streams, one opened at each side, the other ends elsewhere; 1 packet out, and 2 and 1 in; channels and transfers of 1; one end may fail |
| `AppFrame_end` | one announcement at most, the entity goes, and what the peer sent arrives as from a pipe whatever ends meanwhile (`EndToEnd`) | 1 app, 1 stream, a packet each way; every end may fail, `Disconnect` and despawn at any time |
| `AppFrame_silent` | violated: a packet left in a session is drained | 2 apps, 1 stream, a packet each way, nothing fails |

Why the bounds are enough. Two attempts suffice for one that is answered while
another is queued, and two commands for one behind the other, or for a channel
with, and without, room. Two streams of a kind are needed for order, and one of each kind
reaches each pair of a command and a buffered kind. A batch of 2 and 4 packets reach every split of packets over wire,
batch, channel and backlog, with the channel full before, in and after a batch.
Two entities are enough for a buffer that one
leaves to the next, and a session that is empty, or not, when it is served; a
channel of one packet is full, and drops, with two on their way; a transfer of
one leaves a packet in the channel. The sizes in the code (1024, 512, 128, 32) only say when a channel is full.
Attempts are interchangeable, which the safety run uses as symmetry; runs
with liveness do not. Deadlock is not checked: all these systems may stop.

## Fairness

The tokio runtime polls a task that can make progress, and its timers fire: weak
fairness of the task. A call that a system began comes back when it can, and
Bevy runs each plugin's system in every frame: weak fairness of `FinishCall`,
the handlers, the acceptor and `Resolve`. `SendStream` has strong
fairness of both branches of its select, because `select!` without `biased`
picks at random among the ready ones, and of the start of a drain, which Bevy
runs in every frame between calls of the application. Its task has no fairness
while it `AwaitsPeer`: it is in `send_vectored`, `flush` or `close` of an open
stream, and a peer that gives no credit or acknowledges nothing, but keeps the
connection alive, holds it there. So `CloseEndsTask`, `CallReturns`, `DespawnEndsTask`
and `PushedIsWritten` say that something happens *or* that the task is held for
ever (`\/ []AwaitsPeer`), and a system of the app that calls `close` or `flush`
with it. `ReceiveStream` has strong
fairness of the end of a frame: the application makes only so many calls in one.
In `AppFrame` an app takes its next step when it is not blocked, packets
arrive, and receive tasks that are told to end do; a send task need not, since its
peer may hold it, and no task ends by itself for certain.
`EndedGoes` is conditional: it says what holds of an app whose frames go on,
because a silent peer stops them. The biased selects get no such help.

Of what is outside the crate three things are assumed. In `AppFrame` packets that
were sent arrive, so the peer takes them in; `AppFrame_silent`, which uses it, fails
all the same. In `ReceiveStream` the drain after `stop_sending` ends: s2n-quic's
`receive` returns once the stream was told to stop. And the peer of a receive
stream falls silent in the end: `StopEndsTask` and `DespawnEndsTask` of
`ReceiveStream` hold because `MaxPackets` makes it so. A peer that never pauses keeps
the biased select from its control channel, and the code guarantees nothing
then. A silent peer, on the other hand, holds the frame up in `recv_many` for as
long as it is silent; `FrameReleased` says that nothing else does.

## Proofs

Each safety invariant, action property and refinement that a passing run checks
is proved for every value of the constants. TLC found out first, on the small
instances, that they hold, and that the inductive invariants do. The theorems
share one form: `Invariance == Spec => []IInv`, with one lemma for each part of
`IInv` and in it one step for each action; the properties follow from `IInv`.

The assumptions are those of the modules, which TLC evaluates in the runs: sizes of
channels, batches and transfers are positive, bounds on packets and streams
natural (`SizesAssumption`, `ConstantsAssumption`); in `ConnectionTask`, `None` is
neither an attempt, a stream nor a command; in `AppFrame`, there are finitely many
ends, each the peer of its peer, one of the two the opener, and `Elsewhere` is no
app. In `AppPipe` `From` is an end. Nothing is assumed of schedules, of
the order of systems, or of which ends fail.

### ConnectionTask

`TypeCorrect`, `StreamsAccountedFor`, `NoLostWakeup`, `DisconnectOnce`,
`ClosedForGood` (the action property) and `ImplementsHandoff` (the refinement of
`StreamHandoff`). None of the invariants is inductive alone. `IInv` adds what
ties the parts together:

- `TaskShape`: what `pc` implies for the task's other variables, for instance
  that the task sleeps in `recv` only with a stream buffered, and that a task
  which is done has an empty channel and no command in hand;
- `SendersMatch`: an attempt is `queued` or `orphan` exactly if one place, a
  position in the channel or the command in hand, holds its oneshot sender.
  Without it an answer could go to a slot that was freed and used again;
- `CarriedAnswered`: only an answered attempt carries a stream;
- `BufferedNewest`: the buffered stream is the last one accepted of its kind, so
  that a poll cannot return it again, and the refinement mapping can
  count it as not yet taken.

The refinement maps an answer with the buffered stream, or a poll, to `Offer` or
`Discard`, `Resolve` to `Own`, `DropAttempt` to `Abandon`, the exit of the task
with a buffered stream to `Discard`, and everything else to a stutter.

### ActionAttempt

`TypeCorrect`, `NoSecondJoin`, `Delivered`, `ErrorsAreTrue`. `IInv` adds:

- `ResultKept`: the task's result was taken exactly if something is remembered in
  `returned`, and that is what the result left there. It is why nobody joins
  twice;
- `EntityFollows`: the entity loses its attempt only through the commands of the
  handler that was given the answer. An attempt that a handler found consumed was
  emptied by the application, so that its removal loses nothing;
- `HolderFollows`: where the connection or stream is, from the end of the task on.

The proof found an error in an earlier form of the model: two cases of
`ApplyCommands` overlapped for an entity that is gone, and TLC took the first.

### SendStream

`TypeCorrect`, `LossCounted` (the action property `LossIsCounted`),
`ReasonsAreTrue`, `NoWriteAfterFinish`, `ImplementsPipe`, and `GaplessFront`:
s2n-quic is given the first packets that were pushed, without a gap. `IInv` adds
`Whereabouts`: as long as the component lives, the task runs and no write has
failed, wire, batch, channel and unsent backlog are what was pushed, in order; at
the end of the loop the batch is empty, and `LossIsCounted` follows. It adds `TaskShape`, the batch and the flag at each position of
the task: without it, a batch might be left behind when the loop ends while the
channel still counts; and `CallShape`: `sent` counts in a drain only, of a component
that lives, so that a drain cannot skip items.

### ReceiveStream

`TypeCorrect`, `ReasonsAreTrue`, `NoLoss`, `ImplementsPipe`, and `SessionInOrder`.
`PacketsConserved` is not inductive, since it does not say which packets are in the
batch. `IInv` has in its place `Conserved`, the same of the packets that the
batch has passed on, and `BatchShape`: the batch holds the last ones read,
without a gap. The clause about the dropped packets, that `InboundSize` others
are in front of each, needs a count of a set: the channel was full when the packet
was given back, and its packets, all below and none dropped, are that many.
`TaskShape` says that the end of the stream is told with its last packets,
which `ReasonIsTrue` rests on.

### AppFrame

`TypeCorrect`, and `OneAnnouncement`. That no half is announced twice holds by an
argument over two frames, which no variable records: after the announcement in
`PostUpdate` the announcing system does not run again in that schedule, the half
stays ended, and the handler of the next `Update` finds it and queues a
despawn, which is applied before the next `PostUpdate`. `Announcements` says so
with `Doomed`, the stretch of the frame an announced entity is in. The despawn
needs `CommandsFit`: an entity that is gone does not come back by an `insert` that
was queued before. `NothingLeft` says that the shared buffer is empty
between two entities, and `ElsewhereUntouched` that an end elsewhere is no entity.

### From session to session

`AppPipeProofs` proves `ImplementsPipe == Spec => EndToEnd`: each direction of
each stream implements `PacketPipe`. Within its proof the steps are put as what they
do to the packets in the pipe, and their numbers follow.

In all three refinements the push or the arrival of a packet is `Offer`, what
is given to the far side `Deliver`, a packet that meets a full inbound
channel `Drop`, behind the `InboundSize` packets in the channel, and the end of
the stream, of its task or of its entity `Cut`. Everything else only moves packets
along within the pipe and is a stutter. tlapm cannot reason about an
instance with a parameter, `Pipe(e) == INSTANCE`, which is why `From` is a constant.

`PacketPipeProofs` says what implementing `PacketPipe` is worth, once for all
stages: `Ordered`, and `ComesOut`: what comes out was put in, is in order, each
packet at most once, and without a gap if no more were put in than are kept.
Each stage inherits it through its refinement: `GaplessFront`, `SessionInOrder`,
and `NoForeignPacket`, which says that no session is ever given a packet of
another entity's stream, though one buffer serves them all.

### Only model-checked

- All liveness: fairness and ENABLED are beyond the prover.
- `EveryPipe`, the form of `EndToEnd` for all ends at once; the theorem is of
  `EndToEnd` for any one.
- The properties of the runs marked violated: TLC's counterexample settles them.

## Where the code and its text disagree

- An attempt whose oneshot sender is dropped stays pending: `is_empty()` is true
  of a closed channel (`common/attempt.rs:25`, run `ConnectionTask_settle`).
- A send task outlives its stream (`common/stream/send.rs:215`, run
  `SendStream_dead`).
- Packets that wait in the inbound channel go with the entity when the task has
  finished (`common/plugin.rs:58`, run `ReceiveStream_lost`).
- A frame that waits for a stream's first packet keeps the packet that would
  make the peer send one: `aeronet_session_recv` blocks before
  `aeronet_session_send` has run (`common/stream/session.rs:86`, run
  `AppFrame_silent`).

Seen while modelling, and without a run:

- nothing handles send stream attempts (`common/stream/plugin.rs:24`), although
  their doc says so (`common/stream/mod.rs:52`); `ActionAttempt` leaves them to the
  application, and `AttemptReplaced` is of the other kinds;
- `close` and `flush` do not drop a command over the channel's size
  (`common/stream/send.rs:21`): they block the system that calls them (line 78),
  for good if the peer holds the task, as `CallReturns` says;
- messages over the outbound channel's size are not "dropped"
  (`common/stream/send.rs:23`): `send` gives them back and `send_many_drain` leaves
  them in the session, as `PipeSpec` of `SendStream` checks;
- nor are the commands of `stop_send` (`common/stream/receive.rs:32`), which blocks
  as `close` does, though only until the task next empties the channel;
- the count of dropped messages that a send task logs at its end
  (`common/stream/send.rs:276`) leaves out the batches of writes that failed
  (line 192); `LossIsCounted` is of a task that was closed on a connection that
  did not die;
- a stream's `Disconnected` event is fired in `PostUpdate` only for a half that
  ends between the handlers of `Update` and that system; any other is despawned
  first. If both halves end there, two events are fired for one entity.
  `session.rs:61` promises the event, and `common/plugin.rs:20` that there is none;
- the first half to end despawns the entity, and what the other half had queued
  goes with it;
- `should_poll_accept` is false, not true, before the first accept
  (`common/connection/mod.rs:296` against line 105);
- `close` can meet a closed channel on an open connection without there being a
  bug (`common/connection/mod.rs:280`), when the task returns between the check
  and the `try_send`. `CloseTakesEffect` covers that the close is not lost;
- an application that has a command queued in every turn of the task's loop keeps
  the biased select from the connection (`common/connection/task.rs:206`), and
  `Accept` answers None without a look at it.

## Not modelled

- The server endpoint: `accept_connection` polls once, with a waker that does
  nothing, a queue that s2n-quic keeps, and `accept_connections` spawns what it
  returns. The connection then is a `ConnectionTask`.
- The constructors of both endpoints, and TLS: I/O.
- Ids: one atomic `fetch_add`, and nothing in the crate compares them.
- The texts of disconnect reasons, logs, and the channels of logged errors.
- The error components of the features `connection-errors` and `stream-errors`.
- Streams with one half in `AppFrame`: their systems are those of that half, of
  which `SendStream` and `ReceiveStream` have the detail.
- What Bevy does with a command for an entity that is gone, beyond the fact that
  what was to be inserted is dropped.

## Plan

Done: the models of all parts with hard behaviour, and the proof of every
safety property, action property and refinement that a run checks. What is left,
most useful first:

1. What `StreamHandoff` implies for the application, as `PacketPipeProofs` does
   for packets: streams of a kind are handed out in the order in which they were
   opened, and none both to an attempt and to the peer's loss.
2. Action properties that the invariants give: that an end, its reason and a
   removal are final, for each of the halves.
3. The server endpoint, with its poll of a queue that nothing wakes.
