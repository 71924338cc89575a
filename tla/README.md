# A TLA+ model of mavlink-router-rs

This directory holds a model of the router in `src/`: TLA+ modules, TLC configurations
that check them on small instances, and proofs that TLAPS checks for every size.

Run a check with `tlc -config Lifecycle.cfg MCRouterSystem`, and a proof with
`tlapm RegistryProofs.tla`. `PROJECT.json` lists the runs, the source lines behind every
definition, the hazards of the code and the properties that answer them.

## The system

The program routes MAVLink frames between endpoints. `main` turns arguments and a file into a
configuration and hands it to `run`, which starts the tasks. One **router task** owns the
routing state. Every endpoint runs in tasks of its own and talks to the router through four
things:

| what | direction | discipline |
|---|---|---|
| event channel (`EndpointAdded`, `PeerAdded`, `PeerRemoved`) | endpoint to router | bounded FIFO, awaited send |
| frame channel | endpoint to router | bounded FIFO, awaited send |
| transmit queue, one per routable endpoint | router to endpoint | bounded, a full queue drops its oldest frame |
| `EndpointStats`, one per endpoint | both write | atomics |

The router also reports to a **stats task** over a bounded channel with `try_send`. One
cancellation token ends everything; `shutdown()` waits for the tasks and aborts what is left.

### Inventory

| part | state | operations | what is hard about it | properties |
|---|---|---|---|---|
| startup (`main.rs`, `parsers/`, `spec/`, `config.rs`, `lib.rs`) | arguments, file, configuration | parse, merge, validate, size | two ways in, texts that are parsed twice, defaults and overrides | `RunsOnlyValid`, `NothingIsLost`, `TomlMatchesCommandLine`, `FilterMeansItsText` |
| routing decision (`decide.rs`, `learn.rs`, `filters.rs`) | learn tables | `decide`, `target_match`, `touch`, the filters | eviction at capacity, wildcard targets, groups and sniffers together | `RoutedByHistory`, `LearnsMostRecent`, `NoEcho` |
| groups (`group.rs`) | shared learn table, refcount | `join`, `leave` | members come and go in any order | `GroupRefcount` |
| dedup (`dedup.rs`) | ring, hash set, clock | `check_and_insert` | two structures that must agree; expiry and eviction race | `RingSetAgree`, `SuppressedExactly` |
| router task (`router/mod.rs`) | registry, groups, window | events, frames, drain, sweep | two channels polled in turn, shutdown in between | `LifecycleInv`, `RegistrationsPair`, `MirrorTracksRegistry` |
| reading (`framer.rs`, `seq_tracker.rs`, `session.rs`, `stats.rs` of the endpoint) | buffer, totals, last numbers | scan, resynchronise, observe, count | frames split anywhere, false starts, eight-bit numbers, new framer per session | `ChunkingIrrelevant`, `IntactFramesSurvive`, `FramesAreSlices`, `StatsAddUp`, `LossEstimate` |
| writing (`tx_queue.rs`, `session.rs`, `tcp/client.rs`, `backoff.rs`) | queue, permit, link, delay | push, pop, drain, dial, write | two threads on a lock-free queue; reconnection | `WriterWakes`, `FramesAccounted`, `LinkIsFresh`, `BackoffCurve`, `DropsCountedOnce` |
| spawner (`spawn.rs`), `lib.rs` | next id, token | spawn, announce, cancel | the token fires half way through | `ShutdownCompletes` |
| `tcpc:`, `serial:`, `tcps:`, sessions | await points, frames in hand | dial, accept, read, write, reconnect, remove | every await is a point where others run | `RefinesRouterSystem`, `ShutdownCompletes` |
| `udps:` (`udp/server.rs`) | peer table, writers | admit, evict, reap, shut down, send | table, writers and registry change at different times | `TableBounded`, `TableMatchesRegistry`, `RemovedWritersEnd` |
| `udpc:` (`udp/client.rs`) | resolved addresses, latch | receive, send, look up, revert | lookups that fail or change their answer | `TargetScoped` |
| stats task (`stats.rs`), `shutdown.rs` | mirror, line queue, budgets | register, finalise, emit, drain, abort | stdout stalls, events come after the token | `TerminalAccounted`, `OutputOrdered`, `EndStateReported`, `AbortOnlyIfStalled`, `ShutdownReturns` |

## Modules

```
EndpointText   the text of an endpoint: grammar, names, queries, filters (operators)
  Startup        main: file, arguments, merge, validation, capacities
Routing        decide, target_match, touch, filters (operators)
  Router         the router task, poll by poll
    RouterSystem   Router + what every endpoint promises  (abstract specification)
      Dispatch       RouterSystem on registered endpoints, with a history
      RouterSafety   the properties of RouterSystem
        RouterProofs > RegistryProofs   (theorems)
    Transport      Router + spawner, ids, announcements, binding, operator
      EndpointTask   one task per id, and what RouterSystem sees of it
        StreamSystem   tcpc:, serial:, tcps:     implements RouterSystem
        UdpClient      udpc:                     implements RouterSystem
          TransportProofs   (both refinements, a theorem)
      UdpServer      udps:
        UdpRefinement  what RouterSystem sees of it; implements RouterSystem
        UdpProofs > UdpSystemProofs   (theorems, the refinement)
DedupWindow    the dedup window with its clock
  DedupProofs    (theorems)
Framer, SeqTracker   bytes to frames, numbers to losses (operators)
  Ingress        the reading half of a session, over reconnections
Link           the writing half: queue, notify, dial, backoff, session
  EndpointProofs   (theorems on Ingress and on Link)
Crc            the checksum, for Dialect and the instance of Ingress
Dialect        the build script: from dialect files to the message table (operators)
StatsTask      the stats task and the shutdown harness
  StatsProofs    (theorems)
```

The `MC` modules define the instances for TLC; `DedupWindow` and `StatsTask` need none.
`MCIngress` extends `MCDialect`, whose files give it its message table.

### Router

`registry` is the `Router` struct (`routing`, `groups`, `dedup`). `pc` is the place in
`run_inner`: `events`, `frames`, `drain`, `sweep`, `done`.

The select is biased, but its polls are separate steps: `NoEvent` finds the event channel
empty, and only then does `TakeFrame` look at the frames. Things can arrive in between. The
poll of the token and that of the event channel are one step, because a token that fires
between them commutes with the poll. `HandleAdded`, `HandleRemoved`, `FrameFromNowhere`,
`FrameDuplicate` and `FrameFresh` are the handlers. Each is atomic: a handler does not
await, it touches each transmit queue once, and a pop touches only its own queue. `SweepOne`
is one iteration of the shutdown sweep, since each iteration writes a state that others read.

### RouterSystem

The contract of an endpoint with the router. `life[id]` goes `none`, `announce`, `live`,
`gone`. An endpoint awaits its announcement, sends only frames that pass its in-filter,
pops or drains its queue, and a sub-endpoint announces its removal once. Nothing says when
or why, or how many frames there will be: that is left to the transports. The stats task is
here as a mirror of the registry.

`Pop` and `Drain` are also allowed to an endpoint that is `gone`, because the writer of a
`udps:` peer outlives the peer. That writer is also the only one to count a frame it popped
and could not send: `writing` is the set of peers whose writer has such a frame in hand, which
`Pop` adds to and `Sent` or `SendFails` takes from. `DropsCountedOnce` bounds the frames queued, in
hand and counted as dropped, together, by those the router has taken.

### Transport, StreamSystem, UdpServer, UdpClient

`task[id]` is the await point at which a task is; a step goes from one await to the next. The
head of each module lists the positions. Where a step writes two things other tasks read, it
is split. A send on a bounded channel is enabled when there is room, and fails when the
router is gone. The positions are mapped to `life`, in `EndpointTask` for the transports in which
every id has a task of its own and in `UdpRefinement` for `udps:`, and `RefinesRouterSystem` is
`RouterSystem!Spec` under that mapping. Each specification starts from a configuration with its
own kinds of endpoint only (`StreamsOnly`, `LeavesOnly`).

The transports leave the stats task out (`mirror` is mapped to the empty set). The router only
ever tries to send to it, so no transport can tell whether it runs.

- **StreamSystem** models `run_inner` of the leaves, `run_accept_loop` and
  `run_client_session` of the listener, and `run_session` with its forwarding loop. A `tcpc:`
  leaf dials again at once after a disconnect; a `serial:` leaf drains its queue, waits, and
  returns without another drain if the token fires in that wait.
- **UdpServer** keeps a listener's peer table ordered by `last_seen`. Eviction takes
  the head. The reaper takes a prefix whose length the clock decides. The announcement of a
  new peer comes before the eviction, as in `admit_new_peer`. A datagram may yield no frame
  at all and still admits or refreshes its peer.
- **UdpClient** keeps the list of resolved addresses and the latch. An address carries a mark
  for its IPv4-mapped form, which `canonical_ip` removes. The resolver may answer differently
  every time, or not at all.

### Dispatch and DedupWindow

`Dispatch` starts with all endpoints registered, a listener's peer among them, which may leave.
It logs each frame the router takes, who was registered then, and who got it. A frame whose peer
was removed before the router came to it reaches nobody, teaches its group nothing and does
not count as a copy. The properties say what should have happened from the log alone, without learn tables,
and so serve as the reference definition for `touch`, `target_match` and `decide`.

`DedupWindow` has the clock, the ring and the set. In `Router` a frame stands for its hash,
and expiry is the loss of any prefix of the window.

### Framer, SeqTracker and Ingress

`Framer` has `try_next_frame` as an operator that takes one turn of its loop: a byte or a
garbage prefix skipped, a frame emitted, or more bytes wanted. Buffers are sequences of
bytes; the checksum and the message table are constants, so that the theorem holds for any.
`Crc` is the real CRC-16/MCRF4XX, and the run uses it with a table that `Dialect` builds.

`Ingress` runs the framer as `run_session` does. `Read` appends what has arrived, cut wherever
the stream allows. `Scan` takes one turn and, for a frame, updates the loss estimate, the
counters and the in-filter. `Send` waits for the router. `Disconnect` and `RunSession` end a
session and start the next with a new framer, new `FramerCounters` and a new tracker. The
reference definition of the properties, `Parse`, reads the whole stream at once.

### Dialect

The build script as operators from files to the message table: `parse_xml` goes through the
events of the XML reader, `load` walks the includes, `compute_offsets` and
`crc_extra_for_message` lay a message out, `merge_entry` joins the dialects; whatever panics
leaves its name in `outcome`. `MCDialect` states what they compute over bounded inputs, as
assumptions that TLC evaluates with the `ingress` run: `PublishedTable` (the two messages of the
run get the bytes MAVLink publishes), `IncludesWalked` (all 512 include graphs of three files:
a cycle is found exactly when there is one), `DialectsAgree` (the order of two dialects
does not matter) and `OffsetsAreTheLayout` (all messages of up to three fields).

### Link

One `tcpc:` leaf and the router's `push`, at the grain of their atomic operations. `ForcePush`,
`CountEvicted` and `NotifyOne` are the three effects of `push`; a drain pops one frame at a
time; `Pop` fails (`empty`) before `Wait` registers with the Notify, whose permit is a Boolean.
A frame carries the number of the link that was up when it was pushed. The lookup answers with
any list, an address fails or connects, and `next_delay` doubles and jitters in milliseconds.

### StatsTask

The stats task with its select, its post-cancel drain and its writes, the router as the other
end of its channel, stdout as something that stalls, closes and resumes, and `shutdown()` with
its two budgets. Time is counted from the token. Steps of the task take no time, a write to
a stalled stdout does. An aborted task stops where it is; a `wedged` one never yields and is not
even aborted.

The lines are written inside the branches of the select, so the queue is empty whenever the
select is reached. It follows that interval lines and terminal lines never compete in it: the
branch of `enqueue_synthetic` that removes an interval line cannot be taken, and only terminal
lines accumulate, after the token. `StatsProofs` proves this as part of its invariant.

The channel closes when the task returns or is aborted, as it does in `Router` with `stats_open`.
`forward_stats` counts an event and warns when the channel is full, and does neither when it is
closed; the events still queued go with the receiver. `discarded` has the endpoints whose
`Finalize` was lost that way, and `cut_short` says that the task left its drain at the deadline
with the router still there. `TerminalAccounted` allows this loss to such a task only: a task
that heard the router hang up has nothing left to lose.

### EndpointText and Startup

A text is a sequence of tokens: punctuation, words, numbers. `EndpointText` has the parsers
as operators from texts to results, with `Then` for `?`. `Startup` has `main` step by step:
`LoadToml`, `IntoCliConfig`, `Merge`, `DryRun`, `Run`, each with its early return (`Fail`). A
TOML entry is a record of typed fields, which `into_spec` turns into a text and pairs and
gives to the same parsers.

## Runs

Times are with two workers.

| run | instance | states | time | shows |
|---|---|---|---|---|
| `lifecycle` | a sniffing leaf and a listener with a peer, one group, one frame | 504,594 | 50 s | the seven safety properties of `RouterSystem` |
| `dispatch` | a leaf and a peer in one group, the peer may leave; a sniffer with an in-filter, a leaf with an out-filter; four frames out of three kinds of address; tables and window of two | 841,858 | 2 min | routing follows the history; a recent copy, or a frame of a removed peer, reaches nobody and teaches nothing |
| `dedup_window` | three hashes, ttl 0 and 2, capacity two, five checks | 126,982 | 4 s | ring and set agree; suppression is exact |
| `stream_leaves` | a `tcpc:` and a `serial:` leaf, two frames, batches of two | 95,330 | 50 s | refinement; shutdown |
| `stream_listener` | a `tcps:` listener, two clients, two frames, one refused | 51,275 | 33 s | refinement; shutdown |
| `udp_server` | two addresses, three peers in turn, a table of one, one frame out of two | 132,592 | 2 min | table and registry agree; refinement; writers end; shutdown |
| `udp_client` | two leaves, a host with changing addresses, two ports, two frames | 395,924 | 1 min | refinement; targets and latches |
| `ingress` | all pairs of thirteen segments cut at any byte; reconnections; losses around the threshold and the wrap | 67,638 | 2 min | frames, counters and loss estimate follow the bytes |
| `stats` | two endpoints, a line queue of one, a channel of two, one tick | 603,926 | 1.5 min | terminal lines, order, budgets; shutdown returns |
| `startup` | about 1,600 texts, 3,000 TOML entries and 6,700 pairs of argument list and file | 40,557 | 2 min | only valid configurations run; nothing is lost |
| `link` | a queue of two, four frames, two links, three backoff settings | 257,407 | 20 s | wake-ups, accounting, freshness, delays |

Every property has a mutant: a plausible mistake in a definition (an operator whose name ends in
`_` and the mistake) under which TLC finds the property violated.

### What the properties of the newer modules say

- `ChunkingIrrelevant`: the frames, the drops and the forwards are those of the bytes read so
  far, however they were cut. `IntactFramesSurvive`: a frame that arrived intact is emitted,
  still buffered, or inside a frame that garbage in front of it made up and that no checksum
  rules out because its msgid is unknown. `StatsAddUp`: counters add up over sessions.
  `LossEstimate`: never more than what is missing, and exact while the sources fit the
  tracker and gaps stay below the threshold.
- `WriterWakes`: in a session that lasts, a non-empty queue empties. `FramesAccounted`: an exact
  balance of pushed, sent, dropped, held and lost frames. `LinkIsFresh`: no frame pushed
  before a link came up goes out on it. `BackoffCurve`: within a fifth of the doubled, capped delay.
- `TerminalAccounted`, `OutputOrdered`, `EndStateReported`: what a reader of the stats lines may
  rely on, as long as the stats channel never overflowed. `AbortOnlyIfStalled`: 1.5 s fit 2 s. `ShutdownReturns`: whatever the tasks do. It
  closes the exemptions of `ShutdownCompletes` below.
- `TomlMatchesCommandLine`: a table whose values hold none of the separators of the command line
  (`Quotable`: no `#` or `?` in an address, no `&` in the value of a pair) and the text with the
  same content are both accepted with the same result, or both refused. With a separator in a
  value the two ways in differ: the text is cut there, a table is not. Of a table, then, the
  property says that what is accepted is what the table says (`SaysItsTable`), field by field; only
  the brackets around a client's host are taken off. `FilterMeansItsText`: the lists of ranges pass
  what their text names, which is the reading of filters as sets in `Routing`.

### Bounds, and why they are enough

- Channels and queues have capacity 1 or 2, so a full channel is met all the time. Event
  channel 1 makes every announcement wait for the router; `lifecycle` has 2, so that an
  addition and a removal of the same id can both be queued.
- `MaxId` bounds the ids ever allocated: in `lifecycle`, a leaf, a listener and a peer; in
  `udp_server`, three peers in turn, so that a table of one evicts, reaps and readmits.
- `dispatch`: four frames fill and overflow a table and a window of two. The sniffer lets in one of the
  three kinds of frame, which keeps the run short; the other senders may send any.
- `MaxFrames` bounds the frames sent: in the transports and `Dispatch` by a guard, in `lifecycle`
  by `MCSpec`, since `RouterSystem` itself has no such bound and neither have its theorems. In
  `lifecycle` one frame suffices for the properties about the registry; a queue of one
  overflows in `stream_leaves`, which sends two, and the theorems hold for every capacity.
- `MaxBatch` bounds the frames of one read. Two give a session that is cancelled, or finds the
  router gone, with a frame still in hand.
- `ingress`: pairs of segments put every kind of segment before and after every other. Two
  segments suffice, because the framer's state between frames is its buffer alone. The
  losses are 0, 1, 63, 64 and 256, on both sides of the threshold and of the wrap, with a tracker
  of two and up to three sources.
- `link`: four frames overflow a queue of two while a drain is under way; four failures reach
  the cap of the curve.
- `stats`: with a line queue of one, two terminal lines compete; a channel of two fills up.
  The budgets 1, 2 and 3 keep the order of 1.5 s, 2 s and 5 s.
- `startup`: every scheme with every body, every query with a body its scheme takes, every type
  with every set of address fields and extras, values with separators among them, and every merge of up to two endpoints
  from each side.
- `CHECK_DEADLOCK FALSE` is set wherever the token may fire or `main` returns, since the system
  then stops, in `ingress`, whose streams end, and in `DedupWindow`, which ends at `MaxChecks`.
  `dispatch` checks deadlock.

### Fairness

`FairSpec` of `StreamSystem` and `UdpServer` assumes weak fairness of the router, of the spawner, and of each
task's own steps: tokio polls a task that was woken, and a bounded `mpsc` wakes a waiting
sender when there is room. Nothing is assumed of the network, the resolver, the clock or the
operator: a socket may never bind, connect, deliver or accept data, and the token may
never fire. `ShutdownCompletes` therefore exempts a task that waits for a socket write or a
name lookup, because the code awaits these without looking at the token and leaves them to the
abort phase of `shutdown()`, which `StatsTask` models: its `others` may end or never end.

`FairSpec` of `Link` adds that a write ends, and strong fairness of `Pop`: the select prefers
the socket, and it is tokio's cooperative budget, which makes a ready socket report pending
after so many reads, that lets the queue have its turn. `FairSpec` of `StatsTask` has weak
fairness of the task, the harness and the clock, and strong fairness of a write whose reader
resumes again and again. Neither stdout nor the router nor the other tasks are fair.

## Where the code and its documents differ

The run `registration_race` states what a comment says, and TLC finds the behaviour that
differs: `spawn.rs` says the biased select sees a registration before any frame of the new
endpoint. Both can arrive between the poll of the event channel and that of the frame channel;
the frame is then taken first and dropped.

Others were met and are not runs:

- `tests/shutdown.rs:1` says the sweep is the last writer of `EndpointStats::state`. A leaf that
  has just connected stores `Connected` after it (`tcp/client.rs:112`).
- The README of the program says `learn_entries` is the current size of the endpoint's or
  group's learn-set. It is stored only when that endpoint itself sends (`router/mod.rs:270`).
- `stats.rs:21` calls the line queue drop-oldest on a slow or dead consumer, and line 102 a
  buffer between the timer and the writes. The writes are awaited inside the branches, so a
  stalled stdout stops the timer and the queue never holds more than the lines of one step.
- The log line of `forward_stats` (`router/mod.rs:123`) and its count cover a full stats channel
  only. A stats task that reached the deadline of its drain has closed the channel, and the
  `Finalize` events of a later sweep vanish without either.
- The `PeerRemoved` of a client overtakes its last frames, since events have priority; the
  router drops them.
- The comment in `lib.rs` that the router observes the end of its input does not hold, because
  the cancel branch of the select is never disabled; a binary with at least one endpoint, and
  `RunsOnlyValid` says there is one, never depends on it.

## Proofs

Theorems hold for every value of the constants. Their assumptions are those named in the modules
that declare the constants (capacities are naturals or positive naturals, endpoints and streams
have the right shape), and TLC evaluates them on every run.

| module | theorem | argument |
|---|---|---|
| `RouterProofs` | `TypeCorrect`: `Spec => []TypeOK` | `TypeOK` is inductive; one lemma per action, and lemmas on `touch`, `push`, `Tail` and the window, whose lengths carry the capacities |
| `RegistryProofs` | `LifecycleCorrect`: `Spec => []LifecycleInv` | inductive together with `TypeOK`: it already says that whoever runs is registered or about to be |
| `RegistryProofs` | `EventsPair`: `Spec => []RegistrationsPair` | needs `LifecycleInv`: an announcement is fresh because its id is, a removal follows an announcement because its endpoint was live |
| `RegistryProofs` | `GroupsCounted`: `Spec => []GroupRefcount` | needs `RegistrationsPair`: `join` meets a slot that was free and `leave` one that was taken, so the cardinality of the members moves by one with the count |
| `RegistryProofs` | `NothingEchoed`: `Spec => []NoEcho` | needs the specs in the registry to be those of allocation (`LifecycleInv`); `decide` then excludes the source and its group |
| `RouterProofs` | `DropsCounted`: `Spec => []DropsCountedOnce` | a frame taken adds at most one to what an endpoint has queued, in hand and counted; pops, sends, drains and displacement never raise that sum |
| `RouterProofs` | `MirrorCorrect`: `Spec => []MirrorTracksRegistry` | what the mirror will be once the channel is read moves with the registry: a registration appends its event or counts it as dropped, and an event taken has just the effect it was expected to have |
| `EndpointProofs` | `FramesAccountedHolds`, `LinkIsFreshHolds` | the balance is inductive with types; freshness needs that frames carry the current link from the end of the drain on, and that the queue is sorted behind the last frame taken |
| `TransportProofs` | `StreamRefines`: `Spec => RefinesRouterSystem` | see below |
| `TransportProofs` | `UdpClientRefines`: `UdpcSpec => RefinesRouterSystem` | see below |
| `UdpSystemProofs` | `UdpServerRefines`: `Spec => RefinesRouterSystem` | see below |
| `UdpSystemProofs` | `TableMatchesRegistryHolds`: `Spec => []TableMatchesRegistry` | see below |
| `TransportProofs` | `TargetScopedHolds`: `UdpcSpec => TargetScoped` | by cases on the action; only a lookup with an answer replaces the addresses, and only `classify_inbound` moves a latch |
| `UdpProofs` | `TableBoundedHolds`: `Spec => []TableBounded` | needs where a listener is in its handler: between the announcement and the insertion the address is still absent, and only the insertion evicts |
| `DedupProofs` | `RingSetAgreeHolds`: `Spec => []RingSetAgree` | the ring never holds a hash twice, so the hash that leaves the set with its entry, by expiry or by eviction, is the hash of no entry that stays |
| `DedupProofs` | `SuppressedExactlyHolds`: `Spec => []SuppressedExactly` | a strictly increasing map from the entries of the ring to the admitted frames of the history; the frames it misses came before all of those it hits and are expired or crowded out, since only the head of the ring ever leaves. From the map, as many frames were admitted after an entry's as there are entries behind it |
| `EndpointProofs` | `FramesAreSlicesHolds`: `Spec => []FramesAreSlices` | one turn of the framer (`TurnFacts`) cuts a prefix off the buffer, and the buffer is always the last piece of what was read; any checksum, table and filter |
| `StatsProofs` | `TerminalAccountedHolds`, `EndStateReportedHolds`, `AbortOnlyIfStalledHolds` | the queue is empty at the select, so no interval line meets a terminal one; an open channel loses an event only by counting it, and a task that was not cut short ends after the router hung up and the channel was read to its end, when nothing is live and nothing is left to discard; the deadline is set before time passes, and `POST_CANCEL_DRAIN < PER_TASK_DRAIN` does the rest |
| `StatsProofs` | `OutputOrderedHolds`: `Spec => []OutputOrdered` | the lines written and the lines queued together are in order, with no counter above the present one; an endpoint in the registry has no terminal line behind it, and only such an endpoint gets a line |

The steps that leave an invariant's variables alone are handled once, by lemmas (`QuietRoute` and
its like), and each remaining action has a step of its own. In the proofs about the transports the
facts that serve one induction only are named steps of it (`<1>HeadOwnership`).

**The refinements.** `StreamSystem`, `UdpClient` and `UdpServer` implement `RouterSystem` for any
configuration, so that every theorem of `RouterProofs` and `RegistryProofs` holds of the router
among such endpoints. The proofs take the steps one at a time. The router's handlers are the
same operators on both sides and only the variables the mapping computes, `life`, `writing` and
`mirror`, have to be looked at; a step of a task either moves between positions with the same `life`, or
is an `Announce`, `Forward`, `Pop`, `Drain`, `StoreState`, `Depart` or `Exit` there. `RouterSystem`
bounds no frames, so the bound of the transports does not enter the proof. What the mapping does
not give has to be known of the reachable states:

- In `StreamSystem`, which positions each kind of task can have, that whatever ends does so only
  once the token is set, and that a listener has no client running before it accepts, so that none
  is left behind when it returns early.
- In `UdpServer`, whose each peer is. The invariant `Ownership` of `UdpProofs` says it: each peer a
  listener ever announced is in its table, on its way in, on its way out, removed or refused, and in
  one of these only, wherever its writer is; at most one is on its way in; ids are fresh, and no
  two listeners share a peer. A `PeerRemoved` is then sent once for each announced peer and never
  for another, and the listener returns with nobody left. `Ownership` rests on the invariant behind
  `TableBounded`, which says what the listener has in hand between two awaits of `admit_new_peer`.

**Table and registry.** `TableMatchesRegistry` compares the table of a listener with what the router
will know once it has read its events. `Telling` makes it inductive: an announced peer that was not
removed is registered or has its `PeerAdded` queued, and no `PeerRemoved`; of a removed one that does
not hold any more, and nothing of it is queued behind its `PeerRemoved`; an id not announced yet occurs
in neither place. The router's handlers keep this because they take the head of the
queue, the listener's because `Ownership` tells them which peer they speak of. The bound is then
counted: the table, plus the peer being evicted and the one being admitted.

Model-checked only:

- liveness (`ShutdownCompletes`, `RemovedWritersEnd`, `WriterWakes`, `ShutdownReturns`), which the
  prover does not reach;
- the properties of `Dispatch`, whose reference definitions count over the whole history of the
  traffic, and those of `Startup`, which are about what the parsers return;
- what depends on folds over the data: `ChunkingIrrelevant`, `StatsAddUp`, `IntactFramesSurvive`,
  `LossEstimate`; and `BackoffCurve`, which needs powers of two.

What a recursive definition computes for every input is out of the prover's reach as well. Only
`Dialect`, whose walk over the includes is recursive, declares a `RECURSIVE` operator; no module
with theorems uses it.

## What is abstracted

- Time: in the transports backoff sleeps, and accept and receive errors that only wait, are
  stuttering. Idle timeouts and the expiry in `Router` are choices. Learn tables and the
  peer table are lists in the order of `last_seen`, assuming the clock advances between two frames.
- Bytes: in the transports a read or a datagram yields a sequence of whole frames; `Ingress`
  says which. The text of a stats line is left out.
- Texts: a word is a token, so what is tested is the structure of a text. An address literal is
  written in its canonical form. The variant of an error is kept, its wording is not.
- Relaxed atomics are atomic steps; counters are read by the stats line only.
- The group that is missing when a frame is dispatched (a `debug_assert` in the code) is not a
  case of its own: `GroupRefcount` shows that it cannot happen.
- Ids count from 1. Log lines are left out.
- In `RouterSystem` the stats task may stop at any time after the token fires; `StatsTask` says
  when it does.

## Not modelled

- `socket.rs`: socket options and the calls of the operating system behind them.
- `log.rs`, `error.rs`: logging and the wording of errors; they have no state.
- `emit_version_string` in the build script, which asks git for a text, and the XML reader, a
  library: a dialect file is the sequence of its events.
- clap, serde and the TOML syntax: libraries. A command line is its parsed arguments, a file its
  tables, or one that cannot be read or is not TOML.
- The `udpc:` leaf's receive counters, which are those of a session, and the clock behind the
  revert of its latch.
- Signals: what fires the token is one action, on every platform.
