----------------------------- MODULE StatsTask ------------------------------
(***************************************************************************)
(* The stats task (stats.rs) from the router's events to stdout, and the   *)
(* shutdown harness that waits for it and then aborts it (shutdown.rs).    *)
(*                                                                         *)
(* The router appears as its end of the channel: it registers and          *)
(* finalizes endpoints with try_send, sweeps on cancellation and hangs up. *)
(* A line is a snapshot [id, count, synthetic]: `count' stands for the     *)
(* counters it was taken from, which only grow, and a synthetic line is    *)
(* the one a Finalize produces.  Time is counted from cancellation.  Steps *)
(* of the task take no time; a write to a stalled stdout does.             *)
(***************************************************************************)
EXTENDS Integers, Sequences, FiniteSets

CONSTANTS
  Ids,                \* the endpoints that may be registered
  Enabled,            \* --stats
  QueueCapacity,      \* StatsRunConfig.queue_capacity
  ChannelCapacity,    \* stats_q_cap
  POST_CANCEL_DRAIN, PER_TASK_DRAIN, SHUTDOWN_GRACE,
  MaxTicks,           \* bound: interval ticks
  MaxCount            \* bound: growth of the counters

ASSUME StatsAssumption ==
  /\ QueueCapacity \in Nat /\ ChannelCapacity \in Nat /\ Enabled \in BOOLEAN
  /\ MaxTicks \in Nat /\ MaxCount \in Nat
  /\ POST_CANCEL_DRAIN \in Nat /\ PER_TASK_DRAIN \in Nat /\ SHUTDOWN_GRACE \in Nat

\* "MUST stay strictly smaller than PER_TASK_DRAIN": 1.5 s and 2 s in the code.
ASSUME BudgetAssumption == POST_CANCEL_DRAIN < PER_TASK_DRAIN

VARIABLES
  life,             \* an endpoint's life as the router knows it
  count,            \* the endpoints' counters
  router,           \* "serving"; "gone" once it has swept; "aborted"
  channel,          \* stats_event channel
  events_dropped,   \* Router.stats_events_dropped
  discarded,        \* endpoints whose Finalize a closed channel took with it
  pc,               \* where the stats task is
  registry,         \* the endpoints the task knows
  queue,            \* lines to be written
  total_dropped,
  broken_pipe_warned,
  drain_deadline,
  cut_short,        \* the deadline ended the drain, not the router's hanging up
  ticks,            \* interval ticks so far
  delayed,          \* a write has taken time since cancellation
  stdout,           \* "open", "stalled" or "closed"
  out,              \* the lines written, in order
  evicted,          \* endpoints whose terminal line a WARN reports lost
  unwritten,        \* endpoints whose terminal line a failed write lost
  cancelled, clock, \* the token, and the time since it fired
  others,           \* the other tasks: "alive", "wedged" or "ended"
  harness           \* "running", "draining", "aborting", "returned"

routerVars == <<life, router, channel, events_dropped, discarded>>
taskVars == <<pc, registry, queue, total_dropped, broken_pipe_warned, drain_deadline,
              cut_short, ticks, delayed, out, evicted, unwritten>>
harnessVars == <<cancelled, clock, others, harness>>
vars == <<routerVars, count, taskVars, stdout, harnessVars>>

Init ==
  /\ life = [id \in Ids |-> "new"] /\ count = 0
  /\ router = "serving" /\ channel = <<>> /\ events_dropped = 0 /\ discarded = {}
  /\ pc = "select" /\ registry = {} /\ queue = <<>> /\ out = <<>>
  /\ total_dropped = 0 /\ broken_pipe_warned = FALSE /\ drain_deadline = 0 /\ ticks = 0
  /\ cut_short = FALSE
  /\ stdout = "open" /\ delayed = FALSE /\ evicted = {} /\ unwritten = {}
  /\ cancelled = FALSE /\ clock = 0 /\ others = "alive" /\ harness = "running"

-----------------------------------------------------------------------------
(***************************************************************************)
(* The router's end of the channel.                                        *)
(***************************************************************************)
Event(kind, id) == [kind |-> kind, id |-> id]

\* The task owns the receiver, which is dropped when the task returns or is aborted.
StatsOpen == pc \notin {"ended", "aborted"}

\* The endpoints whose Finalize is among these events.
Finalized(events) == {id \in Ids : \E i \in 1..Len(events) : events[i] = Event("Finalize", id)}

\* forward_stats: try_send, never awaited.  A full channel costs the event and
\* counts it; a closed one costs it without a trace.
forward_stats(event) ==
  \/ /\ StatsOpen /\ Len(channel) < ChannelCapacity
     /\ channel' = Append(channel, event)
     /\ UNCHANGED <<events_dropped, discarded>>
  \/ /\ StatsOpen /\ Len(channel) >= ChannelCapacity
     /\ events_dropped' = events_dropped + 1
     /\ UNCHANGED <<channel, discarded>>
  \/ /\ ~StatsOpen
     /\ discarded' = discarded \cup Finalized(<<event>>)
     /\ UNCHANGED <<channel, events_dropped>>

\* The receiver goes, and what is still in the channel with it.
DropReceiver ==
  /\ channel' = <<>>
  /\ discarded' = discarded \cup Finalized(channel)

RouterRegisters(id) ==
  /\ router = "serving" /\ life[id] = "new"
  /\ life' = [life EXCEPT ![id] = "live"]
  /\ forward_stats(Event("Register", id))
  /\ UNCHANGED <<router, count, taskVars, stdout, harnessVars>>

\* A removal, or one turn of shutdown_sweep's loop over the registry.
RouterFinalizes(id) ==
  /\ router = "serving" /\ life[id] = "live"
  /\ life' = [life EXCEPT ![id] = "gone"]
  /\ forward_stats(Event("Finalize", id))
  /\ UNCHANGED <<router, count, taskVars, stdout, harnessVars>>

\* On cancellation, or when no endpoint task is left, the router sweeps, returns
\* and so drops its sender.
RouterReturns ==
  /\ router = "serving"
  /\ cancelled \/ \A id \in Ids : life[id] = "gone"
  /\ \A id \in Ids : life[id] # "live"
  /\ router' = "gone"
  /\ UNCHANGED <<life, channel, events_dropped, discarded, count, taskVars, stdout, harnessVars>>

EndpointsCount ==
  /\ router = "serving" /\ \E id \in Ids : life[id] = "live"
  /\ count < MaxCount /\ count' = count + 1
  /\ UNCHANGED <<routerVars, taskVars, stdout, harnessVars>>

-----------------------------------------------------------------------------
(***************************************************************************)
(* The line queue.                                                         *)
(***************************************************************************)
build_line(id, synthetic) == [id |-> id, count |-> count, synthetic |-> synthetic]

Suffix(seq, n) == IF Len(seq) <= n THEN seq ELSE SubSeq(seq, Len(seq) - n + 1, Len(seq))

\* enqueue_regular for each line in turn: what does not fit is dropped from
\* the front, whatever it is.
enqueue_regular(lines) ==
  LET all == queue \o lines
  IN  /\ queue' = Suffix(all, QueueCapacity)
      /\ total_dropped' = total_dropped + Len(all) - Len(Suffix(all, QueueCapacity))

Remove(seq, i) == SubSeq(seq, 1, i - 1) \o SubSeq(seq, i + 1, Len(seq))

Regular == {i \in 1..Len(queue) : ~queue[i].synthetic}

\* Mutant: a full queue loses its oldest line of either kind, without a word.
enqueue_synthetic_DropsOldest(line) ==
  /\ evicted' = evicted
  /\ queue' = Append(IF Len(queue) >= QueueCapacity THEN Tail(queue) ELSE queue, line)
  /\ total_dropped' = total_dropped + 1

\* A terminal line takes the place of the oldest interval line; only when
\* there is none does it take that of a terminal line, and says so.
enqueue_synthetic(line) ==
  IF QueueCapacity = 0
    THEN /\ evicted' = evicted \cup {line.id}
         /\ total_dropped' = total_dropped + 1
         /\ UNCHANGED queue
  ELSE IF Len(queue) < QueueCapacity
    THEN queue' = Append(queue, line) /\ UNCHANGED <<evicted, total_dropped>>
  ELSE IF Regular # {}
    THEN /\ \E pos \in Regular : /\ \A other \in Regular : pos <= other
                                 /\ queue' = Append(Remove(queue, pos), line)
         /\ total_dropped' = total_dropped + 1
         /\ UNCHANGED evicted
  ELSE /\ queue' = Append(Tail(queue), line)
       /\ total_dropped' = total_dropped + 1
       /\ evicted' = evicted \cup {Head(queue).id}

\* Mutant: Finalize reads the registry entry and leaves it there.
handle_event_KeepsEntry(event) ==
  IF event.kind = "Register"
    THEN registry' = registry \cup {event.id} /\ UNCHANGED <<queue, total_dropped, evicted>>
    ELSE /\ registry' = registry
         /\ IF Enabled /\ event.id \in registry
              THEN enqueue_synthetic(build_line(event.id, TRUE))
              ELSE UNCHANGED <<queue, total_dropped, evicted>>

handle_event(event) ==
  IF event.kind = "Register"
    THEN registry' = registry \cup {event.id} /\ UNCHANGED <<queue, total_dropped, evicted>>
    ELSE /\ registry' = registry \ {event.id}
         /\ IF Enabled /\ event.id \in registry
              THEN enqueue_synthetic(build_line(event.id, TRUE))
              ELSE UNCHANGED <<queue, total_dropped, evicted>>

-----------------------------------------------------------------------------
(***************************************************************************)
(* The task's loop.  The two awaits inside an arm are those of drain_queue *)
(* and keep the task from its other arms, the token's included.            *)
(***************************************************************************)
Orders(S) == {s \in [1..Cardinality(S) -> S] : \A i, j \in DOMAIN s : s[i] = s[j] => i = j}

\* An arm's drain_queue starts, or is over at once.
StartDrain == pc' = IF queue' = <<>> THEN "select" ELSE "drain"

\* `registry.values()' has no order of its own.
IntervalTick ==
  /\ pc = "select" /\ ~cancelled /\ Enabled /\ ticks < MaxTicks
  /\ ticks' = ticks + 1
  /\ \E order \in Orders(registry) :
       enqueue_regular([i \in DOMAIN order |-> build_line(order[i], FALSE)])
  /\ StartDrain
  /\ UNCHANGED <<routerVars, count, registry, broken_pipe_warned, drain_deadline, cut_short,
                 delayed, out, evicted, unwritten, stdout, harnessVars>>

ReceiveEvent ==
  /\ pc = "select" /\ ~cancelled /\ channel # <<>>
  /\ channel' = Tail(channel)
  /\ handle_event(Head(channel))
  /\ StartDrain
  /\ UNCHANGED <<life, router, events_dropped, discarded, count, broken_pipe_warned,
                 drain_deadline, cut_short, ticks, delayed, out, unwritten, stdout,
                 harnessVars>>

Closed == channel = <<>> /\ router # "serving"

\* Mutant: the drain may use all of the time the harness allows.
LeaveLoop_FullBudget ==
  /\ pc = "select" /\ (cancelled \/ Closed)
  /\ pc' = "post" /\ drain_deadline' = clock + PER_TASK_DRAIN
  /\ UNCHANGED <<routerVars, count, registry, queue, total_dropped, broken_pipe_warned,
                 cut_short, ticks, delayed, out, evicted, unwritten, stdout, harnessVars>>

LeaveLoop ==
  /\ pc = "select" /\ (cancelled \/ Closed)
  /\ pc' = "post" /\ drain_deadline' = clock + POST_CANCEL_DRAIN
  /\ UNCHANGED <<routerVars, count, registry, queue, total_dropped, broken_pipe_warned,
                 cut_short, ticks, delayed, out, evicted, unwritten, stdout, harnessVars>>

PostReceive ==
  /\ pc = "post" /\ clock < drain_deadline /\ channel # <<>>
  /\ channel' = Tail(channel)
  /\ handle_event(Head(channel))
  /\ UNCHANGED <<life, router, events_dropped, discarded, count, pc, broken_pipe_warned,
                 drain_deadline, cut_short, ticks, delayed, out, unwritten, stdout,
                 harnessVars>>

\* Mutant: try_recv, which takes an empty channel for the end.
PostEnd_TryRecv ==
  /\ pc = "post" /\ (clock >= drain_deadline \/ channel = <<>>)
  /\ pc' = "last"
  /\ cut_short' = (clock >= drain_deadline /\ ~Closed)
  /\ UNCHANGED <<routerVars, count, registry, queue, total_dropped, broken_pipe_warned,
                 drain_deadline, ticks, delayed, out, evicted, unwritten, stdout, harnessVars>>

PostEnd ==
  /\ pc = "post" /\ (clock >= drain_deadline \/ Closed)
  /\ pc' = "last"
  /\ cut_short' = (clock >= drain_deadline /\ ~Closed)
  /\ UNCHANGED <<routerVars, count, registry, queue, total_dropped, broken_pipe_warned,
                 drain_deadline, ticks, delayed, out, evicted, unwritten, stdout, harnessVars>>

\* One turn of drain_queue's loop: write_all succeeds, fails for once or finds
\* the pipe broken.  On a stalled stdout it does not return.
WriteLine ==
  LET line  == Head(queue)
      lose  == unwritten' = IF line.synthetic THEN unwritten \cup {line.id} ELSE unwritten
  IN  /\ pc \in {"drain", "last"} /\ queue # <<>>
      /\ queue' = Tail(queue)
      /\ pc' = IF pc = "drain" /\ Tail(queue) = <<>> THEN "select" ELSE pc
      /\ \/ broken_pipe_warned /\ lose /\ UNCHANGED <<out, broken_pipe_warned>>
         \/ ~broken_pipe_warned /\ stdout = "open"
              /\ out' = Append(out, line) /\ UNCHANGED <<unwritten, broken_pipe_warned>>
         \/ ~broken_pipe_warned /\ stdout = "open"
              /\ lose /\ UNCHANGED <<out, broken_pipe_warned>>
         \/ ~broken_pipe_warned /\ stdout = "closed"
              /\ lose /\ broken_pipe_warned' = TRUE /\ UNCHANGED out
      /\ UNCHANGED <<routerVars, count, registry, total_dropped, drain_deadline, cut_short, ticks,
                     delayed, evicted, stdout, harnessVars>>

\* flush, then the task returns.
Finish ==
  /\ pc = "last" /\ queue = <<>> /\ stdout # "stalled"
  /\ pc' = "ended" /\ DropReceiver
  /\ UNCHANGED <<life, router, events_dropped, count, registry, queue, total_dropped,
                 broken_pipe_warned, drain_deadline, cut_short, ticks, delayed, out, evicted,
                 unwritten, stdout, harnessVars>>

TaskStep == IntervalTick \/ ReceiveEvent \/ LeaveLoop \/ PostReceive \/ PostEnd
              \/ WriteLine \/ Finish

\* The reader of stdout stalls, resumes or goes away for good; between writes
\* it makes no difference.
StdoutChanges ==
  /\ stdout # "closed" /\ pc \in {"drain", "last"}
  /\ \E s \in {"open", "stalled", "closed"} \ {stdout} : stdout' = s
  /\ UNCHANGED <<routerVars, count, taskVars, harnessVars>>

-----------------------------------------------------------------------------
(***************************************************************************)
(* shutdown.rs.                                                            *)
(***************************************************************************)
\* watch_for_shutdown_signal cancels the token; run goes on to shutdown().
Cancel ==
  /\ ~cancelled
  /\ cancelled' = TRUE /\ harness' = "draining"
  /\ UNCHANGED <<routerVars, count, taskVars, stdout, clock, others>>

TasksEnded == pc \in {"ended", "aborted"} /\ router # "serving" /\ others = "ended"

\* The join_next loop saw every task return within drain_budget.
Drained ==
  /\ harness = "draining" /\ TasksEnded
  /\ harness' = "returned"
  /\ UNCHANGED <<routerVars, count, taskVars, stdout, cancelled, clock, others>>

\* Phase 2: JoinSet::shutdown aborts what is left.  An abort lands at the
\* task's next await, hence never on a wedged task; what the others do until
\* then makes no difference.
DrainBudgetSpent ==
  /\ harness = "draining" /\ ~TasksEnded /\ clock >= PER_TASK_DRAIN
  /\ harness' = "aborting"
  /\ IF pc = "ended" THEN UNCHANGED <<pc, channel, discarded>>
                     ELSE pc' = "aborted" /\ DropReceiver
  /\ router' = IF router = "serving" THEN "aborted" ELSE router
  /\ others' = IF others = "alive" THEN "ended" ELSE others
  /\ UNCHANGED <<life, events_dropped, count, registry, queue, total_dropped,
                 broken_pipe_warned, drain_deadline, cut_short, ticks, delayed, out, evicted,
                 unwritten, stdout, cancelled, clock>>

\* Mutant: tasks.shutdown() is awaited without a timeout.
Aborted_NoTimeout ==
  /\ harness = "aborting" /\ TasksEnded
  /\ harness' = "returned"
  /\ UNCHANGED <<routerVars, count, taskVars, stdout, cancelled, clock, others>>

\* The aborts have all landed, or abort_budget is spent too.
Aborted ==
  /\ harness = "aborting" /\ (TasksEnded \/ clock >= SHUTDOWN_GRACE)
  /\ harness' = "returned"
  /\ UNCHANGED <<routerVars, count, taskVars, stdout, cancelled, clock, others>>

OthersEnd ==
  /\ cancelled /\ others = "alive" /\ others' \in {"ended", "wedged"}
  /\ UNCHANGED <<routerVars, count, taskVars, stdout, cancelled, clock, harness>>

\* The task can go on without anyone's help.
TaskReady ==
  \/ pc = "select" /\ (cancelled \/ channel # <<>>)
  \/ pc = "post" /\ (channel # <<>> \/ Closed \/ clock >= drain_deadline)
  \/ pc \in {"drain", "last"} /\ stdout # "stalled"

Tick ==
  /\ cancelled /\ ~TaskReady
  /\ \/ harness = "draining" /\ clock < PER_TASK_DRAIN
     \/ harness = "aborting" /\ clock < SHUTDOWN_GRACE
  /\ clock' = clock + 1
  /\ delayed' = (delayed \/ pc \in {"drain", "last"})
  /\ UNCHANGED <<routerVars, count, pc, registry, queue, total_dropped, broken_pipe_warned,
                 drain_deadline, cut_short, ticks, out, evicted, unwritten, stdout, cancelled,
                 others, harness>>

-----------------------------------------------------------------------------
\* Once shutdown() is back nothing more is modelled: main returns, and what the end
\* of the runtime may still wait for is left out.
Next ==
  /\ harness # "returned"
  /\ \/ \E id \in Ids : RouterRegisters(id) \/ RouterFinalizes(id)
     \/ EndpointsCount \/ RouterReturns \/ TaskStep \/ StdoutChanges
     \/ Cancel \/ Drained \/ DrainBudgetSpent \/ Aborted \/ OthersEnd \/ Tick

Spec == Init /\ [][Next]_vars

\* The runtime goes on polling the task and the harness, time passes, and a
\* write whose reader resumes again and again gets through.  Nothing is
\* assumed of the router, of the other tasks or of stdout.
FairSpec ==
  /\ Spec
  /\ WF_vars(TaskStep) /\ WF_vars(IntervalTick) /\ SF_vars(WriteLine \/ Finish)
  /\ WF_vars(Drained \/ DrainBudgetSpent \/ Aborted)
  /\ WF_vars(Tick)

-----------------------------------------------------------------------------
(***************************************************************************)
(* Properties.                                                             *)
(***************************************************************************)
Terminal(seq, id) == \E i \in 1..Len(seq) : seq[i].id = id /\ seq[i].synthetic

\* What becomes of an endpoint's terminal line: once the router has finalized the
\* endpoint, the Finalize event or the line is on its way, the line was written, a
\* WARN reports it evicted by another terminal line, or the write itself failed.
\* There is one more way to lose it, without a count or a WARN, and only for a task
\* that ran into its drain deadline before the router had hung up: the closed channel
\* discards the Finalize.  In particular no interval line displaces a terminal one,
\* although enqueue_regular drops whatever is in front.
TerminalAccounted ==
  Enabled /\ events_dropped = 0 /\ pc # "aborted" =>
    \A id \in Ids : life[id] = "gone" =>
      \/ id \in Finalized(channel) \/ Terminal(queue, id) \/ Terminal(out, id)
      \/ id \in evicted \/ id \in unwritten
      \/ id \in discarded /\ cut_short

\* What a reader of the lines may rely on: the counters of an endpoint never go
\* back from one line to a later one, and nothing follows its terminal line.
OutputOrdered ==
  \A i, j \in 1..Len(out) : i < j /\ out[i].id = out[j].id =>
    out[i].count <= out[j].count /\ ~out[i].synthetic

\* The task outlives the sweep: unless its drain ran into the deadline or the
\* router was aborted, it returns only when the router has finalized every
\* endpoint and each of them had its terminal line, however long the writes of
\* the last drain_queue took.
EndStateReported ==
  pc = "ended" /\ ~cut_short /\ router # "aborted"
    /\ Enabled /\ events_dropped = 0 =>
      \A id \in Ids :
        /\ life[id] # "live"
        /\ life[id] = "gone" => Terminal(out, id) \/ id \in evicted \/ id \in unwritten

\* The 1.5 s of POST_CANCEL_DRAIN fit the 2 s of PER_TASK_DRAIN: the harness
\* aborts the stats task only if a write to stdout took time.
AbortOnlyIfStalled == pc = "aborted" => delayed

\* shutdown() comes back whatever the tasks do: a stalled stdout, a router that
\* never sweeps and a task that never yields included.
ShutdownReturns == cancelled ~> (harness = "returned")

=============================================================================
