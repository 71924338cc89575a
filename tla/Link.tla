-------------------------------- MODULE Link --------------------------------
(***************************************************************************)
(* The way out through a tcpc: leaf, at the grain of its atomic            *)
(* operations: the transmit queue the router pushes into from another      *)
(* thread (src/src/endpoint/tx_queue.rs), the writing half of a session    *)
(* (session.rs), and the loop that dials, waits with Backoff (backoff.rs)  *)
(* and dials again (tcp/client.rs).                                        *)
(*                                                                         *)
(* A frame is [n, link]: the n-th one pushed, when `link' connections had  *)
(* been made.  A Notify is its permit: a Notified future that is dropped   *)
(* passes on what it was given, and there is only one waiter.  The         *)
(* positions of the task:                                                  *)
(*                                                                         *)
(*   top, resolve, connect, failed, backoff    coming up                   *)
(*   up, drain, ready                          connected                   *)
(*   pop, empty, wait                          the select; pop_or_wait     *)
(*   forward, write                            inside a branch             *)
(*   lost; ended                               the session is over; all is *)
(***************************************************************************)
EXTENDS Integers, Sequences

CONSTANTS
  TX_QUEUE_FRAMES, \* of the transmit queue
  Backoffs,        \* <<initial_ms, max_ms>> as configured
  Answers,         \* what resolve_to_socket_addrs may find: families, in order
  MaxPushed,       \* bound on the frames pushed
  MaxLinks,        \* bound on the connections made
  MaxFailures      \* bound on the dials that fail in a row

ASSUME LinkAssumption ==
  /\ TX_QUEUE_FRAMES \in Nat \ {0} /\ MaxPushed \in Nat /\ MaxLinks \in Nat /\ MaxFailures \in Nat
  /\ Backoffs \subseteq Nat \X Nat
  /\ \A a \in Answers : a \in Seq({"v4", "v6"})

VARIABLES
  queue, permit,       \* TxQueue.inner, TxQueue.notify
  dropped_tx, tx_frames,
  push,                \* inside push: "idle", "evicted", "notify"
  pushed, links, last, \* frames pushed, connections made, last frame taken
  writing,             \* the frame being written, as a sequence
  lost,                \* frames that went down with a failed write
  drained,             \* drain_and_discard's count
  task, then,          \* where the task is; where it goes when it has drained
  targets,             \* addresses still to be tried
  backoff,             \* [initial, max, current]
  delay, failures,     \* the delay waited for; dials failed in a row
  state,               \* EndpointStats.state
  cancelled

queueVars == <<queue, permit, dropped_tx>>
pushVars  == <<push, pushed>>
dialVars  == <<targets, backoff, delay, failures, links>>
writeVars == <<tx_frames, last, writing, lost>>
linkVars == <<queueVars, pushVars, dialVars, writeVars, drained, task, then, state, cancelled>>

Clamp(ms) ==
  LET initial == IF ms[1] < 1 THEN 1 ELSE ms[1]
  IN  [initial |-> initial, max |-> IF ms[2] < initial THEN initial ELSE ms[2],
       current |-> initial]

LinkInit ==
  /\ queue = <<>> /\ permit = FALSE /\ dropped_tx = 0
  /\ push = "idle" /\ pushed = 0 /\ links = 0
  /\ tx_frames = 0 /\ last = 0 /\ writing = <<>> /\ lost = 0 /\ drained = 0
  /\ task = "top" /\ then = "ended" /\ targets = <<>>
  /\ \E ms \in Backoffs : backoff = Clamp(ms)
  /\ delay = 0 /\ failures = 0 /\ state = "Reconnecting" /\ cancelled = FALSE

-----------------------------------------------------------------------------
(***************************************************************************)
(* TxQueue::push, called by the router.                                    *)
(***************************************************************************)
ForcePush ==
  LET frame == [n |-> pushed + 1, link |-> links]
  IN  /\ push = "idle" /\ pushed < MaxPushed
      /\ pushed' = pushed + 1
      /\ IF Len(queue) < TX_QUEUE_FRAMES
           THEN queue' = Append(queue, frame) /\ push' = "notify"
           ELSE queue' = Append(Tail(queue), frame) /\ push' = "evicted"
      /\ UNCHANGED <<permit, dropped_tx, dialVars, writeVars, drained, task, then, state, cancelled>>

CountEvicted ==
  /\ push = "evicted" /\ push' = "notify"
  /\ dropped_tx' = dropped_tx + 1
  /\ UNCHANGED <<queue, permit, pushed, dialVars, writeVars, drained, task, then, state, cancelled>>

\* Mutant: notify_waiters, which leaves nothing for one who is not waiting yet.
NotifyOne_Waiters ==
  /\ push = "notify" /\ push' = "idle"
  /\ permit' = (permit \/ task = "wait")
  /\ UNCHANGED <<queue, dropped_tx, pushed, dialVars, writeVars, drained, task, then, state, cancelled>>

NotifyOne ==
  /\ push = "notify" /\ push' = "idle"
  /\ permit' = TRUE
  /\ UNCHANGED <<queue, dropped_tx, pushed, dialVars, writeVars, drained, task, then, state, cancelled>>

-----------------------------------------------------------------------------
(***************************************************************************)
(* The task.                                                               *)
(***************************************************************************)
Goto(from, to) == task = from /\ task' = to

\* drain_and_discard comes next, and after it position p.
DrainThen(p) == task' = "drain" /\ then' = p

drain_and_discard_Pop ==
  /\ task = "drain" /\ queue # <<>>
  /\ queue' = Tail(queue) /\ drained' = drained + 1
  /\ UNCHANGED <<permit, dropped_tx, pushVars, dialVars, writeVars, task, then, state, cancelled>>

\* Mutant: the frames drained are not counted.
drain_and_discard_Uncounted ==
  /\ queue = <<>> /\ Goto("drain", then)
  /\ drained' = 0
  /\ UNCHANGED <<queueVars, pushVars, dialVars, writeVars, then, state, cancelled>>

drain_and_discard ==
  /\ queue = <<>> /\ Goto("drain", then)
  /\ dropped_tx' = dropped_tx + drained /\ drained' = 0
  /\ UNCHANGED <<queue, permit, pushVars, dialVars, writeVars, then, state, cancelled>>

\* The top of run_inner's loop.
Top ==
  /\ task = "top"
  /\ IF cancelled THEN DrainThen("ended") ELSE task' = "resolve" /\ UNCHANGED then
  /\ UNCHANGED <<queueVars, pushVars, dialVars, writeVars, drained, state, cancelled>>

\* The lookup does not race the token; IPv4 addresses come first, otherwise
\* the order is kept.
resolve_to_socket_addrs ==
  /\ task = "resolve"
  /\ \E found \in Answers :
       /\ targets' = SelectSeq(found, LAMBDA a : a = "v4") \o SelectSeq(found, LAMBDA a : a = "v6")
       /\ task' = IF found = <<>> THEN "failed" ELSE "connect"
  /\ failures < MaxFailures
  /\ UNCHANGED <<queueVars, pushVars, backoff, delay, failures, links, writeVars, drained, then,
                 state, cancelled>>

\* connect_one on the first address left: the token first; then a connection,
\* or an error or the timeout, and dial_with_dns takes the next address.
connect_one ==
  /\ task = "connect"
  /\ \/ /\ cancelled /\ DrainThen("ended")
        /\ UNCHANGED <<links, targets>>
     \/ /\ ~cancelled /\ links < MaxLinks
        /\ links' = links + 1 /\ targets' = <<>> /\ task' = "up"
        /\ UNCHANGED then
     \/ /\ ~cancelled
        /\ targets' = Tail(targets) /\ task' = IF Len(targets) = 1 THEN "failed" ELSE "connect"
        /\ UNCHANGED <<links, then>>
  /\ UNCHANGED <<queueVars, pushVars, backoff, delay, failures, writeVars, drained, state, cancelled>>

Double(b) == IF 2 * b.current > b.max THEN b.max ELSE 2 * b.current

\* Mutant: the doubled delay is not capped.
next_delay_Uncapped ==
  LET base   == backoff.current
      jitter == base \div 5
  IN  /\ Goto("failed", "backoff") /\ failures' = failures + 1
      /\ \E d \in base - jitter .. base + jitter : delay' = IF d < 1 THEN 1 ELSE d
      /\ backoff' = [backoff EXCEPT !.current = 2 * @]
      /\ UNCHANGED <<queueVars, pushVars, targets, links, writeVars, drained, then, state, cancelled>>

\* The generator's remainder may be any number below 2 * jitter + 1.
next_delay ==
  LET base   == backoff.current
      jitter == base \div 5
  IN  /\ Goto("failed", "backoff") /\ failures' = failures + 1
      /\ \E d \in base - jitter .. base + jitter : delay' = IF d < 1 THEN 1 ELSE d
      /\ backoff' = [backoff EXCEPT !.current = Double(backoff)]
      /\ UNCHANGED <<queueVars, pushVars, targets, links, writeVars, drained, then, state, cancelled>>

wait_or_cancel ==
  /\ task = "backoff"
  /\ IF cancelled THEN DrainThen("ended") ELSE task' = "top" /\ UNCHANGED then
  /\ delay' = 0
  /\ UNCHANGED <<queueVars, pushVars, targets, backoff, failures, links, writeVars, drained, state,
                 cancelled>>

\* Mutant: a fresh link starts with what is in the queue.
Up_KeepsQueue ==
  /\ Goto("up", "ready")
  /\ backoff' = [backoff EXCEPT !.current = backoff.initial] /\ failures' = 0
  /\ UNCHANGED <<queueVars, pushVars, targets, delay, links, writeVars, drained, then, state, cancelled>>

Up ==
  /\ task = "up" /\ DrainThen("ready")
  /\ backoff' = [backoff EXCEPT !.current = backoff.initial] /\ failures' = 0
  /\ UNCHANGED <<queueVars, pushVars, targets, delay, links, writeVars, drained, state, cancelled>>

Connected ==
  /\ Goto("ready", "pop") /\ state' = "Connected"
  /\ UNCHANGED <<queueVars, pushVars, dialVars, writeVars, drained, then, cancelled>>

-----------------------------------------------------------------------------
(***************************************************************************)
(* run_session.  Each turn of its loop polls the token, the socket and a   *)
(* new pop_or_wait, in this order.                                         *)
(***************************************************************************)
Pop ==
  /\ task = "pop" /\ ~cancelled
  /\ IF queue # <<>>
       THEN /\ task' = "write" /\ writing' = <<Head(queue)>> /\ queue' = Tail(queue)
            /\ last' = Head(queue).n
       ELSE task' = "empty" /\ UNCHANGED <<queue, writing, last>>
  /\ UNCHANGED <<permit, dropped_tx, pushVars, dialVars, tx_frames, lost, drained, then, state,
                 cancelled>>

\* notified() is polled for the first time.
Wait ==
  /\ Goto("empty", "wait")
  /\ UNCHANGED <<queueVars, pushVars, dialVars, writeVars, drained, then, state, cancelled>>

Woken ==
  /\ Goto("wait", "pop") /\ permit /\ permit' = FALSE
  /\ UNCHANGED <<queue, dropped_tx, pushVars, dialVars, writeVars, drained, then, state, cancelled>>

write_outbound_frame ==
  /\ task = "write" /\ writing' = <<>>
  /\ \/ task' = "pop" /\ tx_frames' = tx_frames + 1 /\ UNCHANGED lost
     \/ task' = "lost" /\ lost' = lost + 1 /\ UNCHANGED tx_frames
  /\ UNCHANGED <<queueVars, pushVars, dialVars, last, drained, then, state, cancelled>>

\* The socket has something: the branch for the queue is dropped.
ReadReady ==
  /\ task \in {"pop", "wait"} /\ ~cancelled
  /\ task' \in {"forward", "lost"}
  /\ UNCHANGED <<queueVars, pushVars, dialVars, writeVars, drained, then, state, cancelled>>

\* The frames read have been forwarded, or the router's channel is closed.
Forwarded ==
  /\ task = "forward"
  /\ \/ task' = "pop" /\ UNCHANGED then
     \/ DrainThen("ended")
  /\ UNCHANGED <<queueVars, pushVars, dialVars, writeVars, drained, state, cancelled>>

SessionCancelled ==
  /\ task \in {"pop", "wait"} /\ cancelled /\ DrainThen("ended")
  /\ UNCHANGED <<queueVars, pushVars, dialVars, writeVars, drained, state, cancelled>>

Disconnected ==
  /\ Goto("lost", "top") /\ state' = "Reconnecting"
  /\ UNCHANGED <<queueVars, pushVars, dialVars, writeVars, drained, then, cancelled>>

Cancel ==
  /\ ~cancelled /\ cancelled' = TRUE
  /\ UNCHANGED <<queueVars, pushVars, dialVars, writeVars, drained, task, then, state>>

-----------------------------------------------------------------------------
PushReturns == CountEvicted \/ NotifyOne

Session == Wait \/ Woken \/ write_outbound_frame \/ Forwarded \/ SessionCancelled

Dialling == Top \/ resolve_to_socket_addrs \/ connect_one \/ next_delay \/ wait_or_cancel
              \/ Up \/ Connected \/ drain_and_discard_Pop \/ drain_and_discard \/ Disconnected

LinkNext == ForcePush \/ PushReturns \/ Pop \/ Session \/ ReadReady \/ Dialling \/ Cancel

LinkSpec == LinkInit /\ [][LinkNext]_linkVars

\* The router returns from push.  A write ends, with an error if need be.  The
\* runtime polls the task; that the branch for the queue gets its turn however
\* much there is to read is the runtime's doing, which makes a socket that is
\* always ready report itself not ready every so many reads.
FairSpec == LinkSpec /\ WF_linkVars(PushReturns) /\ WF_linkVars(Session) /\ SF_linkVars(Pop)

-----------------------------------------------------------------------------
(***************************************************************************)
(* Properties.                                                             *)
(***************************************************************************)
InSession == task \in {"pop", "empty", "wait", "forward", "write"}

\* No wake-up is lost between the writer, which looks into the queue before it
\* waits, and the router, which pushes before it notifies: in a session that
\* lasts, the queue empties.
WriterWakes == (queue # <<>> /\ InSession) ~> (queue = <<>> \/ ~InSession)

\* Every frame pushed is sent, counted in dropped_tx, on its way, or went down
\* with the write that failed: none is counted twice, although the router's
\* eviction and the task's drain take frames from the same queue.
FramesAccounted ==
  pushed = tx_frames + dropped_tx + lost
             + Len(queue) + Len(writing) + drained + (IF push = "evicted" THEN 1 ELSE 0)

\* A link carries nothing that was pushed before it came up, also when the
\* router pushes while the queue is drained, and carries frames in the order
\* they were pushed.
LinkIsFresh ==
  /\ writing # <<>> => writing[1].link = links
  /\ \A i \in 1..Len(queue) : queue[i].n > last
  /\ \A i, j \in 1..Len(queue) : i < j => queue[i].n < queue[j].n

Expected == LET e == backoff.initial * 2 ^ (failures - 1)
            IN  IF e > backoff.max THEN backoff.max ELSE e

\* The delay before the next dial is within a fifth of the initial one doubled
\* for each failure since the last connection, capped at the maximum, and is
\* never zero.
BackoffCurve ==
  task = "backoff" =>
    /\ delay >= 1
    /\ 5 * delay >= 4 * Expected /\ 5 * delay <= 6 * Expected

=============================================================================
