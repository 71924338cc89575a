------------------------------ MODULE Transport -------------------------------
(***************************************************************************)
(* What all transports share: the spawner (src/src/endpoint/spawn.rs), the *)
(* allocation and the announcement of ids, the bind loop of a listener,    *)
(* and the operator.  A transport module adds its own variables and says,  *)
(* where it uses an action of this module, that it leaves them alone.  The *)
(* stats task is left to RouterSystem: the router only ever tries to send  *)
(* to it, so no transport can tell whether it runs.                        *)
(*                                                                         *)
(* task[id] is the await point at which the task that owns id is, and      *)
(* "ended" once it is over.  A step runs from one await to the next, and   *)
(* is split where it writes two things that other tasks read.  A select    *)
(* that also waits for the token polls it first, so its other branches     *)
(* have ~cancelled as a guard: a token that fires between two polls        *)
(* commutes with the local step.                                           *)
(***************************************************************************)
EXTENDS Router

CONSTANT MaxFrames         \* bound on the frames sent to the router

ASSUME TransportAssumption == MaxFrames \in Nat

VARIABLES
    next_id, spawned, who, sent,           \* as in RouterSystem
    task                   \* id -> the position of the task that owns it

allocVars == <<next_id, spawned, who>>
transportVars == <<allocVars, sent, task>>

TransportInit ==
    /\ RouterInit
    /\ next_id = 1 /\ spawned = 0
    /\ who = [id \in Ids |-> [kind |-> "none", spec |-> 0]]
    /\ sent = 0
    /\ task = [id \in Ids |-> "none"]

Leaf(id) == who[id].kind = "leaf"
Listener(id) == who[id].kind = "listener"
Peer(id) == who[id].kind = "peer"
Children(l) == {c \in Ids : Peer(c) /\ who[c].spec = who[l].spec}

At(id, position) == task[id] = position
Goto(id, position) == task' = [task EXCEPT ![id] = position]

\* A step that touches only the task's own position.
Local(id, from, to) ==
    /\ At(id, from) /\ Goto(id, to)
    /\ UNCHANGED <<routerVars, allocVars, sent>>

\* store_state, as the step of a task.
StoreState(id, state, from, to) ==
    /\ At(id, from) /\ Goto(id, to)
    /\ stats' = [stats EXCEPT ![id].state = state]
    /\ UNCHANGED <<channels, cancelled, pc, registry, tx, stats_events_dropped,
                   allocVars, sent>>

\* drain_and_discard, as the step of a task.
drain_and_discard(id) ==
    /\ tx' = [tx EXCEPT ![id] = <<>>]
    /\ stats' = [stats EXCEPT ![id].dropped_tx = @ + Len(tx[id])]
    /\ UNCHANGED <<channels, cancelled, pc, registry, stats_events_dropped, allocVars,
                   sent>>

-----------------------------------------------------------------------------
(* Spawning and announcing. *)

Alloc(kind, spec) ==
    /\ next_id <= MaxId
    /\ next_id' = next_id + 1
    /\ who' = [who EXCEPT ![next_id] = [kind |-> kind, spec |-> spec]]

\* spawn_endpoint, up to its first await.  The loop of spawn_endpoints does not
\* look at the token.
SpawnEndpoint ==
    /\ spawned < Len(Endpoints)
    /\ \A id \in Ids : ~Peer(id) => ~At(id, "announce")
    /\ Alloc(IF Endpoints[spawned + 1].listener THEN "listener" ELSE "leaf", spawned + 1)
    /\ Goto(next_id, "announce")
    /\ spawned' = spawned + 1
    /\ UNCHANGED <<routerVars, sent>>

\* The id of a client or of a peer; its stats say Connected from the start.
AdmitPeer(l) ==
    /\ Alloc("peer", who[l].spec)
    /\ stats' = [stats EXCEPT ![next_id].state = "Connected"]
    /\ UNCHANGED <<channels, cancelled, pc, registry, tx, stats_events_dropped,
                   spawned, sent>>

\* The awaited send of EndpointAdded or PeerAdded.
SendAdded(id) ==
    /\ At(id, "announce") /\ ~RouterClosed /\ Len(event_ch) < EventQCap
    /\ event_ch' = Append(event_ch,
          [type |-> IF Peer(id) THEN "PeerAdded" ELSE "EndpointAdded", id |-> id,
           spec |-> who[id].spec, routable |-> ~Listener(id)])
    /\ UNCHANGED <<frame_ch, stats_ch, stats_open, cancelled, pc, registry, tx, stats,
                   stats_events_dropped, allocVars, sent>>

\* The awaited send of PeerRemoved, whose failure is ignored.
SendRemoved(id, reason) ==
    /\ RouterClosed \/ Len(event_ch) < EventQCap
    /\ event_ch' = IF RouterClosed THEN event_ch
                   ELSE Append(event_ch,
                               [type |-> "PeerRemoved", id |-> id, reason |-> reason])
    /\ UNCHANGED <<frame_ch, stats_ch, stats_open, cancelled, pc, registry, tx, stats,
                   stats_events_dropped, allocVars, sent>>

\* The awaited send of a frame.
SendFrame(id, frame) ==
    /\ ~RouterClosed /\ Len(frame_ch) < INGRESS_QUEUE_FRAMES
    /\ frame_ch' = Append(frame_ch, [endpoint_id |-> id, frame |-> frame])
    /\ sent' = sent + 1
    /\ UNCHANGED <<event_ch, stats_ch, stats_open, cancelled, pc, registry, tx, stats,
                   stats_events_dropped, allocVars>>

\* pop_or_wait yields a frame.
PopTx(id) ==
    /\ tx[id] # <<>>
    /\ tx' = [tx EXCEPT ![id] = Tail(@)]
    /\ UNCHANGED <<channels, cancelled, pc, registry, stats, stats_events_dropped,
                   allocVars, sent>>

-----------------------------------------------------------------------------
(* The head of a listener: bind with backoff, then Connected. *)

Bind(l) == Listener(l) /\ ~cancelled /\ Local(l, "bind", "bound")

BindCancelled(l) == Listener(l) /\ cancelled /\ Local(l, "bind", "ended")

Listening(l) == Listener(l) /\ StoreState(l, "Connected", "bound", "listen")

-----------------------------------------------------------------------------
(* The operator and the router. *)

Cancel ==
    /\ ~cancelled /\ cancelled' = TRUE
    /\ UNCHANGED <<channels, pc, registry, tx, stats, stats_events_dropped, transportVars>>

Route == RouterNext /\ UNCHANGED transportVars

=============================================================================
