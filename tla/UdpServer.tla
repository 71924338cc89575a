------------------------------ MODULE UdpServer -------------------------------
(***************************************************************************)
(* The router with udps: listeners (src/src/endpoint/udp/server.rs).  One  *)
(* task per listener receives the datagrams of all its peers, admits a     *)
(* source it does not know, evicts the least recent peer when its table is *)
(* full, and reaps idle ones; one writer task per peer empties the peer's  *)
(* transmit queue into the shared socket.  The positions of a listener:    *)
(*                                                                         *)
(*   none, announce, bind, bound    as in Transport                        *)
(*   listen                         the select                             *)
(*   admit                          waits for PeerAdded to be sent         *)
(*   admitted, evicted              in admit_new_peer                      *)
(*   removing                       waits for a PeerRemoved to be sent     *)
(*   forward                        in forward_inbound_frames              *)
(*   reap                           removing the peers in victims          *)
(*   join, ended                    waits for the writers; over            *)
(*                                                                         *)
(* The task of a peer's id is its writer: announce, then pending until the *)
(* listener spawns it, wait, send, ended; or refused.                      *)
(***************************************************************************)
EXTENDS Transport

CONSTANTS
    Addrs,                 \* the source addresses of datagrams
    peer_capacity          \* size of a listener's peer table

ASSUME UdpAssumption ==
    /\ peer_capacity \in Nat \ {0}
    /\ \A e \in 1..Len(Endpoints) : Endpoints[e].listener

VARIABLES
    peers,                 \* listener -> its [addr, id]s, least recently heard first
    packet,                \* listener -> the datagram in hand, [src, frames]
    victims,               \* listener -> the ids it is about to remove
    reason,                \* listener -> why it removes them
    cut,                   \* ids whose writer_cancel was cancelled
    removed                \* ids whose PeerRemoved was sent

udpVars == <<peers, packet, victims, reason, cut, removed>>
vars == <<routerVars, transportVars, udpVars>>

Reasons == {"Idle", "LruEvicted", "ListenerShutdown"}
NoPacket == [src |-> "none", frames |-> <<>>]

Init ==
    /\ TransportInit
    /\ peers = [id \in Ids |-> <<>>]
    /\ packet = [id \in Ids |-> NoPacket]
    /\ victims = [id \in Ids |-> {}]
    /\ reason = [id \in Ids |-> "none"]
    /\ cut = {}
    /\ removed = {}

\* A step that touches only the task's own position.
Move(id, from, to) == Local(id, from, to) /\ UNCHANGED udpVars

AddrsOf(l) == {peers[l][i].addr : i \in DOMAIN peers[l]}
IdsOf(l) == {peers[l][i].id : i \in DOMAIN peers[l]}

\* Where the peer with this address, or this id, is in the table.
Place(l, addr) == CHOOSE i \in DOMAIN peers[l] : peers[l][i].addr = addr
PlaceOfId(l, id) == CHOOSE i \in DOMAIN peers[l] : peers[l][i].id = id

PeerOf(l, addr) == peers[l][Place(l, addr)].id

-----------------------------------------------------------------------------
(* The listener. *)

Announce(l) ==
    Listener(l) /\ SendAdded(l) /\ Goto(l, "bind") /\ UNCHANGED udpVars

AnnounceFails(l) == Listener(l) /\ RouterClosed /\ Move(l, "announce", "ended")

\* The peer moves to the recent end of the table.
Heard(l, addr) ==
    peers' = [peers EXCEPT ![l] =
                 Append(Without(@, Place(l, addr)), peers[l][Place(l, addr)])]

\* recv_from yields a datagram of a known peer.
PacketFromPeer(l, src, frames) ==
    /\ ~cancelled /\ src \in AddrsOf(l)
    /\ sent + Len(frames) <= MaxFrames
    /\ Local(l, "listen", "forward")
    /\ packet' = [packet EXCEPT ![l] = [src |-> src, frames |-> frames]]
    /\ Heard(l, src)
    /\ UNCHANGED <<victims, reason, cut, removed>>

\* recv_from yields a datagram of a new source: admit_new_peer up to its await.
PacketFromStranger(l, src, frames) ==
    /\ At(l, "listen") /\ ~cancelled /\ src \notin AddrsOf(l)
    /\ sent + Len(frames) <= MaxFrames
    /\ AdmitPeer(l)
    /\ task' = [task EXCEPT ![l] = "admit", ![next_id] = "announce"]
    /\ packet' = [packet EXCEPT ![l] = [src |-> src, frames |-> frames]]
    /\ UNCHANGED <<peers, victims, reason, cut, removed>>

Admitted(l, id) == At(l, "admit") /\ id \in Children(l) /\ At(id, "announce")

\* Mutant: try_send, whose failure on a full channel goes unnoticed.
SendPeerAdded_TrySend(l, id) ==
    /\ Admitted(l, id) /\ ~RouterClosed
    /\ IF Len(event_ch) < EventQCap THEN SendAdded(id)
                                   ELSE UNCHANGED <<routerVars, allocVars, sent>>
    /\ task' = [task EXCEPT ![l] = "admitted", ![id] = "pending"]
    /\ UNCHANGED udpVars

SendPeerAdded(l, id) ==
    /\ Admitted(l, id)
    /\ SendAdded(id)
    /\ task' = [task EXCEPT ![l] = "admitted", ![id] = "pending"]
    /\ UNCHANGED udpVars

\* Mutant: the announcement is retried for as long as it fails.
AdmitFails_Retries(l, id) ==
    Admitted(l, id) /\ RouterClosed /\ UNCHANGED vars

\* The router is gone: the packet is dropped and the table left alone.
AdmitFails(l, id) ==
    /\ Admitted(l, id) /\ RouterClosed
    /\ task' = [task EXCEPT ![l] = "listen", ![id] = "refused"]
    /\ packet' = [packet EXCEPT ![l] = NoPacket]
    /\ UNCHANGED <<routerVars, allocVars, sent, peers, victims, reason, cut, removed>>

\* Mutant: the writer keeps running.
Detach_KeepsWriter(l, id) ==
    /\ peers' = [peers EXCEPT ![l] = Without(@, PlaceOfId(l, id))]
    /\ cut' = cut

\* Remove id from the table and cancel its writer.
Detach(l, id) ==
    /\ peers' = [peers EXCEPT ![l] = Without(@, PlaceOfId(l, id))]
    /\ cut' = cut \cup {id}

\* evict_lru_peer, up to its await.
evict_lru_peer(l) ==
    /\ Len(peers[l]) >= peer_capacity
    /\ Local(l, "admitted", "removing")
    /\ Detach(l, Head(peers[l]).id)
    /\ victims' = [victims EXCEPT ![l] = {Head(peers[l]).id}]
    /\ reason' = [reason EXCEPT ![l] = "LruEvicted"]
    /\ UNCHANGED <<packet, removed>>

\* Mutant: one peer too many.
InsertPeer_OffByOne(l, id) ==
    /\ At(l, "evicted") \/ (At(l, "admitted") /\ Len(peers[l]) <= peer_capacity)
    /\ id \in Children(l) /\ At(id, "pending")
    /\ task' = [task EXCEPT ![l] = "forward", ![id] = "wait"]
    /\ peers' = [peers EXCEPT ![l] = Append(@, [addr |-> packet[l].src, id |-> id])]
    /\ UNCHANGED <<routerVars, allocVars, sent, packet, victims, reason, cut, removed>>

\* The writer is spawned and the peer enters the table.
InsertPeer(l, id) ==
    /\ At(l, "evicted") \/ (At(l, "admitted") /\ Len(peers[l]) < peer_capacity)
    /\ id \in Children(l) /\ At(id, "pending")
    /\ task' = [task EXCEPT ![l] = "forward", ![id] = "wait"]
    /\ peers' = [peers EXCEPT ![l] = Append(@, [addr |-> packet[l].src, id |-> id])]
    /\ UNCHANGED <<routerVars, allocVars, sent, packet, victims, reason, cut, removed>>

NextFrame(l) == packet' = [packet EXCEPT ![l].frames = Tail(@)]

PassesIn(l) == passes_in_filter(Identity(who[l].spec).filters, Head(packet[l].frames))

FilterFrame(l) ==
    /\ packet[l].frames # <<>> /\ ~PassesIn(l)
    /\ Local(l, "forward", "forward")
    /\ NextFrame(l)
    /\ UNCHANGED <<peers, victims, reason, cut, removed>>

ForwardFrame(l) ==
    /\ At(l, "forward") /\ packet[l].frames # <<>> /\ PassesIn(l)
    /\ SendFrame(PeerOf(l, packet[l].src), Head(packet[l].frames))
    /\ NextFrame(l)
    /\ UNCHANGED <<task, peers, victims, reason, cut, removed>>

\* The framer holds no complete frame any more: back to the select.
PacketDone(l) ==
    /\ packet[l].frames = <<>>
    /\ Local(l, "forward", "listen")
    /\ packet' = [packet EXCEPT ![l] = NoPacket]
    /\ UNCHANGED <<peers, victims, reason, cut, removed>>

\* A failed send drops the datagram; the loop then finds the token set.
ForwardFails(l) ==
    /\ packet[l].frames # <<>> /\ PassesIn(l) /\ RouterClosed
    /\ Local(l, "forward", "listen")
    /\ packet' = [packet EXCEPT ![l] = NoPacket]
    /\ UNCHANGED <<peers, victims, reason, cut, removed>>

\* The reaper ticks: the idle peers are the least recent ones, how many is up to
\* the clock.
reap_idle_peers(l, n) ==
    /\ ~cancelled
    /\ Local(l, "listen", "reap")
    /\ victims' = [victims EXCEPT ![l] = {peers[l][i].id : i \in 1..n}]
    /\ reason' = [reason EXCEPT ![l] = "Idle"]
    /\ UNCHANGED <<peers, packet, cut, removed>>

shutdown_all_peers(l) ==
    /\ cancelled
    /\ Local(l, "listen", "reap")
    /\ victims' = [victims EXCEPT ![l] = IdsOf(l)]
    /\ reason' = [reason EXCEPT ![l] = "ListenerShutdown"]
    /\ UNCHANGED <<peers, packet, cut, removed>>

\* Mutant: an idle peer goes without a PeerRemoved.
Remove_Silent(l, id) ==
    /\ id \in victims[l] \cap IdsOf(l)
    /\ Local(l, "reap", "reap")
    /\ Detach(l, id)
    /\ victims' = [victims EXCEPT ![l] = @ \ {id}]
    /\ UNCHANGED <<packet, reason, removed>>

\* The next victim, in the order of a HashMap.
Remove(l, id) ==
    /\ id \in victims[l] \cap IdsOf(l)
    /\ Local(l, "reap", "removing")
    /\ Detach(l, id)
    /\ UNCHANGED <<packet, victims, reason, removed>>

SendPeerRemoved(l, id) ==
    /\ At(l, "removing") /\ id \in victims[l] \ IdsOf(l)
    /\ SendRemoved(id, reason[l])
    /\ Goto(l, IF reason[l] = "LruEvicted" THEN "evicted" ELSE "reap")
    /\ victims' = [victims EXCEPT ![l] = @ \ {id}]
    /\ removed' = removed \cup {id}
    /\ UNCHANGED <<peers, packet, reason, cut>>

\* No victim is left: back to the select, or on to the writers.
Reaped(l) ==
    /\ victims[l] = {}
    /\ Local(l, "reap", IF reason[l] = "Idle" THEN "listen" ELSE "join")
    /\ UNCHANGED udpVars

JoinWriters(l) ==
    /\ \A c \in Children(l) : task[c] \in {"ended", "refused"}
    /\ Move(l, "join", "ended")

-----------------------------------------------------------------------------
(* run_peer_writer *)

\* The writer's token is a child of the global one.
WriterCancelled(id) == cancelled \/ id \in cut

WriterEnds(id) ==
    /\ At(id, "wait") /\ WriterCancelled(id)
    /\ drain_and_discard(id)
    /\ Goto(id, "ended")
    /\ UNCHANGED udpVars

PopFrame(id) ==
    /\ At(id, "wait") /\ ~WriterCancelled(id)
    /\ PopTx(id)
    /\ Goto(id, "send")
    /\ UNCHANGED udpVars

Sent(id) == Move(id, "send", "wait")

SendFails(id) ==
    /\ At(id, "send") /\ Goto(id, "wait")
    /\ stats' = [stats EXCEPT ![id].dropped_tx = @ + 1]
    /\ UNCHANGED <<channels, cancelled, pc, registry, tx, stats_events_dropped,
                   allocVars, sent, udpVars>>

-----------------------------------------------------------------------------
\* What a datagram makes the framer yield.
Datagrams == {<<>>} \cup {<<f>> : f \in Frames} \cup {<<f, g>> : f, g \in Frames}

\* What the network and the clock do to a listener or a writer.
Network(id) ==
    \/ /\ Listener(id)
       /\ \/ Bind(id) /\ UNCHANGED udpVars
          \/ \E src \in Addrs, frames \in Datagrams :
                PacketFromPeer(id, src, frames) \/ PacketFromStranger(id, src, frames)
          \/ \E n \in 1..Len(peers[id]) : reap_idle_peers(id, n)
    \/ Peer(id) /\ (Sent(id) \/ SendFails(id))

\* What a listener and its writers do by themselves.
Task(id) ==
    \/ /\ Listener(id)
       /\ \/ Announce(id) \/ AnnounceFails(id)
          \/ (BindCancelled(id) \/ Listening(id)) /\ UNCHANGED udpVars
          \/ \E c \in Ids : SendPeerAdded(id, c) \/ AdmitFails(id, c) \/ InsertPeer(id, c)
                              \/ Remove(id, c) \/ SendPeerRemoved(id, c)
          \/ evict_lru_peer(id)
          \/ FilterFrame(id) \/ ForwardFrame(id) \/ PacketDone(id) \/ ForwardFails(id)
          \/ shutdown_all_peers(id) \/ Reaped(id) \/ JoinWriters(id)
    \/ Peer(id) /\ (WriterEnds(id) \/ PopFrame(id))

Next ==
    \/ (Route \/ SpawnEndpoint \/ Cancel) /\ UNCHANGED udpVars
    \/ \E id \in Ids : Network(id) \/ Task(id)

Spec == Init /\ [][Next]_vars

\* The runtime polls every task that was woken; nothing is assumed of the network.
FairSpec ==
    /\ Spec
    /\ WF_vars(Route /\ UNCHANGED udpVars)
    /\ WF_vars(SpawnEndpoint /\ UNCHANGED udpVars)
    /\ \A id \in Ids : WF_vars(Task(id))

-----------------------------------------------------------------------------
(* Properties. *)

\* What a registered or soon to be registered endpoint of l is, once the router has
\* handled the events that are queued.
RegisteredAfterEvents(l) ==
    {c \in Children(l) :
        /\ \/ c \in DOMAIN routing
           \/ \E i \in DOMAIN event_ch : event_ch[i].id = c
        /\ \A i \in DOMAIN event_ch : event_ch[i].id = c => IsAdded(event_ch[i])}

\* The table has one peer per address and never more than the capacity; while a new
\* peer is admitted its address is not in the table, and a datagram whose frames are
\* being forwarded is from a peer that is.
TableBounded ==
    \A l \in Ids : Listener(l) =>
        /\ \A i, j \in DOMAIN peers[l] : peers[l][i].addr = peers[l][j].addr => i = j
        /\ Len(peers[l]) <= peer_capacity
        /\ At(l, "admitted") => packet[l].src \notin AddrsOf(l)
        /\ At(l, "forward") => packet[l].src \in AddrsOf(l)

\* Whenever a listener is back at its select, the router is about to hold exactly the
\* peers in its table; on the way, while a new peer is announced ahead of the
\* eviction, one more than the capacity.
TableMatchesRegistry ==
    \A l \in Ids : Listener(l) /\ pc \notin {"sweep", "done"} =>
        /\ Cardinality(RegisteredAfterEvents(l)) <= peer_capacity + 1
        /\ task[l] \in {"listen", "forward"} => RegisteredAfterEvents(l) = IdsOf(l)

\* A peer that was removed does not leave its writer behind: it ends, unless it is
\* stuck in send_to.
RemovedWritersEnd ==
    []<>(\A id \in removed : task[id] \in {"ended", "send"})

\* Once the token fires the router and the listener end, unless a writer is stuck in
\* send_to.  That every peer had its PeerRemoved by then is said by RefinesRouterSystem:
\* a listener's Exit comes after the Depart of all its peers.
ShutdownCompletes ==
    cancelled ~> /\ RouterClosed
                 /\ spawned = Len(Endpoints)
                 /\ \A id \in Ids :
                       \/ task[id] \in {"none", "ended", "refused", "send"}
                       \/ At(id, "join") /\ \E c \in Children(id) : At(c, "send")

=============================================================================
