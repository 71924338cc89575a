------------------------------ MODULE UdpClient -------------------------------
(***************************************************************************)
(* The router with udpc: leaves (src/src/endpoint/udp/client.rs).  A leaf  *)
(* sends to the first address its host resolved to until a datagram of one *)
(* of those addresses latches it onto the sender; after a silence it looks *)
(* the host up again and drops the latch.  The positions of a task:        *)
(*                                                                         *)
(*   none, announce                 before the task is spawned             *)
(*   lookup, bind, bound            bind_local_socket                      *)
(*   select                         the select of event_loop               *)
(*   forward                        in forward_inbound_frames              *)
(*   send                           waits for send_to                      *)
(*   resolve, failed                looks the host up: there is no target, *)
(*                                  send_to failed                         *)
(*   revert                         looks the host up: the latch is idle   *)
(*   finished, ended                the queue is drained; over             *)
(***************************************************************************)
EXTENDS EndpointTask

CONSTANTS
    Answers,               \* what lookup_host may return: sequences of IpAddrs
    Sources                \* where datagrams come from: SocketAddrs, [ip, port]

\* mapped marks the IPv4-mapped IPv6 form, which is how a dual-stack socket reports an
\* IPv4 sender.
IpAddr == [host : STRING, mapped : BOOLEAN]

ASSUME UdpClientAssumption ==
    /\ <<>> \in Answers /\ Answers \subseteq Seq(IpAddr)
    /\ \A src \in Sources : src.ip \in IpAddr

VARIABLES
    resolved_ips,          \* id -> the addresses of the last lookup that had any
    latch                  \* id -> <<the latched SocketAddr>>, or NoLatch

destVars == <<resolved_ips, latch>>
udpVars == <<destVars, inbox>>
udpcVars == <<routerVars, transportVars, udpVars>>

NoLatch == <<>>

\* The endpoints configured are leaves.
LeavesOnly == \A e \in 1..Len(Endpoints) : ~Endpoints[e].listener

UdpcInit ==
    /\ LeavesOnly
    /\ TransportInit
    /\ resolved_ips = [id \in Ids |-> <<>>]
    /\ latch = [id \in Ids |-> NoLatch]
    /\ inbox = [id \in Ids |-> <<>>]

canonical_ip(ip) == [ip EXCEPT !.mapped = FALSE]

\* current_target() is Some.
HasTarget(id) == latch[id] # NoLatch \/ resolved_ips[id] # <<>>

\* Mutant: a sender without a latch need not be an address of the host.
classify_inbound_AnySource(id, ip) ==
    IF latch[id] # NoLatch THEN canonical_ip(latch[id][1].ip) = canonical_ip(ip) ELSE TRUE

\* The datagram is accepted: it comes from the latched address or, without a latch,
\* from one of those the host resolved to.
classify_inbound(id, ip) ==
    IF latch[id] # NoLatch THEN canonical_ip(latch[id][1].ip) = canonical_ip(ip)
    ELSE \E i \in DOMAIN resolved_ips[id] :
            canonical_ip(resolved_ips[id][i]) = canonical_ip(ip)

\* A lookup without an answer keeps the addresses known before.
Refresh(id, fresh) ==
    resolved_ips' = IF fresh = <<>> THEN resolved_ips
                    ELSE [resolved_ips EXCEPT ![id] = fresh]

-----------------------------------------------------------------------------
(* bind_local_socket: the first lookup does not race the token, the bind does. *)

\* Mutant: the announcement is a try_send, lost when the channel is full.
UdpcAnnounce_TrySend(id) ==
    /\ At(id, "announce")
    /\ \/ SendAdded(id)
       \/ Len(event_ch) = EventQCap /\ UNCHANGED <<routerVars, allocVars, sent>>
    /\ Goto(id, "lookup")
    /\ UNCHANGED udpVars

UdpcAnnounce(id) == SendAdded(id) /\ Goto(id, "lookup") /\ UNCHANGED udpVars

UdpcAnnounceFails(id) == RouterClosed /\ Local(id, "announce", "ended") /\ UNCHANGED udpVars

FirstLookup(id, fresh) ==
    /\ Local(id, "lookup", "bind")
    /\ resolved_ips' = [resolved_ips EXCEPT ![id] = fresh]
    /\ UNCHANGED <<latch, inbox>>

BindLocal(id) == ~cancelled /\ Local(id, "bind", "bound") /\ UNCHANGED udpVars

BindLocalCancelled(id) == cancelled /\ Local(id, "bind", "ended") /\ UNCHANGED udpVars

Bound(id) == StoreState(id, "Connected", "bound", "select") /\ UNCHANGED udpVars

-----------------------------------------------------------------------------
(* event_loop.  A datagram that is not accepted changes nothing modelled. *)

LoopCancelled(id) ==
    /\ At(id, "select") /\ cancelled
    /\ drain_and_discard(id) /\ Goto(id, "finished")
    /\ UNCHANGED udpVars

UdpcEnds(id) == Local(id, "finished", "ended") /\ UNCHANGED udpVars

\* Frames of datagrams in hand; they count against MaxFrames.
HeldDatagrams == {id \in Ids : inbox[id] # <<>>}

\* handle_inbound, up to forward_inbound_frames: latch onto the sender, or follow it
\* to a new port; the peer is reachable.
handle_inbound(id, src, frames) ==
    /\ ~cancelled
    /\ frames # <<>> => sent + Cardinality(HeldDatagrams) < MaxFrames
    /\ classify_inbound(id, src.ip)
    /\ StoreState(id, "Connected", "select", "forward")
    /\ latch' = [latch EXCEPT ![id] = <<src>>]
    /\ inbox' = [inbox EXCEPT ![id] = frames]
    /\ UNCHANGED resolved_ips

UdpcFilterFrame(id) ==
    /\ inbox[id] # <<>> /\ ~PassesIn(id)
    /\ Local(id, "forward", "forward")
    /\ inbox' = [inbox EXCEPT ![id] = Tail(@)]
    /\ UNCHANGED destVars

UdpcForwardFrame(id) ==
    /\ At(id, "forward") /\ inbox[id] # <<>> /\ PassesIn(id)
    /\ SendFrame(id, Head(inbox[id]))
    /\ inbox' = [inbox EXCEPT ![id] = Tail(@)]
    /\ UNCHANGED <<task, destVars>>

\* No frame is left: back to the select.
Forwarded(id) ==
    inbox[id] = <<>> /\ Local(id, "forward", "select") /\ UNCHANGED udpVars

\* A failed send drops the datagram; the loop then finds the token set.
UdpcForwardFails(id) ==
    /\ inbox[id] # <<>> /\ PassesIn(id) /\ RouterClosed
    /\ Local(id, "forward", "select")
    /\ inbox' = [inbox EXCEPT ![id] = <<>>]
    /\ UNCHANGED destVars

\* send_frame; without a target the frame is gone.
UdpcPopFrame(id) ==
    /\ At(id, "select") /\ ~cancelled /\ PopTx(id)
    /\ Goto(id, IF HasTarget(id) THEN "send" ELSE "resolve")
    /\ UNCHANGED udpVars

\* The lookup of a leaf without a target.
Resolved(id, fresh) ==
    /\ IF fresh = <<>> THEN StoreState(id, "Reconnecting", "resolve", "select")
                       ELSE Local(id, "resolve", "select")
    /\ Refresh(id, fresh)
    /\ UNCHANGED <<latch, inbox>>

Sent(id) == StoreState(id, "Connected", "send", "select") /\ UNCHANGED udpVars

SendFails(id) == Local(id, "send", "failed") /\ UNCHANGED udpVars

\* The lookup after a failed send; a latch stays.
ResolvedAfterFailure(id, fresh) ==
    /\ StoreState(id, "Reconnecting", "failed", "select")
    /\ Refresh(id, fresh)
    /\ UNCHANGED <<latch, inbox>>

\* check_latch_idle, up to its lookup; when the silence was long enough is up to the
\* clock.
check_latch_idle(id) ==
    /\ ~cancelled /\ latch[id] # NoLatch
    /\ Local(id, "select", "revert")
    /\ UNCHANGED udpVars

Reverted(id, fresh) ==
    /\ Local(id, "revert", "select")
    /\ Refresh(id, fresh)
    /\ latch' = [latch EXCEPT ![id] = NoLatch]
    /\ UNCHANGED inbox

-----------------------------------------------------------------------------
\* What the framer yields from a datagram.
Datagrams == {<<>>} \cup {<<frame>> : frame \in Frames}

\* What the network, the resolver and the clock do to a task.
UdpcNetwork(id) ==
    \/ \E fresh \in Answers :
          \/ FirstLookup(id, fresh) \/ Resolved(id, fresh)
          \/ ResolvedAfterFailure(id, fresh) \/ Reverted(id, fresh)
    \/ BindLocal(id)
    \/ \E src \in Sources, frames \in Datagrams : handle_inbound(id, src, frames)
    \/ Sent(id) \/ SendFails(id)
    \/ check_latch_idle(id)

\* What a task does by itself.
UdpcTask(id) ==
    \/ UdpcAnnounce(id) \/ UdpcAnnounceFails(id)
    \/ BindLocalCancelled(id) \/ Bound(id)
    \/ LoopCancelled(id) \/ UdpcEnds(id)
    \/ UdpcFilterFrame(id) \/ UdpcForwardFrame(id) \/ Forwarded(id) \/ UdpcForwardFails(id)
    \/ UdpcPopFrame(id)

UdpcNext ==
    \/ (Route \/ SpawnEndpoint \/ Cancel) /\ UNCHANGED udpVars
    \/ \E id \in Ids : UdpcNetwork(id) \/ UdpcTask(id)

UdpcSpec == UdpcInit /\ [][UdpcNext]_udpcVars

-----------------------------------------------------------------------------
(* Properties. *)

\* Once the host has resolved, the leaf has somewhere to send for good: neither a
\* lookup that fails nor the end of a latch takes its last address away.  A latch is
\* put on an address the host resolves to at that time, and from then on it follows
\* that address from port to port but never moves to another one: for that it must
\* be dropped first, whatever lookups happened in between.
TargetScoped ==
    [][\A id \in Ids :
          LET new == latch'[id]
          IN  /\ HasTarget(id) => HasTarget(id)'
              /\ new # latch[id] /\ new # NoLatch =>
                    IF latch[id] = NoLatch
                    THEN \E i \in DOMAIN resolved_ips[id] :
                            resolved_ips[id][i].host = new[1].ip.host
                    ELSE new[1].ip.host = latch[id][1].ip.host]_udpcVars

=============================================================================
