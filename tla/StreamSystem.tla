----------------------------- MODULE StreamSystem -----------------------------
(***************************************************************************)
(* The router with its byte-stream transports: tcpc: leaves                *)
(* (src/src/endpoint/tcp/client.rs), serial: leaves (serial.rs), tcps:     *)
(* listeners with one session per accepted client (tcp/server.rs), and the *)
(* session they share (session.rs).  The positions of a task:              *)
(*                                                                         *)
(*   none, announce                 before the task is spawned             *)
(*   dial, resolve, connect, open, up, ready   a leaf coming up            *)
(*   session, forward, write        inside run_session                     *)
(*   returned, closing              run_session returned with outcome[id]  *)
(*   lost, retry                    a leaf that lost its link              *)
(*   finished / removing, ended     the end of a leaf / of a client        *)
(*   bind, bound, listen            a listener                             *)
(***************************************************************************)
EXTENDS EndpointTask

CONSTANT MaxBatch          \* bound on the frames one read completes

ASSUME StreamAssumption == MaxBatch \in Nat \ {0}

VARIABLE outcome           \* id -> the SessionOutcome its task still has to act on

sessionVars == <<outcome, inbox>>
vars == <<routerVars, transportVars, sessionVars>>

\* The endpoints configured are stream transports.
StreamsOnly ==
    \A e \in 1..Len(Endpoints) :
        /\ Endpoints[e].transport \in {"tcpc", "serial", "tcps"}
        /\ Endpoints[e].listener = (Endpoints[e].transport = "tcps")

Init ==
    /\ StreamsOnly
    /\ TransportInit
    /\ outcome = [id \in Ids |-> "none"]
    /\ inbox = [id \in Ids |-> <<>>]

Serial(id) == Leaf(id) /\ Endpoints[who[id].spec].transport = "serial"
Tcpc(id) == Leaf(id) /\ Endpoints[who[id].spec].transport = "tcpc"

\* A step that touches only the task's own position.
Move(id, from, to) == Local(id, from, to) /\ UNCHANGED sessionVars

\* The task starts where its kind starts.
Start(id) == CASE Leaf(id) -> "dial" [] Listener(id) -> "bind" [] OTHER -> "session"

\* The registration is sent, and then tasks.spawn.
Announce(id) == SendAdded(id) /\ Goto(id, Start(id)) /\ UNCHANGED sessionVars

\* The channel is closed: no task is spawned.
AnnounceFails(id) == RouterClosed /\ Move(id, "announce", "ended")

-----------------------------------------------------------------------------
(* tcps: run_accept_loop of the listener. *)

\* The listener waits for the announcement of the client it accepted last.
Accepting(l) ==
    Listener(l) /\ At(l, "listen") /\ \A c \in Children(l) : ~At(c, "announce")

accept_one_client(l) ==
    /\ Accepting(l) /\ ~cancelled
    /\ AdmitPeer(l) /\ Goto(next_id, "announce")
    /\ UNCHANGED sessionVars

\* Cancelled: join the sessions; run_inner then finds the token set.
JoinClients(l) ==
    /\ Accepting(l) /\ cancelled
    /\ \A c \in Children(l) : At(c, "ended")
    /\ Move(l, "listen", "bind")

-----------------------------------------------------------------------------
(* run_inner of a leaf: coming up. *)

\* The loop starts over, or ends if the token is set.
Dial(id) == ~cancelled /\ Move(id, "dial", IF Serial(id) THEN "open" ELSE "resolve")

DialCancelled(id) == cancelled /\ Move(id, "dial", "closing")

\* The name lookup does not race the token.  Without an address the dial has failed:
\* after the backoff, which does race it, the loop starts over.
resolve_to_socket_addrs(id) ==
    Move(id, "resolve", "connect") \/ Move(id, "resolve", "dial")

Connect(id) == ~cancelled /\ Move(id, "connect", "up")

\* Every address was refused or timed out.
ConnectFails(id) == ~cancelled /\ Move(id, "connect", "dial")

ConnectCancelled(id) == cancelled /\ Move(id, "connect", "closing")

\* try_open does not wait, and looks at the token only when it has failed.
open_until_cancel(id) == Move(id, "open", "up") \/ Move(id, "open", "dial")

\* A fresh link starts with an empty queue.
DrainStale(id) ==
    At(id, "up") /\ Goto(id, "ready") /\ drain_and_discard(id) /\ UNCHANGED sessionVars

Connected(id) == StoreState(id, "Connected", "ready", "session") /\ UNCHANGED sessionVars

-----------------------------------------------------------------------------
(* run_session. *)

Return(id, from, result) ==
    /\ Local(id, from, "returned")
    /\ outcome' = [outcome EXCEPT ![id] = result]

\* Mutant: the session's select has no branch for the token.
SessionCancelled_Missing(id) == At(id, "session") /\ cancelled /\ UNCHANGED vars

SessionCancelled(id) == cancelled /\ Return(id, "session", "Terminated") /\ UNCHANGED inbox

\* End of file or a read error.
ReadFails(id) == ~cancelled /\ Return(id, "session", "Disconnected") /\ UNCHANGED inbox

\* The frames read and not yet forwarded, by id and place; they count against MaxFrames.
Held == {at \in Ids \X (1..MaxBatch) : at[2] <= Len(inbox[at[1]])}

\* A read completes the frames of batch.
Read(id, batch) ==
    /\ ~cancelled
    /\ sent + Cardinality(Held) + Len(batch) <= MaxFrames
    /\ Local(id, "session", "forward")
    /\ inbox' = [inbox EXCEPT ![id] = batch]
    /\ UNCHANGED outcome

\* Back to the select after the last frame of the batch.
NextFrame(id) ==
    /\ inbox' = [inbox EXCEPT ![id] = Tail(@)]
    /\ Goto(id, IF Len(inbox[id]) = 1 THEN "session" ELSE "forward")

FilterFrame(id) ==
    /\ At(id, "forward") /\ ~PassesIn(id)
    /\ NextFrame(id)
    /\ UNCHANGED <<routerVars, allocVars, sent, outcome>>

\* The awaited send; the loop does not look at the token.
ForwardFrame(id) ==
    /\ At(id, "forward") /\ PassesIn(id)
    /\ SendFrame(id, Head(inbox[id]))
    /\ NextFrame(id)
    /\ UNCHANGED outcome

\* Mutant: a send that fails is tried again.
ForwardFails_Retries(id) ==
    At(id, "forward") /\ PassesIn(id) /\ RouterClosed /\ UNCHANGED vars

ForwardFails(id) ==
    /\ At(id, "forward") /\ PassesIn(id) /\ RouterClosed
    /\ Return(id, "forward", "Terminated")
    /\ inbox' = [inbox EXCEPT ![id] = <<>>]

\* write_all then waits for the socket only.
PopFrame(id) ==
    /\ At(id, "session") /\ ~cancelled /\ PopTx(id)
    /\ Goto(id, "write")
    /\ UNCHANGED sessionVars

WriteDone(id) == Move(id, "write", "session")

WriteFails(id) == Return(id, "write", "Disconnected") /\ UNCHANGED inbox

-----------------------------------------------------------------------------
(* The end of a session: run_client_session of a client, run_inner of a leaf. *)

\* The task acts on the outcome of its session.
Consume(id) == outcome' = [outcome EXCEPT ![id] = "none"] /\ UNCHANGED inbox

\* A serial: leaf drains its queue once more when it loses the device.
LinkLost(id) ==
    /\ Serial(id) /\ At(id, "returned") /\ outcome[id] = "Disconnected"
    /\ drain_and_discard(id)
    /\ Goto(id, "lost") /\ Consume(id)

\* Mutant: a leaf gives up when its session ends.
Reconnect_GivesUp(id) ==
    /\ Tcpc(id) /\ outcome[id] = "Disconnected"
    /\ StoreState(id, "Reconnecting", "returned", "ended") /\ Consume(id)

\* A tcpc: leaf dials again at once, a serial: leaf waits first.
Reconnect(id) ==
    \/ /\ Tcpc(id) /\ outcome[id] = "Disconnected"
       /\ StoreState(id, "Reconnecting", "returned", "dial") /\ Consume(id)
    \/ StoreState(id, "Reconnecting", "lost", "retry") /\ UNCHANGED sessionVars

\* The wait of a serial: leaf races the token, which ends it without another drain.
Retry(id) == Move(id, "retry", IF cancelled THEN "ended" ELSE "dial")

EndLeaf(id) ==
    /\ Leaf(id) /\ outcome[id] = "Terminated"
    /\ Local(id, "returned", "closing") /\ Consume(id)

EndClient(id) == Peer(id) /\ Move(id, "returned", "closing")

DrainAtEnd(id) ==
    /\ At(id, "closing") /\ Goto(id, IF Peer(id) THEN "removing" ELSE "finished")
    /\ drain_and_discard(id)
    /\ UNCHANGED sessionVars

LeafEnds(id) == Move(id, "finished", "ended")

Reason(id) == IF outcome[id] = "Terminated" THEN "ListenerShutdown" ELSE "Disconnected"

\* Mutant: PeerRemoved is a try_send, lost when the channel is full.
RemovePeer_TrySend(id) ==
    /\ At(id, "removing")
    /\ \/ SendRemoved(id, Reason(id))
       \/ Len(event_ch) = EventQCap /\ UNCHANGED <<routerVars, allocVars, sent>>
    /\ Goto(id, "ended") /\ Consume(id)

RemovePeer(id) ==
    /\ At(id, "removing")
    /\ SendRemoved(id, Reason(id))
    /\ Goto(id, "ended") /\ Consume(id)

-----------------------------------------------------------------------------
\* What the network does to a task, which nothing obliges it to do: a socket may
\* never bind, connect, become readable or take the bytes of a write, and a name
\* may never resolve.
Network(id) ==
    \/ Bind(id) /\ UNCHANGED sessionVars
    \/ accept_one_client(id)
    \/ resolve_to_socket_addrs(id) \/ Connect(id) \/ ConnectFails(id)
    \/ ReadFails(id)
    \/ \E n \in 1..MaxBatch : \E batch \in [1..n -> Frames] : Read(id, batch)
    \/ WriteDone(id) \/ WriteFails(id)

\* What a task does by itself.
Task(id) ==
    \/ Announce(id) \/ AnnounceFails(id)
    \/ (BindCancelled(id) \/ Listening(id)) /\ UNCHANGED sessionVars
    \/ JoinClients(id)
    \/ Dial(id) \/ DialCancelled(id) \/ ConnectCancelled(id) \/ open_until_cancel(id)
    \/ DrainStale(id) \/ Connected(id)
    \/ SessionCancelled(id)
    \/ FilterFrame(id) \/ ForwardFrame(id) \/ ForwardFails(id)
    \/ PopFrame(id)
    \/ LinkLost(id) \/ Reconnect(id) \/ Retry(id)
    \/ EndLeaf(id) \/ EndClient(id) \/ DrainAtEnd(id) \/ LeafEnds(id) \/ RemovePeer(id)

Next ==
    \/ (Route \/ SpawnEndpoint \/ Cancel) /\ UNCHANGED sessionVars
    \/ \E id \in Ids : Network(id) \/ Task(id)

Spec == Init /\ [][Next]_vars

\* The runtime polls every task that was woken.  Nothing is assumed of the network
\* or of the operator.
FairSpec ==
    /\ Spec
    /\ WF_vars(Route /\ UNCHANGED sessionVars)
    /\ WF_vars(SpawnEndpoint /\ UNCHANGED sessionVars)
    /\ \A id \in Ids : WF_vars(Task(id))

-----------------------------------------------------------------------------
(* Properties. *)

\* Stuck on the outside: a write the socket does not take, a name lookup without an
\* answer, or a listener that waits for a client in such a write.  Only these are
\* left for shutdown() to abort.
Blocked(id) ==
    \/ At(id, "write") \/ At(id, "resolve")
    \/ At(id, "listen") /\ \E c \in Children(id) : At(c, "write")

\* Once the token fires everything ends by itself, whatever the channels hold: the
\* router and every endpoint that was, or still is, to be spawned, but for those
\* stuck in a write or in a name lookup.
ShutdownCompletes ==
    cancelled ~> /\ RouterClosed
                 /\ spawned = Len(Endpoints)
                 /\ \A id \in Ids : task[id] \in {"none", "ended"} \/ Blocked(id)

-----------------------------------------------------------------------------
(* What a comment of the repository says of the program. *)

\* The source of the frame the router takes in this step.
Taking(id) ==
    /\ pc = "frames" /\ pc' = "events"
    /\ frame_ch # <<>> /\ Head(frame_ch).endpoint_id = id

RegistrationQueued(id) ==
    \E i \in DOMAIN event_ch : event_ch[i].id = id /\ IsAdded(event_ch[i])

\* spawn.rs: "The event is awaited BEFORE the spawn so the router's biased select
\* sees the registration before any frame stamped with the new EndpointId".
RegistrationPrecedesFrames ==
    [][\A id \in Ids : Taking(id) => ~RegistrationQueued(id)]_vars

=============================================================================
