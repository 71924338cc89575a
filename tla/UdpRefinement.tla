---------------------------- MODULE UdpRefinement ----------------------------
(***************************************************************************)
(* What RouterSystem sees of a udps: listener and its peers.               *)
(***************************************************************************)
EXTENDS UdpServer

\* For the router a peer lives until its PeerRemoved is sent, whatever its writer does.
Over(id) == IF Peer(id) THEN id \in removed \/ At(id, "refused") ELSE At(id, "ended")

Life == [id \in Ids |->
            IF task[id] \in {"none", "announce"} THEN task[id]
            ELSE IF Over(id) THEN "gone" ELSE "live"]

\* The writers that are in send_to.
Writing == {id \in Ids : At(id, "send")}

RS == INSTANCE RouterSystem WITH life <- Life, writing <- Writing, mirror <- {}

\* A udps: listener and its writers keep the promises RouterSystem makes for them:
\* a peer is announced once, removed once and only after it was announced, and the
\* listener returns after its last peer.
RefinesRouterSystem == RS!Spec

=============================================================================
