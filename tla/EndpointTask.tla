----------------------------- MODULE EndpointTask -----------------------------
(***************************************************************************)
(* The transports in which every id has a task of its own: a leaf, a       *)
(* listener and each client of a tcps: listener.  (A udps: listener runs   *)
(* the sessions of all its peers itself.)                                  *)
(***************************************************************************)
EXTENDS Transport

VARIABLE inbox             \* id -> frames read and not yet forwarded

\* Why a client leaves; a leaf never does.
Reasons == {"Disconnected", "ListenerShutdown"}

PassesIn(id) == passes_in_filter(Identity(who[id].spec).filters, Head(inbox[id]))

-----------------------------------------------------------------------------
(* What RouterSystem sees of a task. *)

Life == [id \in Ids |-> CASE task[id] \in {"none", "announce"} -> task[id]
                          [] task[id] = "ended" -> "gone"
                          [] OTHER -> "live"]

RS == INSTANCE RouterSystem WITH life <- Life, writing <- {}, mirror <- {}

\* The tasks keep the promises RouterSystem makes for its endpoints: what is proved
\* there of the registry, the groups and the queues holds here.
RefinesRouterSystem == RS!Spec

=============================================================================
