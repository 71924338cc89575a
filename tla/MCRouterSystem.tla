--------------------------- MODULE MCRouterSystem ----------------------------
(* An instance of RouterSystem for TLC. *)
EXTENDS RouterSafety

CONSTANT MaxFrames         \* bound on the frames sent to the router

NoFilters ==
    [allow_msgid_in |-> {}, block_msgid_in |-> {},
     allow_msgid_out |-> {}, block_msgid_out |-> {},
     allow_src_sys_in |-> {}, block_src_sys_in |-> {},
     allow_src_sys_out |-> {}, block_src_sys_out |-> {},
     allow_src_comp_in |-> {}, block_src_comp_in |-> {},
     allow_src_comp_out |-> {}, block_src_comp_out |-> {},
     allow_src_endpoint_out |-> {}, block_src_endpoint_out |-> {}]

Ep(listener, group, sniffer, filters) ==
    [listener |-> listener,
     identity |-> [group |-> group, sniffer |-> sniffer, filters |-> filters]]

Msg(sys, target, seq) ==
    [msgid |-> 1, sys |-> sys, comp |-> 1, target_system |-> target,
     target_component |-> IF target = None THEN None ELSE 1, seq |-> seq]

\* A grouped leaf that sniffs and a listener of the same group.
LeafAndListener ==
    <<Ep(FALSE, "g", TRUE, NoFilters), Ep(TRUE, "g", FALSE, NoFilters)>>

OneFrame == {Msg(1, None, 0)}

\* The endpoints together send at most MaxFrames frames.
MCNext ==
    \/ Route
    \/ SpawnEndpoint
    \/ \E id \in Ids : Endpoint(id) /\ sent' <= MaxFrames
    \/ Cancel
    \/ StatsRecv
    \/ StatsExit

MCSpec == Init /\ [][MCNext]_vars

=============================================================================
