----------------------------- MODULE MCDispatch -------------------------------
(* An instance of Dispatch for TLC. *)
EXTENDS Dispatch

NoFilters ==
    [allow_msgid_in |-> {}, block_msgid_in |-> {},
     allow_msgid_out |-> {}, block_msgid_out |-> {},
     allow_src_sys_in |-> {}, block_src_sys_in |-> {},
     allow_src_sys_out |-> {}, block_src_sys_out |-> {},
     allow_src_comp_in |-> {}, block_src_comp_in |-> {},
     allow_src_comp_out |-> {}, block_src_comp_out |-> {},
     allow_src_endpoint_out |-> {}, block_src_endpoint_out |-> {}]

Configured(listener, group, sniffer, filters) ==
    [listener |-> listener,
     identity |-> [group |-> group, sniffer |-> sniffer, filters |-> filters]]

Msg(sys, comp, target_system, target_component) ==
    [msgid |-> 1, sys |-> sys, comp |-> comp, target_system |-> target_system,
     target_component |-> target_component]

\* A leaf and a listener whose peer is in the leaf's group, a sniffer that lets in what
\* component 2 says, and a leaf that takes nothing from the first.
GroupAndSniffer ==
    <<Configured(FALSE, "g", FALSE, NoFilters), Configured(TRUE, "g", FALSE, NoFilters),
      Configured(FALSE, NoGroup, TRUE, [NoFilters EXCEPT !.allow_src_comp_in = {2}]),
      Configured(FALSE, NoGroup, FALSE, [NoFilters EXCEPT !.block_src_endpoint_out = {1}])>>

\* A broadcast, one to a system, one to a component, from three nodes.
Addressing == {Msg(1, 1, None, None), Msg(2, 1, 1, 0), Msg(1, 2, 2, 1)}

=============================================================================
