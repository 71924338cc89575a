---------------------------- MODULE MCStreamSystem ----------------------------
(* Instances of StreamSystem for TLC. *)
EXTENDS StreamSystem

NoFilters ==
    [allow_msgid_in |-> {}, block_msgid_in |-> {},
     allow_msgid_out |-> {}, block_msgid_out |-> {},
     allow_src_sys_in |-> {}, block_src_sys_in |-> {},
     allow_src_sys_out |-> {}, block_src_sys_out |-> {},
     allow_src_comp_in |-> {}, block_src_comp_in |-> {},
     allow_src_comp_out |-> {}, block_src_comp_out |-> {},
     allow_src_endpoint_out |-> {}, block_src_endpoint_out |-> {}]

Ep(transport, filters) ==
    [transport |-> transport, listener |-> transport = "tcps",
     identity |-> [group |-> NoGroup, sniffer |-> FALSE, filters |-> filters]]

Msg(sys, target, seq) ==
    [msgid |-> 1, sys |-> sys, comp |-> 1, target_system |-> target,
     target_component |-> IF target = None THEN None ELSE 1, seq |-> seq]

BlockSystem2 == [NoFilters EXCEPT !.block_src_sys_in = {2}]

\* Two leaves; the first refuses frames of system 2.
TwoLeaves == <<Ep("tcpc", BlockSystem2), Ep("serial", NoFilters)>>

\* A listener whose clients refuse frames of system 2.
ListenerOnly == <<Ep("tcps", BlockSystem2)>>

TwoFrames == {Msg(1, None, 0), Msg(2, None, 0)}
OneFrame == {Msg(1, None, 0)}

=============================================================================
