----------------------------- MODULE MCUdpServer ------------------------------
(* An instance of UdpServer for TLC. *)
EXTENDS UdpRefinement

BlockSystem2 ==
    [allow_msgid_in |-> {}, block_msgid_in |-> {},
     allow_msgid_out |-> {}, block_msgid_out |-> {},
     allow_src_sys_in |-> {}, block_src_sys_in |-> {2},
     allow_src_sys_out |-> {}, block_src_sys_out |-> {},
     allow_src_comp_in |-> {}, block_src_comp_in |-> {},
     allow_src_comp_out |-> {}, block_src_comp_out |-> {},
     allow_src_endpoint_out |-> {}, block_src_endpoint_out |-> {}]

\* A listener that refuses frames of system 2.
OneListener ==
    <<[transport |-> "udps", listener |-> TRUE,
       identity |-> [group |-> NoGroup, sniffer |-> FALSE, filters |-> BlockSystem2]]>>

Msg(sys) ==
    [msgid |-> 1, sys |-> sys, comp |-> 1, target_system |-> None,
     target_component |-> None, seq |-> 0]

TwoFrames == {Msg(1), Msg(2)}

=============================================================================
