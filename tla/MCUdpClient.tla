----------------------------- MODULE MCUdpClient ------------------------------
(* An instance of UdpClient for TLC. *)
EXTENDS UdpClient

BlockSystem2 ==
    [allow_msgid_in |-> {}, block_msgid_in |-> {},
     allow_msgid_out |-> {}, block_msgid_out |-> {},
     allow_src_sys_in |-> {}, block_src_sys_in |-> {2},
     allow_src_sys_out |-> {}, block_src_sys_out |-> {},
     allow_src_comp_in |-> {}, block_src_comp_in |-> {},
     allow_src_comp_out |-> {}, block_src_comp_out |-> {},
     allow_src_endpoint_out |-> {}, block_src_endpoint_out |-> {}]

Udpc ==
    [transport |-> "udpc", listener |-> FALSE,
     identity |-> [group |-> NoGroup, sniffer |-> FALSE, filters |-> BlockSystem2]]

TwoLeaves == <<Udpc, Udpc>>

Msg(sys) ==
    [msgid |-> 1, sys |-> sys, comp |-> 1, target_system |-> None,
     target_component |-> None, seq |-> 0]

TwoFrames == {Msg(1), Msg(2)}

Ip(host, mapped) == [host |-> host, mapped |-> mapped]

\* The name has no address, or one of two.
MCAnswers == {<<>>, <<Ip("h1", FALSE)>>, <<Ip("h2", FALSE)>>}

\* A host behind the name, heard from two ports, and another one that may be.
MCSources == {[ip |-> Ip("h1", TRUE), port |-> 1], [ip |-> Ip("h1", TRUE), port |-> 2],
              [ip |-> Ip("h2", FALSE), port |-> 1]}

=============================================================================
