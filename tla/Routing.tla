------------------------------- MODULE Routing -------------------------------
(***************************************************************************)
(* The pure part of the router: learn tables, filters and the routing      *)
(* decision for one destination (src/src/router/learn.rs, decide.rs and    *)
(* src/src/endpoint/filters.rs).                                           *)
(*                                                                         *)
(* A frame is a record of the header fields the router reads.  Two frames  *)
(* with the same bytes are the same record; `seq' tells apart frames whose *)
(* other fields agree.  An absent Option<u8> is None.                      *)
(***************************************************************************)
EXTENDS Integers, Sequences

None == -1

\* The (sysid, compid) a frame comes from.
Source(frame) == [sys |-> frame.sys, comp |-> frame.comp]

(***************************************************************************)
(* A learn table is the sequence of the nodes it holds, least recently     *)
(* seen first.  The code keeps a Vec with a last_seen stamp per node and   *)
(* evicts the smallest stamp; the stamps come from a monotonic clock read  *)
(* once per handled frame, so ordering by stamp is ordering by recency.    *)
(***************************************************************************)
contains(learn, node) == \E i \in DOMAIN learn : learn[i] = node

contains_sys(learn, sys) == \E i \in DOMAIN learn : learn[i].sys = sys

Without(seq, i) == SubSeq(seq, 1, i - 1) \o SubSeq(seq, i + 1, Len(seq))

\* Mutant: a known node is not refreshed.
touch_NoRefresh(learn, node, capacity) ==
    IF contains(learn, node) THEN learn
    ELSE Append(IF Len(learn) >= capacity THEN Tail(learn) ELSE learn, node)

\* `touch': refresh a known node, else insert it, evicting the oldest when full.
touch(learn, node, capacity) ==
    IF contains(learn, node)
    THEN Append(Without(learn, CHOOSE i \in DOMAIN learn : learn[i] = node), node)
    ELSE Append(IF Len(learn) >= capacity THEN Tail(learn) ELSE learn, node)

-----------------------------------------------------------------------------
(***************************************************************************)
(* Filters.  A list of ranges is the set of the values it covers; an empty *)
(* allow list restricts nothing and a block list wins over an allow list.  *)
(***************************************************************************)
PassAxis(value, allow, block) ==
    /\ allow = {} \/ value \in allow
    /\ value \notin block

passes_in_filter(filters, frame) ==
    /\ PassAxis(frame.msgid, filters.allow_msgid_in, filters.block_msgid_in)
    /\ PassAxis(frame.sys, filters.allow_src_sys_in, filters.block_src_sys_in)
    /\ PassAxis(frame.comp, filters.allow_src_comp_in, filters.block_src_comp_in)

passes_out_filter(filters, frame, src_endpoint_name) ==
    /\ PassAxis(frame.msgid, filters.allow_msgid_out, filters.block_msgid_out)
    /\ PassAxis(frame.sys, filters.allow_src_sys_out, filters.block_src_sys_out)
    /\ PassAxis(frame.comp, filters.allow_src_comp_out, filters.block_src_comp_out)
    /\ PassAxis(src_endpoint_name, filters.allow_src_endpoint_out,
                filters.block_src_endpoint_out)

-----------------------------------------------------------------------------
\* Mutant: a target component 0 is looked up as a component.
target_match_NoWildcard(frame, learn) ==
    \/ frame.target_system \in {None, 0}
    \/ contains(learn, [sys |-> frame.target_system, comp |-> frame.target_component])

\* A frame without a target system, or with target system 0, is a broadcast.
target_match(frame, learn) ==
    \/ frame.target_system \in {None, 0}
    \/ /\ frame.target_component \in {None, 0}
       /\ contains_sys(learn, frame.target_system)
    \/ /\ frame.target_component \notin {None, 0}
       /\ contains(learn, [sys |-> frame.target_system,
                           comp |-> frame.target_component])

\* Mutant: no loop prevention.
decide_Echoes(frame, learn, identity, src_endpoint_name) ==
    IF identity.sniffer THEN "Admit"
    ELSE IF ~passes_out_filter(identity.filters, frame, src_endpoint_name)
         THEN "OutFilterBlocked"
    ELSE IF ~target_match(frame, learn) THEN "TargetMismatch"
    ELSE "Admit"

\* The order matters: sniffer, loop prevention, out-filter, target match.
decide(frame, learn, identity, src_endpoint_name) ==
    IF identity.sniffer THEN "Admit"
    ELSE IF contains(learn, Source(frame)) THEN "LoopBlocked"
    ELSE IF ~passes_out_filter(identity.filters, frame, src_endpoint_name)
         THEN "OutFilterBlocked"
    ELSE IF ~target_match(frame, learn) THEN "TargetMismatch"
    ELSE "Admit"

=============================================================================
