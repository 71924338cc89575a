----------------------------- MODULE SeqTracker -----------------------------
(***************************************************************************)
(* The loss estimator (src/src/endpoint/seq_tracker.rs): the last sequence *)
(* number of each source, and the gap to the next one in u8 arithmetic.    *)
(***************************************************************************)
EXTENDS Integers, Sequences, FiniteSets

CONSTANT SEQ_TRACKER_CAPACITY

DEFAULT_SEQ_GAP_THRESHOLD == 64

\* Entries.iter().find: the positions of a node's entry, at most one.
Holding(entries, node) == {i \in 1..Len(entries) : entries[i].node = node}

\* Vec::swap_remove: the last entry takes the place of the one removed.
swap_remove(entries, i) ==
  SubSeq([entries EXCEPT ![i] = entries[Len(entries)]], 1, Len(entries) - 1)

\* min_by_key: the first of those seen least recently.
evict_oldest(entries) ==
  LET oldest == {i \in 1..Len(entries) :
                   \A j \in 1..Len(entries) : entries[i].last_seen <= entries[j].last_seen}
  IN  swap_remove(entries, CHOOSE i \in oldest : \A j \in oldest : i <= j)

\* Mutant: the gap is a signed difference.
Gap_Signed(seq, last_seq) == seq - last_seq - 1

Gap(seq, last_seq) == (seq - last_seq - 1) % 256

\* The frames lost between this frame and its source's previous one, and the
\* entries afterwards; a gap of the threshold or more is taken for a restart.
observe(entries, node, seq, now) ==
  LET entry == [node |-> node, last_seq |-> seq, last_seen |-> now]
      room  == IF Len(entries) >= SEQ_TRACKER_CAPACITY THEN evict_oldest(entries) ELSE entries
  IN  IF Holding(entries, node) # {}
        THEN LET i   == CHOOSE i \in Holding(entries, node) : TRUE
                 gap == Gap(seq, entries[i].last_seq)
             IN  [entries |-> [entries EXCEPT ![i] = entry],
                  lost |-> IF gap > 0 /\ gap < DEFAULT_SEQ_GAP_THRESHOLD THEN gap ELSE 0]
        ELSE [entries |-> Append(room, entry), lost |-> 0]

\* Instants are only compared, so a rank stands for one.
Ranked(entries) ==
  [i \in 1..Len(entries) |->
     [entries[i] EXCEPT !.last_seen =
        Cardinality({entries[j].last_seen : j \in {k \in 1..Len(entries) :
                                              entries[k].last_seen < entries[i].last_seen}})]]

=============================================================================
