----------------------------- MODULE DedupWindow ------------------------------
(***************************************************************************)
(* The dedup window on its own (src/src/router/dedup.rs): a ring of        *)
(* entries with deadlines, a set of hashes for the lookup, and a clock.    *)
(* Router keeps only the ring and lets any prefix of it expire; here the   *)
(* deadlines decide.  Frames stand for their hashes: two frames with one   *)
(* hash are one frame here.                                                *)
(***************************************************************************)
EXTENDS Integers, Sequences, FiniteSets

CONSTANTS
    Hashes,                \* hashes of the frames that arrive
    Ttls,                  \* values of dedup_ms, in clock ticks; 0 disables the window
    Capacity,              \* dedup_window_capacity, before the clamp
    MaxTime,               \* bound on the clock
    MaxChecks              \* bound on the frames checked

ASSUME DedupAssumption ==
    Ttls \subseteq Nat /\ Capacity \in Nat /\ MaxTime \in Nat /\ MaxChecks \in Nat

VARIABLES
    ttl,                   \* the configured one of Ttls
    now,                   \* the clock, read once per frame
    ring,                  \* entries [hash, deadline], oldest first
    set,                   \* the hashes for the lookup
    log                    \* history: [hash, at, dup] per frame checked

vars == <<ttl, now, ring, set, log>>

capacity == IF Capacity = 0 THEN 1 ELSE Capacity

Init == ttl \in Ttls /\ now = 0 /\ ring = <<>> /\ set = {} /\ log = <<>>

Tick == now < MaxTime /\ now' = now + 1 /\ UNCHANGED <<ttl, ring, set, log>>

is_enabled == ttl # 0

\* Mutant: an entry is kept until its deadline has passed.
expire_stale_Late(r) ==
    LET stale == {i \in DOMAIN r : \A j \in 1..i : r[j].deadline < now}
    IN  SubSeq(r, Cardinality(stale) + 1, Len(r))

\* What is left of the ring: expired entries leave from the head, up to the first
\* that is not expired.
expire_stale(r) ==
    LET stale == {i \in DOMAIN r : \A j \in 1..i : r[j].deadline <= now}
    IN  SubSeq(r, Cardinality(stale) + 1, Len(r))

\* Mutant: the victim of a full ring stays in the set.
evict_oldest_KeepsHash(r, s) == [ring |-> Tail(r), set |-> s]

evict_oldest(r, s) == [ring |-> Tail(r), set |-> s \ {Head(r).hash}]

Recorded(hash, dup) == log' = Append(log, [hash |-> hash, at |-> now, dup |-> dup])

Disabled(hash) == ~is_enabled /\ Recorded(hash, FALSE) /\ UNCHANGED <<ttl, now, ring, set>>

\* The hashes of the expired entries leave the set one by one.
check_and_insert(hash) ==
    LET live == expire_stale(ring)
        expired == {ring[i].hash : i \in 1..(Len(ring) - Len(live))}
        kept == set \ expired
        room == IF Len(live) >= capacity THEN evict_oldest(live, kept)
                ELSE [ring |-> live, set |-> kept]
    IN  /\ is_enabled
        /\ IF hash \in kept
           THEN ring' = live /\ set' = kept
           ELSE /\ ring' = Append(room.ring, [hash |-> hash, deadline |-> now + ttl])
                /\ set' = room.set \cup {hash}
        /\ Recorded(hash, hash \in kept)
        /\ UNCHANGED <<ttl, now>>

Next ==
    \/ Tick
    \/ Len(log) < MaxChecks /\ \E hash \in Hashes : Disabled(hash) \/ check_and_insert(hash)

Spec == Init /\ [][Next]_vars

-----------------------------------------------------------------------------
(* Properties. *)

\* The set answers for the ring: it holds the hashes of the ring's entries, of
\* which there are never two with one hash, nor more than the capacity.
RingSetAgree ==
    /\ set = {ring[i].hash : i \in DOMAIN ring}
    /\ Cardinality(set) = Len(ring)
    /\ Len(ring) <= capacity

Admitted(n) == {i \in 1..n : ~log[i].dup}

\* A frame is suppressed exactly if it was let through less than ttl ago and fewer
\* than `capacity' other frames were let through since: at the deadline itself it
\* passes again, and the copies in between do not prolong its stay.
SuppressedExactly ==
    \A n \in DOMAIN log :
        log[n].dup <=>
            \E i \in Admitted(n - 1) :
                /\ log[i].hash = log[n].hash
                /\ log[n].at < log[i].at + ttl
                /\ Cardinality({j \in Admitted(n - 1) : j > i}) < capacity

=============================================================================
