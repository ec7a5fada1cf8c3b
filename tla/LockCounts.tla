----------------------------- MODULE LockCounts -----------------------------
(***************************************************************************)
(* cpu_watcher -x: mutrace_print counts contentions per mutex in a table   *)
(* with open addressing (include/cpu_watcher_helper.h).  Entries are never *)
(* removed; the search for a free one does not end in a full table.        *)
(***************************************************************************)
EXTENDS Naturals, FiniteSets

CONSTANTS
  Ptr,        \* addresses of mutexes, not 0
  HASH_SIZE,
  MaxEvents   \* bound: contentions in a behaviour

VARIABLES
  lock_counts,  \* [0..HASH_SIZE-1 -> [ptr, count]]
  hung,         \* the printer goes round the table for ever
  seen          \* history: [Ptr -> contentions counted]

vars == <<lock_counts, hung, seen>>

Slot == 0..(HASH_SIZE - 1)

Init ==
  /\ lock_counts = [h \in Slot |-> [ptr |-> 0, count |-> 0]]
  /\ hung = FALSE
  /\ seen = [p \in Ptr |-> 0]

hash(p) == p % HASH_SIZE

\* The slot k steps from where the search for p starts.
Path(p, k) == (hash(p) + k) % HASH_SIZE

\* Variant: a mutex with the same hash is taken for p.
EndsAtHash(p, k) ==
  LET q == lock_counts[Path(p, k)].ptr IN q = 0 \/ hash(q) = hash(p)

\* The condition of the loop: a free slot, or the one of p.
Ends(p, k) == lock_counts[Path(p, k)].ptr \in {0, p}

\* The slot at which the search for p ends, if it does.
Found(p) ==
  Path(p, CHOOSE k \in Slot : Ends(p, k) /\ \A j \in 0..(k - 1) : ~Ends(p, j))
Finds(p) == \E k \in Slot : Ends(p, k)

\* increment_lock_count, for an event that passed the filter of mutrace_print.
Count(p) ==
  LET h == Found(p) IN
  /\ ~hung /\ seen[p] < MaxEvents
  /\ hung' = ~Finds(p)
  /\ IF Finds(p)
     THEN /\ lock_counts' = [lock_counts EXCEPT ![h] = [ptr |-> p, count |-> @.count + 1]]
          /\ seen' = [seen EXCEPT ![p] = @ + 1]
     ELSE UNCHANGED <<lock_counts, seen>>

\* get_lock_count.
Get(p) == IF lock_counts[Found(p)].ptr = 0 THEN 0 ELSE lock_counts[Found(p)].count

Next == \E p \in Ptr : Count(p)
-----------------------------------------------------------------------------
(* Properties. *)

TypeOK ==
  /\ lock_counts \in [Slot -> [ptr : Ptr \cup {0}, count : Nat]]
  /\ hung \in BOOLEAN /\ seen \in [Ptr -> 0..MaxEvents]

\* Every mutex the table holds has exactly its own count, whatever other mutexes hash to
\* its slot or lie on its path, and one it does not hold has none.
CountIsExact == \A p \in Ptr : Finds(p) => Get(p) = seen[p]

\* The printer hangs only when as many mutexes as the table has slots were contended.
HangsOnlyWhenFull == hung => Cardinality({p \in Ptr : seen[p] > 0}) = HASH_SIZE
=============================================================================
