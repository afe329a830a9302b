---------------------------- MODULE MemoryCache ----------------------------
(***************************************************************************)
(* internal/cache/memory.go: the in-memory LRU cache with its two limits.  *)
(* Every operation holds mu from beginning to end and is one step;         *)
(* GetJSON, SetJSON, GetOrSet, MGet, MSet and the HTTP middleware are      *)
(* sequences of Get and Set, between which anything may happen.            *)
(*                                                                         *)
(* items and lru always hold the same entries (the code changes both in    *)
(* the same places) and are one sequence here, the most recent first.  Of  *)
(* a value the model keeps the size and whether it is a number.  Hits and  *)
(* misses are only counted, and are left out.                              *)
(***************************************************************************)
EXTENDS Integers, Sequences, FiniteSetsExt, Functions

CONSTANTS
    ItemKey,
    ItemSize,              \* sizes of values, numbers from 0
    NumberSize,            \* those among them of numbers in JSON
    MaxMemory, MaxItems    \* limits, 0 for none

MemoryAssumption == ItemSize \subseteq Nat /\ NumberSize \subseteq ItemSize /\ MaxMemory \in Nat /\ MaxItems \in Nat

VARIABLES
    lru,          \* the entries, front to back: Seq([key, size, number, fresh])
    currentMem,
    stopped,      \* Close has been called; the cache goes on working
    usedSince     \* history: the keys used since a key's last use (by Get, Set, Incr, Decr)

memoryVars == <<lru, currentMem, stopped, usedSince>>

MemoryEntry == [key : ItemKey, size : ItemSize, number : BOOLEAN, fresh : BOOLEAN]

MemoryTypeOK ==
    /\ lru \in Seq(MemoryEntry) /\ currentMem \in Nat
    /\ stopped \in BOOLEAN /\ usedSince \in [ItemKey -> SUBSET ItemKey]

MemoryInit ==
    /\ lru = <<>> /\ usedSince = [k \in ItemKey |-> {}]
    /\ currentMem = 0
    /\ stopped = FALSE

-----------------------------------------------------------------------------
KeysOf(q) == {q[n].key : n \in DOMAIN q}
\* The memory of the first n entries, and of all.
MemoryUpTo(q) == LET sum[n \in 0..Len(q)] == IF n = 0 THEN 0 ELSE sum[n - 1] + q[n].size IN sum
Memory(q) == MemoryUpTo(q)[Len(q)]
\* The entries for some of the keys among the first n, and among all, in their order.
OnlyUpTo(q, keys) ==
    LET only[n \in 0..Len(q)] ==
            IF n = 0 THEN <<>> ELSE IF q[n].key \in keys THEN Append(only[n - 1], q[n]) ELSE only[n - 1]
    IN  only
Only(q, keys) == OnlyUpTo(q, keys)[Len(q)]
Without(q, keys) == Only(q, ItemKey \ keys)

Present(k) == k \in KeysOf(lru)
EntryOf(k) == CHOOSE e \in Range(lru) : e.key = k
LiveItem(k) == Present(k) /\ EntryOf(k).fresh

UseKey(k) == [j \in ItemKey |-> IF j = k THEN {} ELSE usedSince[j] \cup {k}]

\* deleteInternal, for each key that is there.
DeleteInternal(keys) ==
    /\ lru' = Without(lru, keys)
    /\ currentMem' = currentMem - Memory(Only(lru, keys))

\* Wrong on purpose: a hit leaves the entry where it is.
MoveToFrontNot(k) == lru

MoveToFront(k) == <<EntryOf(k)>> \o Without(lru, {k})

\* An expired entry is removed and missed.
GetItem(k) ==
    /\ IF LiveItem(k)
       THEN lru' = MoveToFront(k) /\ UNCHANGED currentMem /\ usedSince' = UseKey(k)
       ELSE DeleteInternal({k}) /\ UNCHANGED usedSince
    /\ UNCHANGED stopped

\* Wrong on purpose: an entry too many is kept.
RoomForItemTight(n) == MaxItems > 0 => n <= MaxItems

\* One more entry fits beside n others.
RoomForItem(n) == MaxItems > 0 => n < MaxItems

RoomForMemory(mem, needed) == MaxMemory > 0 => mem + needed <= MaxMemory

\* evict: entries go from the back until both limits leave room, or none is left;
\* this is how many stay.
Kept(q, mem, needed) ==
    LET fits == {n \in 0..Len(q) :
                    /\ RoomForMemory(mem - Memory(SubSeq(q, n + 1, Len(q))), needed)
                    /\ RoomForItem(n)}
    IN  Max(fits \cup {0})

SetItem(k, size, number) ==
    LET others == Without(lru, {k})
        mem    == currentMem - Memory(Only(lru, {k}))
        n      == Kept(others, mem, size)
    IN  /\ lru' = <<[key |-> k, size |-> size, number |-> number, fresh |-> TRUE]>>
                      \o SubSeq(others, 1, n)
        /\ currentMem' = mem - Memory(SubSeq(others, n + 1, Len(others))) + size
        /\ usedSince' = UseKey(k)
        /\ UNCHANGED stopped

DeleteItem(k) == DeleteInternal({k}) /\ UNCHANGED <<stopped, usedSince>>

\* A pattern may match any of the keys.
DeletePattern(keys) == DeleteInternal(keys) /\ UNCHANGED <<stopped, usedSince>>

Cleanup ==
    /\ ~stopped   \* the loop ends with stopCh
    /\ DeleteInternal({k \in ItemKey : Present(k) /\ ~LiveItem(k)})
    /\ UNCHANGED <<stopped, usedSince>>

\* Wrong on purpose: the memory of the value that is replaced stays booked.
ReplacedKept(k, size) == 0

\* What Incr takes off currentMem for the entry it replaces.
Replaced(k, size) == IF Present(k) THEN EntryOf(k).size ELSE 0

\* Incr and Decr: neither calls evict; size is that of the new number.
IncrItem(k, size) ==
    /\ LiveItem(k) => EntryOf(k).number   \* else an error
    /\ lru' = <<[key |-> k, size |-> size, number |-> TRUE, fresh |-> TRUE]>> \o Without(lru, {k})
    /\ currentMem' = currentMem - Replaced(k, size) + size
    /\ usedSince' = UseKey(k)
    /\ UNCHANGED stopped

\* Clear, and Close, which also ends the cleanup loop.
ClearItems(close) ==
    /\ lru' = <<>> /\ currentMem' = 0
    /\ stopped' = (stopped \/ close)
    /\ UNCHANGED usedSince

\* An entry's time to live runs out.
ExpireItem(k) ==
    /\ LiveItem(k)
    /\ lru' = [n \in DOMAIN lru |-> IF lru[n].key = k THEN [lru[n] EXCEPT !.fresh = FALSE] ELSE lru[n]]
    /\ UNCHANGED <<currentMem, stopped, usedSince>>

MemoryNext ==
    \/ \E k \in ItemKey :
         \/ GetItem(k) \/ DeleteItem(k) \/ ExpireItem(k)
         \/ \E size \in ItemSize, number \in BOOLEAN : (number => size \in NumberSize) /\ SetItem(k, size, number)
         \/ \E size \in NumberSize : IncrItem(k, size)
    \/ \E keys \in SUBSET ItemKey : DeletePattern(keys)
    \/ Cleanup
    \/ \E close \in BOOLEAN : ClearItems(close)

MemorySpec == MemoryInit /\ [][MemoryNext]_memoryVars

-----------------------------------------------------------------------------
(* Properties *)

\* currentMem, which every operation adjusts on its own, is the memory the entries
\* take, and a key has one entry: eviction decides on a figure that is right.
Accounted ==
    /\ MemoryTypeOK
    /\ currentMem = Memory(lru)
    /\ \A i, j \in DOMAIN lru : lru[i].key = lru[j].key => i = j

\* The step is a Set of the entry e, which it leaves at the front.
SetStep(e) == lru'[1] = e /\ SetItem(e.key, e.size, e.number)

\* What a Set has pushed out had to go: least recently used entries only, and none that
\* both limits would have let stay beside the new value and the entries used after it.
EvictedRightly(e) ==
    \A old \in KeysOf(lru) \ ({e.key} \cup KeysOf(lru')) :
       LET newer == Only(lru, (usedSince[old] \cup {old}) \ {e.key})
       IN  /\ (KeysOf(lru') \ {e.key}) \subseteq usedSince[old]
           /\ \/ MaxMemory > 0 /\ Memory(newer) + e.size > MaxMemory
              \/ MaxItems > 0 /\ Len(newer) >= MaxItems

WithinLimits ==
    /\ MaxItems > 0 => Len(lru') <= MaxItems
    /\ MaxMemory > 0 => Memory(lru') <= MaxMemory \/ Len(lru') = 1

\* A Set evicts what it must and nothing else, and after it both limits hold, however
\* far Incr and Decr, which do not evict, had gone beyond them; only a value larger
\* than the whole memory, kept alone, breaks one.
SetStepExact == \A e \in Range(lru') : SetStep(e) => EvictedRightly(e) /\ WithinLimits
SetEvictsExactly == [][SetStepExact]_memoryVars
=============================================================================
