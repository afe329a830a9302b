---------------------------- MODULE SharedCache ----------------------------
(***************************************************************************)
(* internal/cache: RedisCache, and the HTTP middleware in front of the     *)
(* handlers that answer from the origin. Several processes share the       *)
(* cache. A reader (Middleware.Handler or GetOrSet) that misses asks the   *)
(* origin and stores the answer afterwards; a writer changes the origin    *)
(* and then invalidates one key (Delete) or a pattern (SCAN, then DEL).    *)
(* The Redis server is external; any call may fail. It is one server: the  *)
(* cluster client, whose SCAN goes to one node, is not modelled.           *)
(***************************************************************************)
EXTENDS Integers, Sequences, FiniteSets

CONSTANTS
    CacheReader,        \* goroutines that read through the cache
    CacheWriter,        \* goroutines that write the origin and invalidate
    CacheKey,           \* keys, all of them matching the pattern
    MaxVersion          \* bound: writes to a key's origin

SharedAssumption == CacheKey # {} /\ MaxVersion \in Nat \ {0}

VARIABLES
    origin,         \* origin[k]: version of the data behind k
    entry,          \* entry[k]: the version in Redis; 0 for none
    reading,        \* reading[r]: the read of r
    writing,        \* writing[w]: the write of w
    floor           \* floor[k]: oldest version that may still be cached

sharedVars == <<origin, entry, reading, writing, floor>>

NoRead == [pc |-> "idle", key |-> CHOOSE k \in CacheKey : TRUE, got |-> 0, ok |-> FALSE]
NoWrite == [pc |-> "idle", key |-> CHOOSE k \in CacheKey : TRUE, found |-> {}, left |-> {},
            at |-> [k \in CacheKey |-> 1], raced |-> {}]

SharedInit ==
    /\ origin = [k \in CacheKey |-> 1] /\ entry = [k \in CacheKey |-> 0] /\ floor = [k \in CacheKey |-> 1]
    /\ reading = [r \in CacheReader |-> NoRead] /\ writing = [w \in CacheWriter |-> NoWrite]

SharedTypeOK ==
    /\ origin \in [CacheKey -> 1..MaxVersion] /\ entry \in [CacheKey -> 0..MaxVersion] /\ floor \in [CacheKey -> 1..MaxVersion]
    /\ \A r \in CacheReader : reading[r].pc \in {"idle", "miss", "store"} /\ reading[r].key \in CacheKey
    /\ \A w \in CacheWriter : writing[w].pc \in {"idle", "delete", "scan", "del"} /\ writing[w].left \subseteq CacheKey

(***************************************************************************)
(* Reading: a hit is answered at once, a failed Get is a miss.             *)
(***************************************************************************)

\* RedisCache.Get answers an entry, a miss or an error.
Hit(k, fails) == entry[k] # 0 /\ ~fails
GetCached(r, k) ==
    /\ reading[r].pc = "idle"
    /\ \E fails \in BOOLEAN :
         reading' = IF Hit(k, fails) THEN reading
                    ELSE [reading EXCEPT ![r] = [NoRead EXCEPT !.pc = "miss", !.key = k]]
    /\ UNCHANGED <<origin, entry, writing, floor>>

\* next.ServeHTTP, or fn of GetOrSet: reads the origin, or fails
Compute(r) ==
    /\ reading[r].pc = "miss"
    /\ \E ok \in BOOLEAN :
         reading' = [reading EXCEPT ![r].pc = "store", ![r].ok = ok, ![r].got = origin[reading[r].key]]
    /\ UNCHANGED <<origin, entry, writing, floor>>

\* Only a good answer is stored; an error of Set is ignored.
\* Wrong on purpose: the page of an error is stored, as old as all data.
StoredAlways(q, old) == IF q.ok THEN q.got ELSE 1
Stored(q, old) == IF q.ok THEN q.got ELSE old
StoreAnswer(r) ==
    LET q == reading[r] IN
    /\ q.pc = "store"
    /\ \E fails \in BOOLEAN : entry' = IF fails THEN entry ELSE [entry EXCEPT ![q.key] = Stored(q, @)]
    /\ reading' = [reading EXCEPT ![r] = NoRead]
    /\ writing' = [w \in CacheWriter |-> IF q.got < writing[w].at[q.key]
                                          THEN [writing[w] EXCEPT !.raced = @ \cup {q.key}] ELSE writing[w]]
    /\ UNCHANGED <<origin, floor>>

\* The TTL runs out.
ExpireEntry(k) ==
    /\ entry[k] # 0 /\ entry' = [entry EXCEPT ![k] = 0]
    /\ UNCHANGED <<origin, reading, writing, floor>>

(***************************************************************************)
(* Writing                                                                 *)
(***************************************************************************)

WriteOrigin(w, k, pc) ==
    /\ writing[w].pc = "idle" /\ origin[k] < MaxVersion /\ pc \in {"delete", "scan"}
    /\ origin' = [origin EXCEPT ![k] = @ + 1]
    /\ writing' = [writing EXCEPT ![w] = [NoWrite EXCEPT !.pc = pc, !.key = k, !.left = CacheKey, !.at = origin']]
    /\ UNCHANGED <<entry, reading, floor>>

\* Writer w has invalidated the keys ks and Redis has lost those in gone:
\* unless a reader stored, or is about to store, what it had read before the
\* write, no version older than the write's can be there now.
Filling(k, v) == \E r \in CacheReader : reading[r].pc = "store" /\ reading[r].key = k /\ reading[r].got < v
Invalidated(w, ks, gone) ==
    /\ entry' = [k \in CacheKey |-> IF k \in gone THEN 0 ELSE entry[k]]
    /\ floor' = [k \in CacheKey |-> LET v == writing[w].at[k] IN
                   IF k \in ks /\ k \notin writing[w].raced /\ ~Filling(k, v) /\ v > floor[k] THEN v ELSE floor[k]]

DeleteEntry(w) ==
    /\ writing[w].pc = "delete"
    /\ Invalidated(w, {writing[w].key}, {writing[w].key}) \/ UNCHANGED <<entry, floor>>
    /\ writing' = [writing EXCEPT ![w] = NoWrite]
    /\ UNCHANGED <<origin, reading>>

\* DeletePattern: one page of SCAN. The cursor goes through all keys; the
\* loop ends when it is back at zero.
\* Wrong on purpose: one page is taken for the whole.
OnePage(left) == TRUE
LastPage(left) == left = {}
ScanPage(w) ==
    /\ writing[w].pc = "scan"
    /\ \E page \in SUBSET writing[w].left : LET rest == writing[w].left \ page IN
         /\ page # {}
         /\ writing' = [writing EXCEPT ![w].left = rest, ![w].found = @ \cup {k \in page : entry[k] # 0},
                                       ![w].pc = IF LastPage(rest) THEN "del" ELSE "scan"]
    /\ UNCHANGED <<origin, entry, reading, floor>>

\* A SCAN that fails ends DeletePattern; nothing is deleted.
ScanFails(w) ==
    /\ writing[w].pc = "scan" /\ writing' = [writing EXCEPT ![w] = NoWrite]
    /\ UNCHANGED <<origin, entry, reading, floor>>

\* DEL of all keys found, if there are any
DeleteFound(w) ==
    LET found == writing[w].found IN
    /\ writing[w].pc = "del"
    /\ Invalidated(w, CacheKey, found) \/ (found # {} /\ UNCHANGED <<entry, floor>>)
    /\ writing' = [writing EXCEPT ![w] = NoWrite]
    /\ UNCHANGED <<origin, reading>>

SharedNext ==
    \/ \E r \in CacheReader : (\E k \in CacheKey : GetCached(r, k)) \/ Compute(r) \/ StoreAnswer(r)
    \/ \E k \in CacheKey : ExpireEntry(k)
    \/ \E w \in CacheWriter : \/ \E k \in CacheKey : \E how \in {"delete", "scan"} : WriteOrigin(w, k, how)
                              \/ DeleteEntry(w) \/ ScanPage(w) \/ ScanFails(w) \/ DeleteFound(w)

SharedSpec == SharedInit /\ [][SharedNext]_sharedVars

EntriesFresh == \A k \in CacheKey : entry[k] # 0 => floor[k] <= entry[k] /\ entry[k] <= origin[k]

\* An entry older than a write that was invalidated comes back only from a
\* reader that had asked the origin before the write and stores after it:
\* once a key, or all keys of the pattern, were invalidated without such a
\* reader, only answers at least as new as the write are served; and an
\* entry is never newer than the origin.
InvalidationHolds == SharedTypeOK /\ EntriesFresh
=============================================================================
