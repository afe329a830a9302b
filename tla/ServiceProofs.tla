--------------------------- MODULE ServiceProofs ---------------------------
(***************************************************************************)
(* Proofs about the services the program stands on: the shared cache, the  *)
(* outgoing calls, the email log, the health checks, the JWKS cache, the   *)
(* permission checks with their policy, the in-memory cache, and the       *)
(* generated endpoints.                                                    *)
(* For each of them: its records typed, the inductive invariant as a       *)
(* conjunction of named parts, one lemma per action, and the theorem.      *)
(***************************************************************************)
EXTENDS SharedCache, OutgoingCall, EmailNotifications, HealthChecks, TokenKeys, AccessControl, MemoryCache,
        GeneratedEndpoint, SequenceTheorems, FiniteSetTheorems, WellFoundedInduction, TLAPS

(***************************************************************************)
(* The shared cache: readers, writers and Redis                            *)
(***************************************************************************)

Read == [pc : {"idle", "miss", "store"}, key : CacheKey, got : 0..MaxVersion, ok : BOOLEAN]
Write ==
    [pc : {"idle", "delete", "scan", "del"}, key : CacheKey, found : SUBSET CacheKey, left : SUBSET CacheKey,
     at : [CacheKey -> 1..MaxVersion], raced : SUBSET CacheKey]

SharedType ==
    /\ origin \in [CacheKey -> 1..MaxVersion] /\ entry \in [CacheKey -> 0..MaxVersion] /\ floor \in [CacheKey -> 1..MaxVersion]
    /\ reading \in [CacheReader -> Read] /\ writing \in [CacheWriter -> Write]

\* No floor is above the origin, and what a reader is about to store is between them.
ReadsBetween ==
    /\ \A k \in CacheKey : floor[k] <= origin[k]
    /\ \A r \in CacheReader : reading[r].pc = "store" =>
          floor[reading[r].key] <= reading[r].got /\ reading[r].got <= origin[reading[r].key]

\* A writer knows the keys its scan has passed: found, or without an entry then; what is
\* there now is no older than its write, unless a reader raced with it.
ScanSound(x) ==
    /\ \A k \in CacheKey : x.at[k] <= origin[k]
    /\ x.pc = "del" => x.left = {}
    /\ x.pc \in {"scan", "del"} =>
          \A k \in CacheKey \ x.left : k \in x.found \cup x.raced \/ entry[k] = 0 \/ entry[k] >= x.at[k]

SharedInv == SharedType /\ EntriesFresh /\ ReadsBetween /\ \A w \in CacheWriter : ScanSound(writing[w])

\* Readers and writers at rest are typed.
LEMMA RestTyped == ASSUME SharedAssumption PROVE NoRead \in Read /\ NoWrite \in Write
<1>1. (CHOOSE k \in CacheKey : TRUE) \in CacheKey
  BY DEF SharedAssumption
<1>2. NoRead \in Read
  BY <1>1 DEF NoRead, Read, SharedAssumption
<1>3. [k \in CacheKey |-> 1] \in [CacheKey -> 1..MaxVersion]
  BY DEF SharedAssumption
<1>4. NoWrite \in Write
  BY <1>1, <1>3 DEF NoWrite, Write
<1> QED
  BY <1>2, <1>4

\* The typing of the records gives that of the run.
LEMMA SharedTyped == ASSUME SharedType PROVE SharedTypeOK
  BY DEF SharedType, SharedTypeOK, Read, Write

\* The cache starts empty.
LEMMA SharedInitInv == ASSUME SharedAssumption, SharedInit PROVE SharedInv
<1>1. SharedType
  BY RestTyped DEF SharedAssumption, SharedInit, SharedType
<1>2. EntriesFresh
  BY DEF SharedInit, EntriesFresh
<1>3. ReadsBetween
  BY DEF SharedInit, ReadsBetween, NoRead
<1>4. ASSUME NEW w \in CacheWriter PROVE ScanSound(writing[w])
  BY DEF SharedInit, ScanSound, NoWrite
<1> QED
  BY <1>1, <1>2, <1>3, <1>4 DEF SharedInv

\* A writer at rest has scanned nothing.
LEMMA RestSound == ASSUME SharedInv PROVE ScanSound(NoWrite) /\ NoWrite.pc = "idle"
<1>1. NoWrite.pc = "idle" /\ \A k \in CacheKey : NoWrite.at[k] = 1
  BY DEF NoWrite
<1>2. \A k \in CacheKey : origin[k] >= 1
  BY DEF SharedInv, SharedType
<1> QED
  BY <1>1, <1>2 DEF ScanSound

\* A reader misses, or asks the origin.
LEMMA ReadKeeps ==
  ASSUME SharedAssumption, SharedInv, NEW r \in CacheReader, Compute(r) \/ \E k \in CacheKey : GetCached(r, k)
  PROVE  SharedInv'
<1>1. UNCHANGED <<origin, entry, writing, floor>>
  BY DEF Compute, GetCached
<1>2. PICK x \in Read : /\ reading' = [reading EXCEPT ![r] = x] \/ reading' = reading
                        /\ x.pc = "store" => floor[x.key] <= x.got /\ x.got <= origin[x.key]
  <2>1. ASSUME NEW k \in CacheKey, GetCached(r, k)
        PROVE  \E x \in Read : /\ reading' = [reading EXCEPT ![r] = x] \/ reading' = reading
                               /\ x.pc = "store" => floor[x.key] <= x.got /\ x.got <= origin[x.key]
    <3>1. [NoRead EXCEPT !.pc = "miss", !.key = k] \in Read /\ [NoRead EXCEPT !.pc = "miss", !.key = k].pc = "miss"
      BY RestTyped DEF Read
    <3> QED
      BY <2>1, <3>1 DEF GetCached
  <2>2. ASSUME NEW ok \in BOOLEAN, reading[r].pc = "miss",
               reading' = [reading EXCEPT ![r].pc = "store", ![r].ok = ok, ![r].got = origin[reading[r].key]]
        PROVE  \E x \in Read : /\ reading' = [reading EXCEPT ![r] = x] \/ reading' = reading
                               /\ x.pc = "store" => floor[x.key] <= x.got /\ x.got <= origin[x.key]
    <3> DEFINE x == [reading[r] EXCEPT !.pc = "store", !.ok = ok, !.got = origin[reading[r].key]]
    <3>1. reading[r] \in Read /\ reading' = [reading EXCEPT ![r] = x]
      BY <2>2 DEF SharedInv, SharedType
    <3>2. origin[reading[r].key] \in 1..MaxVersion
      BY <3>1 DEF SharedInv, SharedType, Read
    <3>3. x \in Read /\ x.key = reading[r].key /\ x.got = origin[x.key]
      <4>1. origin[reading[r].key] \in 0..MaxVersion
        BY <3>2
      <4> QED
        BY <3>1, <4>1 DEF Read
    <3>4. floor[x.key] <= origin[x.key] /\ origin[x.key] <= origin[x.key]
      BY <3>1, <3>2, <3>3 DEF SharedInv, ReadsBetween, Read
    <3> HIDE DEF x
    <3> QED
      BY <3>1, <3>3, <3>4
  <2> QED
    BY <2>1, <2>2 DEF Compute
<1>3. reading' \in [CacheReader -> Read] /\ \A q \in CacheReader : reading'[q] = reading[q] \/ reading'[q] = x
  BY <1>2 DEF SharedInv, SharedType
<1>4. ReadsBetween'
  BY <1>1, <1>2, <1>3 DEF SharedInv, ReadsBetween
<1> QED
  BY <1>1, <1>3, <1>4 DEF SharedInv, SharedType, EntriesFresh, ScanSound

\* A reader stores what it got, late perhaps; the writers it raced with know.
LEMMA StoreKeeps == ASSUME SharedAssumption, SharedInv, NEW r \in CacheReader, StoreAnswer(r) PROVE SharedInv'
<1> DEFINE q == reading[r]
           race(x) == IF q.got < x.at[q.key] THEN [x EXCEPT !.raced = @ \cup {q.key}] ELSE x
<1>1. /\ q.pc = "store" /\ UNCHANGED <<origin, floor>> /\ reading' = [reading EXCEPT ![r] = NoRead]
      /\ writing' = [w \in CacheWriter |-> race(writing[w])]
      /\ entry' = entry \/ entry' = [entry EXCEPT ![q.key] = q.got]
  BY DEF StoreAnswer, Stored, SharedInv, SharedType
<1>2. q \in Read /\ q.key \in CacheKey /\ q.got \in 0..MaxVersion /\ floor[q.key] <= q.got /\ q.got <= origin[q.key]
  BY <1>1 DEF SharedInv, SharedType, ReadsBetween, Read
<1>3. ASSUME NEW w \in CacheWriter
      PROVE  /\ race(writing[w]) \in Write /\ writing'[w] = race(writing[w])
             /\ race(writing[w]).at = writing[w].at /\ race(writing[w]).pc = writing[w].pc
             /\ race(writing[w]).left = writing[w].left /\ race(writing[w]).found = writing[w].found
             /\ writing[w].raced \subseteq race(writing[w]).raced
             /\ q.got < writing[w].at[q.key] => q.key \in race(writing[w]).raced
  <2>1. writing[w] \in Write
    BY DEF SharedInv, SharedType
  <2> QED
    BY <1>1, <1>2, <2>1 DEF Write
<1> HIDE DEF race
<1>4. SharedType'
  <2>1. writing' \in [CacheWriter -> Write]
    BY <1>1, <1>3
  <2>2. reading' \in [CacheReader -> Read]
    BY <1>1, RestTyped DEF SharedInv, SharedType
  <2>3. entry' \in [CacheKey -> 0..MaxVersion]
    BY <1>1, <1>2 DEF SharedInv, SharedType
  <2> QED
    BY <1>1, <2>1, <2>2, <2>3 DEF SharedInv, SharedType
<1>5. /\ \A k \in CacheKey : entry'[k] = entry[k] \/ (k = q.key /\ entry'[k] = q.got)
  BY <1>1, <1>2 DEF SharedInv, SharedType
<1>6. EntriesFresh'
  BY <1>1, <1>2, <1>5 DEF SharedInv, EntriesFresh
<1>7. ReadsBetween'
  <2>1. NoRead.pc = "idle"
    BY DEF NoRead
  <2> QED
    BY <1>1, <2>1 DEF SharedInv, SharedType, ReadsBetween
<1>8. ASSUME NEW w \in CacheWriter PROVE ScanSound(writing[w])'
  <2>1. /\ writing'[w].at = writing[w].at /\ writing'[w].pc = writing[w].pc /\ writing'[w].left = writing[w].left
        /\ writing'[w].found = writing[w].found /\ writing[w].raced \subseteq writing'[w].raced
        /\ q.got < writing[w].at[q.key] => q.key \in writing'[w].raced
    BY <1>3
  <2>2. ScanSound(writing[w])
    BY DEF SharedInv
  <2>3. \A k \in CacheKey : writing[w].at[k] \in Nat
    BY DEF SharedInv, SharedType, Write
  <2> HIDE DEF q
  <2>4. ASSUME NEW k \in CacheKey \ writing[w].left, writing[w].pc \in {"scan", "del"}
        PROVE  k \in writing'[w].found \cup writing'[w].raced \/ entry'[k] = 0 \/ entry'[k] >= writing'[w].at[k]
    <3>1. writing'[w].at[k] = writing[w].at[k] /\ writing[w].at[k] \in Nat
      BY <2>1, <2>3
    <3>2. CASE entry'[k] = entry[k]
      BY <2>1, <2>2, <2>4, <3>1, <3>2 DEF ScanSound
    <3>3. CASE k = q.key /\ entry'[k] = q.got
      BY <1>2, <2>1, <3>1, <3>3
    <3> QED
      BY <1>5, <3>2, <3>3
  <2> QED
    BY <1>1, <2>1, <2>2, <2>4 DEF ScanSound
<1> QED
  BY <1>4, <1>6, <1>7, <1>8 DEF SharedInv

\* An entry expires.
LEMMA ExpireKeeps == ASSUME SharedAssumption, SharedInv, NEW k \in CacheKey, ExpireEntry(k) PROVE SharedInv'
<1>1. UNCHANGED <<origin, reading, writing, floor>> /\ entry' = [entry EXCEPT ![k] = 0]
  BY DEF ExpireEntry
<1>2. entry' \in [CacheKey -> 0..MaxVersion] /\ \A j \in CacheKey : entry'[j] = entry[j] \/ entry'[j] = 0
  BY <1>1 DEF SharedInv, SharedType, SharedAssumption
<1>3. ASSUME NEW w \in CacheWriter PROVE ScanSound(writing[w])'
  BY <1>1, <1>2 DEF SharedInv, ScanSound
<1> QED
  BY <1>1, <1>2, <1>3 DEF SharedInv, SharedType, EntriesFresh, ReadsBetween

\* A writer changes the origin and begins to invalidate.
LEMMA WriteKeeps ==
  ASSUME SharedAssumption, SharedInv, NEW w \in CacheWriter, NEW k \in CacheKey, NEW pc \in {"delete", "scan"},
         WriteOrigin(w, k, pc)
  PROVE  SharedInv'
<1> DEFINE x == [NoWrite EXCEPT !.pc = pc, !.key = k, !.left = CacheKey, !.at = origin']
<1>1. /\ origin[k] < MaxVersion /\ origin' = [origin EXCEPT ![k] = @ + 1] /\ UNCHANGED <<entry, reading, floor>>
      /\ writing' = [writing EXCEPT ![w] = x]
  BY DEF WriteOrigin
<1>2. origin' \in [CacheKey -> 1..MaxVersion] /\ \A j \in CacheKey : origin[j] <= origin'[j]
  BY <1>1 DEF SharedInv, SharedType, SharedAssumption
<1>3. x \in Write /\ x.pc = pc /\ x.left = CacheKey /\ x.at = origin'
  BY <1>2, RestTyped DEF Write
<1> HIDE DEF x
<1>4. SharedType'
  BY <1>1, <1>2, <1>3 DEF SharedInv, SharedType
<1>5. ASSUME NEW v \in CacheWriter PROVE ScanSound(writing[v])'
  <2>1. CASE v = w
    <3>1. writing'[v] = x
      BY <1>1, <2>1 DEF SharedInv, SharedType
    <3>2. \A j \in CacheKey : origin'[j] <= origin'[j]
      BY <1>2
    <3> QED
      BY <1>3, <3>1, <3>2 DEF ScanSound
  <2>2. CASE v # w
    <3>1. writing'[v] = writing[v] /\ ScanSound(writing[v]) /\ writing[v].at \in [CacheKey -> 1..MaxVersion]
      BY <1>1, <2>2 DEF SharedInv, SharedType, Write
    <3>2. \A j \in CacheKey : writing[v].at[j] <= origin'[j]
      BY <1>2, <3>1 DEF ScanSound, SharedInv, SharedType, SharedAssumption
    <3> QED
      BY <1>1, <3>1, <3>2 DEF ScanSound
  <2> QED
    BY <2>1, <2>2
<1>6. EntriesFresh' /\ ReadsBetween'
  <2>1. \A j \in CacheKey : origin[j] \in Nat /\ origin'[j] \in Nat /\ floor[j] \in Nat /\ entry[j] \in Nat
    BY <1>2, SharedAssumption DEF SharedInv, SharedType, SharedAssumption
  <2>2. \A r \in CacheReader : reading[r].key \in CacheKey /\ reading[r].got \in Nat
    BY SharedAssumption DEF SharedInv, SharedType, Read, SharedAssumption
  <2> QED
    BY <1>1, <1>2, <2>1, <2>2 DEF SharedInv, EntriesFresh, ReadsBetween
<1> QED
  BY <1>4, <1>5, <1>6 DEF SharedInv

\* A writer ends, or goes on scanning; the cache keeps its entries.
LEMMA ScanKeeps ==
  ASSUME SharedAssumption, SharedInv, NEW w \in CacheWriter, ScanPage(w) \/ ScanFails(w)
  PROVE  SharedInv'
<1>1. UNCHANGED <<origin, entry, reading, floor>>
  BY DEF ScanPage, ScanFails
<1>2. PICK x \in Write : writing' = [writing EXCEPT ![w] = x] /\ ScanSound(x)
  <2>1. CASE ScanFails(w)
    BY <2>1, RestTyped, RestSound DEF ScanFails
  <2>2. ASSUME NEW page \in SUBSET writing[w].left, writing[w].pc = "scan",
               writing' = [writing EXCEPT ![w].left = writing[w].left \ page,
                                          ![w].found = @ \cup {k \in page : entry[k] # 0},
                                          ![w].pc = IF LastPage(writing[w].left \ page) THEN "del" ELSE "scan"]
        PROVE  \E x \in Write : writing' = [writing EXCEPT ![w] = x] /\ ScanSound(x)
    <3> DEFINE z == writing[w]
               x == [z EXCEPT !.left = z.left \ page, !.found = @ \cup {k \in page : entry[k] # 0},
                              !.pc = IF LastPage(z.left \ page) THEN "del" ELSE "scan"]
    <3>1. z \in Write /\ writing' = [writing EXCEPT ![w] = x] /\ ScanSound(z)
      BY <2>2 DEF SharedInv, SharedType
    <3>2. /\ x \in Write /\ x.left = z.left \ page /\ x.found = z.found \cup {k \in page : entry[k] # 0}
          /\ x.at = z.at /\ x.raced = z.raced /\ (x.pc = "del" => x.left = {})
      BY <2>2, <3>1 DEF Write, LastPage
    <3> HIDE DEF x
    <3>3. ScanSound(x)
      BY <2>2, <3>1, <3>2 DEF ScanSound
    <3> QED
      BY <3>1, <3>2, <3>3
  <2> QED
    BY <2>1, <2>2 DEF ScanPage
<1>3. writing' \in [CacheWriter -> Write] /\ \A v \in CacheWriter : writing'[v] = writing[v] \/ writing'[v] = x
  BY <1>2 DEF SharedInv, SharedType
<1>4. ASSUME NEW v \in CacheWriter PROVE ScanSound(writing[v])'
  BY <1>1, <1>2, <1>3 DEF SharedInv, ScanSound
<1> QED
  BY <1>1, <1>3, <1>4 DEF SharedInv, SharedType, EntriesFresh, ReadsBetween

\* The floor rises to the write's version only where no older version is, or will be stored.
LEMMA InvalidatedKeeps ==
  ASSUME SharedAssumption, SharedInv, NEW w \in CacheWriter, NEW ks, NEW gone, Invalidated(w, ks, gone),
         UNCHANGED <<origin, reading>>, writing' = [writing EXCEPT ![w] = NoWrite],
         \A k \in CacheKey \cap ks : k \in gone \cup writing[w].raced \/ entry[k] = 0 \/ entry[k] >= writing[w].at[k]
  PROVE  SharedInv'
<1>1. \A k \in CacheKey : entry'[k] = entry[k] \/ entry'[k] = 0
  BY DEF Invalidated
<1>2. ASSUME NEW k \in CacheKey
      PROVE  /\ origin[k] \in 1..MaxVersion /\ entry[k] \in 0..MaxVersion /\ floor[k] \in 1..MaxVersion
             /\ writing[w].at[k] \in 1..MaxVersion /\ writing[w].at[k] <= origin[k] /\ floor[k] <= origin[k]
  BY DEF SharedInv, SharedType, Write, ScanSound, ReadsBetween
<1>3. ASSUME NEW k \in CacheKey
      PROVE  \/ floor'[k] = floor[k]
             \/ /\ k \in ks /\ k \notin writing[w].raced /\ ~Filling(k, writing[w].at[k])
                /\ floor'[k] = writing[w].at[k]
  BY DEF Invalidated
<1>4. SharedType'
  <2>1. entry' \in [CacheKey -> 0..MaxVersion]
    BY <1>2 DEF Invalidated, SharedAssumption
  <2>2. floor' \in [CacheKey -> 1..MaxVersion]
    BY <1>2 DEF Invalidated
  <2>3. writing' \in [CacheWriter -> Write]
    BY RestTyped DEF SharedInv, SharedType
  <2> QED
    BY <2>1, <2>2, <2>3 DEF SharedInv, SharedType
<1>5. ASSUME NEW k \in CacheKey, entry'[k] # 0 PROVE floor'[k] <= entry'[k] /\ entry'[k] <= origin'[k]
  <2>1. entry'[k] = entry[k] /\ k \notin gone
    BY <1>1, <1>5 DEF Invalidated
  <2>2. floor[k] <= entry[k] /\ entry[k] <= origin[k]
    BY <1>5, <2>1 DEF SharedInv, EntriesFresh
  <2>3. CASE k \in ks /\ k \notin writing[w].raced /\ floor'[k] = writing[w].at[k]
    BY <1>2, <1>5, <2>1, <2>2, <2>3
  <2> QED
    BY <1>3, <2>1, <2>2, <2>3
<1>6. ReadsBetween'
  <2>1. ASSUME NEW k \in CacheKey PROVE floor'[k] <= origin'[k]
    BY <1>2, <1>3
  <2>2. ASSUME NEW r \in CacheReader, reading[r].pc = "store"
        PROVE  floor'[reading[r].key] <= reading[r].got /\ reading[r].got <= origin[reading[r].key]
    <3>1. reading[r].key \in CacheKey /\ reading[r].got \in 0..MaxVersion
      BY DEF SharedInv, SharedType, Read
    <3>2. floor[reading[r].key] <= reading[r].got /\ reading[r].got <= origin[reading[r].key]
      BY <2>2 DEF SharedInv, ReadsBetween
    <3>3. CASE ~Filling(reading[r].key, writing[w].at[reading[r].key])
      <4>1. ~(reading[r].got < writing[w].at[reading[r].key])
        BY <2>2, <3>3 DEF Filling
      <4> QED
        BY <1>2, <1>3, <3>1, <3>2, <4>1
    <3>4. CASE Filling(reading[r].key, writing[w].at[reading[r].key])
      BY <1>3, <3>1, <3>2, <3>4
    <3> QED
      BY <3>3, <3>4
  <2> QED
    BY <2>1, <2>2 DEF ReadsBetween
<1>7. ASSUME NEW v \in CacheWriter PROVE ScanSound(writing[v])'
  <2>1. writing'[v] = writing[v] \/ writing'[v] = NoWrite
    BY DEF SharedInv, SharedType
  <2>2. ScanSound(writing[v]) /\ ScanSound(NoWrite) /\ NoWrite.pc = "idle"
    BY RestSound DEF SharedInv
  <2> QED
    BY <1>1, <2>1, <2>2 DEF ScanSound
<1>8. EntriesFresh'
  BY <1>5 DEF EntriesFresh
<1> QED
  BY <1>4, <1>6, <1>7, <1>8 DEF SharedInv

\* A writer ends without Redis having heard of it.
LEMMA WriterEnds ==
  ASSUME SharedAssumption, SharedInv, NEW w \in CacheWriter, UNCHANGED <<origin, entry, reading, floor>>,
         writing' = [writing EXCEPT ![w] = NoWrite]
  PROVE  SharedInv'
<1>1. writing' \in [CacheWriter -> Write] /\ \A v \in CacheWriter : writing'[v] = writing[v] \/ writing'[v] = NoWrite
  BY RestTyped DEF SharedInv, SharedType
<1>2. ASSUME NEW v \in CacheWriter PROVE ScanSound(writing[v])'
  BY <1>1, RestSound DEF SharedInv, ScanSound
<1> QED
  BY <1>1, <1>2 DEF SharedInv, SharedType, EntriesFresh, ReadsBetween

\* One key is deleted.
LEMMA DeleteKeeps == ASSUME SharedAssumption, SharedInv, NEW w \in CacheWriter, DeleteEntry(w) PROVE SharedInv'
<1>1. UNCHANGED <<origin, reading>> /\ writing' = [writing EXCEPT ![w] = NoWrite]
  BY DEF DeleteEntry
<1>2. CASE Invalidated(w, {writing[w].key}, {writing[w].key})
  BY <1>1, <1>2, InvalidatedKeeps
<1>3. CASE UNCHANGED <<entry, floor>>
  BY <1>1, <1>3, WriterEnds
<1> QED
  BY <1>2, <1>3 DEF DeleteEntry

\* All keys that the scan found are deleted.
LEMMA DeleteFoundKeeps == ASSUME SharedAssumption, SharedInv, NEW w \in CacheWriter, DeleteFound(w) PROVE SharedInv'
<1>1. UNCHANGED <<origin, reading>> /\ writing' = [writing EXCEPT ![w] = NoWrite] /\ writing[w].pc = "del"
  BY DEF DeleteFound
<1>2. CASE Invalidated(w, CacheKey, writing[w].found)
  <2>1. \A k \in CacheKey : k \in writing[w].found \cup writing[w].raced \/ entry[k] = 0 \/ entry[k] >= writing[w].at[k]
    BY <1>1 DEF SharedInv, ScanSound
  <2> QED
    BY <1>1, <1>2, <2>1, InvalidatedKeeps
<1>3. CASE UNCHANGED <<entry, floor>>
  BY <1>1, <1>3, WriterEnds
<1> QED
  BY <1>2, <1>3 DEF DeleteFound

\* Every step of readers and writers keeps the invariant.
LEMMA SharedStep == ASSUME SharedAssumption, SharedInv, [SharedNext]_sharedVars PROVE SharedInv'
<1>1. CASE UNCHANGED sharedVars
  BY <1>1 DEF sharedVars, SharedInv, SharedType, EntriesFresh, ReadsBetween, ScanSound
<1>2. ASSUME NEW r \in CacheReader, (\E k \in CacheKey : GetCached(r, k)) \/ Compute(r) PROVE SharedInv'
  BY <1>2, ReadKeeps
<1>3. ASSUME NEW r \in CacheReader, StoreAnswer(r) PROVE SharedInv'
  BY <1>3, StoreKeeps
<1>4. ASSUME NEW k \in CacheKey, ExpireEntry(k) PROVE SharedInv'
  BY <1>4, ExpireKeeps
<1>5. ASSUME NEW w \in CacheWriter, NEW k \in CacheKey, NEW pc \in {"delete", "scan"}, WriteOrigin(w, k, pc)
      PROVE  SharedInv'
  BY <1>5, WriteKeeps
<1>6. ASSUME NEW w \in CacheWriter, DeleteEntry(w) PROVE SharedInv'
  BY <1>6, DeleteKeeps
<1>7. ASSUME NEW w \in CacheWriter, ScanPage(w) \/ ScanFails(w) PROVE SharedInv'
  BY <1>7, ScanKeeps
<1>8. ASSUME NEW w \in CacheWriter, DeleteFound(w) PROVE SharedInv'
  BY <1>8, DeleteFoundKeeps
<1> QED
  BY <1>1, <1>2, <1>3, <1>4, <1>5, <1>6, <1>7, <1>8 DEF SharedNext

\* RedisCache and its middleware: whatever readers, writers and expiry do, and whichever calls
\* fail, an invalidated version comes back only through a reader that had asked the origin before.
THEOREM CacheInvalidationHolds == ASSUME SharedAssumption PROVE SharedSpec => []InvalidationHolds
<1>1. SharedInit => SharedInv
  BY SharedInitInv
<1>2. SharedInv /\ [SharedNext]_sharedVars => SharedInv'
  BY SharedStep
<1>3. SharedInv => InvalidationHolds
  BY SharedTyped DEF SharedInv, InvalidationHolds
<1> QED
  BY <1>1, <1>2, <1>3, PTL DEF SharedSpec

(***************************************************************************)
(* Outgoing calls: an attempt is repeated upon its answer                  *)
(***************************************************************************)

CallRecord ==
    [at : {"ready", "send", "wait", "backoff", "record", "returned"}, client : Client, retry : BOOLEAN,
     circuit : BOOLEAN, attempt : 0..MaxCallAttempts, expired : BOOLEAN, canceled : BOOLEAN, result : CallResult]
CallsTyped ==
    /\ call \in [ApiCaller -> CallRecord]
    /\ flying \subseteq ApiCaller \X Attempt /\ performed \subseteq ApiCaller \X Attempt
    /\ arrived \subseteq ApiCaller \X Attempt \X CallResult

\* Only the last attempt can be under way, and none is while another may follow; what came
\* back is of an attempt that is over; a success was carried out.
CallSound(c) ==
    /\ \A k \in Attempt : <<c, k>> \in flying => k = call[c].attempt /\ call[c].at \in {"wait", "record", "returned"}
    /\ \A k \in Attempt, r \in CallResult : <<c, k, r>> \in arrived =>
          k <= call[c].attempt /\ <<c, k>> \notin flying /\ (r = "ok" => <<c, k>> \in performed)
    /\ call[c].at \in {"record", "returned"} /\ call[c].result = "ok" => <<c, call[c].attempt>> \in performed
    /\ call[c].at \in {"send", "backoff"} => call[c].attempt < MaxCallAttempts
    /\ call[c].at = "wait" => call[c].attempt >= 1
    /\ call[c].at = "ready" => call[c].attempt = 0

\* An attempt has one answer; those that were or will be repeated had one that invites to it.
WasAnswered(c, k) == k < call[c].attempt \/ (k = call[c].attempt /\ call[c].at \in {"send", "backoff"})
AnswersSound(c) ==
    /\ \A k \in Attempt, r, t \in CallResult : <<c, k, r>> \in arrived /\ <<c, k, t>> \in arrived => r = t
    /\ \A k \in Attempt : WasAnswered(c, k) => \E r \in Repeatable : <<c, k, r>> \in arrived

OpenCalls == {c \in ApiCaller : call[c].circuit /\ call[c].at \notin {"ready", "returned"}}
CallInv == CallsTyped /\ (\A c \in ApiCaller : CallSound(c) /\ AnswersSound(c)) /\ ledger = Cardinality(OpenCalls)

\* The calls without a recorded result are finitely many.
LEMMA OpenFinite == ASSUME CallAssumption PROVE IsFiniteSet(OpenCalls) /\ Cardinality(OpenCalls) \in 0..Cardinality(ApiCaller)
<1>1. IsFiniteSet(ApiCaller) /\ OpenCalls \subseteq ApiCaller
  BY DEF CallAssumption, OpenCalls
<1>2. IsFiniteSet(OpenCalls) /\ Cardinality(OpenCalls) <= Cardinality(ApiCaller)
  BY <1>1, FS_Subset
<1> QED
  BY <1>1, <1>2, FS_CardinalityType

\* What the property says follows.
LEMMA CallInvImplies == ASSUME CallAssumption, CallInv PROVE RepeatsFollowAnswers
<1>1. CallTypeOK
  BY OpenFinite DEF CallInv, CallsTyped, CallTypeOK, CallRecord
<1>2. ASSUME NEW c \in ApiCaller PROVE Cardinality({k \in Attempt : <<c, k>> \in flying}) <= 1
  <2> DEFINE S == {k \in Attempt : <<c, k>> \in flying}
             n == call[c].attempt
  <2>1. S \subseteq {n}
    BY DEF CallInv, CallSound
  <2>2. IsFiniteSet({n}) /\ Cardinality({n}) = 1
    BY FS_Singleton
  <2> HIDE DEF S, n
  <2>3. IsFiniteSet(S) /\ Cardinality(S) <= Cardinality({n})
    BY <2>1, <2>2, FS_Subset
  <2> QED
    BY <2>2, <2>3 DEF S
<1>3. \A c \in ApiCaller : call[c].at = "returned" /\ call[c].result = "ok" => <<c, call[c].attempt>> \in performed
  BY DEF CallInv, CallSound
<1>4. ASSUME NEW c \in ApiCaller, NEW k \in Attempt, k < call[c].attempt
      PROVE  /\ \E r \in Repeatable : <<c, k, r>> \in arrived
             /\ \A r \in CallResult : <<c, k, r>> \in arrived => r \in Repeatable
  <2>1. AnswersSound(c)
    BY DEF CallInv
  <2>2. PICK t \in Repeatable : <<c, k, t>> \in arrived
    BY <1>4, <2>1 DEF AnswersSound, WasAnswered
  <2>3. t \in CallResult
    BY DEF Repeatable, CallResult
  <2> QED
    BY <2>1, <2>2, <2>3 DEF AnswersSound
<1> QED
  BY <1>1, <1>2, <1>3, <1>4 DEF RepeatsFollowAnswers, CallInv, OpenCalls

\* Nobody has called yet.
LEMMA CallInitInv == ASSUME CallAssumption, CallInit PROVE CallInv
<1>1. Ready \in CallRecord /\ Ready.at = "ready" /\ Ready.attempt = 0
  BY DEF Ready, CallRecord, Client, CallResult, CallAssumption
<1>2. CallsTyped
  BY <1>1 DEF CallInit, CallsTyped
<1>3. ASSUME NEW c \in ApiCaller PROVE CallSound(c)
  BY <1>1 DEF CallInit, CallSound
<1>5. ASSUME NEW c \in ApiCaller PROVE AnswersSound(c)
  BY <1>1 DEF CallInit, AnswersSound, WasAnswered, Attempt
<1>4. OpenCalls = {} /\ Cardinality({}) = 0
  BY <1>1, FS_EmptySet DEF OpenCalls, CallInit
<1> QED
  BY <1>2, <1>3, <1>4, <1>5 DEF CallInv, CallInit

\* A step of one caller: it is enough to look at that caller and at the ledger.
LEMMA CallerKeeps ==
  ASSUME CallInv, NEW c \in ApiCaller, NEW x \in CallRecord, call' = [call EXCEPT ![c] = x],
         flying' \subseteq ApiCaller \X Attempt, performed' \subseteq ApiCaller \X Attempt, performed \subseteq performed',
         arrived' \subseteq ApiCaller \X Attempt \X CallResult,
         \A d \in ApiCaller \ {c}, k \in Attempt : <<d, k>> \in flying' => <<d, k>> \in flying,
         \A d \in ApiCaller \ {c}, k \in Attempt, r \in CallResult : <<d, k, r>> \in arrived' <=> <<d, k, r>> \in arrived,
         CallSound(c)', AnswersSound(c)', ledger' = Cardinality(OpenCalls)'
  PROVE  CallInv'
<1>1. CallsTyped'
  BY DEF CallInv, CallsTyped
<1>2. ASSUME NEW d \in ApiCaller, d # c PROVE CallSound(d)' /\ AnswersSound(d)'
  <2>1. call'[d] = call[d] /\ CallSound(d) /\ AnswersSound(d)
    BY <1>2 DEF CallInv, CallsTyped
  <2>2. CallSound(d)'
    BY <1>2, <2>1 DEF CallSound
  <2>3. Repeatable \subseteq CallResult
    BY DEF Repeatable, CallResult
  <2>4. AnswersSound(d)'
    BY <1>2, <2>1, <2>3 DEF AnswersSound, WasAnswered
  <2> QED
    BY <2>2, <2>4
<1> QED
  BY <1>1, <1>2 DEF CallInv

\* The ledger when the caller stays inside, or outside, the breaker.
LEMMA LedgerKept ==
  ASSUME CallInv, NEW c \in ApiCaller, NEW x \in CallRecord, call' = [call EXCEPT ![c] = x],
         x.circuit = call[c].circuit, x.at \in {"ready", "returned"} <=> call[c].at \in {"ready", "returned"},
         ledger' = ledger
  PROVE  ledger' = Cardinality(OpenCalls)'
<1>1. OpenCalls' = OpenCalls
  BY DEF OpenCalls, CallInv, CallsTyped
<1> QED
  BY <1>1 DEF CallInv

\* A call begins, or the breaker refuses it.
LEMMA BeginKeeps ==
  ASSUME CallAssumption, CallInv, NEW c \in ApiCaller, NEW client \in Client, NEW retry \in BOOLEAN,
         NEW circuit \in BOOLEAN, NEW allowed \in BOOLEAN, BeginCall(c, client, retry, circuit, allowed)
  PROVE  CallInv'
<1> DEFINE x == [Ready EXCEPT !.client = client, !.retry = retry, !.circuit = circuit,
                              !.at = IF allowed THEN "send" ELSE "returned",
                              !.result = IF allowed THEN "ok" ELSE "circuit open"]
<1>1. /\ call[c].at = "ready" /\ call' = [call EXCEPT ![c] = x]
      /\ ledger' = ledger + (IF circuit /\ allowed THEN 1 ELSE 0) /\ UNCHANGED <<flying, performed, arrived>>
  BY DEF BeginCall
<1>2. /\ x \in CallRecord /\ x.circuit = circuit /\ x.attempt = 0
      /\ IF allowed THEN x.at = "send" ELSE x.at = "returned" /\ x.result = "circuit open"
  <2>1. Ready \in CallRecord /\ Ready.attempt = 0
    BY DEF Ready, CallRecord, Client, CallResult, CallAssumption
  <2>2. (IF allowed THEN "ok" ELSE "circuit open") \in CallResult
    BY DEF CallResult
  <2> QED
    BY <2>1, <2>2 DEF CallRecord
<1> HIDE DEF x
<1>3. call'[c] = x /\ CallSound(c) /\ call[c].attempt = 0
  BY <1>1 DEF CallInv, CallsTyped, CallSound
<1>4. CallSound(c)'
  <2>1. \A k \in Attempt : <<c, k>> \notin flying' /\ \A r \in CallResult : <<c, k, r>> \notin arrived'
    BY <1>1, <1>3 DEF CallSound, Attempt
  <2>2. 0 < MaxCallAttempts
    BY DEF CallAssumption
  <2> QED
    BY <1>2, <1>3, <2>1, <2>2 DEF CallSound
<1>5. AnswersSound(c)'
  <2>1. AnswersSound(c) /\ arrived' = arrived
    BY <1>1 DEF CallInv
  <2>2. ASSUME NEW k \in Attempt PROVE ~WasAnswered(c, k)'
    <3>1. k \in Nat /\ 1 <= k
      BY DEF Attempt, CallAssumption
    <3>2. call'[c].attempt = 0
      BY <1>2, <1>3
    <3> QED
      BY <3>1, <3>2 DEF WasAnswered
  <2> QED
    BY <2>1, <2>2 DEF AnswersSound
<1>6. ledger' = Cardinality(OpenCalls)'
  <2>1. c \notin OpenCalls /\ IsFiniteSet(OpenCalls) /\ Cardinality(OpenCalls) \in Nat
    BY <1>1, OpenFinite, FS_CardinalityType DEF OpenCalls
  <2>2. OpenCalls' = IF circuit /\ allowed THEN OpenCalls \cup {c} ELSE OpenCalls
    BY <1>1, <1>2 DEF OpenCalls, CallInv, CallsTyped
  <2>3. Cardinality(OpenCalls \cup {c}) = Cardinality(OpenCalls) + 1
    BY <2>1, FS_AddElement
  <2> QED
    BY <1>1, <2>1, <2>2, <2>3 DEF CallInv
<1> QED
  BY <1>1, <1>2, <1>4, <1>5, <1>6, CallerKeeps DEF CallInv, CallsTyped

\* What the Retryer makes of a result.
LEMMA DecidedRecord ==
  ASSUME NEW s \in CallRecord, NEW r \in CallResult
  PROVE  LET x == Decided(s, r) IN
         /\ x \in CallRecord /\ x.circuit = s.circuit /\ x.attempt = s.attempt /\ x.at \in {"backoff", "record"}
         /\ x.at = "backoff" => s.attempt < MaxCallAttempts /\ IsRetryable(r)
         /\ x.result = "ok" => r = "ok"
<1> DEFINE again == s.retry /\ r # "ok" /\ ~s.canceled /\ s.attempt < MaxCallAttempts /\ IsRetryable(r)
           out == IF s.retry /\ s.canceled /\ r # "ok" THEN "canceled" ELSE r
           to == IF again THEN "backoff" ELSE "record"
<1>1. Decided(s, r) = [s EXCEPT !.result = out, !.at = to]
  BY DEF Decided
<1>2. out \in CallResult /\ (out = "ok" => r = "ok")
  BY DEF CallResult
<1>3. to \in {"backoff", "record"} /\ (to = "backoff" => s.attempt < MaxCallAttempts /\ IsRetryable(r))
  OBVIOUS
<1> HIDE DEF out, to
<1> QED
  BY <1>1, <1>2, <1>3 DEF CallRecord

\* An attempt is sent, or its request cannot be built.
LEMMA ExecuteKeeps ==
  ASSUME CallAssumption, CallInv, NEW c \in ApiCaller, NEW built \in BOOLEAN, ExecuteAttempt(c, built)
  PROVE  CallInv'
<1> DEFINE s == [call[c] EXCEPT !.attempt = @ + 1, !.expired = FALSE]
           y == [s EXCEPT !.at = "wait"]
           z == Decided(s, "refused")
<1>1. /\ call[c].at = "send" /\ UNCHANGED <<performed, arrived, ledger>>
      /\ \/ call' = [call EXCEPT ![c] = y] /\ flying' = flying \cup {<<c, s.attempt>>}
         \/ call' = [call EXCEPT ![c] = z] /\ flying' = flying
  BY DEF ExecuteAttempt
<1>2. CallSound(c) /\ call[c] \in CallRecord /\ call[c].attempt \in 0..MaxCallAttempts
  BY DEF CallInv, CallsTyped, CallRecord
<1>3. call[c].attempt < MaxCallAttempts /\ call[c].attempt + 1 \in Attempt /\ call[c].attempt + 1 \in 0..MaxCallAttempts
  BY <1>1, <1>2 DEF CallSound, Attempt, CallAssumption
<1>4. s \in CallRecord /\ s.attempt = call[c].attempt + 1 /\ s.circuit = call[c].circuit
  BY <1>2, <1>3 DEF CallRecord
<1>5. y \in CallRecord /\ y.attempt = s.attempt /\ y.circuit = call[c].circuit /\ y.at = "wait"
  BY <1>4 DEF CallRecord
<1> HIDE DEF s, y
<1>6. /\ z \in CallRecord /\ z.circuit = call[c].circuit /\ z.attempt = s.attempt /\ z.at = "record" /\ z.result # "ok"
  BY <1>4, DecidedRecord DEF IsRetryable, CallResult
<1> HIDE DEF z
<1>7. \A k \in Attempt : <<c, k>> \notin flying
  BY <1>1, <1>2 DEF CallSound
<1>8. CASE call' = [call EXCEPT ![c] = y] /\ flying' = flying \cup {<<c, s.attempt>>}
  <2>1. call'[c] = y
    BY <1>8 DEF CallInv, CallsTyped
  <2>2. CallSound(c)'
    BY <1>1, <1>2, <1>3, <1>4, <1>5, <1>7, <1>8, <2>1 DEF CallSound, Attempt
  <2>3. flying' \subseteq ApiCaller \X Attempt
    BY <1>3, <1>4, <1>8 DEF CallInv, CallsTyped
  <2>4. ledger' = Cardinality(OpenCalls)'
    BY <1>1, <1>5, <1>8, LedgerKept
  <2>5. AnswersSound(c)'
    <3>1. AnswersSound(c) /\ arrived' = arrived
      BY <1>1 DEF CallInv
    <3>2. ASSUME NEW k \in Attempt, WasAnswered(c, k)' PROVE WasAnswered(c, k)
      BY <1>1, <1>2, <1>4, <1>5, <2>1, <3>2 DEF WasAnswered, Attempt
    <3> QED
      BY <3>1, <3>2 DEF AnswersSound
  <2> QED
    BY <1>1, <1>5, <1>8, <2>2, <2>3, <2>4, <2>5, CallerKeeps DEF CallInv, CallsTyped
<1>9. CASE call' = [call EXCEPT ![c] = z] /\ flying' = flying
  <2>1. call'[c] = z
    BY <1>9 DEF CallInv, CallsTyped
  <2>2. CallSound(c)'
    BY <1>1, <1>2, <1>3, <1>4, <1>6, <1>7, <1>9, <2>1 DEF CallSound, Attempt
  <2>4. ledger' = Cardinality(OpenCalls)'
    BY <1>1, <1>6, <1>9, LedgerKept
  <2>5. AnswersSound(c)'
    <3>1. AnswersSound(c) /\ arrived' = arrived
      BY <1>1 DEF CallInv
    <3>2. ASSUME NEW k \in Attempt, WasAnswered(c, k)' PROVE WasAnswered(c, k)
      BY <1>1, <1>2, <1>4, <1>6, <2>1, <3>2 DEF WasAnswered, Attempt
    <3> QED
      BY <3>1, <3>2 DEF AnswersSound
  <2> QED
    BY <1>1, <1>6, <1>9, <2>2, <2>4, <2>5, CallerKeeps DEF CallInv, CallsTyped
<1> QED
  BY <1>1, <1>8, <1>9

\* The service carries out a request, or its goroutine ends.
LEMMA ServiceKeeps ==
  ASSUME CallAssumption, CallInv, NEW c \in ApiCaller, NEW k \in Attempt,
         Perform(c, k) \/ \E r \in CallResult : AttemptEnds(c, k, r)
  PROVE  CallInv'
<1>1. call' = call /\ ledger' = ledger /\ OpenCalls' = OpenCalls
  BY DEF Perform, AttemptEnds, OpenCalls
<1>2. CASE Perform(c, k)
  <2>1. performed' = performed \cup {<<c, k>>} /\ flying' = flying /\ arrived' = arrived
    BY <1>2 DEF Perform
  <2>2. ASSUME NEW d \in ApiCaller PROVE CallSound(d)' /\ AnswersSound(d)'
    <3>1. CallSound(d)'
      BY <1>1, <2>1 DEF CallInv, CallSound
    <3>2. AnswersSound(d)'
      BY <1>1, <2>1 DEF CallInv, AnswersSound, WasAnswered
    <3> QED
      BY <3>1, <3>2
  <2> QED
    BY <1>1, <2>1, <2>2 DEF CallInv, CallsTyped
<1>3. ASSUME NEW r \in CallResult, AttemptEnds(c, k, r) PROVE CallInv'
  <2>1. /\ <<c, k>> \in flying /\ performed' = performed /\ flying' = flying \ {<<c, k>>}
        /\ arrived' = arrived \cup {<<c, k, r>>} /\ (r = "ok" => <<c, k>> \in performed)
    BY <1>3 DEF AttemptEnds, Possible
  <2>2. k = call[c].attempt
    BY <2>1 DEF CallInv, CallSound
  <2>3. k <= k
    BY DEF Attempt, CallAssumption
  <2>4. ASSUME NEW d \in ApiCaller PROVE CallSound(d)'
    <3>1. CallSound(d)
      BY DEF CallInv
    <3>2. ASSUME NEW j \in Attempt, NEW t \in CallResult, <<d, j, t>> \in arrived'
          PROVE  j <= call[d].attempt /\ <<d, j>> \notin flying' /\ (t = "ok" => <<d, j>> \in performed)
      <4>1. CASE <<d, j, t>> \in arrived
        BY <2>1, <3>1, <4>1 DEF CallSound
      <4>2. CASE d = c /\ j = k /\ t = r
        BY <2>1, <2>2, <2>3, <4>2
      <4> QED
        BY <2>1, <3>2, <4>1, <4>2
    <3> QED
      BY <1>1, <2>1, <3>1, <3>2 DEF CallSound
  <2>5. arrived' \subseteq ApiCaller \X Attempt \X CallResult
    BY <2>1 DEF CallInv, CallsTyped
  <2>6. ASSUME NEW d \in ApiCaller PROVE AnswersSound(d)'
    <3>1. CallSound(d) /\ AnswersSound(d)
      BY DEF CallInv
    <3>2. ASSUME NEW j \in Attempt, NEW t \in CallResult, NEW u \in CallResult, <<d, j, t>> \in arrived', <<d, j, u>> \in arrived'
          PROVE  t = u
      <4>1. d = c /\ j = k => <<d, j, t>> \notin arrived /\ <<d, j, u>> \notin arrived
        BY <2>1, <3>1 DEF CallSound
      <4> QED
        BY <2>1, <3>1, <3>2, <4>1 DEF AnswersSound
    <3> QED
      BY <1>1, <2>1, <3>1, <3>2 DEF AnswersSound, WasAnswered
  <2> QED
    BY <1>1, <2>1, <2>4, <2>5, <2>6 DEF CallInv, CallsTyped
<1> QED
  BY <1>2, <1>3

\* The deadline passes, or the caller's context ends.
LEMMA FlagKeeps == ASSUME CallInv, NEW c \in ApiCaller, DeadlinePasses(c) \/ CancelCall(c) PROVE CallInv'
<1>7. AnswersSound(c)
  BY DEF CallInv
<1>1. UNCHANGED <<flying, performed, arrived, ledger>>
  BY DEF DeadlinePasses, CancelCall
<1>2. call[c] \in CallRecord /\ CallSound(c)
  BY DEF CallInv, CallsTyped
<1>3. PICK x \in CallRecord : /\ call' = [call EXCEPT ![c] = x] /\ x.at = call[c].at /\ x.attempt = call[c].attempt
                              /\ x.result = call[c].result /\ x.circuit = call[c].circuit
  <2>1. CASE DeadlinePasses(c)
    <3>1. [call[c] EXCEPT !.expired = TRUE] \in CallRecord
      BY <1>2 DEF CallRecord
    <3> QED
      BY <1>2, <2>1, <3>1 DEF DeadlinePasses, CallRecord, CallInv, CallsTyped
  <2>2. CASE CancelCall(c)
    <3>1. [call[c] EXCEPT !.canceled = TRUE] \in CallRecord
      BY <1>2 DEF CallRecord
    <3> QED
      BY <1>2, <2>2, <3>1 DEF CancelCall, CallRecord, CallInv, CallsTyped
  <2> QED
    BY <2>1, <2>2
<1>4. call'[c] = x
  BY <1>3 DEF CallInv, CallsTyped
<1>5. CallSound(c)'
  BY <1>1, <1>2, <1>3, <1>4 DEF CallSound
<1>6. ledger' = Cardinality(OpenCalls)'
  BY <1>1, <1>3, LedgerKept
<1>8. AnswersSound(c)'
  BY <1>1, <1>3, <1>4, <1>7 DEF AnswersSound, WasAnswered
<1> QED
  BY <1>1, <1>3, <1>5, <1>6, <1>8, CallerKeeps DEF CallInv, CallsTyped

\* The caller gets a result, or waits no longer. Only a result that arrived can be retried.
LEMMA DecideKeeps ==
  ASSUME CallInv, NEW c \in ApiCaller, NEW r \in CallResult, call[c].at = "wait", call' = [call EXCEPT ![c] = Decided(@, r)],
         UNCHANGED <<flying, performed, arrived, ledger>>,
         <<c, call[c].attempt, r>> \in arrived \/ (~IsRetryable(r) /\ r # "ok")
  PROVE  CallInv'
<1> DEFINE x == Decided(call[c], r)
<1>1. call[c] \in CallRecord /\ CallSound(c) /\ call[c].attempt \in Attempt
  <2>1. call[c] \in CallRecord /\ CallSound(c)
    BY DEF CallInv, CallsTyped
  <2> QED
    BY <2>1 DEF CallSound, CallRecord, Attempt
<1>2. call' = [call EXCEPT ![c] = x] /\ call'[c] = x
  BY DEF CallInv, CallsTyped
<1>3. /\ x \in CallRecord /\ x.circuit = call[c].circuit /\ x.attempt = call[c].attempt /\ x.at \in {"backoff", "record"}
      /\ x.at = "backoff" => call[c].attempt < MaxCallAttempts /\ IsRetryable(r)
      /\ x.result = "ok" => r = "ok"
  BY <1>1, DecidedRecord
<1> HIDE DEF x
<1>4. x.at = "backoff" => \A k \in Attempt : <<c, k>> \notin flying
  BY <1>1, <1>3 DEF CallSound
<1>5. x.result = "ok" => <<c, x.attempt>> \in performed
  BY <1>1, <1>3 DEF CallSound
<1>6. CallSound(c)'
  BY <1>1, <1>2, <1>3, <1>4, <1>5 DEF CallSound
<1>7. ledger' = Cardinality(OpenCalls)'
  BY <1>2, <1>3, LedgerKept
<1>8. AnswersSound(c)'
  <2>1. AnswersSound(c)
    BY DEF CallInv
  <2>2. x.at = "backoff" => r \in Repeatable /\ <<c, call[c].attempt, r>> \in arrived
    BY <1>3 DEF IsRetryable, Repeatable
  <2> QED
    BY <1>1, <1>2, <1>3, <2>1, <2>2 DEF AnswersSound, WasAnswered
<1> QED
  BY <1>2, <1>3, <1>6, <1>7, <1>8, CallerKeeps DEF CallInv, CallsTyped

\* The next attempt follows, or the call is given up between two.
LEMMA BackoffKeeps == ASSUME CallInv, NEW c \in ApiCaller, BackoffEnds(c) PROVE CallInv'
<1> DEFINE x == [call[c] EXCEPT !.at = IF call[c].canceled THEN "record" ELSE "send",
                                !.result = IF call[c].canceled THEN "canceled" ELSE @]
<1>1. call[c] \in CallRecord /\ CallSound(c)
  BY DEF CallInv, CallsTyped
<1>2. call[c].at = "backoff" /\ UNCHANGED <<flying, performed, arrived, ledger>> /\ call' = [call EXCEPT ![c] = x]
  BY DEF BackoffEnds, CallInv, CallsTyped
<1>3. /\ x \in CallRecord /\ x.circuit = call[c].circuit /\ x.attempt = call[c].attempt
      /\ (x.at = "record" /\ x.result = "canceled") \/ x.at = "send"
  BY <1>1 DEF CallRecord, CallResult
<1> HIDE DEF x
<1>4. call'[c] = x
  BY <1>2 DEF CallInv, CallsTyped
<1>5. CallSound(c)'
  BY <1>1, <1>2, <1>3, <1>4 DEF CallSound
<1>6. ledger' = Cardinality(OpenCalls)'
  BY <1>2, <1>3, LedgerKept
<1>7. AnswersSound(c)'
  BY <1>2, <1>3, <1>4 DEF AnswersSound, WasAnswered, CallInv
<1> QED
  BY <1>2, <1>3, <1>5, <1>6, <1>7, CallerKeeps DEF CallInv, CallsTyped

\* The breaker learns the result, and the call returns.
LEMMA ReturnKeeps == ASSUME CallAssumption, CallInv, NEW c \in ApiCaller, RecordResult(c) PROVE CallInv'
<1> DEFINE x == [call[c] EXCEPT !.at = "returned"]
<1>1. call[c] \in CallRecord /\ CallSound(c)
  BY DEF CallInv, CallsTyped
<1>2. /\ call[c].at = "record" /\ UNCHANGED <<flying, performed, arrived>> /\ call' = [call EXCEPT ![c] = x]
      /\ ledger' = ledger - IF call[c].circuit THEN 1 ELSE 0
  BY DEF RecordResult, CallInv, CallsTyped
<1>3. /\ x \in CallRecord /\ x.circuit = call[c].circuit /\ x.attempt = call[c].attempt
      /\ x.result = call[c].result /\ x.at = "returned"
  BY <1>1 DEF CallRecord
<1> HIDE DEF x
<1>4. call'[c] = x
  BY <1>2 DEF CallInv, CallsTyped
<1>5. CallSound(c)'
  BY <1>1, <1>2, <1>3, <1>4 DEF CallSound
<1>6. ledger' = Cardinality(OpenCalls)'
  <2>1. OpenCalls' = OpenCalls \ {c} /\ (c \in OpenCalls <=> call[c].circuit)
    BY <1>2, <1>3 DEF OpenCalls, CallInv, CallsTyped
  <2>2. IsFiniteSet(OpenCalls) /\ Cardinality(OpenCalls) \in Nat
    BY OpenFinite, FS_CardinalityType
  <2>3. CASE call[c].circuit
    <3>1. Cardinality(OpenCalls \ {c}) = Cardinality(OpenCalls) - 1
      BY <2>1, <2>2, <2>3, FS_RemoveElement
    <3> QED
      BY <1>2, <2>1, <2>3, <3>1 DEF CallInv
  <2>4. CASE ~call[c].circuit
    <3>1. OpenCalls' = OpenCalls
      BY <2>1, <2>4
    <3> QED
      BY <1>2, <2>2, <2>4, <3>1 DEF CallInv
  <2> QED
    BY <2>3, <2>4
<1>7. AnswersSound(c)'
  BY <1>2, <1>3, <1>4 DEF AnswersSound, WasAnswered, CallInv
<1> QED
  BY <1>2, <1>3, <1>5, <1>6, <1>7, CallerKeeps DEF CallInv, CallsTyped

\* Every step of the callers keeps the invariant.
LEMMA CallStep == ASSUME CallAssumption, CallInv, [CallNext]_outgoingVars PROVE CallInv'
<1>1. CASE UNCHANGED outgoingVars
  BY <1>1 DEF outgoingVars, CallInv, CallsTyped, CallSound, AnswersSound, WasAnswered, OpenCalls
<1>2. ASSUME NEW c \in ApiCaller, NEW client \in Client, NEW retry \in BOOLEAN, NEW circuit \in BOOLEAN,
             NEW allowed \in BOOLEAN, BeginCall(c, client, retry, circuit, allowed)
      PROVE  CallInv'
  BY <1>2, BeginKeeps
<1>3. ASSUME NEW c \in ApiCaller, NEW built \in BOOLEAN, ExecuteAttempt(c, built) PROVE CallInv'
  BY <1>3, ExecuteKeeps
<1>4. ASSUME NEW c \in ApiCaller, NEW k \in Attempt, Perform(c, k) \/ \E r \in CallResult : AttemptEnds(c, k, r) PROVE CallInv'
  BY <1>4, ServiceKeeps
<1>5. ASSUME NEW c \in ApiCaller, DeadlinePasses(c) \/ CancelCall(c) PROVE CallInv'
  BY <1>5, FlagKeeps
<1>6. ASSUME NEW c \in ApiCaller, ReceiveResult(c) PROVE CallInv'
  BY <1>6, DecideKeeps DEF ReceiveResult
<1>7. ASSUME NEW c \in ApiCaller, GiveUpWaiting(c) PROVE CallInv'
  <2>1. PICK r \in {"ErrTimeout", "canceled"} : call' = [call EXCEPT ![c] = Decided(@, r)]
    BY <1>7 DEF GiveUpWaiting
  <2>2. r \in CallResult /\ ~IsRetryable(r) /\ r # "ok"
    BY DEF CallResult, IsRetryable
  <2> QED
    BY <1>7, <2>1, <2>2, DecideKeeps DEF GiveUpWaiting
<1>8. ASSUME NEW c \in ApiCaller, BackoffEnds(c) PROVE CallInv'
  BY <1>8, BackoffKeeps
<1>9. ASSUME NEW c \in ApiCaller, RecordResult(c) PROVE CallInv'
  BY <1>9, ReturnKeeps
<1> QED
  BY <1>1, <1>2, <1>3, <1>4, <1>5, <1>6, <1>7, <1>8, <1>9 DEF CallNext

\* The REST, GraphQL and Brevo clients: for any number of callers and attempts, an attempt is
\* repeated only upon its own answer, one that invites to it, a success was carried out by the
\* last attempt, and the breaker is owed a result by exactly the calls it let through that
\* have not returned.
THEOREM CallsRepeatAnswered == ASSUME CallAssumption PROVE CallSpec => []RepeatsFollowAnswers
<1>1. CallInit => CallInv
  BY CallInitInv
<1>2. CallInv /\ [CallNext]_outgoingVars => CallInv'
  BY CallStep
<1>3. CallInv => RepeatsFollowAnswers
  BY CallInvImplies
<1> QED
  BY <1>1, <1>2, <1>3, PTL DEF CallSpec

(***************************************************************************)
(* Email notifications: what the log says                                  *)
(***************************************************************************)

Recipients == {{}} \cup {e.to : e \in MailEvents} \cup {r.to : r \in MailRequests}
TemplateOrNone == Templates \cup {"none"}
MailCall ==
    [pc : {"idle", "send", "posted", "done"}, from : {"none", "event", "request"}, template : TemplateOrNone,
     to : Recipients, message : 0..MaxMails, result : {"none", "ok", "error", "nil", "202", "400", "500"}]
Message == [id : 1..MaxMails, template : TemplateOrNone, to : Recipients]
MailLogged == [id : 1..MaxMails, status : Statuses, message : 0..MaxMails, template : TemplateOrNone, to : Recipients]

MailTyped ==
    /\ mailing \in [MailSender -> MailCall] /\ provider \subseteq Message /\ emails \subseteq MailLogged
    /\ IsFiniteSet(emails) /\ posted \in 0..MaxMails /\ lost \subseteq 1..MaxMails

\* The numbers given to messages are those counted so far.
Numbered == (\A m \in provider : m.id <= posted) /\ \A s \in MailSender : mailing[s].message <= posted

\* A sender that has posted knows the truth, or its answer was lost.
MailSound(s) ==
    /\ mailing[s].pc \in {"send", "posted"} => mailing[s].from \in {"event", "request"}
    /\ mailing[s].pc = "posted" =>
          /\ mailing[s].message >= 1 /\ mailing[s].result \in {"ok", "error"}
          /\ mailing[s].result = "ok" =>
                \E m \in provider : m.id = mailing[s].message /\ m.to = mailing[s].to /\ m.template = mailing[s].template
          /\ mailing[s].result = "error" /\ (\E m \in provider : m.id = mailing[s].message) => mailing[s].message \in lost
    /\ mailing[s].pc = "done" /\ mailing[s].result = "202" => \E m \in provider : m.id = mailing[s].message

\* The parts of LogTellsMail
SentAreReal == \A e \in emails : e.status = "sent" => \E m \in provider : m.id = e.message /\ m.to = e.to /\ m.template = e.template
Covered(m) ==
    \/ \E e \in emails : e.status = "sent" /\ e.message = m.id
    \/ m.id \in lost
    \/ \E s \in MailSender : mailing[s].pc = "posted" /\ mailing[s].message = m.id
ListingWhole ==
    Cardinality(listing.entries) < LimitOf(listing.filter) /\ OffsetOf(listing.filter) = 0
       => Cardinality(listing.entries) = listing.matching

MailInv ==
    /\ MailTyped /\ Numbered /\ SentAreReal /\ ListingWhole
    /\ \A s \in MailSender : MailSound(s)
    /\ \A m \in provider : Covered(m)

\* What the property says follows.
LEMMA MailInvImplies == ASSUME MailInv PROVE LogTellsMail
<1>1. MailTypeOK
  BY DEF MailInv, MailTyped, MailTypeOK, MailCall, MailLogged
<1>2. \A s \in MailSender : mailing[s].pc = "done" /\ mailing[s].result = "202" => \E m \in provider : m.id = mailing[s].message
  BY DEF MailInv, MailSound
<1> QED
  BY <1>1, <1>2 DEF MailInv, LogTellsMail, SentAreReal, Covered, ListingWhole

\* A sender at rest is typed.
LEMMA MailIdle == ASSUME MailAssumption PROVE Idle \in MailCall /\ Idle.pc = "idle" /\ Idle.message = 0
  BY DEF MailAssumption, Idle, MailCall, TemplateOrNone, Recipients

\* Nothing has been sent.
LEMMA MailInitInv == ASSUME MailAssumption, MailInit PROVE MailInv
<1>1. MailTyped
  BY MailIdle, FS_EmptySet DEF MailInit, MailTyped, MailAssumption
<1>2. Numbered /\ SentAreReal /\ \A m \in provider : Covered(m)
  BY MailIdle DEF MailInit, Numbered, SentAreReal
<1>3. ASSUME NEW s \in MailSender PROVE MailSound(s)
  BY MailIdle DEF MailInit, MailSound
<1>4. ListingWhole
  BY FS_EmptySet DEF MailInit, ListingWhole, NoListing
<1> QED
  BY <1>1, <1>2, <1>3, <1>4 DEF MailInv

\* A sender moves; the messages and the log stay.
LEMMA SenderKeeps ==
  ASSUME MailInv, NEW s \in MailSender, NEW x \in MailCall, mailing' = [mailing EXCEPT ![s] = x],
         UNCHANGED <<provider, emails, posted, lost, listing>>, mailing[s].pc # "posted",
         x.message = 0, x.pc \in {"idle", "send", "done"}, x.result # "202", x.pc = "send" => x.from \in {"event", "request"}
  PROVE  MailInv'
<1>1. mailing'[s] = x /\ \A t \in MailSender : t # s => mailing'[t] = mailing[t]
  BY DEF MailInv, MailTyped
<1>2. MailTyped' /\ Numbered' /\ SentAreReal' /\ ListingWhole'
  BY <1>1 DEF MailInv, MailTyped, Numbered, SentAreReal, ListingWhole
<1>3. ASSUME NEW t \in MailSender PROVE MailSound(t)'
  <2>1. CASE t = s
    BY <1>1, <2>1 DEF MailSound
  <2>2. CASE t # s
    BY <1>1, <2>2 DEF MailInv, MailSound
  <2> QED
    BY <2>1, <2>2
<1>4. ASSUME NEW m \in provider PROVE Covered(m)'
  <2>1. Covered(m)
    BY DEF MailInv
  <2>2. ASSUME NEW t \in MailSender, mailing[t].pc = "posted", mailing[t].message = m.id PROVE Covered(m)'
    BY <1>1, <2>2 DEF Covered
  <2> QED
    BY <2>1, <2>2 DEF Covered
<1> QED
  BY <1>2, <1>3, <1>4 DEF MailInv

\* An event or a request is answered at once, or made into a message.
LEMMA HandleKeeps ==
  ASSUME MailAssumption, MailInv, NEW s \in MailSender,
         (\E e \in MailEvents : HandleEvent(s, e)) \/ (\E r \in MailRequests : HandleRequest(s, r)) \/ FinishSend(s)
  PROVE  MailInv'
<1>1. UNCHANGED <<provider, emails, posted, lost, listing>> /\ mailing[s].pc # "posted"
  BY DEF HandleEvent, HandleRequest, FinishSend
<1>2. ASSUME NEW from \in {"event", "request"}, NEW result \in {"nil", "400", "500"}
      PROVE  LET x == Answered(from, result) IN
             x \in MailCall /\ x.message = 0 /\ x.pc = "done" /\ x.result = result
  BY MailIdle DEF Answered, MailCall
<1>3. ASSUME NEW from \in {"event", "request"}, NEW template \in Templates, NEW to \in Recipients
      PROVE  LET x == ToSend(from, template, to) IN
             x \in MailCall /\ x.message = 0 /\ x.pc = "send" /\ x.from = from /\ x.result = "none"
  <2>1. Idle.result = "none"
    BY DEF Idle
  <2> QED
    BY <2>1, MailIdle DEF ToSend, MailCall, TemplateOrNone
<1>4. ASSUME NEW x, x \in {Answered(f, u) : f \in {"event", "request"}, u \in {"nil", "400", "500"}}
                        \cup {ToSend(f, t, to) : f \in {"event", "request"}, t \in Templates, to \in Recipients},
             mailing' = [mailing EXCEPT ![s] = x]
      PROVE  MailInv'
  <2>1. /\ x \in MailCall /\ x.message = 0 /\ x.pc \in {"idle", "send", "done"} /\ x.result # "202"
        /\ x.pc = "send" => x.from \in {"event", "request"}
    <3>1. ASSUME NEW f \in {"event", "request"}, NEW u \in {"nil", "400", "500"}, x = Answered(f, u)
          PROVE  x \in MailCall /\ x.message = 0 /\ x.pc = "done" /\ x.result # "202"
      BY <1>2, <3>1
    <3>2. ASSUME NEW f \in {"event", "request"}, NEW t \in Templates, NEW to \in Recipients, x = ToSend(f, t, to)
          PROVE  x \in MailCall /\ x.message = 0 /\ x.pc = "send" /\ x.from \in {"event", "request"} /\ x.result # "202"
      BY <1>3, <3>2
    <3> QED
      BY <1>4, <3>1, <3>2
  <2> QED
    BY <1>1, <1>4, <2>1, SenderKeeps
<1>5. ASSUME NEW e \in MailEvents, HandleEvent(s, e) PROVE MailInv'
  <2>1. TemplateOf(e.type) = "none" \/ TemplateOf(e.type) \in Templates
    BY DEF TemplateOf, Templates
  <2>2. e.to \in Recipients
    BY DEF Recipients
  <2>3. \/ mailing' = [mailing EXCEPT ![s] = Answered("event", "nil")]
        \/ TemplateOf(e.type) # "none" /\ mailing' = [mailing EXCEPT ![s] = ToSend("event", TemplateOf(e.type), e.to)]
    BY <1>5 DEF HandleEvent
  <2> QED
    BY <1>4, <2>1, <2>2, <2>3
<1>6. ASSUME NEW r \in MailRequests, HandleRequest(s, r) PROVE MailInv'
  <2>1. r.to \in Recipients
    BY DEF Recipients
  <2>2. \/ mailing' = [mailing EXCEPT ![s] = Answered("request", "400")]
        \/ mailing' = [mailing EXCEPT ![s] = Answered("request", "500")]
        \/ r.template \in Templates /\ mailing' = [mailing EXCEPT ![s] = ToSend("request", r.template, r.to)]
    BY <1>6 DEF HandleRequest
  <2> QED
    BY <1>4, <2>1, <2>2
<1>7. CASE FinishSend(s)
  <2>1. mailing' = [mailing EXCEPT ![s] = Idle]
    BY <1>7 DEF FinishSend
  <2>2. Idle \in MailCall /\ Idle.message = 0 /\ Idle.pc = "idle" /\ Idle.result = "none"
    BY MailIdle DEF Idle
  <2> QED
    BY <1>1, <2>1, <2>2, SenderKeeps
<1> QED
  BY <1>5, <1>6, <1>7

\* A message is posted, taken or not, and the answer comes or not.
LEMMA PostKeeps == ASSUME MailAssumption, MailInv, NEW s \in MailSender, Post(s) PROVE MailInv'
<1> DEFINE n == posted + 1
           new == [id |-> n, template |-> mailing[s].template, to |-> mailing[s].to]
<1>1. PICK took \in BOOLEAN, good \in BOOLEAN :
        /\ good => took
        /\ provider' = IF took THEN provider \cup {new} ELSE provider
        /\ lost' = IF took /\ ~good THEN lost \cup {n} ELSE lost
        /\ mailing' = [mailing EXCEPT ![s].pc = "posted", ![s].message = n, ![s].result = IF good THEN "ok" ELSE "error"]
  BY DEF Post, ProviderAnswers, SendSucceeds
<1>2. mailing[s].pc = "send" /\ posted < MaxMails /\ posted' = n /\ UNCHANGED <<emails, listing>>
  BY DEF Post
<1>3. mailing[s] \in MailCall /\ MailSound(s)
  BY DEF MailInv, MailTyped
<1>4. n \in 1..MaxMails /\ n \in 0..MaxMails /\ posted < n /\ posted \in Nat
  BY <1>2 DEF MailInv, MailTyped, MailAssumption
<1>5. PICK x \in MailCall : /\ mailing' = [mailing EXCEPT ![s] = x] /\ x.pc = "posted" /\ x.message = n
                            /\ x.result = (IF good THEN "ok" ELSE "error") /\ x.to = mailing[s].to
                            /\ x.template = mailing[s].template /\ x.from = mailing[s].from
  <2> DEFINE out == IF good THEN "ok" ELSE "error"
             y == [mailing[s] EXCEPT !.pc = "posted", !.message = n, !.result = out]
  <2>1. mailing' = [mailing EXCEPT ![s] = y]
    BY <1>1 DEF MailInv, MailTyped
  <2>2. out \in {"ok", "error"}
    OBVIOUS
  <2> HIDE DEF n, out
  <2>3. /\ y \in MailCall /\ y.pc = "posted" /\ y.message = n /\ y.result = out /\ y.to = mailing[s].to
        /\ y.template = mailing[s].template /\ y.from = mailing[s].from
    BY <1>3, <1>4, <2>2 DEF MailCall
  <2> HIDE DEF y
  <2> QED
    BY <2>1, <2>3 DEF out
<1>6. mailing'[s] = x /\ \A t \in MailSender : t # s => mailing'[t] = mailing[t]
  BY <1>5 DEF MailInv, MailTyped
<1>7. new \in Message /\ new.id = n /\ new.to = x.to /\ new.template = x.template
  BY <1>3, <1>4, <1>5 DEF Message, MailCall
<1> HIDE DEF new, n
<1>8. MailTyped'
  <2>1. mailing' \in [MailSender -> MailCall]
    BY <1>5 DEF MailInv, MailTyped
  <2>2. provider' \subseteq Message
    BY <1>1, <1>7 DEF MailInv, MailTyped
  <2>3. lost' \subseteq 1..MaxMails
    BY <1>1, <1>4 DEF MailInv, MailTyped
  <2> QED
    BY <1>2, <1>4, <2>1, <2>2, <2>3 DEF MailInv, MailTyped
<1>9. Numbered'
  <2>1. \A m \in provider : m.id \in Nat /\ m.id <= posted
    BY DEF MailInv, MailTyped, Message, Numbered
  <2>2. \A t \in MailSender : mailing[t].message \in Nat /\ mailing[t].message <= posted
    BY DEF MailInv, MailTyped, MailCall, Numbered
  <2>3. n \in Nat /\ n <= n
    BY <1>4
  <2>4. ASSUME NEW m \in provider' PROVE m.id <= n
    <3>1. CASE m = new
      BY <1>7, <2>3, <3>1
    <3>2. CASE m \in provider
      BY <1>4, <2>1, <2>3, <3>2
    <3> QED
      BY <1>1, <3>1, <3>2
  <2>5. ASSUME NEW t \in MailSender PROVE mailing'[t].message <= n
    BY <1>4, <1>5, <1>6, <2>2, <2>3
  <2> QED
    BY <1>2, <2>4, <2>5 DEF Numbered
<1>10. SentAreReal' /\ ListingWhole'
  BY <1>1, <1>2 DEF MailInv, SentAreReal, ListingWhole
<1>11. ASSUME NEW t \in MailSender PROVE MailSound(t)'
  <2>1. CASE t = s
    <3>1. x.result = "error" /\ (\E m \in provider' : m.id = n) => n \in lost'
      <4>1. \A m \in provider : m.id # n
        BY <1>4 DEF MailInv, MailTyped, Message, Numbered
      <4> QED
        BY <1>1, <1>5, <4>1
    <3>2. x.result = "ok" => new \in provider'
      BY <1>1, <1>5
    <3>3. x.from \in {"event", "request"} /\ n >= 1
      BY <1>2, <1>3, <1>4, <1>5 DEF MailSound
    <3> QED
      BY <1>5, <1>6, <1>7, <2>1, <3>1, <3>2, <3>3 DEF MailSound
  <2>2. CASE t # s
    <3>1. mailing'[t] = mailing[t] /\ MailSound(t) /\ mailing[t].message <= posted /\ mailing[t].message \in Nat
      BY <1>6, <2>2 DEF MailInv, Numbered, MailTyped, MailCall
    <3>2. mailing[t].message # n /\ provider \subseteq provider' /\ lost \subseteq lost'
      BY <1>1, <1>4, <3>1
    <3>3. (\E m \in provider' : m.id = mailing[t].message) => \E m \in provider : m.id = mailing[t].message
      BY <1>1, <1>7, <3>2
    <3> QED
      BY <3>1, <3>2, <3>3 DEF MailSound
  <2> QED
    BY <2>1, <2>2
<1>12. ASSUME NEW m \in provider' PROVE Covered(m)'
  <2>1. CASE m = new
    BY <1>5, <1>6, <1>7, <2>1 DEF Covered
  <2>2. CASE m \in provider
    <3>1. Covered(m)
      BY <2>2 DEF MailInv
    <3>2. ASSUME NEW t \in MailSender, mailing[t].pc = "posted", mailing[t].message = m.id PROVE Covered(m)'
      BY <1>2, <1>6, <3>2 DEF Covered
    <3>3. lost \subseteq lost'
      BY <1>1
    <3> QED
      BY <1>2, <3>1, <3>2, <3>3 DEF Covered
  <2> QED
    BY <1>1, <2>1, <2>2
<1> QED
  BY <1>8, <1>9, <1>10, <1>11, <1>12 DEF MailInv

\* The result is logged and answered.
LEMMA LogKeeps == ASSUME MailAssumption, MailInv, NEW s \in MailSender, LogEmail(s) PROVE MailInv'
<1> DEFINE m == mailing[s]
           e == LogEntry(m)
<1>1. /\ m.pc = "posted" /\ emails' = emails \cup {e} /\ UNCHANGED <<provider, posted, lost, listing>>
      /\ m \in MailCall /\ MailSound(s)
  BY DEF LogEmail, MailInv, MailTyped
<1>2. /\ m.from \in {"event", "request"} /\ m.result \in {"ok", "error"} /\ m.message \in 1..MaxMails
      /\ m.to \in Recipients /\ m.template \in TemplateOrNone
  BY <1>1 DEF MailSound, MailCall
<1>3. PICK x \in MailCall : /\ mailing' = [mailing EXCEPT ![s] = x] /\ x.pc = "done" /\ x.message = m.message
                            /\ x.result = "202" => m.result = "ok"
  <2>1. PICK u \in {"nil", "202", "error", "500"} :
          /\ mailing' = [mailing EXCEPT ![s].pc = "done", ![s].result = u] /\ (u = "202" => m.result = "ok")
    <3>1. CASE m.result = "ok" /\ m.from = "event"
      BY <3>1 DEF LogEmail
    <3>2. CASE m.result = "ok" /\ m.from = "request"
      BY <3>2 DEF LogEmail
    <3>3. CASE m.result = "error" /\ m.from = "event"
      BY <3>3 DEF LogEmail
    <3>4. CASE m.result = "error" /\ m.from = "request"
      BY <3>4 DEF LogEmail
    <3> QED
      BY <1>2, <3>1, <3>2, <3>3, <3>4
  <2>2. [m EXCEPT !.pc = "done", !.result = u] \in MailCall
    BY <1>1 DEF MailCall
  <2> QED
    BY <1>1, <2>1, <2>2 DEF MailInv, MailTyped, MailCall
<1>4. mailing'[s] = x /\ \A t \in MailSender : t # s => mailing'[t] = mailing[t]
  BY <1>3 DEF MailInv, MailTyped
<1>5. e \in MailLogged
  BY <1>2 DEF LogEntry, MailLogged, Statuses, TemplateOrNone, MailAssumption
<1>6. /\ m.result = "ok" => e.status = "sent" /\ e.message = m.message /\ e.to = m.to /\ e.template = m.template
      /\ e.status = "sent" => m.result = "ok"
  BY <1>2 DEF LogEntry
<1> HIDE DEF e
<1>7. MailTyped'
  BY <1>1, <1>3, <1>5, FS_AddElement DEF MailInv, MailTyped
<1>8. Numbered' /\ ListingWhole'
  BY <1>1, <1>3, <1>4 DEF MailInv, Numbered, ListingWhole
<1>9. SentAreReal'
  BY <1>1, <1>6 DEF MailInv, SentAreReal, MailSound
<1>10. ASSUME NEW t \in MailSender PROVE MailSound(t)'
  <2>1. CASE t = s
    BY <1>1, <1>2, <1>3, <1>4, <2>1 DEF MailSound
  <2>2. CASE t # s
    BY <1>1, <1>4, <2>2 DEF MailInv, MailSound
  <2> QED
    BY <2>1, <2>2
<1>11. ASSUME NEW p \in provider PROVE Covered(p)'
  <2>1. Covered(p)
    BY DEF MailInv
  <2>2. CASE m.message = p.id
    <3>1. CASE m.result = "ok"
      BY <1>1, <1>6, <2>2, <3>1 DEF Covered
    <3>2. CASE m.result = "error"
      BY <1>1, <2>2, <3>2 DEF Covered, MailSound
    <3> QED
      BY <1>2, <3>1, <3>2
  <2>3. CASE m.message # p.id
    <3>1. ASSUME NEW t \in MailSender, mailing[t].pc = "posted", mailing[t].message = p.id PROVE Covered(p)'
      BY <1>4, <2>3, <3>1 DEF Covered
    <3> QED
      BY <1>1, <2>1, <3>1 DEF Covered
  <2> QED
    BY <2>2, <2>3
<1> QED
  BY <1>1, <1>7, <1>8, <1>9, <1>10, <1>11 DEF MailInv

\* A page that the limit did not cut is the whole list.
LEMMA PageWhole ==
  ASSUME NEW n \in Nat, NEW f, f.limit \in Int, f.offset \in Int, OffsetOf(f) = 0, PageLength(n, f) < LimitOf(f)
  PROVE  PageLength(n, f) = n
  BY DEF PageLength, OffsetOf, LimitOf, Least

\* The entries are listed.
LEMMA ListKeeps == ASSUME MailAssumption, MailInv, NEW f \in MailFilters, ListEmails(f) PROVE MailInv'
<1> DEFINE all == {e \in emails : MatchesFilter(e, f)}
<1>1. UNCHANGED <<mailing, provider, emails, posted, lost>>
  BY DEF ListEmails
<1>2. PICK page \in SUBSET all : /\ Cardinality(page) = PageLength(Cardinality(all), f)
                                 /\ listing' = [filter |-> f, entries |-> page, matching |-> Cardinality(all)]
  BY DEF ListEmails
<1>3. Cardinality(all) \in Nat
  <2>1. IsFiniteSet(emails) /\ all \subseteq emails
    BY DEF MailInv, MailTyped
  <2> HIDE DEF all
  <2> QED
    BY <2>1, FS_Subset, FS_CardinalityType
<1>4. ListingWhole'
  <2>1. listing'.filter = f /\ listing'.entries = page /\ listing'.matching = Cardinality(all)
    BY <1>2
  <2>2. f.limit \in Int /\ f.offset \in Int
    BY DEF MailAssumption
  <2> HIDE DEF all
  <2>3. OffsetOf(f) = 0 /\ Cardinality(page) < LimitOf(f) => Cardinality(page) = Cardinality(all)
    BY <1>2, <1>3, <2>2, PageWhole
  <2> QED
    BY <2>1, <2>3 DEF ListingWhole
<1> QED
  BY <1>1, <1>4 DEF MailInv, MailTyped, Numbered, SentAreReal, MailSound, Covered

\* Every step of senders and listings keeps the invariant.
LEMMA MailStep == ASSUME MailAssumption, MailInv, [MailNext]_mailVars PROVE MailInv'
<1>1. CASE UNCHANGED mailVars
  BY <1>1 DEF mailVars, MailInv, MailTyped, Numbered, SentAreReal, ListingWhole, MailSound, Covered
<1>2. ASSUME NEW s \in MailSender, (\E e \in MailEvents : HandleEvent(s, e)) \/ (\E r \in MailRequests : HandleRequest(s, r)) \/ FinishSend(s)
      PROVE  MailInv'
  BY <1>2, HandleKeeps
<1>3. ASSUME NEW s \in MailSender, Post(s) PROVE MailInv'
  BY <1>3, PostKeeps
<1>4. ASSUME NEW s \in MailSender, LogEmail(s) PROVE MailInv'
  BY <1>4, LogKeeps
<1>5. ASSUME NEW f \in MailFilters, ListEmails(f) PROVE MailInv'
  BY <1>5, ListKeeps
<1> QED
  BY <1>1, <1>2, <1>3, <1>4, <1>5 DEF MailNext

\* EmailService and its log: for any number of senders and messages, an entry "sent" is a
\* message the provider has, a message it has is logged so unless its answer was lost, and a
\* page that its limit did not cut short is the whole list.
THEOREM LogIsTruthful == ASSUME MailAssumption PROVE MailSpec => []LogTellsMail
<1>1. MailInit => MailInv
  BY MailInitInv
<1>2. MailInv /\ [MailNext]_mailVars => MailInv'
  BY MailStep
<1>3. MailInv => LogTellsMail
  BY MailInvImplies
<1> QED
  BY <1>1, <1>2, <1>3, PTL DEF MailSpec

(***************************************************************************)
(* Health checks: the order of the results                                 *)
(***************************************************************************)

CheckNames == {NameOf[c] : c \in HealthChecker}
CheckMaps == UNION {[D -> Levels] : D \in SUBSET CheckNames}
Indices == SUBSET Nat
ResultSets == SUBSET (Nat \X Levels)
Codes == {0, 200, 503}
ProbeRecord ==
    [pc : {"idle", "checking", "done"}, kind : {"none", "health", "live", "ready"}, running : Indices,
     results : ResultSets, checks : CheckMaps, status : Levels, code : Codes]

HealthTyped ==
    checkers \in Seq(HealthChecker) /\ probing \in [Probe -> ProbeRecord] /\ probes \in 0..MaxProbes

\* What a probe has put together so far is what its results say, in whatever order they came.
ProbeSound(q) ==
    /\ q.running \subseteq 1..Len(checkers) /\ \A x \in q.results : x[1] \in 1..Len(checkers)
    /\ q.kind = "ready" => \A i \in q.running : SeverityOf[checkers[i]] = "critical"
    /\ q.kind = "ready" => \A x \in q.results : SeverityOf[checkers[x[1]]] = "critical"
    /\ q.status = "unhealthy" <=> \E x \in q.results : x[2] = "unhealthy" /\ SeverityOf[checkers[x[1]]] = "critical"
    /\ q.status = "healthy" <=> \A x \in q.results : x[2] = "healthy"
    /\ DOMAIN q.checks = {NameOf[checkers[x[1]]] : x \in q.results}
    /\ \A n \in DOMAIN q.checks : \E x \in q.results : NameOf[checkers[x[1]]] = n /\ x[2] = q.checks[n]
    /\ q.pc = "done" => q.code = StatusCode(q.status)

HealthInv == HealthTyped /\ \A p \in Probe : ProbeSound(probing[p])

\* What the property says follows.
LEMMA HealthInvImplies == ASSUME HealthInv PROVE AnswerIsOrderFree
<1>1. HealthTypeOK
  BY DEF HealthInv, HealthTyped, HealthTypeOK, ProbeRecord, ProbeSound, Codes
<1>2. \A p \in Probe : probing[p].pc = "done" => (probing[p].code = 503 <=> probing[p].status = "unhealthy")
  BY DEF HealthInv, ProbeSound, StatusCode
<1> QED
  BY <1>1, <1>2 DEF HealthInv, AnswerIsOrderFree, ProbeSound

\* A probe at rest has no results.
LEMMA NoProbeSound == NoProbe \in ProbeRecord /\ ProbeSound(NoProbe) /\ NoProbe.pc = "idle"
<1>1. <<>> \in [{} -> Levels] /\ DOMAIN <<>> = {}
  OBVIOUS
<1>2. <<>> \in CheckMaps
  BY <1>1 DEF CheckMaps
<1>3. NoProbe \in ProbeRecord /\ NoProbe.pc = "idle"
  BY <1>2 DEF NoProbe, ProbeRecord, Levels, Indices, ResultSets, Codes
<1>4. /\ NoProbe.running = {} /\ NoProbe.results = {} /\ NoProbe.checks = <<>> /\ NoProbe.status = "healthy"
      /\ NoProbe.kind = "none"
  BY DEF NoProbe
<1> QED
  BY <1>1, <1>3, <1>4 DEF ProbeSound

\* No checker is registered.
LEMMA HealthInitInv == ASSUME HealthAssumption, HealthInit PROVE HealthInv
  BY NoProbeSound DEF HealthInit, HealthInv, HealthTyped, HealthAssumption

\* The results of the checkers are levels.
LEMMA OutcomesAreLevels == ASSUME HealthAssumption, NEW c \in HealthChecker PROVE Outcomes(c) \subseteq Levels
<1>1. KindOf[c] \in {"database", "cache", "memory", "disk", "custom"}
  BY DEF HealthAssumption
<1> QED
  BY <1>1 DEF Outcomes, DatabaseOutcomes, CacheOutcomes, MemoryOutcomes, DiskOutcomes, CustomOutcomes, Levels

\* A checker registered meanwhile changes no probe.
LEMMA RegisterKeeps == ASSUME HealthInv, NEW c \in HealthChecker, RegisterChecker(c) PROVE HealthInv'
<1>1. /\ probing' = probing /\ probes' = probes /\ checkers' \in Seq(HealthChecker)
      /\ Len(checkers') = Len(checkers) + 1 /\ Len(checkers) \in Nat
      /\ \A i \in 1..Len(checkers) : i \in 1..Len(checkers') /\ checkers'[i] = checkers[i]
  BY DEF RegisterChecker, HealthInv, HealthTyped
<1>2. ASSUME NEW p \in Probe PROVE ProbeSound(probing[p])'
  <2> DEFINE q == probing[p]
  <2>1. ProbeSound(q) /\ probing'[p] = q
    BY <1>1 DEF HealthInv
  <2> HIDE DEF q
  <2>2. /\ \A i \in q.running : i \in 1..Len(checkers') /\ checkers'[i] = checkers[i]
        /\ \A x \in q.results : x[1] \in 1..Len(checkers') /\ checkers'[x[1]] = checkers[x[1]]
    BY <1>1, <2>1 DEF ProbeSound
  <2>3. {NameOf[checkers'[x[1]]] : x \in q.results} = {NameOf[checkers[x[1]]] : x \in q.results}
    BY <2>2
  <2> QED
    BY <1>1, <2>1, <2>2, <2>3 DEF ProbeSound
<1> QED
  BY <1>1, <1>2 DEF HealthInv, HealthTyped

\* A step of one probe
LEMMA ProbeKeeps ==
  ASSUME HealthInv, NEW p \in Probe, NEW x \in ProbeRecord, ProbeSound(x), probing' = [probing EXCEPT ![p] = x],
         checkers' = checkers, probes' \in 0..MaxProbes
  PROVE  HealthInv'
<1>1. probing' \in [Probe -> ProbeRecord] /\ \A q \in Probe : probing'[q] = probing[q] \/ probing'[q] = x
  BY DEF HealthInv, HealthTyped
<1> QED
  BY <1>1 DEF HealthInv, HealthTyped, ProbeSound

\* A probe starts.
LEMMA StartKeeps ==
  ASSUME HealthAssumption, HealthInv, NEW p \in Probe, NEW kind \in {"health", "live", "ready"}, StartProbe(p, kind)
  PROVE  HealthInv'
<1> DEFINE x == [NoProbe EXCEPT !.pc = "checking", !.kind = kind, !.running = Chosen(kind)]
<1>1. probing' = [probing EXCEPT ![p] = x] /\ checkers' = checkers /\ probes' \in 0..MaxProbes
  BY DEF StartProbe, HealthAssumption, HealthInv, HealthTyped
<1>2. /\ Chosen(kind) \subseteq 1..Len(checkers) /\ Chosen(kind) \in Indices
      /\ kind = "ready" => \A i \in Chosen(kind) : SeverityOf[checkers[i]] = "critical"
  BY DEF Chosen, HealthInv, HealthTyped, Indices
<1>3. /\ x \in ProbeRecord /\ x.running = Chosen(kind) /\ x.kind = kind /\ x.pc = "checking"
      /\ x.results = NoProbe.results /\ x.checks = NoProbe.checks /\ x.status = NoProbe.status
  <2>1. NoProbe \in ProbeRecord /\ kind \in {"none", "health", "live", "ready"}
    BY NoProbeSound
  <2>2. x \in ProbeRecord
    BY <1>2, <2>1 DEF ProbeRecord
  <2> QED
    BY <2>1, <2>2 DEF ProbeRecord
<1>4. NoProbe.results = {}
  BY DEF NoProbe
<1> HIDE DEF x
<1>5. ProbeSound(x)
  BY <1>2, <1>3, <1>4, NoProbeSound DEF ProbeSound
<1> QED
  BY <1>1, <1>3, <1>5, ProbeKeeps

\* One checker's result comes in.
LEMMA CheckKeeps ==
  ASSUME HealthAssumption, HealthInv, NEW p \in Probe, NEW i \in 1..Len(checkers), CheckDone(p, i)
  PROVE  HealthInv'
<1> DEFINE q == probing[p]
           c == checkers[i]
           name == NameOf[c]
<1>1. c \in HealthChecker /\ q \in ProbeRecord /\ ProbeSound(q) /\ i \in Nat
  BY DEF HealthInv, HealthTyped
<1>2. PICK r \in Outcomes(c) :
        probing' = [probing EXCEPT ![p].running = @ \ {i}, ![p].results = @ \cup {<<i, r>>},
                                   ![p].checks = [n \in DOMAIN @ \cup {name} |-> IF n = name THEN r ELSE @[n]],
                                   ![p].status = UpdateOverall(@, r, SeverityOf[c])]
  BY DEF CheckDone
<1>3. r \in Levels
  BY <1>1, <1>2, OutcomesAreLevels
<1>4. q.pc = "checking" /\ i \in q.running /\ checkers' = checkers /\ probes' \in 0..MaxProbes
  BY DEF CheckDone, HealthInv, HealthTyped
<1> DEFINE results == q.results \cup {<<i, r>>}
           checks == [n \in DOMAIN q.checks \cup {name} |-> IF n = name THEN r ELSE q.checks[n]]
           status == UpdateOverall(q.status, r, SeverityOf[c])
           x == [q EXCEPT !.running = @ \ {i}, !.results = results, !.checks = checks, !.status = status]
<1>5. probing' = [probing EXCEPT ![p] = x]
  BY <1>2 DEF HealthInv, HealthTyped
<1>6. q.checks \in CheckMaps /\ q.status \in Levels /\ q.results \in ResultSets /\ q.running \ {i} \in Indices
  BY <1>1 DEF ProbeRecord, Indices
<1>7. checks \in CheckMaps
  <2>1. PICK D \in SUBSET CheckNames : q.checks \in [D -> Levels]
    BY <1>6 DEF CheckMaps
  <2>2. name \in CheckNames
    BY <1>1 DEF CheckNames
  <2>3. D \cup {name} \in SUBSET CheckNames /\ checks \in [D \cup {name} -> Levels]
    BY <1>3, <2>1, <2>2
  <2> HIDE DEF checks, name
  <2> QED
    BY <2>3 DEF CheckMaps
<1>8. status \in Levels
  BY <1>6 DEF UpdateOverall, Levels
<1>9. results \in ResultSets
  BY <1>1, <1>3, <1>6 DEF ResultSets
<1>10. /\ status = "unhealthy" <=> q.status = "unhealthy" \/ (r = "unhealthy" /\ SeverityOf[c] = "critical")
       /\ status = "healthy" <=> q.status = "healthy" /\ r = "healthy"
  BY <1>3, <1>6 DEF UpdateOverall, Levels
<1>11. DOMAIN checks = DOMAIN q.checks \cup {name} /\ \A n \in DOMAIN checks : checks[n] = IF n = name THEN r ELSE q.checks[n]
  OBVIOUS
<1>12. \A y \in results : y \in q.results \/ (y[1] = i /\ y[2] = r)
  OBVIOUS
<1>13. <<i, r>> \in results /\ <<i, r>>[1] = i /\ <<i, r>>[2] = r /\ q.results \subseteq results
  OBVIOUS
<1> HIDE DEF results, checks, status
<1>14. /\ x \in ProbeRecord /\ x.running = q.running \ {i} /\ x.results = results /\ x.checks = checks
       /\ x.status = status /\ x.kind = q.kind /\ x.pc = "checking"
  BY <1>1, <1>4, <1>6, <1>7, <1>8, <1>9 DEF ProbeRecord
<1> HIDE DEF x, q
<1>15. ProbeSound(x)
  <2>1. x.running \subseteq 1..Len(checkers) /\ \A y \in results : y[1] \in 1..Len(checkers)
    BY <1>1, <1>12, <1>14 DEF ProbeSound
  <2>2. q.kind = "ready" => (\A j \in x.running : SeverityOf[checkers[j]] = "critical") /\ \A y \in results : SeverityOf[checkers[y[1]]] = "critical"
    BY <1>1, <1>4, <1>12, <1>14 DEF ProbeSound
  <2>3. status = "unhealthy" <=> \E y \in results : y[2] = "unhealthy" /\ SeverityOf[checkers[y[1]]] = "critical"
    BY <1>1, <1>10, <1>12, <1>13 DEF ProbeSound
  <2>4. status = "healthy" <=> \A y \in results : y[2] = "healthy"
    BY <1>1, <1>10, <1>12, <1>13 DEF ProbeSound
  <2>5. DOMAIN checks = {NameOf[checkers[y[1]]] : y \in results}
    BY <1>1, <1>11, <1>12, <1>13 DEF ProbeSound
  <2>6. \A n \in DOMAIN checks : \E y \in results : NameOf[checkers[y[1]]] = n /\ y[2] = checks[n]
    BY <1>1, <1>11, <1>13 DEF ProbeSound
  <2> QED
    BY <1>14, <2>1, <2>2, <2>3, <2>4, <2>5, <2>6 DEF ProbeSound
<1> QED
  BY <1>4, <1>5, <1>14, <1>15, ProbeKeeps

\* All results are in and the probe is answered, or its request ends.
LEMMA AnswerKeeps == ASSUME HealthAssumption, HealthInv, NEW p \in Probe, AnswerProbe(p) \/ EndProbe(p) PROVE HealthInv'
<1>1. checkers' = checkers /\ probes' \in 0..MaxProbes
  BY DEF AnswerProbe, EndProbe, HealthInv, HealthTyped
<1>2. CASE EndProbe(p)
  BY <1>1, <1>2, NoProbeSound, ProbeKeeps DEF EndProbe
<1>3. CASE AnswerProbe(p)
  <2> DEFINE q == probing[p]
             code == StatusCode(q.status)
             x == [q EXCEPT !.pc = "done", !.code = code]
  <2>1. q \in ProbeRecord /\ ProbeSound(q) /\ probing' = [probing EXCEPT ![p] = x]
    BY <1>3 DEF AnswerProbe, HealthInv, HealthTyped
  <2>2. code \in Codes
    BY DEF StatusCode, Codes
  <2>3. /\ x \in ProbeRecord /\ x.running = q.running /\ x.results = q.results /\ x.checks = q.checks
        /\ x.status = q.status /\ x.kind = q.kind /\ x.code = code
    <3> HIDE DEF code
    <3> QED
      BY <2>1, <2>2 DEF ProbeRecord
  <2> HIDE DEF x, q
  <2>4. ProbeSound(x)
    BY <2>1, <2>3 DEF ProbeSound
  <2> QED
    BY <1>1, <2>1, <2>3, <2>4, ProbeKeeps
<1> QED
  BY <1>2, <1>3

\* Every step of registry and probes keeps the invariant.
LEMMA HealthStep == ASSUME HealthAssumption, HealthInv, [HealthNext]_healthVars PROVE HealthInv'
<1>1. CASE UNCHANGED healthVars
  BY <1>1 DEF healthVars, HealthInv, HealthTyped, ProbeSound
<1>2. ASSUME NEW c \in HealthChecker, RegisterChecker(c) PROVE HealthInv'
  BY <1>2, RegisterKeeps
<1>3. ASSUME NEW p \in Probe, NEW kind \in {"health", "live", "ready"}, StartProbe(p, kind) PROVE HealthInv'
  BY <1>3, StartKeeps
<1>4. ASSUME NEW p \in Probe, NEW i \in 1..Len(checkers), CheckDone(p, i) PROVE HealthInv'
  BY <1>4, CheckKeeps
<1>5. ASSUME NEW p \in Probe, AnswerProbe(p) \/ EndProbe(p) PROVE HealthInv'
  BY <1>5, AnswerKeeps
<1> QED
  BY <1>1, <1>2, <1>3, <1>4, <1>5 DEF HealthNext

\* The health endpoints: for any checkers, names, severities and probes, the answer is the one
\* that the results make, in whatever order the checkers finish and whatever is registered meanwhile.
THEOREM HealthIsOrderFree == ASSUME HealthAssumption PROVE HealthSpec => []AnswerIsOrderFree
<1>1. HealthInit => HealthInv
  BY HealthInitInv
<1>2. HealthInv /\ [HealthNext]_healthVars => HealthInv'
  BY HealthStep
<1>3. HealthInv => AnswerIsOrderFree
  BY HealthInvImplies
<1> QED
  BY <1>1, <1>2, <1>3, PTL DEF HealthSpec

(***************************************************************************)
(* Token keys: refreshes side by side                                      *)
(***************************************************************************)

Underway == {"cached", "fetch", "store", "lookup"}
Good(r) == token[r].alg = "RS" /\ token[r].signer = token[r].kid /\ token[r].fault = "none" /\ requirement[r] # "public"

\* The key of a request that nothing disturbed is published, is in every answer that a
\* Refresh has yet to store, and is in the cache once the request's own Refresh is over.
KeySound(r) ==
    /\ caller[r] \in Underway => token[r].kid \in published
    /\ caller[r] \in Underway => \A q \in Refresher : caller[q] = "store" => token[r].kid \in fetched[q]
    /\ caller[r] = "lookup" => token[r].kid \in keys
    /\ caller[r] = "done" /\ Good(r) => verdict[r] = "user"

\* Only a request with a token comes to the lookup.
TokensHeld == \A r \in Request : caller[r] \in Underway => token[r] \in Token

KeysInv == KeysTypeOK /\ TokensHeld /\ \A r \in Request \ disturbed : KeySound(r)

\* What the property says follows.
LEMMA KeysInvImplies == ASSUME KeysInv PROVE NewKeyAccepted
  BY DEF KeysInv, KeySound, Good, NewKeyAccepted

\* Nobody has asked yet.
LEMMA KeysInitInv == ASSUME KeysInit PROVE KeysInv
<1>1. KeysTypeOK
  <2>1. 0 \in 0..MaxRotations
    BY KeysAssumption
  <2>2. "public" \in Requirement /\ "none" \in Verdict
    BY DEF Requirement, Verdict
  <2> QED
    BY <2>1, <2>2 DEF KeysInit, KeysTypeOK
<1>2. ASSUME NEW r \in Request PROVE KeySound(r)
  BY DEF KeysInit, KeySound, Underway, Refresher
<1>3. TokensHeld
  BY DEF KeysInit, TokensHeld, Underway, Refresher
<1> QED
  BY <1>1, <1>2, <1>3 DEF KeysInv

\* Every verdict is one; the right key accepts a good token.
LEMMA JudgeRight ==
  ASSUME KeysTypeOK, NEW r \in Request, NEW key
  PROVE  Judge(r, key) \in Verdict /\ (Good(r) /\ key = token[r].kid => Judge(r, key) = "user")
<1>1. token[r].fault \in {"none", "expired", "issuer", "audience"}
  BY DEF KeysTypeOK, Token, NoToken
<1> QED
  BY <1>1 DEF Judge, Refused, Verdict, Error, Good

\* The issuer's keys change: requests whose key goes are disturbed.
LEMMA RotateKeeps == ASSUME KeysInv, NEW new \in SUBSET Kid, Rotate(new) PROVE KeysInv'
<1>1. /\ published' = new /\ disturbed' = disturbed \cup {r \in Request : token[r].kid \notin new}
      /\ UNCHANGED <<keys, loopOn, caller, fetched, token, requirement, verdict>>
  BY DEF Rotate
<1>2. KeysTypeOK'
  <2>1. rotations' \in 0..MaxRotations
    BY KeysAssumption DEF Rotate, KeysInv, KeysTypeOK
  <2> QED
    BY <1>1, <2>1 DEF KeysInv, KeysTypeOK
<1>3. ASSUME NEW r \in Request \ disturbed' PROVE KeySound(r)'
  <2>1. r \notin disturbed /\ token[r].kid \in new
    BY <1>1
  <2> QED
    BY <1>1, <2>1 DEF KeysInv, KeySound, Good
<1> QED
  BY <1>1, <1>2, <1>3 DEF KeysInv, TokensHeld

\* A request comes in, or goes.
LEMMA AuthenticateKeeps ==
  ASSUME KeysInv, NEW r \in Request, NEW tok \in Tokens \cup {NoToken}, NEW need \in Requirement, Authenticate(r, tok, need)
  PROVE  KeysInv'
<1>1. /\ token' = [token EXCEPT ![r] = tok] /\ requirement' = [requirement EXCEPT ![r] = need]
      /\ UNCHANGED <<published, keys, loopOn, fetched, rotations>> /\ caller[r] = "idle"
      /\ disturbed' = IF tok.kid \in published /\ \A q \in Refresher : caller[q] # "store" THEN disturbed \ {r} ELSE disturbed \cup {r}
  BY DEF Authenticate
<1>2. \/ caller' = [caller EXCEPT ![r] = "cached"] /\ verdict' = verdict /\ tok # NoToken
      \/ /\ caller' = [caller EXCEPT ![r] = "done"] /\ (need = "public" \/ tok = NoToken)
         /\ \E v \in Verdict : verdict' = [verdict EXCEPT ![r] = v]
  BY DEF Authenticate, Finish, Verdict
<1>3. r \in Refresher /\ \A q \in Request : q \in Refresher
  BY DEF Refresher
<1>4. KeysTypeOK'
  <2>1. tok \in Token \cup {NoToken}
    BY TokensAssumption
  <2>2. token' \in [Request -> Token \cup {NoToken}] /\ requirement' \in [Request -> Requirement]
    BY <1>1, <2>1 DEF KeysInv, KeysTypeOK
  <2>3. caller' \in [Refresher -> {"idle", "cached", "fetch", "store", "lookup", "done"}] /\ verdict' \in [Request -> Verdict]
    BY <1>2, <1>3 DEF KeysInv, KeysTypeOK
  <2>4. disturbed' \subseteq Request
    BY <1>1 DEF KeysInv, KeysTypeOK
  <2> QED
    BY <1>1, <2>2, <2>3, <2>4 DEF KeysInv, KeysTypeOK
<1>5. \A q \in Refresher : caller'[q] = "store" => caller[q] = "store"
  BY <1>2 DEF KeysInv, KeysTypeOK
<1>6. token'[r] = tok /\ requirement'[r] = need /\ caller'[r] \in {"cached", "done"}
  BY <1>1, <1>2, <1>3 DEF KeysInv, KeysTypeOK
<1>7. ASSUME NEW q \in Request \ disturbed' PROVE KeySound(q)'
  <2>1. CASE q = r
    <3>1. tok.kid \in published /\ \A p \in Refresher : caller[p] # "store"
      BY <1>1, <2>1
    <3>2. caller'[r] = "done" => ~Good(r)'
      <4>1. NoToken.alg # "RS"
        BY DEF NoToken
      <4>2. caller'[r] = "done" => need = "public" \/ tok = NoToken
        BY <1>2, <1>3 DEF KeysInv, KeysTypeOK
      <4> QED
        BY <1>6, <4>1, <4>2 DEF Good
    <3> QED
      BY <1>1, <1>5, <1>6, <2>1, <3>1, <3>2 DEF KeySound
  <2>2. CASE q # r
    <3>1. /\ token'[q] = token[q] /\ requirement'[q] = requirement[q] /\ caller'[q] = caller[q] /\ verdict'[q] = verdict[q]
          /\ q \notin disturbed
      BY <1>1, <1>2, <1>3, <2>2 DEF KeysInv, KeysTypeOK
    <3> QED
      BY <1>1, <1>5, <3>1 DEF KeysInv, KeySound, Good
  <2> QED
    BY <2>1, <2>2
<1>8. TokensHeld'
  <2>1. ASSUME NEW q \in Request, caller'[q] \in Underway PROVE token'[q] \in Token
    <3>1. CASE q = r
      <4>1. caller'[r] # "done"
        BY <2>1, <3>1 DEF Underway
      <4>2. tok # NoToken
        BY <1>2, <1>3, <4>1 DEF KeysInv, KeysTypeOK
      <4> QED
        BY <1>6, <3>1, <4>2, TokensAssumption
    <3>2. CASE q # r
      BY <1>1, <1>2, <1>3, <2>1, <3>2 DEF KeysInv, KeysTypeOK, TokensHeld
    <3> QED
      BY <3>1, <3>2
  <2> QED
    BY <2>1 DEF TokensHeld
<1> QED
  BY <1>4, <1>7, <1>8 DEF KeysInv

\* A request is over.
LEMMA AgainKeeps == ASSUME KeysInv, NEW r \in Request, Again(r) PROVE KeysInv'
<1>1. /\ caller' = [caller EXCEPT ![r] = "idle"] /\ token' = [token EXCEPT ![r] = NoToken]
      /\ requirement' = [requirement EXCEPT ![r] = "public"] /\ verdict' = [verdict EXCEPT ![r] = "none"]
      /\ disturbed' = disturbed \ {r} /\ UNCHANGED <<published, keys, loopOn, fetched, rotations>> /\ r \in Refresher
  BY DEF Again, Refresher
<1>2. KeysTypeOK'
  BY <1>1 DEF KeysInv, KeysTypeOK, Requirement, Verdict
<1>3. \A q \in Refresher : caller'[q] = "store" => caller[q] = "store"
  BY <1>1 DEF KeysInv, KeysTypeOK
<1>4. ASSUME NEW q \in Request \ disturbed' PROVE KeySound(q)'
  <2>1. CASE q = r
    <3>1. caller'[q] = "idle"
      BY <1>1, <2>1 DEF KeysInv, KeysTypeOK
    <3> QED
      BY <3>1 DEF KeySound, Underway
  <2>2. CASE q # r
    <3>1. /\ token'[q] = token[q] /\ requirement'[q] = requirement[q] /\ caller'[q] = caller[q] /\ verdict'[q] = verdict[q]
          /\ q \notin disturbed
      BY <1>1, <2>2 DEF KeysInv, KeysTypeOK
    <3> QED
      BY <1>1, <1>3, <3>1 DEF KeysInv, KeySound, Good
  <2> QED
    BY <2>1, <2>2
<1>5. TokensHeld'
  BY <1>1 DEF KeysInv, KeysTypeOK, TokensHeld, Underway, Refresher
<1> QED
  BY <1>2, <1>4, <1>5 DEF KeysInv

\* A request takes its verdict, with the right key or disturbed.
LEMMA FinishKeeps ==
  ASSUME KeysInv, NEW r \in Request, NEW key, Finish(r, Judge(r, key)), disturbed \subseteq disturbed', disturbed' \subseteq Request,
         UNCHANGED <<published, keys, loopOn, token, requirement, rotations>>, fetched' \in [Refresher -> SUBSET Kid],
         \A q \in Refresher \ {r} : fetched'[q] = fetched[q],
         r \notin disturbed' /\ Good(r) => key = token[r].kid
  PROVE  KeysInv'
<1>1. /\ verdict' = [verdict EXCEPT ![r] = Judge(r, key)] /\ caller' = [caller EXCEPT ![r] = "done"] /\ r \in Refresher
      /\ KeysTypeOK
  BY DEF Finish, Refresher, KeysInv
<1>2. Judge(r, key) \in Verdict /\ (Good(r) /\ key = token[r].kid => Judge(r, key) = "user")
  BY <1>1, JudgeRight
<1>3. KeysTypeOK'
  BY <1>1, <1>2 DEF KeysTypeOK
<1>4. \A q \in Refresher : caller'[q] = "store" => caller[q] = "store" /\ fetched'[q] = fetched[q]
  BY <1>1 DEF KeysTypeOK
<1>5. caller'[r] = "done" /\ verdict'[r] = Judge(r, key)
  BY <1>1 DEF KeysTypeOK
<1>6. ASSUME NEW q \in Request \ disturbed' PROVE KeySound(q)'
  <2>1. CASE q = r
    BY <1>2, <1>5, <2>1 DEF KeySound, Good, Underway
  <2>2. CASE q # r
    <3>1. caller'[q] = caller[q] /\ verdict'[q] = verdict[q] /\ q \notin disturbed
      BY <1>1, <2>2 DEF KeysTypeOK, Refresher
    <3> QED
      BY <1>4, <3>1 DEF KeysInv, KeySound, Good
  <2> QED
    BY <2>1, <2>2
<1>7. TokensHeld'
  BY <1>1, <1>5 DEF KeysInv, KeysTypeOK, TokensHeld, Underway, Refresher
<1> QED
  BY <1>3, <1>6, <1>7 DEF KeysInv

\* A goroutine begins to fetch.
LEMMA FetchBegins ==
  ASSUME KeysInv, NEW r \in Refresher, caller' = [caller EXCEPT ![r] = "fetch"], caller[r] \in {"idle", "cached"},
         r \in Request => caller[r] = "cached",
         UNCHANGED <<published, keys, loopOn, fetched, token, requirement, verdict, rotations, disturbed>>
  PROVE  KeysInv'
<1>1. KeysTypeOK'
  BY DEF KeysInv, KeysTypeOK
<1>2. \A q \in Refresher : caller'[q] = "store" => caller[q] = "store"
  BY DEF KeysInv, KeysTypeOK
<1>3. ASSUME NEW q \in Request \ disturbed' PROVE KeySound(q)'
  <2>1. KeySound(q) /\ q \in Refresher
    BY DEF KeysInv, Refresher
  <2>2. caller'[q] = caller[q] \/ (caller[q] \in Underway /\ caller'[q] = "fetch")
    BY <2>1 DEF KeysInv, KeysTypeOK, Underway
  <2> QED
    BY <1>2, <2>1, <2>2 DEF KeySound, Good
<1>4. TokensHeld'
  BY DEF KeysInv, KeysTypeOK, TokensHeld, Underway, Refresher
<1> QED
  BY <1>1, <1>3, <1>4 DEF KeysInv

\* The cache is asked for the key.
LEMMA GetKeyKeeps == ASSUME KeysInv, NEW r \in Request, GetKey(r) PROVE KeysInv'
<1>1. /\ UNCHANGED <<published, keys, loopOn, fetched, token, requirement, rotations, disturbed>> /\ caller[r] = "cached"
      /\ fetched \in [Refresher -> SUBSET Kid] /\ r \in Refresher
  BY DEF GetKey, KeysInv, KeysTypeOK, Refresher
<1>2. CASE caller' = [caller EXCEPT ![r] = "fetch"] /\ UNCHANGED verdict
  BY <1>1, <1>2, FetchBegins
<1>3. ASSUME NEW key, Finish(r, Judge(r, key)), Good(r) => key = token[r].kid PROVE KeysInv'
  <2>1. disturbed \subseteq disturbed' /\ disturbed' \subseteq Request
    BY <1>1 DEF KeysInv, KeysTypeOK
  <2> QED
    BY <1>1, <1>3, <2>1, FinishKeeps
<1>4. token[r].alg \in {"HS", "RS", "other"}
  BY <1>1 DEF KeysInv, TokensHeld, Underway, Token
<1>5. CASE token[r].alg = "HS"
  <2>1. Finish(r, Judge(r, IF Secret THEN "secret" ELSE "none")) /\ ~Good(r)
    BY <1>5 DEF GetKey, Good
  <2> QED
    BY <1>3, <2>1
<1>6. CASE token[r].alg = "other"
  <2>1. Finish(r, Judge(r, "none")) /\ ~Good(r)
    BY <1>6 DEF GetKey, Good
  <2> QED
    BY <1>3, <2>1
<1>7. CASE token[r].alg = "RS"
  <2>1. Finish(r, Judge(r, token[r].kid)) \/ (caller' = [caller EXCEPT ![r] = "fetch"] /\ UNCHANGED verdict)
    BY <1>7 DEF GetKey
  <2> QED
    BY <1>2, <1>3, <2>1
<1> QED
  BY <1>4, <1>5, <1>6, <1>7

\* A Refresh gets its answer, or fails.
LEMMA FetchKeeps == ASSUME KeysInv, NEW r \in Refresher, NEW ok \in BOOLEAN, Fetch(r, ok) PROVE KeysInv'
<1>1. /\ caller[r] = "fetch" /\ fetched' = [fetched EXCEPT ![r] = IF ok THEN published ELSE {}]
      /\ UNCHANGED <<published, keys, loopOn, token, requirement, rotations>>
      /\ disturbed' = IF ok THEN disturbed ELSE disturbed \cup ({r} \cap Request)
  BY DEF Fetch
<1>2. fetched' \in [Refresher -> SUBSET Kid] /\ \A q \in Refresher \ {r} : fetched'[q] = fetched[q]
  BY <1>1 DEF KeysInv, KeysTypeOK
<1>3. CASE ok
  <2>1. caller' = [caller EXCEPT ![r] = "store"] /\ verdict' = verdict /\ disturbed' = disturbed
    BY <1>1, <1>3 DEF Fetch
  <2>2. KeysTypeOK'
    BY <1>1, <1>2, <2>1 DEF KeysInv, KeysTypeOK
  <2>3. \A q \in Refresher : caller'[q] = "store" => fetched'[q] = published \/ (caller[q] = "store" /\ fetched'[q] = fetched[q])
    BY <1>1, <1>3, <2>1 DEF KeysInv, KeysTypeOK
  <2>4. ASSUME NEW q \in Request \ disturbed' PROVE KeySound(q)'
    <3>1. KeySound(q) /\ q \in Refresher
      BY <2>1 DEF KeysInv, Refresher
    <3>2. caller'[q] = caller[q] \/ (caller[q] \in Underway /\ caller'[q] = "store")
      BY <1>1, <2>1, <3>1 DEF KeysInv, KeysTypeOK, Underway
    <3> QED
      BY <1>1, <2>1, <2>3, <3>1, <3>2 DEF KeySound, Good
  <2>5. TokensHeld'
    BY <1>1, <2>1 DEF KeysInv, KeysTypeOK, TokensHeld, Underway, Refresher
  <2> QED
    BY <2>2, <2>4, <2>5 DEF KeysInv
<1>4. CASE ~ok /\ r = Loop
  <2>1. caller' = [caller EXCEPT ![r] = "idle"] /\ verdict' = verdict /\ disturbed' = disturbed
    BY <1>1, <1>4, KeysAssumption DEF Fetch
  <2>2. KeysTypeOK'
    BY <1>1, <1>2, <2>1 DEF KeysInv, KeysTypeOK
  <2>3. \A q \in Refresher : caller'[q] = "store" => caller[q] = "store" /\ fetched'[q] = fetched[q]
    BY <1>2, <2>1 DEF KeysInv, KeysTypeOK
  <2>4. ASSUME NEW q \in Request \ disturbed' PROVE KeySound(q)'
    <3>1. KeySound(q) /\ q \in Refresher /\ q # r
      BY <1>4, <2>1, KeysAssumption DEF KeysInv, Refresher
    <3>2. caller'[q] = caller[q]
      BY <2>1, <3>1 DEF KeysInv, KeysTypeOK
    <3> QED
      BY <1>1, <2>1, <2>3, <3>1, <3>2 DEF KeySound, Good
  <2>5. TokensHeld'
    BY <1>1, <2>1 DEF KeysInv, KeysTypeOK, TokensHeld, Underway, Refresher
  <2> QED
    BY <2>2, <2>4, <2>5 DEF KeysInv
<1>5. CASE ~ok /\ r # Loop
  <2>1. Finish(r, Judge(r, StaticKey)) /\ r \in Request /\ disturbed' = disturbed \cup {r}
    BY <1>1, <1>5 DEF Fetch, Refresher
  <2>2. disturbed \subseteq disturbed' /\ disturbed' \subseteq Request /\ r \in disturbed'
    BY <2>1 DEF KeysInv, KeysTypeOK
  <2> QED
    BY <1>1, <1>2, <2>1, <2>2, FinishKeeps
<1> QED
  BY <1>3, <1>4, <1>5

\* A Refresh replaces the keys.
LEMMA StoreAnswerKeeps == ASSUME KeysInv, NEW r \in Refresher, Store(r) PROVE KeysInv'
<1>1. /\ caller[r] = "store" /\ keys' = fetched[r] /\ fetched' = [fetched EXCEPT ![r] = {}]
      /\ caller' = [caller EXCEPT ![r] = IF r = Loop THEN "idle" ELSE "lookup"]
      /\ UNCHANGED <<published, loopOn, token, requirement, verdict, rotations, disturbed>>
  BY DEF Store, NewKeys
<1>2. KeysTypeOK'
  BY <1>1 DEF KeysInv, KeysTypeOK
<1>3. \A q \in Refresher : caller'[q] = "store" => caller[q] = "store" /\ fetched'[q] = fetched[q]
  BY <1>1 DEF KeysInv, KeysTypeOK
<1>4. ASSUME NEW q \in Request \ disturbed' PROVE KeySound(q)'
  <2>1. KeySound(q) /\ q \in Refresher /\ q # Loop
    BY <1>1, KeysAssumption DEF KeysInv, Refresher
  <2>2. caller'[q] = caller[q] \/ (q = r /\ caller'[q] = "lookup")
    BY <1>1, <2>1 DEF KeysInv, KeysTypeOK
  <2>3. caller[q] \in Underway => token[q].kid \in keys'
    BY <1>1, <2>1 DEF KeySound
  <2>4. "lookup" \in Underway /\ "store" \in Underway
    BY DEF Underway
  <2> QED
    BY <1>1, <1>3, <2>1, <2>2, <2>3, <2>4 DEF KeySound, Good
<1>5. TokensHeld'
  BY <1>1 DEF KeysInv, KeysTypeOK, TokensHeld, Underway, Refresher
<1> QED
  BY <1>2, <1>4, <1>5 DEF KeysInv

\* The key is looked up again after the Refresh.
LEMMA LookupKeeps == ASSUME KeysInv, NEW r \in Request, Lookup(r) PROVE KeysInv'
<1> DEFINE key == IF token[r].kid \in keys THEN token[r].kid ELSE StaticKey
<1>1. /\ UNCHANGED <<published, keys, loopOn, fetched, token, requirement, rotations, disturbed>> /\ caller[r] = "lookup"
      /\ fetched \in [Refresher -> SUBSET Kid] /\ Finish(r, Judge(r, key))
      /\ disturbed \subseteq disturbed' /\ disturbed' \subseteq Request
  BY DEF Lookup, KeysInv, KeysTypeOK
<1>2. r \notin disturbed' => key = token[r].kid
  BY <1>1 DEF KeysInv, KeySound
<1> HIDE DEF key
<1> QED
  BY <1>1, <1>2, FinishKeeps

\* Every step of issuer, requests and loop keeps the invariant.
LEMMA KeysStep == ASSUME KeysInv, [KeysNext]_keysVars PROVE KeysInv'
<1>1. CASE UNCHANGED keysVars
  BY <1>1 DEF keysVars, KeysInv, KeysTypeOK, TokensHeld, KeySound, Good
<1>2. ASSUME NEW new \in SUBSET Kid, Rotate(new) PROVE KeysInv'
  BY <1>2, RotateKeeps
<1>3. ASSUME NEW r \in Refresher, RefreshStep(r) PROVE KeysInv'
  BY <1>3, StoreAnswerKeeps, FetchKeeps DEF RefreshStep
<1>4. ASSUME NEW r \in Request, RequestStep(r) PROVE KeysInv'
  <2>1. r \in Refresher
    BY DEF Refresher
  <2> QED
    BY <1>3, <1>4, <2>1, GetKeyKeeps, LookupKeeps DEF RequestStep
<1>5. ASSUME NEW r \in Request, Again(r) PROVE KeysInv'
  BY <1>5, AgainKeeps
<1>6. ASSUME NEW r \in Request, NEW need \in Requirement, NEW tok \in Tokens \cup {NoToken}, Authenticate(r, tok, need)
      PROVE  KeysInv'
  BY <1>6, AuthenticateKeeps
<1>7. CASE StartJWKSRefresh \/ StopLoop
  BY <1>7 DEF StartJWKSRefresh, StopLoop, KeysInv, KeysTypeOK, TokensHeld, KeySound, Good
<1>8. CASE RefreshTick
  <2>1. Loop \in Refresher /\ Loop \notin Request
    BY KeysAssumption DEF Refresher
  <2> QED
    BY <1>8, <2>1, FetchBegins DEF RefreshTick
<1>9. CASE RefreshStep(Loop)
  BY <1>3, <1>9 DEF Refresher
<1> QED
  BY <1>1, <1>2, <1>4, <1>5, <1>6, <1>7, <1>8, <1>9 DEF KeysNext

\* ValidateToken with the JWKS cache: for any keys, tokens and requests, a good token under a
\* key published all through the request is accepted, whatever refreshes run side by side,
\* unless the endpoint failed or an answer fetched before the request was stored during it.
THEOREM NewKeysAreAccepted == KeysSpec => []NewKeyAccepted
<1>1. KeysInit => KeysInv
  BY KeysInitInv
<1>2. KeysInv /\ [KeysNext]_keysVars => KeysInv'
  BY KeysStep
<1>3. KeysInv => NewKeyAccepted
  BY KeysInvImplies
<1> QED
  BY <1>1, <1>2, <1>3, PTL DEF KeysSpec

(***************************************************************************)
(* Roles above roles                                                       *)
(***************************************************************************)

\* A set that has, with a role, the roles above it.
Closed(S, above) == \A q \in S : above[q] \subseteq S

\* The closure is the least closed set of roles that has the first ones.
LEMMA ClosureIsLeast ==
  ASSUME NEW rs \in SUBSET Role, NEW above \in [Role -> SUBSET Role]
  PROVE  /\ Closure(rs, above) \in SUBSET Role /\ rs \subseteq Closure(rs, above) /\ Closed(Closure(rs, above), above)
         /\ \A S \in SUBSET Role : rs \subseteq S /\ Closed(S, above) => Closure(rs, above) \subseteq S
<1>1. Closed(Closure(rs, above), above)
  <2> SUFFICES ASSUME NEW q \in Closure(rs, above), NEW x \in above[q] PROVE x \in Closure(rs, above)
    BY DEF Closed
  <2>1. q \in Role /\ x \in Role
    BY DEF Closure
  <2>2. ASSUME NEW S \in SUBSET Role, rs \subseteq S, \A p \in S : above[p] \subseteq S PROVE x \in S
    <3>1. q \in S
      BY <2>2 DEF Closure
    <3> QED
      BY <2>2, <3>1
  <2> QED
    BY <2>1, <2>2 DEF Closure
<1> QED
  BY <1>1 DEF Closure, Closed

\* More roles, or more above each, have more above them.
LEMMA ClosureGrows ==
  ASSUME NEW rs \in SUBSET Role, NEW qs \in SUBSET Role, NEW above \in [Role -> SUBSET Role], NEW more \in [Role -> SUBSET Role],
         rs \subseteq Closure(qs, more), \A r \in Role : above[r] \subseteq more[r]
  PROVE  Closure(rs, above) \subseteq Closure(qs, more)
<1>1. Closure(qs, more) \in SUBSET Role /\ Closed(Closure(qs, more), more)
  BY ClosureIsLeast
<1>2. Closed(Closure(qs, more), above)
  BY <1>1 DEF Closed
<1> QED
  BY <1>1, <1>2, ClosureIsLeast

(***************************************************************************)
(* The policy                                                              *)
(***************************************************************************)

LEMMA PolicyAboveTyped ==
  ASSUME NEW roles \in [Role -> Seq(Role) \cup {Absent}]
  PROVE  AboveInPolicy(roles) \in [Role -> SUBSET Role]
<1>1. ASSUME NEW r \in Role, roles[r] # Absent PROVE ToSet(roles[r]) \subseteq Role
  <2>1. roles[r] \in Seq(Role)
    BY <1>1
  <2> QED
    BY <2>1 DEF ToSet
<1> QED
  BY <1>1 DEF AboveInPolicy

\* The cycle check: what is above the parents and what it has visited is visited or still to do,
\* and the role itself is not among those.
PutSound(put, roles) ==
    /\ put.role \notin put.visited
    /\ ToSet(put.parents) \subseteq put.visited \cup ToSet(put.work)
    /\ \A q \in put.visited : AboveInPolicy(roles)[q] \subseteq put.visited \cup ToSet(put.work)

PolicyInv == PolicyAcyclic /\ (putting # Absent => PutSound(putting, policy))

LEMMA DetectCycleKeeps == ASSUME AccessAssumption, PolicyInv, DetectCycle PROVE PolicyInv'
<1> DEFINE p == Head(putting.work)
           rest == Tail(putting.work)
<1>1. policy' = policy /\ putting \in Put /\ putting # Absent /\ putting.work # <<>> /\ PolicyTypeOK
  BY DEF DetectCycle, PolicyInv, PolicyAcyclic, PolicyTypeOK
<1>2. putting.work \in Seq(Role) /\ putting.role \in Role /\ putting.visited \in SUBSET Role /\ putting.parents \in ParentLists
  BY <1>1 DEF Put
<1>3. p \in Role /\ rest \in Seq(Role) /\ ToSet(putting.work) = {p} \cup ToSet(rest)
  <2> DEFINE w == putting.work
  <2>1. w \in Seq(Role) /\ w # <<>>
    BY <1>1, <1>2
  <2> HIDE DEF w
  <2>2. /\ Head(w) \in Role /\ Tail(w) \in Seq(Role) /\ Len(w) \in Nat \ {0} /\ Len(Tail(w)) = Len(w) - 1 /\ Head(w) = w[1]
        /\ DOMAIN w = 1..Len(w) /\ DOMAIN Tail(w) = 1..(Len(w) - 1)
        /\ \A k \in 1..(Len(w) - 1) : Tail(w)[k] = w[k + 1]
    BY <2>1
  <2>3. ASSUME NEW x \in ToSet(w) PROVE x \in {Head(w)} \cup ToSet(Tail(w))
    <3>1. PICK k \in 1..Len(w) : x = w[k]
      BY <2>2 DEF ToSet
    <3>2. CASE k = 1
      BY <2>2, <3>1, <3>2
    <3>3. CASE k # 1
      <4>1. k - 1 \in 1..(Len(w) - 1) /\ (k - 1) + 1 = k
        BY <2>2, <3>1, <3>3
      <4> QED
        BY <2>2, <3>1, <4>1 DEF ToSet
    <3> QED
      BY <3>2, <3>3
  <2>4. ASSUME NEW x \in ToSet(Tail(w)) PROVE x \in ToSet(w)
    <3>1. PICK k \in 1..(Len(w) - 1) : x = w[k + 1]
      BY <2>2 DEF ToSet
    <3>2. k + 1 \in 1..Len(w)
      BY <2>2, <3>1
    <3> QED
      BY <2>2, <3>1, <3>2 DEF ToSet
  <2>5. Head(w) \in ToSet(w)
    BY <2>2 DEF ToSet
  <2> QED
    BY <2>2, <2>3, <2>4, <2>5 DEF w
<1>4. putting' = IF p = putting.role THEN Absent
                 ELSE IF p \in putting.visited THEN [putting EXCEPT !.work = rest]
                 ELSE [putting EXCEPT !.work = Grandparents(p) \o rest, !.visited = putting.visited \cup {p}]
  BY DEF DetectCycle
<1> HIDE DEF p, rest
<1>5. SUFFICES PolicyTypeOK' /\ (putting' # Absent => PutSound(putting', policy))
  BY <1>1 DEF PolicyInv, PolicyAcyclic
<1>6. PutSound(putting, policy)
  BY <1>1 DEF PolicyInv
<1>7. CASE p = putting.role
  BY <1>1, <1>4, <1>7 DEF PolicyTypeOK
<1>8. CASE p # putting.role /\ p \in putting.visited
  <2>1. putting' = [putting EXCEPT !.work = rest]
    BY <1>4, <1>8
  <2>2. /\ putting' \in Put /\ putting'.role = putting.role /\ putting'.visited = putting.visited
        /\ putting'.parents = putting.parents /\ putting'.work = rest
    BY <1>1, <1>3, <2>1 DEF Put
  <2>3. PutSound(putting', policy)
    BY <1>3, <1>6, <1>8, <2>2 DEF PutSound
  <2> QED
    BY <1>1, <2>2, <2>3 DEF PolicyTypeOK
<1>9. CASE p # putting.role /\ p \notin putting.visited
  <2>1. putting' = [putting EXCEPT !.work = Grandparents(p) \o rest, !.visited = putting.visited \cup {p}]
    BY <1>4, <1>9
  <2>2. Grandparents(p) \in Seq(Role) /\ ToSet(Grandparents(p)) = AboveInPolicy(policy)[p]
    <3>1. policy[p] = Absent \/ policy[p] \in Seq(Role)
      BY <1>1, <1>3 DEF PolicyTypeOK
    <3>2. ToSet(<<>>) = {} /\ <<>> \in Seq(Role)
      BY DEF ToSet
    <3> QED
      BY <1>3, <3>1, <3>2 DEF Grandparents, AboveInPolicy
  <2>3. Grandparents(p) \o rest \in Seq(Role) /\ ToSet(Grandparents(p) \o rest) = ToSet(Grandparents(p)) \cup ToSet(rest)
    <3>1. \A s, t \in Seq(Role) : s \o t \in Seq(Role) /\ ToSet(s \o t) = ToSet(s) \cup ToSet(t)
      <4> SUFFICES ASSUME NEW s \in Seq(Role), NEW t \in Seq(Role)
                   PROVE  s \o t \in Seq(Role) /\ ToSet(s \o t) = ToSet(s) \cup ToSet(t)
        OBVIOUS
      <4>1. /\ s \o t \in Seq(Role) /\ Len(s \o t) = Len(s) + Len(t) /\ Len(s) \in Nat /\ Len(t) \in Nat
            /\ \A k \in 1..Len(s) : (s \o t)[k] = s[k]
            /\ \A k \in 1..Len(t) : (s \o t)[Len(s) + k] = t[k]
        OBVIOUS
      <4>2. DOMAIN (s \o t) = 1..(Len(s) + Len(t)) /\ DOMAIN s = 1..Len(s) /\ DOMAIN t = 1..Len(t)
        BY <4>1
      <4>3. ASSUME NEW x \in ToSet(s \o t) PROVE x \in ToSet(s) \cup ToSet(t)
        <5>1. PICK k \in 1..(Len(s) + Len(t)) : x = (s \o t)[k]
          BY <4>2 DEF ToSet
        <5>2. CASE k <= Len(s)
          BY <4>1, <4>2, <5>1, <5>2 DEF ToSet
        <5>3. CASE k > Len(s)
          <6>1. k - Len(s) \in 1..Len(t) /\ Len(s) + (k - Len(s)) = k
            BY <4>1, <5>1, <5>3
          <6> QED
            BY <4>1, <4>2, <5>1, <6>1 DEF ToSet
        <5> QED
          BY <4>1, <5>2, <5>3
      <4>4. ASSUME NEW x \in ToSet(s) PROVE x \in ToSet(s \o t)
        <5>1. PICK k \in 1..Len(s) : x = s[k]
          BY <4>2 DEF ToSet
        <5>2. k \in 1..(Len(s) + Len(t))
          BY <4>1, <5>1
        <5> QED
          BY <4>1, <4>2, <5>1, <5>2 DEF ToSet
      <4>5. ASSUME NEW x \in ToSet(t) PROVE x \in ToSet(s \o t)
        <5>1. PICK k \in 1..Len(t) : x = t[k]
          BY <4>2 DEF ToSet
        <5>2. Len(s) + k \in 1..(Len(s) + Len(t))
          BY <4>1, <5>1
        <5> QED
          BY <4>1, <4>2, <5>1, <5>2 DEF ToSet
      <4> QED
        BY <4>1, <4>3, <4>4, <4>5
    <3> QED
      BY <1>3, <2>2, <3>1
  <2>4. /\ putting' \in Put /\ putting'.role = putting.role /\ putting'.visited = putting.visited \cup {p}
        /\ putting'.parents = putting.parents /\ putting'.work = Grandparents(p) \o rest
    BY <1>1, <1>2, <1>3, <2>1, <2>3 DEF Put
  <2>5. PutSound(putting', policy)
    BY <1>3, <1>6, <1>9, <2>2, <2>3, <2>4 DEF PutSound
  <2> QED
    BY <1>1, <2>4, <2>5 DEF PolicyTypeOK
<1> QED
  BY <1>7, <1>8, <1>9

\* A role whose cycle check found nothing is put above nothing that it has above itself.
LEMMA StoreRoleKeeps == ASSUME AccessAssumption, PolicyInv, StoreRole PROVE PolicyInv'
<1> DEFINE r == putting.role
           V == putting.visited
           ps == putting.parents
           A == AboveInPolicy(policy)
           B == AboveInPolicy(policy')
<1>1. putting \in Put /\ putting # Absent /\ putting.work = <<>> /\ PolicyTypeOK /\ putting' = Absent
  BY DEF StoreRole, PolicyInv, PolicyAcyclic, PolicyTypeOK
<1>2. /\ r \in Role /\ V \in SUBSET Role /\ ps \in ParentLists /\ ps \in Seq(Role)
      /\ policy \in [Role -> Seq(Role) \cup {Absent}]
  BY <1>1 DEF Put, PolicyTypeOK, AccessAssumption
<1>3. policy' = [policy EXCEPT ![r] = ps] /\ policy' \in [Role -> Seq(Role) \cup {Absent}]
  BY <1>2 DEF StoreRole
<1>4. A \in [Role -> SUBSET Role] /\ B \in [Role -> SUBSET Role]
  BY <1>2, <1>3, PolicyAboveTyped
<1>5. ToSet(putting.work) = {}
  BY <1>1 DEF ToSet
<1>6. r \notin V /\ ToSet(ps) \subseteq V /\ Closed(V, A)
  BY <1>1, <1>5 DEF PolicyInv, PutSound, Closed
<1>7. ps # Absent /\ B[r] = ToSet(ps) /\ \A q \in Role \ {r} : B[q] = A[q] /\ policy'[q] = policy[q]
  <2>1. ps # Absent
    BY <1>2 DEF AccessAssumption
  <2> QED
    BY <1>2, <1>3, <2>1 DEF AboveInPolicy
<1>8. policy'[r] = ps
  BY <1>2, <1>3
<1> HIDE DEF r, V, ps, A, B
<1>9. Closed(V, B)
  BY <1>2, <1>6, <1>7 DEF Closed
<1>10. r \notin Closure(ToSet(ps), B)
  BY <1>2, <1>4, <1>6, <1>9, ClosureIsLeast
<1>11. ASSUME NEW q \in Role, q # r, policy[q] # Absent PROVE q \notin Closure(ToSet(policy[q]), B)
  <2> DEFINE S == Closure(ToSet(policy[q]), A)
             T == S \cup V
  <2>1. ToSet(policy[q]) = A[q] /\ A[q] \in SUBSET Role
    BY <1>4, <1>11 DEF A, AboveInPolicy
  <2>2. S \in SUBSET Role /\ A[q] \subseteq S /\ Closed(S, A) /\ q \notin S
    BY <1>4, <1>11, <2>1, ClosureIsLeast DEF PolicyInv, PolicyAcyclic, A
  <2>3. CASE r \notin S
    <3>1. Closed(S, B)
      BY <1>7, <2>2, <2>3 DEF Closed
    <3> HIDE DEF S
    <3>2. Closure(A[q], B) \subseteq S
      BY <1>4, <2>1, <2>2, <3>1, ClosureIsLeast
    <3> QED
      BY <2>1, <2>2, <3>2
  <2>4. CASE r \in S
    <3>1. q \notin V
      <4> SUFFICES ASSUME q \in V PROVE FALSE
        OBVIOUS
      <4>1. A[q] \subseteq V
        BY <1>6 DEF Closed
      <4>2. S \subseteq V
        BY <1>2, <1>4, <1>6, <2>1, <4>1, ClosureIsLeast
      <4> QED
        BY <1>6, <2>4, <4>2
    <3> HIDE DEF S
    <3>2. Closed(T, B)
      <4> SUFFICES ASSUME NEW x \in T PROVE B[x] \subseteq T
        BY DEF Closed
      <4>1. CASE x = r
        BY <1>6, <1>7, <4>1
      <4>2. CASE x # r
        BY <1>2, <1>6, <1>7, <2>2, <4>2 DEF Closed
      <4> QED
        BY <4>1, <4>2
    <3>3. T \in SUBSET Role /\ A[q] \subseteq T /\ q \notin T
      BY <1>2, <2>2, <3>1
    <3> HIDE DEF T
    <3>4. Closure(A[q], B) \subseteq T
      BY <1>4, <2>1, <3>2, <3>3, ClosureIsLeast
    <3> QED
      BY <2>1, <3>3, <3>4
  <2> QED
    BY <2>3, <2>4
<1>12. ASSUME NEW q \in Role, policy'[q] # Absent PROVE q \notin Closure(ToSet(policy'[q]), B)
  <2>1. CASE q = r
    BY <1>8, <1>10, <2>1
  <2>2. CASE q # r
    BY <1>7, <1>11, <1>12, <2>2
  <2> QED
    BY <2>1, <2>2
<1> QED
  BY <1>1, <1>3, <1>12 DEF PolicyInv, PolicyAcyclic, PolicyTypeOK, B

LEMMA RemoveRoleKeeps == ASSUME AccessAssumption, PolicyInv, NEW r \in Role, RemoveRole(r) PROVE PolicyInv'
<1> DEFINE A == AboveInPolicy(policy)
           B == AboveInPolicy(policy')
<1>1. /\ policy \in [Role -> Seq(Role) \cup {Absent}] /\ policy' = [policy EXCEPT ![r] = Absent]
      /\ policy' \in [Role -> Seq(Role) \cup {Absent}] /\ putting = Absent /\ putting' = Absent
  BY DEF RemoveRole, PolicyInv, PolicyAcyclic, PolicyTypeOK
<1>2. A \in [Role -> SUBSET Role] /\ B \in [Role -> SUBSET Role]
  BY <1>1, PolicyAboveTyped
<1>3. \A q \in Role : B[q] \subseteq A[q]
  BY <1>1 DEF AboveInPolicy
<1>4. ASSUME NEW q \in Role, policy'[q] # Absent PROVE q \notin Closure(ToSet(policy'[q]), B)
  <2>1. policy'[q] = policy[q]
    BY <1>1, <1>4
  <2>2. ToSet(policy[q]) = A[q]
    BY <1>4, <2>1 DEF AboveInPolicy
  <2>3. q \notin Closure(A[q], A)
    BY <1>4, <2>1, <2>2 DEF PolicyInv, PolicyAcyclic
  <2> HIDE DEF A, B
  <2>4. Closure(A[q], B) \subseteq Closure(A[q], A)
    BY <1>2, <1>3, ClosureIsLeast, ClosureGrows
  <2> QED
    BY <2>1, <2>2, <2>3, <2>4
<1> QED
  BY <1>1, <1>4 DEF PolicyInv, PolicyAcyclic, PolicyTypeOK

LEMMA PutRoleKeeps ==
  ASSUME AccessAssumption, PolicyInv, NEW r \in Role, NEW parents \in ParentLists, PutRole(r, parents) PROVE PolicyInv'
<1>1. parents \in Seq(Role) /\ policy' = policy
  BY DEF AccessAssumption, PutRole
<1>2. putting' = [role |-> r, parents |-> parents, work |-> parents, visited |-> {}]
  BY DEF PutRole
<1>3. putting' \in Put /\ PutSound(putting', policy)
  BY <1>1, <1>2 DEF Put, PutSound
<1> QED
  BY <1>1, <1>3 DEF PolicyInv, PolicyAcyclic, PolicyTypeOK

\* However roles are added, updated and removed, no role inherits from itself.
LEMMA PolicyStaysAcyclic == ASSUME AccessAssumption PROVE PolicySpec => []PolicyAcyclic
<1>1. PolicyInit => PolicyInv
  BY DEF PolicyInit, PolicyInv, PolicyAcyclic, PolicyTypeOK
<1>2. PolicyInv /\ [PolicyNext]_policyVars => PolicyInv'
  <2> SUFFICES ASSUME PolicyInv, [PolicyNext]_policyVars PROVE PolicyInv'
    OBVIOUS
  <2>1. CASE UNCHANGED policyVars
    BY <2>1 DEF policyVars, PolicyInv, PolicyAcyclic, PolicyTypeOK
  <2> QED
    BY <2>1, DetectCycleKeeps, StoreRoleKeeps, RemoveRoleKeeps, PutRoleKeeps DEF PolicyNext
<1>3. PolicyInv => PolicyAcyclic
  BY DEF PolicyInv
<1> QED
  BY <1>1, <1>2, <1>3, PTL DEF PolicySpec

(***************************************************************************)
(* Checks                                                                  *)
(***************************************************************************)

Known == [Role -> SUBSET RoleDef]

LEMMA AboveTyped == ASSUME AccessAssumption, NEW K \in Known PROVE AboveIn(K) \in [Role -> SUBSET Role]
<1>1. ASSUME NEW def \in RoleDef PROVE ToSet(def.parents) \subseteq Role /\ def.perms \subseteq Permission
  <2>1. def.parents \in Seq(Role) /\ def.perms \subseteq Permission
    BY DEF AccessAssumption
  <2> QED
    BY <2>1 DEF ToSet
<1> QED
  BY <1>1 DEF AboveIn, Known

\* Roles that are above others give them no more than they have.
LEMMA PermissionsGrow ==
  ASSUME AccessAssumption, NEW K \in Known, NEW L \in Known, NEW rs \in SUBSET Role, NEW qs \in SUBSET Role,
         rs \subseteq Closure(qs, AboveIn(L)), \A r \in Role : K[r] \subseteq L[r]
  PROVE  PermissionsOf(rs, K) \subseteq PermissionsOf(qs, L) /\ Closure(rs, AboveIn(K)) \subseteq Closure(qs, AboveIn(L))
<1>1. AboveIn(K) \in [Role -> SUBSET Role] /\ AboveIn(L) \in [Role -> SUBSET Role]
  BY AboveTyped
<1>2. \A r \in Role : AboveIn(K)[r] \subseteq AboveIn(L)[r]
  BY DEF AboveIn
<1>3. Closure(rs, AboveIn(K)) \subseteq Closure(qs, AboveIn(L))
  BY <1>1, <1>2, ClosureGrows
<1>4. ASSUME NEW x \in PermissionsOf(rs, K) PROVE x \in PermissionsOf(qs, L)
  <2>1. PICK r \in Closure(rs, AboveIn(K)) : x \in UNION {def.perms : def \in K[r]}
    BY DEF PermissionsOf
  <2>2. PICK def \in K[r] : x \in def.perms
    BY <2>1
  <2>3. r \in Role
    BY DEF Closure
  <2>4. def \in L[r] /\ r \in Closure(qs, AboveIn(L))
    BY <1>3, <2>3
  <2> QED
    BY <2>2, <2>4 DEF PermissionsOf
<1> QED
  BY <1>3, <1>4

\* A definition of a role gives it its permissions, and puts its parents above it.
LEMMA DefinitionGives ==
  ASSUME AccessAssumption, NEW K \in Known, NEW r \in Role, NEW def \in K[r]
  PROVE  /\ def.perms \subseteq PermissionsOf({r}, K) /\ ToSet(def.parents) \subseteq Closure({r}, AboveIn(K))
         /\ def.parents \in Seq(Role) /\ def.perms \in SUBSET Permission
<1>1. AboveIn(K) \in [Role -> SUBSET Role]
  BY AboveTyped
<1>2. r \in Closure({r}, AboveIn(K)) /\ Closed(Closure({r}, AboveIn(K)), AboveIn(K))
  BY <1>1, ClosureIsLeast
<1>3. ToSet(def.parents) \subseteq AboveIn(K)[r]
  BY DEF AboveIn
<1>4. ToSet(def.parents) \subseteq Closure({r}, AboveIn(K))
  BY <1>2, <1>3 DEF Closed
<1>5. def.perms \subseteq PermissionsOf({r}, K)
  BY <1>2 DEF PermissionsOf
<1>6. def \in RoleDef
  BY DEF Known
<1> QED
  BY <1>4, <1>5, <1>6 DEF AccessAssumption

\* The roles on whose behalf activation i resolves: those of the user, or its own role.
Asker(k, i) == IF i = 1 THEN k.seen ELSE {k.stack[i].role}

\* An activation has only what its role gives, and its role, with everything it has still to
\* resolve, is above the role of the activation that called it.
FrameSound(k, i, K) ==
    /\ k.stack[i].perms \subseteq PermissionsOf(Asker(k, i), K)
    /\ i > 1 => /\ k.stack[i].role \in k.seen
                /\ k.stack[i].role \in Closure(Asker(k, i - 1), AboveIn(K))
                /\ ToSet(k.stack[i].left) \subseteq Closure({k.stack[i].role}, AboveIn(K))

CheckSound(k, K) ==
    /\ k.stage = "idle" => k.stack = <<>>
    /\ k.stage \notin {"idle", "done"} => k.stack # <<>> /\ \A i \in 1..Len(k.stack) : FrameSound(k, i, K)
    /\ k.stage \in {"get", "fetch", "fill"} => k.role \in k.seen /\ k.role \in Closure(Asker(k, Len(k.stack)), AboveIn(K))
    /\ k.stage = "fill" => k.read \in K[k.role]

RbacInv ==
    /\ RbacTypeOK
    /\ \A r \in Role : roleStore[r] # Absent => roleStore[r] \in circulating[r]
    /\ \A r \in Role : roleCache[r] # Absent => roleCache[r] \in circulating[r]
    /\ \A r \in Role : permCache[r] # Absent => permCache[r] \subseteq PermissionsOf({r}, circulating)
    /\ \A c \in Checker : CheckSound(check[c], circulating)

LEMMA CheckFields ==
  ASSUME NEW k \in Check
  PROVE  /\ k.stage \in CheckStage /\ k.stack \in Seq(Frame) /\ k.seen \in SUBSET Role /\ k.role \in Role \cup {Absent}
         /\ k.read \in RoleDef \cup {Absent} /\ Len(k.stack) \in Nat
         /\ \A i \in 1..Len(k.stack) : k.stack[i] \in Frame /\ k.stack[i].left \in Seq(Role) /\ k.stack[i].perms \in SUBSET Permission
<1>1. /\ k.stage \in CheckStage /\ k.stack \in Seq(Frame) /\ k.seen \in SUBSET Role /\ k.role \in Role \cup {Absent}
      /\ k.read \in RoleDef \cup {Absent}
  BY DEF Check
<1>2. \A f \in Frame : f.left \in Seq(Role) /\ f.perms \in SUBSET Permission
  BY DEF Frame
<1> QED
  BY <1>1, <1>2

\* Who asks is a set of roles.
LEMMA AskerTyped ==
  ASSUME NEW k \in Check, NEW K \in Known, NEW i \in 1..Len(k.stack), FrameSound(k, i, K)
  PROVE  Asker(k, i) \in SUBSET Role
<1>1. i = 1 \/ i > 1
  BY CheckFields
<1> QED
  BY <1>1, CheckFields DEF Asker, FrameSound

\* What is sound stays so when more definitions circulate.
LEMMA SoundGrows ==
  ASSUME AccessAssumption, NEW K \in Known, NEW L \in Known, \A r \in Role : K[r] \subseteq L[r],
         NEW k \in Check, CheckSound(k, K)
  PROVE  CheckSound(k, L)
<1>1. \A rs \in SUBSET Role : PermissionsOf(rs, K) \subseteq PermissionsOf(rs, L) /\ Closure(rs, AboveIn(K)) \subseteq Closure(rs, AboveIn(L))
  <2> SUFFICES ASSUME NEW rs \in SUBSET Role
               PROVE  PermissionsOf(rs, K) \subseteq PermissionsOf(rs, L) /\ Closure(rs, AboveIn(K)) \subseteq Closure(rs, AboveIn(L))
    OBVIOUS
  <2>1. AboveIn(L) \in [Role -> SUBSET Role]
    BY AboveTyped
  <2>2. rs \subseteq Closure(rs, AboveIn(L))
    BY <2>1, ClosureIsLeast
  <2> QED
    BY <2>2, PermissionsGrow
<1>2. ASSUME k.stage \notin {"idle", "done"}, NEW i \in 1..Len(k.stack) PROVE FrameSound(k, i, L)
  <2>1. FrameSound(k, i, K) /\ \A j \in 1..Len(k.stack) : FrameSound(k, j, K)
    BY <1>2 DEF CheckSound
  <2>2. Asker(k, i) \in SUBSET Role
    BY <2>1, AskerTyped
  <2>3. i > 1 => Asker(k, i - 1) \in SUBSET Role /\ {k.stack[i].role} \in SUBSET Role
    <3>1. i > 1 => i - 1 \in 1..Len(k.stack)
      BY CheckFields
    <3> QED
      BY <2>1, <3>1, AskerTyped, CheckFields DEF FrameSound
  <2> QED
    BY <1>1, <2>1, <2>2, <2>3 DEF FrameSound
<1>3. ASSUME k.stage \in {"get", "fetch", "fill"}
      PROVE  k.role \in k.seen /\ k.role \in Closure(Asker(k, Len(k.stack)), AboveIn(L))
  <2>1. k.stack # <<>> /\ \A j \in 1..Len(k.stack) : FrameSound(k, j, K)
    BY <1>3 DEF CheckSound
  <2>2. Len(k.stack) \in 1..Len(k.stack)
    BY <2>1, CheckFields
  <2>3. Asker(k, Len(k.stack)) \in SUBSET Role
    BY <2>1, <2>2, AskerTyped
  <2> QED
    BY <1>1, <1>3, <2>3 DEF CheckSound
<1>4. k.stage = "fill" => k.read \in L[k.role]
  <2>1. k.stage = "fill" => k.role \in Role
    BY CheckFields DEF CheckSound
  <2> QED
    BY <2>1 DEF CheckSound
<1> QED
  BY <1>2, <1>3, <1>4 DEF CheckSound

\* An activation is pushed for a role whose definition was found.
LEMMA PushSound ==
  ASSUME AccessAssumption, NEW K \in Known, NEW k \in Check, CheckSound(k, K), k.stage \in {"get", "fill"},
         NEW def \in K[k.role], NEW m \in Check, m.stage = "resolve", m.seen = k.seen,
         m.stack = Append(k.stack, Activation(k.role, def))
  PROVE  CheckSound(m, K)
<1> DEFINE n == Len(k.stack)
           new == Activation(k.role, def)
<1>1. n \in Nat \ {0} /\ k.stack \in Seq(Frame) /\ \A i \in 1..n : FrameSound(k, i, K)
  BY CheckFields DEF CheckSound
<1>2. k.role \in k.seen /\ k.role \in Closure(Asker(k, n), AboveIn(K)) /\ k.role \in Role
  BY CheckFields DEF CheckSound
<1>3. new.role = k.role /\ new.left = def.parents /\ new.perms = def.perms
  BY DEF Activation
<1>4. new.perms \subseteq PermissionsOf({k.role}, K) /\ ToSet(new.left) \subseteq Closure({k.role}, AboveIn(K))
  BY <1>2, <1>3, DefinitionGives
<1> HIDE DEF new, n
<1>5. /\ Len(m.stack) = n + 1 /\ m.stack[n + 1] = new /\ \A i \in 1..n : m.stack[i] = k.stack[i]
      /\ m.stack # <<>>
  <2>1. m.stack = Append(k.stack, new) /\ m.stack \in Seq(Frame) /\ Len(k.stack) = n
    BY CheckFields DEF new, n
  <2>2. Len(Append(k.stack, new)) = n + 1 /\ Append(k.stack, new)[n + 1] = new /\ \A i \in 1..n : Append(k.stack, new)[i] = k.stack[i]
    BY <1>1, <2>1, AppendProperties
  <2> QED
    BY <1>1, <2>1, <2>2
<1>6. \A i \in 1..n : Asker(m, i) = Asker(k, i)
  BY <1>5 DEF Asker
<1>7. ASSUME NEW i \in 1..n PROVE FrameSound(m, i, K)
  <2>1. i > 1 => i - 1 \in 1..n
    BY <1>1
  <2> QED
    BY <1>1, <1>5, <1>6, <2>1 DEF FrameSound
<1>8. FrameSound(m, n + 1, K)
  <2>1. n + 1 > 1 /\ (n + 1) - 1 = n /\ n \in 1..n /\ n + 1 # 1
    BY <1>1
  <2>2. Asker(m, n + 1) = {k.role}
    BY <1>3, <1>5, <2>1 DEF Asker
  <2> QED
    BY <1>2, <1>3, <1>4, <1>5, <1>6, <2>1, <2>2 DEF FrameSound
<1>9. \A i \in 1..Len(m.stack) : FrameSound(m, i, K)
  <2>1. \A i \in 1..Len(m.stack) : i \in 1..n \/ i = n + 1
    BY <1>1, <1>5
  <2> QED
    BY <1>7, <1>8, <2>1
<1> QED
  BY <1>5, <1>9 DEF CheckSound

\* A step of one check leaves the others alone.
LEMMA OneCheckMoves ==
  ASSUME AccessAssumption, RbacInv, NEW c \in Checker, NEW k \in Check,
         check' = [check EXCEPT ![c] = k], CheckSound(k, circulating), UNCHANGED <<roleStore, dropping, writes, circulating>>,
         roleCache' \in [Role -> RoleDef \cup {Absent}], permCache' \in [Role -> (SUBSET Permission) \cup {Absent}],
         \A r \in Role : roleCache'[r] # Absent => roleCache'[r] \in circulating[r],
         \A r \in Role : permCache'[r] # Absent => permCache'[r] \subseteq PermissionsOf({r}, circulating)
  PROVE  RbacInv'
<1>1. check \in [Checker -> Check] /\ \A d \in Checker : CheckSound(check[d], circulating)
  BY DEF RbacInv, RbacTypeOK
<1>2. check' \in [Checker -> Check]
  BY <1>1
<1>3. \A d \in Checker : check'[d] = IF d = c THEN k ELSE check[d]
  BY <1>1
<1>4. \A d \in Checker : CheckSound(check'[d], circulating)
  BY <1>1, <1>3
<1>5. RbacTypeOK'
  BY <1>2 DEF RbacInv, RbacTypeOK
<1> QED
  BY <1>4, <1>5 DEF RbacInv

LEMMA CheckPermissionKeeps ==
  ASSUME AccessAssumption, RbacInv, NEW c \in Checker, NEW roles \in UserRoles, CheckPermission(c, roles) PROVE RbacInv'
<1> DEFINE f == [role |-> Absent, left |-> roles, perms |-> {}]
           k == NewCheck("resolve", <<f>>)
<1>1. roles \in Seq(Role)
  BY DEF AccessAssumption
<1>2. f \in Frame /\ f.perms = {}
  BY <1>1 DEF Frame
<1> HIDE DEF f
<1>3. <<f>> \in Seq(Frame) /\ Len(<<f>>) = 1 /\ <<f>>[1] = f /\ <<f>> # <<>>
  BY <1>2
<1>4. k.stage = "resolve" /\ k.stack = <<f>> /\ k \in Check
  BY <1>3 DEF NewCheck, Check, CheckStage
<1>5. check' = [check EXCEPT ![c] = k] /\ UNCHANGED <<roleStore, dropping, writes, circulating, roleCache, permCache>>
  BY DEF CheckPermission, f
<1> HIDE DEF k
<1>6. FrameSound(k, 1, circulating)
  BY <1>2, <1>3, <1>4 DEF FrameSound
<1>7. CheckSound(k, circulating)
  BY <1>3, <1>4, <1>6 DEF CheckSound
<1> QED
  BY <1>4, <1>5, <1>7, OneCheckMoves DEF RbacInv, RbacTypeOK

LEMMA ResolveRoleKeeps == ASSUME AccessAssumption, RbacInv, NEW c \in Checker, ResolveRole(c) PROVE RbacInv'
<1> DEFINE k == check[c]
           n == Len(k.stack)
           top == k.stack[n]
           r == Head(top.left)
           rest == [top EXCEPT !.left = Tail(top.left)]
           visited == r \in k.seen
           cached == permCache[r] # Absent
           frame == IF ~visited /\ cached THEN Joined(rest, permCache[r]) ELSE rest
           m == [stage |-> IF visited \/ cached THEN "resolve" ELSE "get", stack |-> WithTop(k.stack, frame),
                 seen |-> k.seen \cup {r}, role |-> IF visited \/ cached THEN Absent ELSE r, read |-> Absent]
           K == circulating
<1>1. /\ k \in Check /\ CheckSound(k, K) /\ K \in Known /\ k.stage = "resolve" /\ top.left # <<>>
      /\ check' = [check EXCEPT ![c] = m] /\ UNCHANGED <<roleStore, roleCache, dropping, permCache, writes, circulating>>
  BY DEF ResolveRole, RbacInv, RbacTypeOK, Known, Top, Last
<1>2. n \in Nat \ {0} /\ k.stack \in Seq(Frame) /\ \A i \in 1..n : FrameSound(k, i, K)
  BY <1>1, CheckFields DEF CheckSound
<1>3. top \in Frame /\ top.left \in Seq(Role) /\ top.perms \in SUBSET Permission /\ n \in 1..n /\ FrameSound(k, n, K)
  BY <1>1, <1>2, CheckFields
<1>4. r \in Role /\ r \in ToSet(top.left) /\ Tail(top.left) \in Seq(Role)
      /\ \A x \in ToSet(Tail(top.left)) : x \in ToSet(top.left)
  <2> DEFINE w == top.left
  <2>1. w \in Seq(Role) /\ w # <<>>
    BY <1>1, <1>3
  <2> HIDE DEF w
  <2>2. /\ Head(w) \in Role /\ Head(w) = w[1] /\ Tail(w) \in Seq(Role) /\ Len(w) \in Nat \ {0} /\ DOMAIN w = 1..Len(w)
        /\ DOMAIN Tail(w) = 1..(Len(w) - 1) /\ \A j \in 1..(Len(w) - 1) : Tail(w)[j] = w[j + 1]
    BY <2>1
  <2>3. Head(w) \in ToSet(w)
    BY <2>2 DEF ToSet
  <2>4. ASSUME NEW x \in ToSet(Tail(w)) PROVE x \in ToSet(w)
    <3>1. PICK j \in 1..(Len(w) - 1) : x = w[j + 1]
      BY <2>2 DEF ToSet
    <3>2. j + 1 \in 1..Len(w)
      BY <2>2, <3>1
    <3> QED
      BY <2>2, <3>1, <3>2 DEF ToSet
  <2> QED
    BY <2>2, <2>3, <2>4 DEF w
<1>5. rest \in Frame /\ rest.role = top.role /\ rest.left = Tail(top.left) /\ rest.perms = top.perms
  BY <1>3, <1>4 DEF Frame
<1>6. cached => permCache[r] \in SUBSET Permission /\ permCache[r] \subseteq PermissionsOf({r}, K)
  BY <1>4 DEF RbacInv, RbacTypeOK
<1> HIDE DEF rest
<1>7. /\ frame \in Frame /\ frame.role = top.role /\ frame.left = Tail(top.left)
      /\ \A x \in frame.perms : x \in top.perms \/ (cached /\ x \in permCache[r])
  <2>1. CASE ~visited /\ cached
    <3>1. frame = [rest EXCEPT !.perms = rest.perms \cup permCache[r]]
      BY <2>1 DEF Joined
    <3>2. /\ frame.role = rest.role /\ frame.left = rest.left /\ frame.perms = rest.perms \cup permCache[r]
          /\ frame \in Frame
      <4> HIDE DEF frame
      <4> QED
        BY <1>3, <1>5, <1>6, <2>1, <3>1 DEF Frame
    <3> QED
      BY <1>5, <2>1, <3>2
  <2>2. CASE ~(~visited /\ cached)
    BY <1>5, <2>2
  <2> QED
    BY <2>1, <2>2
<1> HIDE DEF frame
<1>8. /\ m \in Check /\ m.stage = (IF visited \/ cached THEN "resolve" ELSE "get") /\ m.seen = k.seen \cup {r}
      /\ (m.stage = "get" => m.role = r) /\ m.stack = [k.stack EXCEPT ![n] = frame]
  <2>1. WithTop(k.stack, frame) = [k.stack EXCEPT ![n] = frame] /\ WithTop(k.stack, frame) \in Seq(Frame)
    <3>1. [k.stack EXCEPT ![n] = frame] \in Seq(Frame)
      BY <1>2, <1>3, <1>7, ExceptSeq
    <3> QED
      BY <3>1 DEF WithTop
  <2>2. k.seen \cup {r} \in SUBSET Role
    BY <1>1, <1>4, CheckFields
  <2> QED
    BY <1>4, <2>1, <2>2 DEF Check, CheckStage
<1>9. /\ Len(m.stack) = n /\ m.stack[n] = frame /\ \A i \in 1..n : i # n => m.stack[i] = k.stack[i]
      /\ m.stack # <<>>
  <2>1. [k.stack EXCEPT ![n] = frame] \in Seq(Frame) /\ Len([k.stack EXCEPT ![n] = frame]) = n
        /\ [k.stack EXCEPT ![n] = frame][n] = frame /\ \A i \in 1..n : i # n => [k.stack EXCEPT ![n] = frame][i] = k.stack[i]
    BY <1>2, <1>3, <1>7, ExceptSeq
  <2> QED
    BY <1>2, <1>8, <2>1
<1> HIDE DEF m, visited, cached, r, top, n, k, K
<1>10. ASSUME NEW i \in 1..n PROVE Asker(k, i) \subseteq Asker(m, i) /\ Asker(k, i) \in SUBSET Role /\ Asker(m, i) \in SUBSET Role
  <2>1. Asker(k, i) \in SUBSET Role
    BY <1>1, <1>2, AskerTyped DEF n
  <2>2. m.stack[i].role = k.stack[i].role
    BY <1>7, <1>9 DEF top
  <2> QED
    BY <1>4, <1>8, <2>1, <2>2 DEF Asker
<1>11. \A i \in 1..n : /\ PermissionsOf(Asker(k, i), K) \subseteq PermissionsOf(Asker(m, i), K)
                       /\ Closure(Asker(k, i), AboveIn(K)) \subseteq Closure(Asker(m, i), AboveIn(K))
  <2> SUFFICES ASSUME NEW i \in 1..n
               PROVE  /\ PermissionsOf(Asker(k, i), K) \subseteq PermissionsOf(Asker(m, i), K)
                      /\ Closure(Asker(k, i), AboveIn(K)) \subseteq Closure(Asker(m, i), AboveIn(K))
    OBVIOUS
  <2>1. AboveIn(K) \in [Role -> SUBSET Role]
    BY <1>1, AboveTyped
  <2>2. Asker(k, i) \subseteq Closure(Asker(m, i), AboveIn(K))
    BY <1>10, <2>1, ClosureIsLeast
  <2> QED
    BY <1>1, <1>10, <2>2, PermissionsGrow
<1>12. r \in Closure(Asker(m, n), AboveIn(K))
  <2>1. CASE n = 1
    <3>1. Asker(m, n) = m.seen /\ AboveIn(K) \in [Role -> SUBSET Role]
      BY <1>1, <2>1, AboveTyped DEF Asker
    <3> QED
      BY <1>3, <1>8, <1>10, <3>1, ClosureIsLeast
  <2>2. CASE n # 1
    <3>1. n > 1
      BY <1>2, <2>2
    <3>2. Asker(m, n) = {top.role}
      BY <1>7, <1>9, <2>2 DEF Asker
    <3> QED
      BY <1>3, <1>4, <3>1, <3>2 DEF FrameSound, top
  <2> QED
    BY <2>1, <2>2
<1>13. ASSUME NEW i \in 1..n PROVE FrameSound(m, i, K)
  <2>1. FrameSound(k, i, K) /\ (i > 1 => i - 1 \in 1..n)
    BY <1>2
  <2>2. m.stack[i].role = k.stack[i].role /\ ToSet(m.stack[i].left) \subseteq ToSet(k.stack[i].left)
    BY <1>4, <1>7, <1>9 DEF top
  <2>3. i > 1 => /\ m.stack[i].role \in m.seen
                 /\ m.stack[i].role \in Closure(Asker(m, i - 1), AboveIn(K))
                 /\ ToSet(m.stack[i].left) \subseteq Closure({m.stack[i].role}, AboveIn(K))
    BY <1>8, <1>11, <2>1, <2>2 DEF FrameSound
  <2>4. CASE i # n
    BY <1>9, <1>11, <2>1, <2>3, <2>4 DEF FrameSound
  <2>5. CASE i = n
    <3>1. {r} \in SUBSET Role /\ {r} \subseteq Closure(Asker(m, n), AboveIn(K))
      BY <1>4, <1>12
    <3>2. PermissionsOf({r}, K) \subseteq PermissionsOf(Asker(m, n), K)
      BY <1>1, <1>3, <1>10, <3>1, PermissionsGrow
    <3>3. top.perms \subseteq PermissionsOf(Asker(m, n), K)
      BY <1>3, <1>11 DEF FrameSound, top
    <3>4. m.stack[n].perms \subseteq PermissionsOf(Asker(m, n), K)
      BY <1>6, <1>7, <1>9, <3>2, <3>3
    <3> QED
      BY <2>3, <2>5, <3>4 DEF FrameSound
  <2> QED
    BY <2>4, <2>5
<1>14. CheckSound(m, K)
  BY <1>8, <1>9, <1>12, <1>13 DEF CheckSound
<1> QED
  BY <1>1, <1>8, <1>14, OneCheckMoves DEF RbacInv, RbacTypeOK, K, m

\* The storage's cache has the role, or has not.
LEMMA GetRoleKeeps == ASSUME AccessAssumption, RbacInv, NEW c \in Checker, GetRole(c) PROVE RbacInv'
<1> DEFINE k == check[c]
           hit == roleCache[k.role]
           m == [k EXCEPT !.stage = IF hit = Absent THEN "fetch" ELSE "resolve",
                          !.stack = IF hit = Absent THEN k.stack ELSE Append(k.stack, Activation(k.role, hit))]
           K == circulating
<1>1. /\ k \in Check /\ CheckSound(k, K) /\ K \in Known /\ k.stage = "get" /\ check \in [Checker -> Check]
      /\ UNCHANGED <<roleStore, roleCache, dropping, permCache, writes, circulating>>
  BY DEF GetRole, RbacInv, RbacTypeOK, Known
<1>2. check' = [check EXCEPT ![c] = m]
  BY <1>1 DEF GetRole
<1>3. k.role \in Role
  BY <1>1, CheckFields DEF CheckSound
<1>4. CASE hit = Absent
  <2>1. m \in Check /\ m.stage = "fetch" /\ m.stack = k.stack /\ m.seen = k.seen /\ m.role = k.role
    BY <1>1, <1>4, CheckFields DEF Check, CheckStage
  <2> HIDE DEF m
  <2>2. \A i \in 1..Len(k.stack) : FrameSound(m, i, K) <=> FrameSound(k, i, K)
    BY <2>1 DEF FrameSound, Asker
  <2>3. Asker(m, Len(m.stack)) = Asker(k, Len(k.stack))
    BY <2>1 DEF Asker
  <2>4. CheckSound(m, K)
    BY <1>1, <2>1, <2>2, <2>3 DEF CheckSound
  <2> QED
    BY <1>1, <1>2, <2>1, <2>4, OneCheckMoves DEF RbacInv, RbacTypeOK
<1>5. CASE hit # Absent
  <2>1. hit \in K[k.role]
    BY <1>3, <1>5 DEF RbacInv
  <2>2. Activation(k.role, hit) \in Frame
    BY <1>1, <1>3, <2>1, DefinitionGives DEF Activation, Frame
  <2>3. Append(k.stack, Activation(k.role, hit)) \in Seq(Frame)
    BY <1>1, <2>2, CheckFields
  <2>4. m \in Check /\ m.stage = "resolve" /\ m.stack = Append(k.stack, Activation(k.role, hit)) /\ m.seen = k.seen
    BY <1>1, <1>5, <2>3, CheckFields DEF Check, CheckStage
  <2> HIDE DEF m
  <2>5. CheckSound(m, K)
    BY <1>1, <2>1, <2>4, PushSound
  <2> QED
    BY <1>1, <1>2, <2>4, <2>5, OneCheckMoves DEF RbacInv, RbacTypeOK
<1> QED
  BY <1>4, <1>5

LEMMA FetchRoleKeeps == ASSUME AccessAssumption, RbacInv, NEW c \in Checker, FetchRole(c) PROVE RbacInv'
<1> DEFINE k == check[c]
           def == roleStore[k.role]
           m == [k EXCEPT !.read = def, !.stage = IF def = Absent THEN "resolve" ELSE "fill"]
           K == circulating
<1>1. /\ k \in Check /\ CheckSound(k, K) /\ K \in Known /\ k.stage = "fetch" /\ check \in [Checker -> Check]
      /\ UNCHANGED <<roleStore, roleCache, dropping, permCache, writes, circulating>>
  BY DEF FetchRole, RbacInv, RbacTypeOK, Known
<1>2. check' = [check EXCEPT ![c] = m]
  BY <1>1 DEF FetchRole
<1>3. k.role \in Role /\ def \in RoleDef \cup {Absent} /\ (def # Absent => def \in K[k.role])
  BY <1>1, CheckFields DEF CheckSound, RbacInv, RbacTypeOK
<1>4. /\ m \in Check /\ m.stack = k.stack /\ m.seen = k.seen /\ m.role = k.role /\ m.read = def
      /\ m.stage = IF def = Absent THEN "resolve" ELSE "fill"
  BY <1>1, <1>3, CheckFields DEF Check, CheckStage
<1> HIDE DEF m
<1>5. \A i \in 1..Len(k.stack) : FrameSound(m, i, K) <=> FrameSound(k, i, K)
  BY <1>4 DEF FrameSound, Asker
<1>6. Asker(m, Len(m.stack)) = Asker(k, Len(k.stack))
  BY <1>4 DEF Asker
<1>7. CheckSound(m, K)
  BY <1>1, <1>3, <1>4, <1>5, <1>6 DEF CheckSound
<1> QED
  BY <1>1, <1>2, <1>4, <1>7, OneCheckMoves DEF RbacInv, RbacTypeOK

LEMMA FillRoleKeeps == ASSUME AccessAssumption, RbacInv, NEW c \in Checker, FillRole(c) PROVE RbacInv'
<1> DEFINE k == check[c]
           m == [k EXCEPT !.stage = "resolve", !.read = Absent, !.stack = Append(k.stack, Activation(k.role, k.read))]
           K == circulating
<1>1. /\ k \in Check /\ CheckSound(k, K) /\ K \in Known /\ k.stage = "fill" /\ check \in [Checker -> Check]
      /\ roleCache' = [roleCache EXCEPT ![k.role] = k.read]
      /\ UNCHANGED <<roleStore, dropping, permCache, writes, circulating>>
  BY DEF FillRole, RbacInv, RbacTypeOK, Known
<1>2. check' = [check EXCEPT ![c] = m]
  BY <1>1 DEF FillRole
<1>3. k.role \in Role /\ k.read \in K[k.role] /\ k.read \in RoleDef
  BY <1>1, CheckFields DEF CheckSound, Known
<1>4. Activation(k.role, k.read) \in Frame
  BY <1>1, <1>3, DefinitionGives DEF Activation, Frame
<1>5. Append(k.stack, Activation(k.role, k.read)) \in Seq(Frame)
  BY <1>1, <1>4, CheckFields
<1>6. m \in Check /\ m.stage = "resolve" /\ m.stack = Append(k.stack, Activation(k.role, k.read)) /\ m.seen = k.seen
  BY <1>1, <1>5, CheckFields DEF Check, CheckStage
<1> HIDE DEF m
<1>7. CheckSound(m, K)
  BY <1>1, <1>3, <1>6, PushSound
<1>8. /\ roleCache' \in [Role -> RoleDef \cup {Absent}]
      /\ \A r \in Role : roleCache'[r] # Absent => roleCache'[r] \in K[r]
  BY <1>1, <1>3 DEF RbacInv, RbacTypeOK
<1> QED
  BY <1>1, <1>2, <1>6, <1>7, <1>8, OneCheckMoves DEF RbacInv, RbacTypeOK

\* An activation returns: its role's permissions go to the cache and to its caller.
LEMMA ResolvedKeeps == ASSUME AccessAssumption, RbacInv, NEW c \in Checker, Resolved(c) PROVE RbacInv'
<1> DEFINE k == check[c]
           n == Len(k.stack)
           top == k.stack[n]
           m == [k EXCEPT !.stack = Returned(k.stack, top.perms)]
           K == circulating
<1>1. /\ k \in Check /\ CheckSound(k, K) /\ K \in Known /\ k.stage = "resolve" /\ n > 1 /\ check \in [Checker -> Check]
      /\ permCache' = [permCache EXCEPT ![top.role] = top.perms]
      /\ UNCHANGED <<roleStore, roleCache, dropping, writes, circulating>>
  BY DEF Resolved, CachedPermissions, RbacInv, RbacTypeOK, Known, Top, Last
<1>2. check' = [check EXCEPT ![c] = m]
  BY <1>1 DEF Resolved, Top, Last
<1>3. n \in Nat /\ k.stack \in Seq(Frame) /\ n \in 1..n /\ n - 1 \in 1..n /\ \A i \in 1..n : FrameSound(k, i, K)
  BY <1>1, CheckFields DEF CheckSound
<1>4. top.role \in Role /\ top.role \in k.seen /\ top.perms \in SUBSET Permission
  BY <1>1, <1>3, CheckFields DEF FrameSound
<1>5. top.perms \subseteq PermissionsOf({top.role}, K)
  <2>1. n # 1 /\ Asker(k, n) = {top.role}
    BY <1>1, <1>3 DEF Asker
  <2>2. FrameSound(k, n, K)
    BY <1>3
  <2> QED
    BY <2>1, <2>2 DEF FrameSound
<1>6. /\ permCache' \in [Role -> (SUBSET Permission) \cup {Absent}]
      /\ \A r \in Role : permCache'[r] # Absent => permCache'[r] \subseteq PermissionsOf({r}, K)
  BY <1>1, <1>4, <1>5 DEF RbacInv, RbacTypeOK
<1>7. Asker(k, n - 1) \in SUBSET Role
  BY <1>1, <1>3, AskerTyped
<1>8. top.perms \subseteq PermissionsOf(Asker(k, n - 1), K)
  <2>1. {top.role} \subseteq Closure(Asker(k, n - 1), AboveIn(K)) /\ {top.role} \in SUBSET Role
    BY <1>1, <1>3, <1>4 DEF FrameSound
  <2>2. PermissionsOf({top.role}, K) \subseteq PermissionsOf(Asker(k, n - 1), K)
    BY <1>1, <1>7, <2>1, PermissionsGrow
  <2> QED
    BY <1>5, <2>2
<1> DEFINE below == k.stack[n - 1]
           joined == Joined(below, top.perms)
           ret == Returned(k.stack, top.perms)
<1>9. below \in Frame
  BY <1>1, <1>3, CheckFields
<1>10. joined \in Frame /\ joined.role = below.role /\ joined.left = below.left /\ joined.perms = below.perms \cup top.perms
  <2>1. joined = [below EXCEPT !.perms = below.perms \cup top.perms]
    BY DEF Joined
  <2> HIDE DEF joined, below
  <2> QED
    BY <1>4, <1>9, <2>1 DEF Frame
<1> HIDE DEF joined
<1>11. ret = [i \in 1..(n - 1) |-> IF i = n - 1 THEN joined ELSE k.stack[i]]
  BY DEF Returned, joined
<1>12. ret \in Seq(Frame) /\ Len(ret) = n - 1
  <2>1. \A i \in 1..(n - 1) : k.stack[i] \in Frame
    BY <1>1, <1>3, CheckFields
  <2> QED
    BY <1>1, <1>3, <1>10, <1>11, <2>1
<1> HIDE DEF ret
<1>13. m \in Check /\ m.stage = "resolve" /\ m.stack = ret /\ m.seen = k.seen
  BY <1>1, <1>12, CheckFields DEF Check, CheckStage, ret
<1> HIDE DEF m
<1>14. \A i \in 1..(n - 1) : m.stack[i] = IF i = n - 1 THEN joined ELSE k.stack[i]
  BY <1>11, <1>13
<1> HIDE DEF below, top, n, k
<1>15. \A i \in 1..(n - 1) : Asker(m, i) = Asker(k, i)
  BY <1>10, <1>13, <1>14 DEF Asker, below
<1>16. ASSUME NEW i \in 1..(n - 1) PROVE FrameSound(m, i, K)
  <2>1. FrameSound(k, i, K) /\ (i > 1 => i - 1 \in 1..(n - 1))
    BY <1>3
  <2>2. CASE i = n - 1
    BY <1>8, <1>10, <1>13, <1>14, <1>15, <2>1, <2>2 DEF FrameSound, below
  <2>3. CASE i # n - 1
    BY <1>13, <1>14, <1>15, <2>1, <2>3 DEF FrameSound
  <2> QED
    BY <2>2, <2>3
<1>17. CheckSound(m, K)
  <2>1. m.stack # <<>>
    BY <1>1, <1>3, <1>12, <1>13
  <2> QED
    BY <1>12, <1>13, <1>16, <2>1 DEF CheckSound
<1> QED
  BY <1>1, <1>2, <1>6, <1>13, <1>17, OneCheckMoves DEF RbacInv, RbacTypeOK

LEMMA CheckAnswerKeeps == ASSUME AccessAssumption, RbacInv, NEW c \in Checker, Answer(c) \/ NextRequest(c) PROVE RbacInv'
<1>1. check \in [Checker -> Check] /\ check[c] \in Check
  BY DEF RbacInv, RbacTypeOK
<1>2. CASE Answer(c)
  <2> DEFINE m == [check[c] EXCEPT !.stage = "done"]
  <2>1. check' = [check EXCEPT ![c] = m]
    BY <1>1, <1>2 DEF Answer
  <2>2. m \in Check /\ m.stage = "done"
    BY <1>1 DEF Check, CheckStage
  <2> HIDE DEF m
  <2>3. CheckSound(m, circulating)
    BY <2>2 DEF CheckSound
  <2> QED
    BY <1>2, <2>1, <2>2, <2>3, OneCheckMoves DEF RbacInv, RbacTypeOK, Answer
<1>3. CASE NextRequest(c)
  <2>1. NoCheck \in Check /\ NoCheck.stage = "idle" /\ NoCheck.stack = <<>>
    BY DEF NoCheck, NewCheck, Check, CheckStage
  <2>2. CheckSound(NoCheck, circulating)
    BY <2>1 DEF CheckSound
  <2> QED
    BY <1>3, <2>1, <2>2, OneCheckMoves DEF RbacInv, RbacTypeOK, NextRequest
<1> QED
  BY <1>2, <1>3

\* More definitions of a role circulate once it is saved.
LEMMA WriteRoleKeeps ==
  ASSUME AccessAssumption, RbacInv, NEW r \in Role, NEW def \in RoleDef \cup {Absent}, WriteRole(r, def) PROVE RbacInv'
<1> DEFINE K == circulating
           L == circulating'
<1>1. /\ K \in Known /\ L = [K EXCEPT ![r] = K[r] \cup ({def} \cap RoleDef)]
      /\ roleStore \in [Role -> RoleDef \cup {Absent}] /\ roleStore' = [roleStore EXCEPT ![r] = def]
      /\ UNCHANGED <<roleCache, permCache, check>>
  BY DEF WriteRole, RbacInv, RbacTypeOK, Known
<1>2. K \in Known /\ L \in Known /\ \A q \in Role : K[q] \subseteq L[q]
  BY <1>1 DEF Known
<1>3. RbacTypeOK'
  BY <1>1, <1>2 DEF WriteRole, RbacInv, RbacTypeOK, Known, AccessAssumption
<1>4. \A q \in Role : roleStore'[q] # Absent => roleStore'[q] \in L[q]
  BY <1>1, <1>2 DEF Known, RbacInv
<1>5. \A q \in Role : roleCache[q] # Absent => roleCache[q] \in L[q]
  BY <1>2 DEF RbacInv
<1> HIDE DEF L
<1>6. ASSUME NEW q \in Role, permCache[q] # Absent PROVE permCache[q] \subseteq PermissionsOf({q}, L)
  <2>1. AboveIn(L) \in [Role -> SUBSET Role]
    BY <1>2, AboveTyped
  <2>2. {q} \subseteq Closure({q}, AboveIn(L))
    BY <2>1, ClosureIsLeast
  <2> HIDE DEF K
  <2>3. PermissionsOf({q}, K) \subseteq PermissionsOf({q}, L)
    BY <1>2, <2>2, PermissionsGrow
  <2> QED
    BY <1>6, <2>3 DEF RbacInv, K
<1>7. ASSUME NEW c \in Checker PROVE CheckSound(check[c], L)
  BY <1>1, <1>2, SoundGrows DEF RbacInv, RbacTypeOK
<1> QED
  BY <1>1, <1>3, <1>4, <1>5, <1>6, <1>7 DEF RbacInv, L

LEMMA DropRoleKeeps == ASSUME AccessAssumption, RbacInv, NEW r \in Role, DropRole(r) PROVE RbacInv'
BY DEF DropRole, RbacInv, RbacTypeOK

LEMMA InvalidateKeeps == ASSUME AccessAssumption, RbacInv, InvalidateStorageCache \/ InvalidateCache PROVE RbacInv'
<1>1. CASE InvalidateStorageCache
  BY <1>1 DEF InvalidateStorageCache, RbacInv, RbacTypeOK
<1>2. CASE InvalidateCache /\ ~RolesSettled
  BY <1>2 DEF InvalidateCache, RbacInv, RbacTypeOK
<1>3. CASE InvalidateCache /\ RolesSettled
  <2>1. /\ circulating' = [r \in Role |-> {roleStore[r]} \cap RoleDef] /\ permCache' = [r \in Role |-> Absent]
        /\ UNCHANGED <<roleStore, roleCache, dropping, check, writes>>
    BY <1>3 DEF InvalidateCache
  <2>2. RbacTypeOK'
    BY <2>1 DEF RbacInv, RbacTypeOK
  <2>3. \A r \in Role : roleStore[r] # Absent => roleStore[r] \in circulating'[r]
    BY <2>1 DEF RbacInv, RbacTypeOK
  <2>4. \A r \in Role : roleCache[r] # Absent => roleCache[r] \in circulating'[r]
    BY <1>3, <2>3 DEF RolesSettled
  <2>5. \A c \in Checker : CheckSound(check[c], circulating')
    BY <1>3 DEF RbacInv, CheckSound, RolesSettled
  <2> QED
    BY <2>1, <2>2, <2>3, <2>4, <2>5 DEF RbacInv
<1> QED
  BY <1>1, <1>2, <1>3

LEMMA RbacStep == ASSUME AccessAssumption, RbacInv, [RbacNext]_rbacVars PROVE RbacInv'
<1>1. CASE UNCHANGED rbacVars
  BY <1>1 DEF rbacVars, RbacInv, RbacTypeOK
<1>2. ASSUME NEW c \in Checker, CheckStep(c) PROVE RbacInv'
  BY <1>2, CheckPermissionKeeps, ResolveRoleKeeps, GetRoleKeeps, FetchRoleKeeps, FillRoleKeeps, ResolvedKeeps, CheckAnswerKeeps
  DEF CheckStep
<1> QED
  BY <1>1, <1>2, WriteRoleKeeps, DropRoleKeeps, InvalidateKeeps DEF RbacNext

LEMMA RbacStarts == ASSUME AccessAssumption, RbacInit PROVE RbacInv
<1>1. NoCheck \in Check /\ NoCheck.stage = "idle" /\ NoCheck.stack = <<>>
  BY DEF NoCheck, NewCheck, Check, CheckStage
<1>2. CheckSound(NoCheck, circulating)
  BY <1>1 DEF CheckSound
<1>3. RbacTypeOK
  BY <1>1 DEF RbacInit, RbacTypeOK, AccessAssumption
<1>4. \A r \in Role : roleStore[r] # Absent => roleStore[r] \in circulating[r]
  BY DEF RbacInit, AccessAssumption
<1> QED
  BY <1>2, <1>3, <1>4 DEF RbacInit, RbacInv

\* What the activation on top has, the roles that were seen give.
LEMMA GrantsFollow ==
  ASSUME AccessAssumption, RbacInv, NEW c \in Checker, check[c].stack # <<>>, check[c].stage # "done"
  PROVE  Top(c).perms \subseteq PermissionsOf(check[c].seen, circulating)
<1> DEFINE k == check[c]
           n == Len(k.stack)
           K == circulating
<1>1. k \in Check /\ CheckSound(k, K) /\ K \in Known
  BY DEF RbacInv, RbacTypeOK, Known
<1>2. n \in Nat /\ n \in 1..n /\ \A i \in 1..n : FrameSound(k, i, K)
  BY <1>1, CheckFields DEF CheckSound
<1>3. Asker(k, n) \in SUBSET Role /\ Asker(k, n) \subseteq k.seen /\ k.seen \in SUBSET Role
  <2>1. k.seen \in SUBSET Role /\ Asker(k, n) \in SUBSET Role
    BY <1>1, <1>2, AskerTyped, CheckFields
  <2>2. FrameSound(k, n, K)
    BY <1>2
  <2> HIDE DEF k, n, K
  <2>3. n = 1 \/ n > 1
    BY <1>2
  <2> QED
    BY <2>1, <2>2, <2>3 DEF Asker, FrameSound
<1>4. AboveIn(K) \in [Role -> SUBSET Role]
  BY <1>1, AboveTyped
<1> HIDE DEF K
<1>5. Asker(k, n) \subseteq Closure(k.seen, AboveIn(K))
  BY <1>3, <1>4, ClosureIsLeast
<1>6. PermissionsOf(Asker(k, n), K) \subseteq PermissionsOf(k.seen, K)
  BY <1>1, <1>3, <1>5, PermissionsGrow
<1> QED
  BY <1>2, <1>6 DEF FrameSound, Top, Last, K

\* A check grants, and the engine caches, only what stored definitions of the user's roles and of
\* the roles above them give, and no role of a policy inherits from itself (internal/rbac).
THEOREM GrantsAreJustified == ASSUME AccessAssumption PROVE RbacSpec /\ PolicySpec => []GrantJustified
<1>1. RbacInit => RbacInv
  BY RbacStarts
<1>2. RbacInv /\ [RbacNext]_rbacVars => RbacInv'
  BY RbacStep
<1>3. RbacInv /\ PolicyAcyclic => GrantJustified
  BY GrantsFollow DEF RbacInv, GrantJustified
<1>4. RbacSpec => []RbacInv
  BY <1>1, <1>2, PTL DEF RbacSpec
<1> QED
  BY <1>3, <1>4, PolicyStaysAcyclic, PTL

(***************************************************************************)
(* Numbers                                                                 *)
(***************************************************************************)

Below == {pair \in Nat \X Nat : pair[1] < pair[2]}

\* What holds of 0, and with a number below N of the next one, holds up to N.
LEMMA Counting ==
  ASSUME NEW N \in Nat, NEW S, 0 \in S, \A n \in 0..(N - 1) : n \in S => n + 1 \in S
  PROVE  \A n \in 0..N : n \in S
<1> DEFINE T == {n \in Nat : n <= N /\ n \notin S}
<1>1. Below = OpToRel(<, Nat)
  BY Zenon DEF Below, OpToRel
<1>2. IsWellFoundedOn(Below, Nat)
  BY <1>1, NatLessThanWellFounded, Zenon
<1>3. SUFFICES ASSUME T # {} PROVE FALSE
  OBVIOUS
<1>4. T \in SUBSET Nat
  OBVIOUS
<1>5. PICK v \in T : \A w \in T : ~(<<w, v>> \in Below)
  <2> HIDE DEF T
  <2> QED
    BY <1>2, <1>3, <1>4, WFMin
<1>6. v \in Nat /\ v <= N /\ v \notin S /\ v # 0
  OBVIOUS
<1>7. v - 1 \in 0..(N - 1) /\ (v - 1) + 1 = v /\ v - 1 \in Nat /\ v - 1 <= N /\ v - 1 < v
  BY <1>6
<1>8. v - 1 \notin S
  BY <1>6, <1>7
<1>9. v - 1 \in T
  BY <1>7, <1>8
<1>10. <<v - 1, v>> \in Below
  BY <1>6, <1>7 DEF Below
<1> QED
  BY <1>5, <1>9, <1>10, Zenon

\* Some numbers up to N have a greatest one.
LEMMA MaxOf ==
  ASSUME NEW N \in Nat, NEW S \in SUBSET (0..N), S # {}
  PROVE  Max(S) \in S /\ \A n \in S : n <= Max(S)
<1> DEFINE Fine(n) == \A R \in SUBSET (0..n) : R # {} => \E x \in R : \A y \in R : x >= y
           G == {n \in Nat : Fine(n)}
<1>1. 0 \in G
  <2>1. ASSUME NEW R \in SUBSET (0..0), R # {} PROVE \E x \in R : \A y \in R : x >= y
    <3>1. PICK x \in R : TRUE
      BY <2>1
    <3>2. x = 0 /\ \A y \in R : y = 0
      OBVIOUS
    <3> QED
      BY <3>1, <3>2
  <2> QED
    BY <2>1
<1>2. ASSUME NEW n \in 0..(N - 1), n \in G PROVE n + 1 \in G
  <2> SUFFICES ASSUME NEW R \in SUBSET (0..(n + 1)), R # {} PROVE \E x \in R : \A y \in R : x >= y
    OBVIOUS
  <2>1. CASE n + 1 \in R
    <3>1. \A y \in R : n + 1 >= y
      OBVIOUS
    <3> QED
      BY <2>1, <3>1
  <2>2. CASE n + 1 \notin R
    <3>1. R \in SUBSET (0..n)
      BY <2>2
    <3> QED
      BY <1>2, <3>1
  <2> QED
    BY <2>1, <2>2
<1> HIDE DEF G
<1>3. N \in G
  BY <1>1, <1>2, Counting
<1> USE DEF G
<1>4. PICK x \in S : \A y \in S : x >= y
  BY <1>3
<1> QED
  BY <1>4 DEF Max

\* A value for each number up to N, each made from the one before.
Makers(N, V) == [V \X (1..N) -> V]
Iterates(f, N, V, first, D) == f \in [0..N -> V] /\ f[0] = first /\ \A n \in 1..N : f[n] = D[<<f[n - 1], n>>]

LEMMA Iterated ==
  ASSUME NEW N \in Nat, NEW V, NEW first \in V, NEW D \in Makers(N, V)
  PROVE  \E f : Iterates(f, N, V, first, D)
<1> USE DEF Makers, Iterates
<1> DEFINE Fine(n, g) == g \in [0..n -> V] /\ g[0] = first /\ \A k \in 1..n : g[k] = D[<<g[k - 1], k>>]
           S == {n \in Nat : \E g : Fine(n, g)}
<1>1. 0 \in S
  <2>1. Fine(0, [k \in 0..0 |-> first])
    OBVIOUS
  <2> HIDE DEF Fine
  <2> QED
    BY <2>1
<1>2. ASSUME NEW n \in 0..(N - 1), n \in S PROVE n + 1 \in S
  <2>1. PICK g : Fine(n, g)
    BY <1>2
  <2>2. n \in Nat /\ n + 1 \in 1..N /\ g[n] \in V
    BY <2>1
  <2> DEFINE next == D[<<g[n], n + 1>>]
             h == [k \in 0..(n + 1) |-> IF k = n + 1 THEN next ELSE g[k]]
  <2>3. next \in V
    BY <2>2
  <2>4. h \in [0..(n + 1) -> V] /\ h[0] = first /\ h[n + 1] = next /\ \A k \in 0..n : h[k] = g[k]
    <3> HIDE DEF next
    <3> QED
      BY <2>1, <2>2, <2>3
  <2>5. ASSUME NEW k \in 1..(n + 1) PROVE h[k] = D[<<h[k - 1], k>>]
    <3>1. CASE k = n + 1
      <4>1. h[k - 1] = g[n]
        BY <2>2, <2>4, <3>1
      <4> QED
        BY <2>4, <3>1, <4>1
    <3>2. CASE k # n + 1
      <4>1. k \in 1..n /\ k \in 0..n /\ k - 1 \in 0..n
        BY <2>2, <3>2
      <4> QED
        BY <2>1, <2>4, <4>1
    <3> QED
      BY <3>1, <3>2
  <2> HIDE DEF h
  <2>6. Fine(n + 1, h)
    BY <2>4, <2>5
  <2> HIDE DEF Fine
  <2> QED
    BY <2>2, <2>6
<1> HIDE DEF S, Fine
<1>3. \A n \in 0..N : n \in S
  BY <1>1, <1>2, Counting
<1>4. N \in S
  BY <1>3
<1>5. \E g : Fine(N, g)
  BY <1>4 DEF S
<1> QED
  BY <1>5 DEF Fine

(***************************************************************************)
(* The in-memory cache: the memory of entries                              *)
(***************************************************************************)

\* MemoryUpTo adds up the sizes.
LEMMA MemoryAdds ==
  ASSUME MemoryAssumption, NEW q \in Seq(MemoryEntry)
  PROVE  /\ MemoryUpTo(q) \in [0..Len(q) -> Nat] /\ MemoryUpTo(q)[0] = 0
         /\ \A n \in 1..Len(q) : MemoryUpTo(q)[n] = MemoryUpTo(q)[n - 1] + q[n].size
<1> DEFINE N == Len(q)
           D == [p \in Nat \X (1..N) |-> p[1] + q[p[2]].size]
           Is(f) == f = [n \in 0..N |-> IF n = 0 THEN 0 ELSE f[n - 1] + q[n].size]
<1>1. N \in Nat /\ \A n \in 1..N : q[n].size \in Nat
  <2>1. N \in Nat /\ \A n \in 1..N : q[n] \in MemoryEntry
    OBVIOUS
  <2> QED
    BY <2>1 DEF MemoryEntry, MemoryAssumption
<1>2. D \in [Nat \X (1..N) -> Nat] /\ \A v \in Nat, n \in 1..N : D[<<v, n>>] = v + q[n].size
  BY <1>1
<1> HIDE DEF D, N
<1>3. PICK f : f \in [0..N -> Nat] /\ f[0] = 0 /\ \A n \in 1..N : f[n] = D[<<f[n - 1], n>>]
  <2>1. D \in Makers(N, Nat) /\ 0 \in Nat
    BY <1>2 DEF Makers
  <2>2. \E f : Iterates(f, N, Nat, 0, D)
    BY <1>1, <2>1, Iterated
  <2> QED
    BY <2>2 DEF Iterates
<1>4. ASSUME NEW n \in 1..N PROVE f[n] = f[n - 1] + q[n].size
  <2>1. n - 1 \in 0..N
    BY <1>1
  <2>2. f[n - 1] \in Nat
    BY <2>1, <1>3
  <2> QED
    BY <1>2, <1>3, <2>2
<1>5. Is(f)
  <2>1. ASSUME NEW n \in 0..N PROVE f[n] = IF n = 0 THEN 0 ELSE f[n - 1] + q[n].size
    BY <1>1, <1>3, <1>4
  <2> QED
    BY <1>3, <2>1
<1>6. MemoryUpTo(q) = CHOOSE g : Is(g)
  BY DEF MemoryUpTo, N
<1>7. Is(MemoryUpTo(q))
  <2> HIDE DEF Is
  <2> QED
    BY <1>5, <1>6
<1> DEFINE m == MemoryUpTo(q)
<1>8. m = [n \in 0..N |-> IF n = 0 THEN 0 ELSE m[n - 1] + q[n].size]
  BY <1>7
<1> HIDE DEF m, Is
<1>9. m[0] = 0 /\ \A n \in 1..N : m[n] = m[n - 1] + q[n].size
  BY <1>1, <1>8
<1>10. DOMAIN m = 0..N
  BY <1>8
<1> DEFINE S == {n \in 0..N : m[n] \in Nat}
<1>11. 0 \in S
  BY <1>1, <1>9
<1>12. ASSUME NEW n \in 0..(N - 1), n \in S PROVE n + 1 \in S
  <2>1. n + 1 \in 1..N /\ n + 1 \in 0..N /\ (n + 1) - 1 = n /\ m[n] \in Nat
    BY <1>1, <1>12
  <2>2. m[n + 1] = m[n] + q[n + 1].size
    BY <1>9, <2>1
  <2> QED
    BY <1>1, <2>1, <2>2
<1>13. \A n \in 0..N : n \in S
  <2> HIDE DEF S
  <2> QED
    BY <1>1, <1>11, <1>12, Counting
<1>14. m \in [0..N -> Nat]
  <2>1. m = [n \in 0..N |-> m[n]]
    BY <1>8
  <2> QED
    BY <1>13, <2>1
<1> QED
  BY <1>9, <1>14 DEF m, N

\* The first m entries of t are as large as those of s after the first a.
SameSizes(t, s, a, m) == m <= Len(t) /\ a + m <= Len(s) /\ \A k \in 1..m : t[k].size = s[a + k].size

\* Entries of the same sizes in a row take the same memory.
LEMMA MemoryShifts ==
  ASSUME MemoryAssumption, NEW s \in Seq(MemoryEntry), NEW t \in Seq(MemoryEntry), NEW a \in Nat, NEW m \in Nat,
         SameSizes(t, s, a, m)
  PROVE  \A k \in 0..m : MemoryUpTo(t)[k] = MemoryUpTo(s)[a + k] - MemoryUpTo(s)[a]
<1> DEFINE S == {k \in 0..m : MemoryUpTo(t)[k] = MemoryUpTo(s)[a + k] - MemoryUpTo(s)[a]}
<1>1. /\ Len(s) \in Nat /\ MemoryUpTo(s) \in [0..Len(s) -> Nat]
      /\ \A n \in 1..Len(s) : MemoryUpTo(s)[n] = MemoryUpTo(s)[n - 1] + s[n].size
  BY MemoryAdds
<1>2. /\ Len(t) \in Nat /\ MemoryUpTo(t) \in [0..Len(t) -> Nat] /\ MemoryUpTo(t)[0] = 0
      /\ \A n \in 1..Len(t) : MemoryUpTo(t)[n] = MemoryUpTo(t)[n - 1] + t[n].size
  BY MemoryAdds
<1>3. \A n \in 1..Len(t) : t[n].size \in Nat
  <2>1. \A n \in 1..Len(t) : t[n] \in MemoryEntry
    OBVIOUS
  <2> QED
    BY <2>1 DEF MemoryEntry, MemoryAssumption
<1>4. m <= Len(t) /\ a + m <= Len(s) /\ \A k \in 1..m : t[k].size = s[a + k].size
  BY DEF SameSizes
<1>5. 0 \in S
  <2>1. a \in 0..Len(s) /\ a + 0 = a
    BY <1>1, <1>4
  <2>2. MemoryUpTo(s)[a] \in Nat
    BY <1>1, <2>1
  <2> QED
    BY <1>2, <2>1, <2>2
<1>6. ASSUME NEW k \in 0..(m - 1), k \in S PROVE k + 1 \in S
  <2>0. Len(s) \in Nat /\ Len(t) \in Nat
    BY <1>1, <1>2
  <2>1. /\ k + 1 \in 1..m /\ k + 1 \in 1..Len(t) /\ (k + 1) - 1 = k /\ a + (k + 1) \in 1..Len(s) /\ k \in 0..Len(t)
        /\ (a + (k + 1)) - 1 = a + k /\ a + k \in 0..Len(s) /\ a \in 0..Len(s) /\ k + 1 \in 0..m
    BY <2>0, <1>4
  <2> DEFINE x == MemoryUpTo(t)[k]
             y == MemoryUpTo(s)[a + k]
             z == t[k + 1].size
             w == MemoryUpTo(s)[a]
  <2>2. MemoryUpTo(t)[k + 1] = x + z
    BY <1>2, <2>1
  <2>3. MemoryUpTo(s)[a + (k + 1)] = y + z
    BY <1>1, <1>4, <2>1
  <2>4. x = y - w
    BY <1>6
  <2>5. x \in Nat /\ y \in Nat /\ z \in Nat /\ w \in Nat
    BY <1>1, <1>2, <1>3, <2>1
  <2> HIDE DEF x, y, z
  <2>6. MemoryUpTo(t)[k + 1] = MemoryUpTo(s)[a + (k + 1)] - w
    BY <2>2, <2>3, <2>4, <2>5
  <2> QED
    BY <2>1, <2>6
<1>7. \A k \in 0..m : k \in S
  <2> HIDE DEF S
  <2> QED
    BY <1>5, <1>6, Counting
<1> QED
  BY <1>7

\* One entry more.
LEMMA MemoryGrows ==
  ASSUME MemoryAssumption, NEW s \in Seq(MemoryEntry), NEW e \in MemoryEntry
  PROVE  /\ Memory(Append(s, e)) = Memory(s) + e.size /\ Memory(<<e>> \o s) = Memory(s) + e.size
         /\ Memory(s) \in Nat /\ e.size \in Nat
<1>1. Memory(s) \in Nat /\ e.size \in Nat
  <2>1. Len(s) \in 0..Len(s)
    OBVIOUS
  <2>2. Memory(s) \in Nat
    BY <2>1, MemoryAdds DEF Memory
  <2> QED
    BY <2>2 DEF MemoryEntry, MemoryAssumption
<1>2. Memory(Append(s, e)) = Memory(s) + e.size
  <2> DEFINE t == Append(s, e)
  <2>1. /\ t \in Seq(MemoryEntry) /\ Len(s) \in Nat /\ Len(t) = Len(s) + 1 /\ t[Len(s) + 1] = e
        /\ \A k \in 1..Len(s) : t[k] = s[k]
    OBVIOUS
  <2> HIDE DEF t
  <2>2. MemoryUpTo(t)[Len(t)] = MemoryUpTo(t)[Len(s)] + e.size
    <3>1. Len(t) \in 1..Len(t) /\ Len(t) - 1 = Len(s)
      BY <2>1
    <3> QED
      BY <2>1, <3>1, MemoryAdds
  <2>3. MemoryUpTo(s)[Len(s)] = MemoryUpTo(t)[0 + Len(s)] - MemoryUpTo(t)[0]
    <3>1. SameSizes(s, t, 0, Len(s))
      BY <2>1 DEF SameSizes
    <3>2. \A k \in 0..Len(s) : MemoryUpTo(s)[k] = MemoryUpTo(t)[0 + k] - MemoryUpTo(t)[0]
      BY <2>1, <3>1, MemoryShifts
    <3> QED
      BY <2>1, <3>2
  <2>4. MemoryUpTo(t)[0] = 0 /\ MemoryUpTo(t)[Len(s)] \in Nat
    <3>1. Len(s) \in 0..Len(t)
      BY <2>1
    <3> QED
      BY <2>1, <3>1, MemoryAdds
  <2> QED
    BY <1>1, <2>1, <2>2, <2>3, <2>4 DEF Memory, t
<1>3. Memory(<<e>> \o s) = Memory(s) + e.size
  <2> DEFINE t == <<e>> \o s
  <2>1. /\ t \in Seq(MemoryEntry) /\ Len(s) \in Nat /\ Len(t) = Len(s) + 1 /\ t[1] = e
        /\ \A k \in 1..Len(s) : t[1 + k] = s[k]
    OBVIOUS
  <2> HIDE DEF t
  <2>2. MemoryUpTo(t)[1] = e.size /\ MemoryUpTo(t)[Len(t)] \in Nat
    <3>1. 1 \in 1..Len(t) /\ 1 - 1 = 0 /\ Len(t) \in 0..Len(t)
      BY <2>1
    <3>2. MemoryUpTo(t)[1] = MemoryUpTo(t)[0] + e.size /\ MemoryUpTo(t)[0] = 0 /\ MemoryUpTo(t)[Len(t)] \in Nat
      BY <2>1, <3>1, MemoryAdds
    <3> QED
      BY <1>1, <3>2
  <2>3. MemoryUpTo(s)[Len(s)] = MemoryUpTo(t)[1 + Len(s)] - MemoryUpTo(t)[1]
    <3>1. SameSizes(s, t, 1, Len(s))
      BY <2>1 DEF SameSizes
    <3>2. \A k \in 0..Len(s) : MemoryUpTo(s)[k] = MemoryUpTo(t)[1 + k] - MemoryUpTo(t)[1]
      BY <2>1, <3>1, MemoryShifts
    <3> QED
      BY <2>1, <3>2
  <2>4. 1 + Len(s) = Len(t)
    BY <2>1
  <2> QED
    BY <1>1, <2>2, <2>3, <2>4 DEF Memory, t
<1> QED
  BY <1>1, <1>2, <1>3

\* The entries in front and those behind them.
LEMMA MemorySplits ==
  ASSUME MemoryAssumption, NEW q \in Seq(MemoryEntry), NEW n \in 0..Len(q)
  PROVE  /\ Memory(SubSeq(q, 1, n)) = MemoryUpTo(q)[n]
         /\ Memory(SubSeq(q, n + 1, Len(q))) = Memory(q) - MemoryUpTo(q)[n]
         /\ MemoryUpTo(q)[n] \in Nat /\ Memory(q) \in Nat
<1>1. Len(q) \in Nat /\ n \in Nat /\ n <= Len(q) /\ MemoryUpTo(q)[n] \in Nat /\ Memory(q) \in Nat /\ MemoryUpTo(q)[0] = 0
  BY MemoryAdds DEF Memory
<1>2. Memory(SubSeq(q, 1, n)) = MemoryUpTo(q)[n]
  <2> DEFINE t == SubSeq(q, 1, n)
  <2>1. t \in Seq(MemoryEntry) /\ Len(t) = n /\ \A k \in 1..n : t[k] = q[0 + k]
    BY <1>1
  <2> HIDE DEF t
  <2>2. SameSizes(t, q, 0, n)
    BY <1>1, <2>1 DEF SameSizes
  <2>3. \A k \in 0..n : MemoryUpTo(t)[k] = MemoryUpTo(q)[0 + k] - MemoryUpTo(q)[0]
    BY <1>1, <2>1, <2>2, MemoryShifts
  <2> QED
    BY <1>1, <2>1, <2>3 DEF Memory, t
<1>3. Memory(SubSeq(q, n + 1, Len(q))) = Memory(q) - MemoryUpTo(q)[n]
  <2> DEFINE t == SubSeq(q, n + 1, Len(q))
             m == Len(q) - n
  <2>1. t \in Seq(MemoryEntry) /\ m \in Nat /\ Len(t) = m /\ n + m = Len(q)
    BY <1>1
  <2>2. \A k \in 1..m : t[k] = q[n + k]
    BY <1>1
  <2> HIDE DEF t, m
  <2>3. SameSizes(t, q, n, m)
    BY <1>1, <2>1, <2>2 DEF SameSizes
  <2>4. \A k \in 0..m : MemoryUpTo(t)[k] = MemoryUpTo(q)[n + k] - MemoryUpTo(q)[n]
    BY <1>1, <2>1, <2>3, MemoryShifts
  <2> QED
    BY <1>1, <2>1, <2>4 DEF Memory, t
<1> QED
  BY <1>1, <1>2, <1>3

\* Only the sizes count.
LEMMA MemoryBySize ==
  ASSUME MemoryAssumption, NEW s \in Seq(MemoryEntry), NEW t \in Seq(MemoryEntry), Len(t) = Len(s),
         \A k \in 1..Len(s) : t[k].size = s[k].size
  PROVE  Memory(t) = Memory(s)
<1>1. Len(s) \in Nat /\ SameSizes(t, s, 0, Len(s))
  BY DEF SameSizes
<1>2. \A k \in 0..Len(s) : MemoryUpTo(t)[k] = MemoryUpTo(s)[0 + k] - MemoryUpTo(s)[0]
  BY <1>1, MemoryShifts
<1>3. MemoryUpTo(s)[0] = 0 /\ MemoryUpTo(s)[Len(s)] \in Nat
  BY <1>1, MemoryAdds
<1> QED
  BY <1>1, <1>2, <1>3 DEF Memory

(***************************************************************************)
(* The in-memory cache: some of the entries                                *)
(***************************************************************************)

\* OnlyUpTo picks the entries with the keys.
LEMMA OnlyPicks ==
  ASSUME NEW q \in Seq(MemoryEntry), NEW K
  PROVE  /\ OnlyUpTo(q, K) \in [0..Len(q) -> Seq(MemoryEntry)] /\ OnlyUpTo(q, K)[0] = <<>>
         /\ \A n \in 1..Len(q) : OnlyUpTo(q, K)[n] =
              IF q[n].key \in K THEN Append(OnlyUpTo(q, K)[n - 1], q[n]) ELSE OnlyUpTo(q, K)[n - 1]
<1> DEFINE N == Len(q)
           V == Seq(MemoryEntry)
           D == [p \in V \X (1..N) |-> IF q[p[2]].key \in K THEN Append(p[1], q[p[2]]) ELSE p[1]]
           Is(f) == f = [n \in 0..N |-> IF n = 0 THEN <<>> ELSE IF q[n].key \in K THEN Append(f[n - 1], q[n]) ELSE f[n - 1]]
<1>1. N \in Nat /\ (\A n \in 1..N : q[n] \in MemoryEntry) /\ <<>> \in V /\ \A v \in V, e \in MemoryEntry : Append(v, e) \in V
  OBVIOUS
<1> HIDE DEF V, N
<1>2. /\ D \in Makers(N, V)
      /\ \A v \in V, n \in 1..N : D[<<v, n>>] = IF q[n].key \in K THEN Append(v, q[n]) ELSE v
  BY <1>1 DEF Makers
<1> HIDE DEF D
<1>3. PICK f : Iterates(f, N, V, <<>>, D)
  BY <1>1, <1>2, Iterated
<1>4. ASSUME NEW n \in 1..N PROVE f[n] = IF q[n].key \in K THEN Append(f[n - 1], q[n]) ELSE f[n - 1]
  <2>1. n - 1 \in 0..N
    BY <1>1
  <2>2. f[n - 1] \in V /\ f[n] = D[<<f[n - 1], n>>]
    BY <2>1, <1>3 DEF Iterates
  <2> QED
    BY <1>2, <2>2
<1>5. Is(f)
  <2>1. ASSUME NEW n \in 0..N PROVE f[n] = IF n = 0 THEN <<>> ELSE IF q[n].key \in K THEN Append(f[n - 1], q[n]) ELSE f[n - 1]
    <3>1. f[0] = <<>>
      BY <1>3 DEF Iterates
    <3>2. n = 0 \/ (n # 0 /\ n \in 1..N)
      BY <1>1
    <3> QED
      BY <1>4, <3>1, <3>2
  <2>2. f = [n \in 0..N |-> f[n]]
    BY <1>3 DEF Iterates
  <2> QED
    BY <2>1, <2>2
<1>6. OnlyUpTo(q, K) = CHOOSE g : Is(g)
  BY DEF OnlyUpTo, N
<1>7. Is(OnlyUpTo(q, K))
  <2> HIDE DEF Is
  <2> QED
    BY <1>5, <1>6
<1> DEFINE m == OnlyUpTo(q, K)
<1>8. m = [n \in 0..N |-> IF n = 0 THEN <<>> ELSE IF q[n].key \in K THEN Append(m[n - 1], q[n]) ELSE m[n - 1]]
  BY <1>7
<1> HIDE DEF m, Is
<1>9. m[0] = <<>> /\ \A n \in 1..N : m[n] = IF q[n].key \in K THEN Append(m[n - 1], q[n]) ELSE m[n - 1]
  <2>1. 0 \in 0..N /\ \A n \in 1..N : n \in 0..N /\ n # 0
    BY <1>1
  <2> DEFINE G(n) == IF n = 0 THEN <<>> ELSE IF q[n].key \in K THEN Append(m[n - 1], q[n]) ELSE m[n - 1]
  <2>2. \A n \in 0..N : m[n] = G(n)
    <3> HIDE DEF G
    <3>1. m = [n \in 0..N |-> G(n)]
      BY <1>8 DEF G
    <3> QED
      BY <3>1
  <2> QED
    BY <2>1, <2>2
<1> DEFINE S == {n \in 0..N : m[n] \in V}
<1>10. 0 \in S
  BY <1>1, <1>9
<1>11. ASSUME NEW n \in 0..(N - 1), n \in S PROVE n + 1 \in S
  <2>1. n + 1 \in 1..N /\ n + 1 \in 0..N /\ (n + 1) - 1 = n /\ m[n] \in V
    BY <1>1, <1>11
  <2>2. m[n + 1] = IF q[n + 1].key \in K THEN Append(m[n], q[n + 1]) ELSE m[n]
    BY <1>9, <2>1
  <2> QED
    BY <1>1, <2>1, <2>2
<1>12. \A n \in 0..N : n \in S
  <2> HIDE DEF S
  <2> QED
    BY <1>1, <1>10, <1>11, Counting
<1>13. m \in [0..N -> V]
  <2>1. m = [n \in 0..N |-> m[n]]
    BY <1>8
  <2> QED
    BY <1>12, <2>1
<1> QED
  BY <1>9, <1>13 DEF m, N, V

\* s has, in their order, the entries at f[1], f[2]... of q, which are those up to n with a key in K.
Enumerates(f, s, q, K, n) ==
    /\ f \in [1..Len(s) -> 1..n] /\ (\A i, j \in 1..Len(s) : i < j => f[i] < f[j])
    /\ (\A i \in 1..Len(s) : s[i] = q[f[i]] /\ q[f[i]].key \in K)
    /\ \A p \in 1..n : q[p].key \in K => \E i \in 1..Len(s) : f[i] = p

\* Only(q, K) has the entries of q with a key in K, in their order.
LEMMA OnlyEnumerates ==
  ASSUME NEW q \in Seq(MemoryEntry), NEW K
  PROVE  Only(q, K) \in Seq(MemoryEntry) /\ \E f : Enumerates(f, Only(q, K), q, K, Len(q))
<1> DEFINE m == OnlyUpTo(q, K)
           N == Len(q)
           S == {n \in 0..N : \E f : Enumerates(f, m[n], q, K, n)}
<1>1. N \in Nat /\ m \in [0..N -> Seq(MemoryEntry)] /\ m[0] = <<>>
  BY OnlyPicks
<1>2. \A n \in 1..N : m[n] = IF q[n].key \in K THEN Append(m[n - 1], q[n]) ELSE m[n - 1]
  BY OnlyPicks
<1> HIDE DEF m, N
<1>3. 0 \in S
  <2>1. Len(m[0]) = 0
    BY <1>1
  <2>2. Enumerates([i \in 1..0 |-> 1], m[0], q, K, 0)
    BY <2>1 DEF Enumerates
  <2>3. 0 \in 0..N
    BY <1>1
  <2> QED
    BY <2>2, <2>3
<1>4. ASSUME NEW n \in 0..(N - 1), n \in S PROVE n + 1 \in S
  <2> DEFINE r == n + 1
             s == m[n]
             t == m[r]
  <2>1. r \in 1..N /\ r \in 0..N /\ r - 1 = n /\ n \in 0..N /\ n \in Nat
    BY <1>1
  <2>2. t = IF q[r].key \in K THEN Append(s, q[r]) ELSE s
    BY <1>2, <2>1
  <2>3. s \in Seq(MemoryEntry) /\ Len(s) \in Nat
    BY <1>1, <2>1
  <2>4. PICK f : Enumerates(f, s, q, K, n)
    BY <1>4
  <2> HIDE DEF s, t, S
  <2>5. \E g : Enumerates(g, t, q, K, r)
    <3>1. CASE q[r].key \notin K
      <4>1. Enumerates(f, s, q, K, r)
        <5>1. \A p \in 1..r : p \in 1..n \/ p = r
          BY <2>1
        <5>2. 1..n \subseteq 1..r
          BY <2>1
        <5> HIDE DEF r
        <5> QED
          BY <2>4, <3>1, <5>1, <5>2 DEF Enumerates
      <4>2. t = s
        BY <2>2, <3>1
      <4> QED
        BY <4>1, <4>2
    <3>2. CASE q[r].key \in K
      <4> DEFINE l == Len(s) + 1
                 g == [i \in 1..l |-> IF i = l THEN r ELSE f[i]]
      <4>1. /\ Len(t) = l /\ l \in Nat /\ l \in 1..l /\ t[l] = q[r]
            /\ \A i \in 1..l : i = l \/ (i \in 1..Len(s) /\ i < l /\ t[i] = s[i])
        BY <2>2, <2>3, <3>2
      <4>2. \A i \in 1..Len(s) : i \in 1..l /\ i # l
        BY <2>3
      <4>3. g[l] = r /\ DOMAIN g = 1..l /\ \A i \in 1..Len(s) : g[i] = f[i]
        BY <4>1, <4>2
      <4>4. \A i \in 1..Len(s) : f[i] \in 1..n /\ f[i] < r /\ f[i] \in 1..r
        BY <2>1, <2>4 DEF Enumerates
      <4>5. g \in [1..l -> 1..r]
        <5>1. \A i \in 1..l : g[i] \in 1..r
          BY <2>1, <4>1, <4>3, <4>4
        <5> QED
          BY <5>1
      <4> HIDE DEF g
      <4>6. ASSUME NEW i \in 1..l, NEW j \in 1..l, i < j PROVE g[i] < g[j]
        <5>1. i \in 1..Len(s)
          BY <2>3, <4>6
        <5>2. CASE j = l
          BY <4>3, <4>4, <5>1, <5>2
        <5>3. CASE j # l
          <6>1. j \in 1..Len(s)
            BY <4>1, <5>3
          <6> QED
            BY <2>4, <4>3, <4>6, <5>1, <6>1 DEF Enumerates
        <5> QED
          BY <5>2, <5>3
      <4>7. ASSUME NEW i \in 1..l PROVE t[i] = q[g[i]] /\ q[g[i]].key \in K
        <5>1. CASE i = l
          BY <3>2, <4>1, <4>3, <5>1
        <5>2. CASE i # l
          <6>1. i \in 1..Len(s) /\ t[i] = s[i]
            BY <4>1, <5>2
          <6> QED
            BY <2>4, <4>3, <6>1 DEF Enumerates
        <5> QED
          BY <5>1, <5>2
      <4>8. ASSUME NEW p \in 1..r, q[p].key \in K PROVE \E i \in 1..l : g[i] = p
        <5>1. CASE p = r
          BY <4>1, <4>3, <5>1
        <5>2. CASE p # r
          <6>1. p \in 1..n
            BY <2>1, <5>2
          <6>2. PICK i \in 1..Len(s) : f[i] = p
            BY <2>4, <4>8, <6>1 DEF Enumerates
          <6> QED
            BY <4>2, <4>3, <6>2
        <5> QED
          BY <5>1, <5>2
      <4> HIDE DEF l
      <4>9. Enumerates(g, t, q, K, r)
        BY <4>1, <4>5, <4>6, <4>7, <4>8 DEF Enumerates
      <4> QED
        BY <4>9
    <3> QED
      BY <3>1, <3>2
  <2> QED
    BY <2>1, <2>5 DEF S, t
<1>5. \A n \in 0..N : n \in S
  <2> HIDE DEF S
  <2> QED
    BY <1>1, <1>3, <1>4, Counting
<1>6. N \in S /\ N \in 0..N
  BY <1>1, <1>5
<1> QED
  BY <1>1, <1>6 DEF Only, m, N

\* The memory of the entries with a key in K, and of the others.
LEMMA OnlyDivides ==
  ASSUME MemoryAssumption, NEW q \in Seq(MemoryEntry), NEW K
  PROVE  /\ Memory(Only(q, K)) + Memory(Without(q, K)) = Memory(q)
         /\ Memory(Only(q, K)) \in Nat /\ Memory(Without(q, K)) \in Nat /\ Memory(q) \in Nat
<1> DEFINE C == ItemKey \ K
           N == Len(q)
           a(n) == OnlyUpTo(q, K)[n]
           b(n) == OnlyUpTo(q, C)[n]
           S == {n \in 0..N : Memory(a(n)) + Memory(b(n)) = MemoryUpTo(q)[n]}
<1>1. N \in Nat /\ a(0) = <<>> /\ b(0) = <<>> /\ \A n \in 0..N : a(n) \in Seq(MemoryEntry) /\ b(n) \in Seq(MemoryEntry)
  BY OnlyPicks
<1>2. /\ \A n \in 1..N : a(n) = IF q[n].key \in K THEN Append(a(n - 1), q[n]) ELSE a(n - 1)
      /\ \A n \in 1..N : b(n) = IF q[n].key \in C THEN Append(b(n - 1), q[n]) ELSE b(n - 1)
  BY OnlyPicks
<1>3. MemoryUpTo(q)[0] = 0 /\ \A n \in 1..N : MemoryUpTo(q)[n] = MemoryUpTo(q)[n - 1] + q[n].size
  BY MemoryAdds
<1>4. \A n \in 1..N : q[n] \in MemoryEntry /\ q[n].key \in ItemKey
  <2>1. \A n \in 1..N : q[n] \in MemoryEntry
    OBVIOUS
  <2> QED
    BY <2>1 DEF MemoryEntry
<1> HIDE DEF a, b, N
<1>5. 0 \in S
  <2>1. <<>> \in Seq(MemoryEntry) /\ Len(<<>>) = 0
    OBVIOUS
  <2>2. MemoryUpTo(<<>>)[0] = 0
    BY <2>1, MemoryAdds
  <2>3. Memory(<<>>) = 0
    BY <2>1, <2>2 DEF Memory
  <2>4. 0 \in 0..N
    BY <1>1
  <2> QED
    BY <1>1, <1>3, <2>3, <2>4
<1>6. ASSUME NEW n \in 0..(N - 1), n \in S PROVE n + 1 \in S
  <2> DEFINE r == n + 1
  <2>1. r \in 1..N /\ r \in 0..N /\ r - 1 = n /\ n \in 0..N
    BY <1>1
  <2>2. Memory(a(n)) + Memory(b(n)) = MemoryUpTo(q)[n] /\ MemoryUpTo(q)[r] = MemoryUpTo(q)[n] + q[r].size
    BY <1>3, <1>6, <2>1
  <2>3. /\ Memory(a(n)) \in Nat /\ Memory(b(n)) \in Nat /\ q[r].size \in Nat
        /\ Memory(Append(a(n), q[r])) = Memory(a(n)) + q[r].size
        /\ Memory(Append(b(n), q[r])) = Memory(b(n)) + q[r].size
    <3>1. a(n) \in Seq(MemoryEntry) /\ b(n) \in Seq(MemoryEntry) /\ q[r] \in MemoryEntry
      BY <1>1, <1>4, <2>1
    <3> HIDE DEF r
    <3> QED
      BY <3>1, MemoryGrows
  <2>4. CASE q[r].key \in K
    <3>1. a(r) = Append(a(n), q[r]) /\ b(r) = b(n)
      BY <1>2, <2>1, <2>4
    <3>2. Memory(a(r)) + Memory(b(r)) = MemoryUpTo(q)[r]
      <4> HIDE DEF r
      <4> QED
        BY <2>2, <2>3, <3>1
    <3> QED
      BY <2>1, <3>2
  <2>5. CASE q[r].key \notin K
    <3>1. a(r) = a(n) /\ b(r) = Append(b(n), q[r])
      BY <1>2, <1>4, <2>1, <2>5
    <3>2. Memory(a(r)) + Memory(b(r)) = MemoryUpTo(q)[r]
      <4> HIDE DEF r
      <4> QED
        BY <2>2, <2>3, <3>1
    <3> QED
      BY <2>1, <3>2
  <2> QED
    BY <2>4, <2>5
<1>7. \A n \in 0..N : n \in S
  <2> HIDE DEF S
  <2> QED
    BY <1>1, <1>5, <1>6, Counting
<1>8. N \in 0..N
  BY <1>1
<1>9. Memory(a(N)) + Memory(b(N)) = MemoryUpTo(q)[N]
  BY <1>7, <1>8
<1>10. a(N) \in Seq(MemoryEntry) /\ b(N) \in Seq(MemoryEntry)
  BY <1>1, <1>8
<1>11. \A s \in Seq(MemoryEntry) : Memory(s) \in Nat
  <2> TAKE s \in Seq(MemoryEntry)
  <2>1. Len(s) \in 0..Len(s)
    OBVIOUS
  <2> QED
    BY <2>1, MemoryAdds DEF Memory
<1> QED
  BY <1>9, <1>10, <1>11 DEF Memory, Only, Without, a, b, N

UniqueKeys(q) == \A i, j \in DOMAIN q : q[i].key = q[j].key => i = j

\* The one entry for a key.
LEMMA OnlyOne ==
  ASSUME MemoryAssumption, NEW q \in Seq(MemoryEntry), UniqueKeys(q), NEW k
  PROVE  /\ \A p \in 1..Len(q) : q[p].key = k => Memory(Only(q, {k})) = q[p].size
         /\ k \notin KeysOf(q) => Memory(Only(q, {k})) = 0
<1> DEFINE s == Only(q, {k})
<1>1. PICK f : Enumerates(f, s, q, {k}, Len(q))
  BY OnlyEnumerates
<1>2. s \in Seq(MemoryEntry) /\ Len(s) \in Nat /\ Len(q) \in Nat /\ DOMAIN q = 1..Len(q)
  BY OnlyEnumerates
<1> HIDE DEF s
<1>3. MemoryUpTo(s)[0] = 0 /\ (Len(s) = 1 => MemoryUpTo(s)[1] = s[1].size)
  <2>1. MemoryUpTo(s)[0] = 0 /\ \A n \in 1..Len(s) : MemoryUpTo(s)[n] = MemoryUpTo(s)[n - 1] + s[n].size
    BY <1>2, MemoryAdds
  <2>2. ASSUME Len(s) = 1 PROVE MemoryUpTo(s)[1] = s[1].size
    <3>1. s[1] \in MemoryEntry
      <4>1. s \in Seq(MemoryEntry) /\ 1 \in 1..Len(s)
        BY <1>2, <2>2
      <4> QED
        BY <4>1
    <3>2. s[1].size \in Nat
      BY <3>1 DEF MemoryEntry, MemoryAssumption
    <3>3. MemoryUpTo(s)[1] = MemoryUpTo(s)[0] + s[1].size
      BY <2>1, <2>2
    <3> QED
      BY <2>1, <3>2, <3>3
  <2> QED
    BY <2>1, <2>2
<1>4. \A i \in 1..Len(s) : f[i] \in DOMAIN q /\ q[f[i]].key = k /\ s[i] = q[f[i]]
  BY <1>1, <1>2 DEF Enumerates
<1>5. ASSUME NEW p \in 1..Len(q), q[p].key = k PROVE Memory(s) = q[p].size
  <2>1. \A i \in 1..Len(s) : f[i] = p
    BY <1>2, <1>4, <1>5 DEF UniqueKeys
  <2>2. Len(s) >= 1
    BY <1>1, <1>2, <1>5 DEF Enumerates
  <2>3. ~(Len(s) >= 2)
    <3>1. SUFFICES ASSUME Len(s) >= 2 PROVE FALSE
      OBVIOUS
    <3>2. 1 \in 1..Len(s) /\ 2 \in 1..Len(s) /\ 1 < 2
      BY <1>2, <3>1
    <3>3. f[1] < f[2] /\ f[1] = p /\ f[2] = p /\ p \in Int
      BY <1>1, <2>1, <3>2 DEF Enumerates
    <3> QED
      BY <3>3
  <2>4. Len(s) = 1
    <3>1. Len(s) \in Nat
      BY <1>2
    <3>2. \A x \in Nat : x >= 1 /\ ~(x >= 2) => x = 1
      OBVIOUS
    <3> QED
      BY <2>2, <2>3, <3>1, <3>2
  <2>5. s[1] = q[p]
    BY <1>4, <2>1, <2>4
  <2> QED
    BY <1>3, <2>4, <2>5 DEF Memory
<1>6. ASSUME k \notin KeysOf(q) PROVE Memory(s) = 0
  <2>1. \A i \in 1..Len(s) : FALSE
    BY <1>4, <1>6 DEF KeysOf
  <2>2. Len(s) = 0
    BY <1>2, <2>1
  <2> QED
    BY <1>3, <2>2 DEF Memory
<1> QED
  BY <1>5, <1>6 DEF s

Upwards(f, m, N) == f \in [1..m -> 1..N] /\ \A i, j \in 1..m : i < j => f[i] < f[j]
Covers(g, l, f, m) == \A i \in 1..m : \E j \in 1..l : f[i] = g[j]

\* Going through the same positions upwards, one goes through them in the same way.
LEMMA OneWayUp ==
  ASSUME NEW m \in Nat, NEW l \in Nat, NEW N \in Nat, NEW f, NEW g, Upwards(f, m, N), Upwards(g, l, N),
         Covers(g, l, f, m), Covers(f, m, g, l)
  PROVE  m = l /\ \A i \in 1..m : f[i] = g[i]
<1> USE DEF Upwards, Covers
<1> DEFINE S == {n \in Nat : n <= m => n <= l /\ \A i \in 1..n : f[i] = g[i]}
<1>1. 0 \in S
  OBVIOUS
<1>2. ASSUME NEW n \in 0..(m - 1), n \in S PROVE n + 1 \in S
  <2> DEFINE r == n + 1
  <2>1. n \in Nat /\ n <= l /\ r \in 1..m /\ n < r /\ r \in Nat /\ \A i \in 1..n : f[i] = g[i] /\ i \in 1..m /\ i < r
    BY <1>2
  <2>2. PICK j \in 1..l : f[r] = g[j]
    BY <2>1
  <2>3. ~(j \in 1..n)
    <3>1. SUFFICES ASSUME j \in 1..n PROVE FALSE
      OBVIOUS
    <3>2. f[j] = g[j] /\ f[j] < f[r] /\ f[j] \in 1..N /\ f[r] \in 1..N
      BY <2>1, <3>1
    <3> QED
      BY <2>2, <3>2
  <2>4. r <= j /\ r \in 1..l
    BY <2>1, <2>3
  <2>5. PICK i \in 1..m : g[r] = f[i]
    BY <2>4
  <2>6. ~(i \in 1..n)
    <3>1. SUFFICES ASSUME i \in 1..n PROVE FALSE
      OBVIOUS
    <3>2. f[i] = g[i] /\ i \in 1..l /\ i < r
      BY <2>1, <3>1
    <3>3. g[i] < g[r] /\ g[i] \in 1..N /\ g[r] \in 1..N
      BY <2>4, <3>2
    <3> QED
      BY <2>5, <3>2, <3>3
  <2>7. r <= i
    BY <2>1, <2>6
  <2>8. f[r] \in 1..N /\ g[r] \in 1..N /\ f[i] \in 1..N /\ g[j] \in 1..N
    BY <2>1, <2>4
  <2>9. f[r] <= f[i] /\ g[r] <= g[j]
    <3>1. r = i \/ r < i
      BY <2>1, <2>7
    <3>2. r = j \/ r < j
      BY <2>1, <2>4
    <3>3. \A x, y \in 1..N : x = y \/ x < y => x <= y
      OBVIOUS
    <3>4. f[r] = f[i] \/ f[r] < f[i]
      BY <2>1, <3>1
    <3>5. g[r] = g[j] \/ g[r] < g[j]
      BY <2>4, <3>2
    <3> HIDE DEF r
    <3> QED
      BY <2>8, <3>3, <3>4, <3>5
  <2>10. f[r] = g[r]
    BY <2>2, <2>5, <2>8, <2>9
  <2>11. \A x \in 1..r : x \in 1..n \/ x = r
    BY <2>1
  <2>12. \A x \in 1..r : f[x] = g[x]
    BY <2>1, <2>10, <2>11
  <2>13. r <= l
    BY <2>4
  <2> QED
    BY <2>1, <2>12, <2>13
<1>3. \A n \in 0..m : n \in S
  <2> HIDE DEF S
  <2> QED
    BY <1>1, <1>2, Counting
<1>4. m <= l /\ \A i \in 1..m : f[i] = g[i]
  <2>1. m \in 0..m
    OBVIOUS
  <2>2. m \in S
    <3> HIDE DEF S
    <3> QED
      BY <1>3, <2>1
  <2>3. m <= m
    OBVIOUS
  <2> QED
    BY <2>2, <2>3
<1>5. ~(m < l)
  <2>1. SUFFICES ASSUME m < l PROVE FALSE
    OBVIOUS
  <2>2. l \in 1..l /\ \A i \in 1..m : i \in 1..l /\ i < l
    BY <2>1
  <2>3. PICK i \in 1..m : g[l] = f[i]
    BY <2>2
  <2>4. g[i] < g[l] /\ g[i] = f[i] /\ g[i] \in 1..N /\ g[l] \in 1..N
    BY <1>4, <2>2
  <2> QED
    BY <2>3, <2>4
<1> QED
  BY <1>4, <1>5

(***************************************************************************)
(* The in-memory cache: its invariant                                      *)
(***************************************************************************)

\* The entries are in the order of their last use.
Recency(q, since) == \A i, j \in DOMAIN q : q[j].key \in since[q[i].key] <=> j < i

\* Beside what is accounted: the list is in the order of last use, which eviction relies on.
MemoryInv == Accounted /\ Recency(lru, usedSince)

Since == [ItemKey -> SUBSET ItemKey]

\* Entries with distinct keys, in the order of their last use.
Listed(q, since) == q \in Seq(MemoryEntry) /\ UniqueKeys(q) /\ Recency(q, since)

\* So are some of them.
LEMMA OnlyListed ==
  ASSUME NEW q, NEW since \in Since, Listed(q, since), NEW K
  PROVE  Listed(Only(q, K), since) /\ KeysOf(Only(q, K)) = KeysOf(q) \cap K
<1> DEFINE s == Only(q, K)
<1>1. q \in Seq(MemoryEntry) /\ Len(q) \in Nat /\ DOMAIN q = 1..Len(q)
  BY DEF Listed
<1>2. PICK f : Enumerates(f, s, q, K, Len(q))
  BY <1>1, OnlyEnumerates
<1>3. s \in Seq(MemoryEntry) /\ Len(s) \in Nat /\ DOMAIN s = 1..Len(s)
  BY <1>1, OnlyEnumerates
<1> HIDE DEF s
<1>4. /\ \A i \in DOMAIN s : f[i] \in DOMAIN q /\ f[i] \in Int /\ s[i] = q[f[i]] /\ q[f[i]].key \in K
      /\ \A i, j \in DOMAIN s : i < j => f[i] < f[j]
      /\ \A p \in DOMAIN q : q[p].key \in K => \E i \in DOMAIN s : f[i] = p
  <2>1. \A i \in 1..Len(s) : f[i] \in 1..Len(q) /\ s[i] = q[f[i]] /\ q[f[i]].key \in K
    BY <1>2 DEF Enumerates
  <2>2. \A x \in 1..Len(q) : x \in Int
    BY <1>1
  <2>3. /\ \A i, j \in 1..Len(s) : i < j => f[i] < f[j]
        /\ \A p \in 1..Len(q) : q[p].key \in K => \E i \in 1..Len(s) : f[i] = p
    BY <1>2 DEF Enumerates
  <2> QED
    BY <1>1, <1>3, <2>1, <2>2, <2>3
<1>5. \A i, j \in DOMAIN s : i \in Int /\ j \in Int /\ (i < j \/ i = j \/ j < i)
  BY <1>3
<1>6. \A i, j \in DOMAIN s : f[j] < f[i] <=> j < i
  <2> TAKE i, j \in DOMAIN s
  <2>1. f[i] \in Int /\ f[j] \in Int
    BY <1>4
  <2>2. CASE i < j
    <3>1. f[i] < f[j]
      BY <1>4, <2>2
    <3> QED
      BY <1>5, <2>1, <2>2, <3>1
  <2>3. CASE i = j
    BY <1>5, <2>1, <2>3
  <2>4. CASE j < i
    BY <1>4, <2>4
  <2> QED
    BY <1>5, <2>2, <2>3, <2>4
<1>7. UniqueKeys(s)
  <2> SUFFICES ASSUME NEW i \in DOMAIN s, NEW j \in DOMAIN s, s[i].key = s[j].key PROVE i = j
    BY DEF UniqueKeys
  <2>1. f[i] = f[j]
    BY <1>4 DEF Listed, UniqueKeys
  <2>2. f[i] \in Int /\ ~(f[i] < f[j]) /\ ~(f[j] < f[i])
    BY <1>4, <2>1
  <2> QED
    BY <1>5, <1>6, <2>2
<1>8. Recency(s, since)
  <2> SUFFICES ASSUME NEW i \in DOMAIN s, NEW j \in DOMAIN s PROVE s[j].key \in since[s[i].key] <=> j < i
    BY DEF Recency
  <2>1. s[i] = q[f[i]] /\ s[j] = q[f[j]] /\ f[i] \in DOMAIN q /\ f[j] \in DOMAIN q
    BY <1>4
  <2>2. q[f[j]].key \in since[q[f[i]].key] <=> f[j] < f[i]
    BY <2>1 DEF Listed, Recency
  <2> QED
    BY <1>6, <2>1, <2>2
<1>9. KeysOf(s) = KeysOf(q) \cap K
  <2>1. ASSUME NEW x \in KeysOf(s) PROVE x \in KeysOf(q) \cap K
    BY <1>4 DEF KeysOf
  <2>2. ASSUME NEW x \in KeysOf(q) \cap K PROVE x \in KeysOf(s)
    BY <1>4 DEF KeysOf
  <2> QED
    BY <2>1, <2>2
<1> QED
  BY <1>3, <1>7, <1>8, <1>9 DEF Listed, s

\* So are the first ones.
LEMMA FirstListed ==
  ASSUME NEW q, NEW since \in Since, Listed(q, since), NEW n \in 0..Len(q)
  PROVE  /\ Listed(SubSeq(q, 1, n), since) /\ Len(SubSeq(q, 1, n)) = n
         /\ \A i \in 1..n : SubSeq(q, 1, n)[i] = q[i] /\ i \in DOMAIN q
         /\ KeysOf(SubSeq(q, 1, n)) = {q[i].key : i \in 1..n}
<1> DEFINE s == SubSeq(q, 1, n)
<1>1. q \in Seq(MemoryEntry) /\ Len(q) \in Nat /\ DOMAIN q = 1..Len(q) /\ n \in Nat /\ n <= Len(q)
  BY DEF Listed
<1>2. s \in Seq(MemoryEntry) /\ Len(s) = n /\ DOMAIN s = 1..n /\ \A i \in 1..n : s[i] = q[i] /\ i \in DOMAIN q
  BY <1>1
<1> HIDE DEF s
<1>3. UniqueKeys(s)
  BY <1>2 DEF UniqueKeys, Listed
<1>4. Recency(s, since)
  BY <1>2 DEF Recency, Listed
<1>5. KeysOf(s) = {q[i].key : i \in 1..n}
  BY <1>2 DEF KeysOf
<1> QED
  BY <1>2, <1>3, <1>4, <1>5 DEF Listed, s

Touched(since, k) == [j \in ItemKey |-> IF j = k THEN {} ELSE since[j] \cup {k}]

\* A key that is used goes to the front.
LEMMA FrontListed ==
  ASSUME NEW q, NEW since \in Since, Listed(q, since), NEW e \in MemoryEntry, e.key \notin KeysOf(q)
  PROVE  Listed(<<e>> \o q, Touched(since, e.key)) /\ Touched(since, e.key) \in Since
<1> DEFINE t == <<e>> \o q
           new == Touched(since, e.key)
<1>1. q \in Seq(MemoryEntry) /\ Len(q) \in Nat /\ DOMAIN q = 1..Len(q)
  BY DEF Listed
<1>2. t \in Seq(MemoryEntry) /\ DOMAIN t = 1..(Len(q) + 1) /\ t[1] = e /\ \A i \in 2..(Len(q) + 1) : t[i] = q[i - 1]
  BY <1>1
<1> HIDE DEF t
<1>3. e.key \in ItemKey /\ \A i \in DOMAIN q : q[i].key \in ItemKey /\ q[i].key # e.key
  <2>1. \A i \in DOMAIN q : q[i] \in MemoryEntry
    BY <1>1
  <2> QED
    BY <2>1 DEF MemoryEntry, KeysOf
<1>4. new \in Since
  BY <1>3 DEF Touched, Since
<1>5. new[e.key] = {} /\ \A i \in DOMAIN q : new[q[i].key] = since[q[i].key] \cup {e.key}
  BY <1>3 DEF Touched
<1> HIDE DEF new
<1>6. \A i \in DOMAIN t : i \in Int /\ (i = 1 \/ (i \in 2..(Len(q) + 1) /\ i - 1 \in DOMAIN q /\ i > 1))
  BY <1>1, <1>2
<1>7. UniqueKeys(t)
  <2> SUFFICES ASSUME NEW i \in DOMAIN t, NEW j \in DOMAIN t, t[i].key = t[j].key PROVE i = j
    BY DEF UniqueKeys
  <2>1. CASE i = 1 \/ j = 1
    BY <1>2, <1>3, <1>6, <2>1
  <2>2. CASE i # 1 /\ j # 1
    <3>1. t[i] = q[i - 1] /\ t[j] = q[j - 1] /\ i - 1 \in DOMAIN q /\ j - 1 \in DOMAIN q
      BY <1>2, <1>6, <2>2
    <3>2. i - 1 = j - 1
      BY <3>1 DEF Listed, UniqueKeys
    <3> QED
      BY <1>6, <3>2
  <2> QED
    BY <2>1, <2>2
<1>8. Recency(t, new)
  <2> SUFFICES ASSUME NEW i \in DOMAIN t, NEW j \in DOMAIN t PROVE t[j].key \in new[t[i].key] <=> j < i
    BY DEF Recency
  <2>1. CASE i = 1
    BY <1>2, <1>5, <1>6, <2>1
  <2>2. CASE i # 1 /\ j = 1
    <3>1. i \in 2..(Len(q) + 1) /\ i - 1 \in DOMAIN q /\ 1 < i
      BY <1>6, <2>2
    <3>2. t[i] = q[i - 1] /\ t[j] = e
      BY <1>2, <2>2, <3>1
    <3>3. e.key \in new[q[i - 1].key]
      BY <1>5, <3>1
    <3> QED
      BY <2>2, <3>1, <3>2, <3>3
  <2>3. CASE i # 1 /\ j # 1
    <3>1. t[i] = q[i - 1] /\ t[j] = q[j - 1] /\ i - 1 \in DOMAIN q /\ j - 1 \in DOMAIN q
      BY <1>2, <1>6, <2>3
    <3>2. q[j - 1].key \in since[q[i - 1].key] <=> j - 1 < i - 1
      BY <3>1 DEF Listed, Recency
    <3>3. q[j - 1].key \in new[q[i - 1].key] <=> q[j - 1].key \in since[q[i - 1].key]
      BY <1>3, <1>5, <3>1
    <3>4. j - 1 < i - 1 <=> j < i
      BY <1>6
    <3> QED
      BY <3>1, <3>2, <3>3, <3>4
  <2> QED
    BY <2>1, <2>2, <2>3
<1> QED
  BY <1>2, <1>4, <1>7, <1>8 DEF Listed, t, new

\* The invariant in these terms.
LEMMA InvListed ==
  MemoryInv <=> /\ Listed(lru, usedSince) /\ usedSince \in Since /\ currentMem \in Nat /\ stopped \in BOOLEAN
                /\ currentMem = Memory(lru)
BY DEF MemoryInv, Accounted, MemoryTypeOK, Listed, UniqueKeys, Since
LEMMA InvListedNext ==
  MemoryInv' <=> /\ Listed(lru', usedSince') /\ usedSince' \in Since /\ currentMem' \in Nat /\ stopped' \in BOOLEAN
                 /\ currentMem' = Memory(lru')
BY DEF MemoryInv, Accounted, MemoryTypeOK, Listed, UniqueKeys, Since

\* The entry for a key that is there.
LEMMA EntryFound ==
  ASSUME MemoryAssumption, MemoryInv, NEW k
  PROVE  /\ Present(k) => EntryOf(k) \in MemoryEntry /\ EntryOf(k).key = k /\ Memory(Only(lru, {k})) = EntryOf(k).size
         /\ ~Present(k) => Memory(Only(lru, {k})) = 0
<1>1. lru \in Seq(MemoryEntry) /\ UniqueKeys(lru) /\ DOMAIN lru = 1..Len(lru)
  BY InvListed DEF Listed
<1>2. ~Present(k) => Memory(Only(lru, {k})) = 0
  BY <1>1, OnlyOne DEF Present
<1>3. ASSUME Present(k) PROVE \E p \in 1..Len(lru) : EntryOf(k) = lru[p] /\ lru[p].key = k
  <2>1. PICK p \in 1..Len(lru) : lru[p].key = k
    BY <1>1, <1>3 DEF Present, KeysOf
  <2>2. lru[p] \in Range(lru)
    BY <1>1 DEF Range
  <2>3. EntryOf(k) \in Range(lru) /\ EntryOf(k).key = k
    BY <2>1, <2>2 DEF EntryOf
  <2> QED
    BY <1>1, <2>3 DEF Range
<1>4. ASSUME Present(k) PROVE EntryOf(k) \in MemoryEntry /\ EntryOf(k).key = k /\ Memory(Only(lru, {k})) = EntryOf(k).size
  <2>1. PICK p \in 1..Len(lru) : EntryOf(k) = lru[p] /\ lru[p].key = k
    BY <1>3, <1>4
  <2>2. lru[p] \in MemoryEntry
    BY <1>1
  <2>3. Memory(Only(lru, {k})) = lru[p].size
    BY <1>1, <2>1, OnlyOne
  <2> QED
    BY <2>1, <2>2, <2>3
<1> QED
  BY <1>2, <1>4

(***************************************************************************)
(* The in-memory cache: its operations                                     *)
(***************************************************************************)

\* What is left without some keys.
LEMMA WithoutListed ==
  ASSUME MemoryAssumption, MemoryInv, NEW K
  PROVE  /\ Listed(Without(lru, K), usedSince) /\ KeysOf(Without(lru, K)) = KeysOf(lru) \ K
         /\ currentMem - Memory(Only(lru, K)) = Memory(Without(lru, K)) /\ Memory(Without(lru, K)) \in Nat
         /\ Memory(Only(lru, K)) \in Nat /\ currentMem = Memory(lru) /\ currentMem \in Nat
<1>1. Listed(lru, usedSince) /\ usedSince \in Since /\ currentMem = Memory(lru)
  BY InvListed
<1>2. lru \in Seq(MemoryEntry) /\ KeysOf(lru) \subseteq ItemKey
  <2>1. lru \in Seq(MemoryEntry) /\ \A i \in DOMAIN lru : lru[i] \in MemoryEntry
    BY <1>1 DEF Listed
  <2> QED
    BY <2>1 DEF KeysOf, MemoryEntry
<1>3. Listed(Without(lru, K), usedSince) /\ KeysOf(Without(lru, K)) = KeysOf(lru) \ K
  <2>1. KeysOf(lru) \cap (ItemKey \ K) = KeysOf(lru) \ K
    BY <1>2
  <2> QED
    BY <1>1, <2>1, OnlyListed DEF Without
<1>4. /\ Memory(Only(lru, K)) + Memory(Without(lru, K)) = Memory(lru)
      /\ Memory(Only(lru, K)) \in Nat /\ Memory(Without(lru, K)) \in Nat /\ Memory(lru) \in Nat
  BY <1>2, OnlyDivides
<1>5. \A a, b, c \in Nat : a + b = c => c - a = b
  OBVIOUS
<1> QED
  BY <1>1, <1>3, <1>4, <1>5

LEMMA DeletesKeep ==
  ASSUME MemoryAssumption, MemoryInv, NEW K, DeleteInternal(K), UNCHANGED <<stopped, usedSince>>
  PROVE  MemoryInv'
<1>1. lru' = Without(lru, K) /\ currentMem' = Memory(Without(lru, K)) /\ Memory(Without(lru, K)) \in Nat
  BY WithoutListed DEF DeleteInternal
<1>2. Listed(lru', usedSince')
  BY <1>1, WithoutListed
<1>3. usedSince' \in Since /\ stopped' \in BOOLEAN
  BY InvListed
<1> QED
  BY <1>1, <1>2, <1>3, InvListedNext

\* An entry at the front of the others, with its memory on the account.
LEMMA FrontKeeps ==
  ASSUME MemoryAssumption, MemoryInv, NEW q, Listed(q, usedSince), NEW e \in MemoryEntry, e.key \notin KeysOf(q),
         lru' = <<e>> \o q, currentMem' = Memory(q) + e.size, usedSince' = Touched(usedSince, e.key), stopped' \in BOOLEAN
  PROVE  MemoryInv'
<1>1. usedSince \in Since /\ q \in Seq(MemoryEntry)
  BY InvListed DEF Listed
<1>2. Listed(lru', usedSince') /\ usedSince' \in Since
  BY <1>1, FrontListed
<1>3. Memory(lru') = Memory(q) + e.size /\ Memory(q) \in Nat /\ e.size \in Nat
  BY <1>1, MemoryGrows
<1> QED
  BY <1>2, <1>3, InvListedNext

LEMMA GetItemKeeps == ASSUME MemoryAssumption, MemoryInv, NEW k \in ItemKey, GetItem(k) PROVE MemoryInv'
<1>1. CASE LiveItem(k)
  <2> DEFINE q == Without(lru, {k})
             e == EntryOf(k)
  <2>1. e \in MemoryEntry /\ e.key = k /\ Memory(Only(lru, {k})) = e.size
    BY <1>1, EntryFound DEF LiveItem
  <2>2. /\ Listed(q, usedSince) /\ k \notin KeysOf(q) /\ currentMem - e.size = Memory(q) /\ Memory(q) \in Nat
        /\ e.size \in Nat /\ currentMem \in Nat
    BY <2>1, WithoutListed
  <2>3. lru' = <<e>> \o q /\ currentMem' = currentMem /\ stopped' = stopped /\ usedSince' = Touched(usedSince, k)
    BY <1>1 DEF GetItem, MoveToFront, UseKey, Touched
  <2>4. stopped' \in BOOLEAN
    BY <2>3, InvListed
  <2> HIDE DEF q, e
  <2>5. currentMem' = Memory(q) + e.size
    BY <2>2, <2>3
  <2> QED
    BY <2>1, <2>2, <2>3, <2>4, <2>5, FrontKeeps
<1>2. CASE ~LiveItem(k)
  BY <1>2, DeletesKeep DEF GetItem
<1> QED
  BY <1>1, <1>2

NewEntry(k, size, number) == [key |-> k, size |-> size, number |-> number, fresh |-> TRUE]

LEMMA IncrItemKeeps ==
  ASSUME MemoryAssumption, MemoryInv, NEW k \in ItemKey, NEW size \in NumberSize, IncrItem(k, size) PROVE MemoryInv'
<1> DEFINE q == Without(lru, {k})
           e == NewEntry(k, size, TRUE)
<1>1. size \in ItemSize /\ size \in Nat /\ e \in MemoryEntry /\ e.key = k /\ e.size = size
  BY DEF MemoryAssumption, MemoryEntry, NewEntry
<1>2. Replaced(k, size) = Memory(Only(lru, {k}))
  BY EntryFound DEF Replaced
<1>3. /\ Listed(q, usedSince) /\ k \notin KeysOf(q) /\ currentMem - Replaced(k, size) = Memory(q) /\ Memory(q) \in Nat
  BY <1>2, WithoutListed
<1>4. /\ lru' = <<e>> \o q /\ currentMem' = currentMem - Replaced(k, size) + size
      /\ stopped' = stopped /\ usedSince' = Touched(usedSince, k)
  BY DEF IncrItem, UseKey, Touched, NewEntry
<1>5. stopped' \in BOOLEAN
  BY <1>4, InvListed
<1> HIDE DEF q, e
<1>6. currentMem' = Memory(q) + e.size
  BY <1>1, <1>3, <1>4
<1> QED
  BY <1>1, <1>3, <1>4, <1>5, <1>6, FrontKeeps

\* n of the others and the new value are within both limits.
Fits(q, n, size) == RoomForMemory(MemoryUpTo(q)[n], size) /\ RoomForItem(n)

\* A Set keeps as many of the others as fit, from the front.
LEMMA SetDoes ==
  ASSUME MemoryAssumption, MemoryInv, NEW k \in ItemKey, NEW size \in ItemSize, NEW number, SetItem(k, size, number)
  PROVE  LET q == Without(lru, {k}) IN
         \E n \in 0..Len(q) :
            /\ lru' = <<NewEntry(k, size, number)>> \o SubSeq(q, 1, n)
            /\ currentMem' = MemoryUpTo(q)[n] + size /\ usedSince' = Touched(usedSince, k) /\ stopped' = stopped
            /\ (Fits(q, n, size) \/ n = 0) /\ \A p \in 0..Len(q) : Fits(q, p, size) => p <= n
<1> DEFINE q == Without(lru, {k})
           mem == currentMem - Memory(Only(lru, {k}))
           behind(p) == Memory(SubSeq(q, p + 1, Len(q)))
           S == {p \in 0..Len(q) : RoomForMemory(mem - behind(p), size) /\ RoomForItem(p)} \cup {0}
           n == Kept(q, mem, size)
<1>1. q \in Seq(MemoryEntry) /\ mem = Memory(q) /\ Len(q) \in Nat
  BY WithoutListed DEF Listed
<1>2. /\ lru' = <<NewEntry(k, size, number)>> \o SubSeq(q, 1, n)
      /\ currentMem' = mem - behind(n) + size /\ usedSince' = Touched(usedSince, k) /\ stopped' = stopped
  BY DEF SetItem, UseKey, Touched, NewEntry
<1>3. n = Max(S)
  BY DEF Kept
<1> HIDE DEF q, mem
<1>4. ASSUME NEW p \in 0..Len(q) PROVE mem - behind(p) = MemoryUpTo(q)[p] /\ MemoryUpTo(q)[p] \in Nat
  <2>1. behind(p) = Memory(q) - MemoryUpTo(q)[p] /\ MemoryUpTo(q)[p] \in Nat /\ Memory(q) \in Nat
    BY <1>1, MemorySplits
  <2>2. \A a, b \in Nat : a - (a - b) = b
    OBVIOUS
  <2> QED
    BY <1>1, <2>1, <2>2
<1>5. S \in SUBSET (0..Len(q)) /\ S # {}
  BY <1>1
<1>6. n \in S /\ \A p \in S : p <= n
  <2> HIDE DEF S, n
  <2> QED
    BY <1>1, <1>3, <1>5, MaxOf
<1> HIDE DEF n, behind
<1>7. n \in 0..Len(q)
  BY <1>5, <1>6
<1>8. Fits(q, n, size) \/ n = 0
  BY <1>4, <1>6, <1>7 DEF Fits
<1>9. ASSUME NEW p \in 0..Len(q), Fits(q, p, size) PROVE p <= n
  <2>1. RoomForMemory(mem - behind(p), size) /\ RoomForItem(p)
    BY <1>4, <1>9 DEF Fits
  <2>2. p \in S
    BY <2>1
  <2> QED
    BY <1>6, <2>2
<1>10. currentMem' = MemoryUpTo(q)[n] + size
  BY <1>2, <1>4, <1>7
<1> QED
  BY <1>2, <1>7, <1>8, <1>9, <1>10 DEF q

LEMMA SetItemKeeps ==
  ASSUME MemoryAssumption, MemoryInv, NEW k \in ItemKey, NEW size \in ItemSize, NEW number \in BOOLEAN, SetItem(k, size, number)
  PROVE  MemoryInv'
<1> DEFINE q == Without(lru, {k})
           e == NewEntry(k, size, number)
<1>1. PICK n \in 0..Len(q) :
            /\ lru' = <<e>> \o SubSeq(q, 1, n)
            /\ currentMem' = MemoryUpTo(q)[n] + size /\ usedSince' = Touched(usedSince, k) /\ stopped' = stopped
  BY SetDoes
<1>2. e \in MemoryEntry /\ e.key = k /\ e.size = size
  BY DEF MemoryEntry, NewEntry
<1>3. Listed(q, usedSince) /\ q \in Seq(MemoryEntry) /\ k \notin KeysOf(q) /\ usedSince \in Since /\ stopped' \in BOOLEAN
  BY <1>1, WithoutListed, InvListed DEF Listed
<1> DEFINE s == SubSeq(q, 1, n)
<1> HIDE DEF q, e
<1>4. Listed(s, usedSince) /\ KeysOf(s) = {q[i].key : i \in 1..n} /\ \A i \in 1..n : i \in DOMAIN q
  BY <1>3, FirstListed
<1>5. k \notin KeysOf(s)
  BY <1>3, <1>4 DEF KeysOf
<1>6. Memory(s) = MemoryUpTo(q)[n]
  BY <1>3, MemorySplits
<1> HIDE DEF s
<1>7. lru' = <<e>> \o s /\ currentMem' = Memory(s) + e.size /\ usedSince' = Touched(usedSince, e.key)
  BY <1>1, <1>2, <1>6 DEF s
<1> QED
  BY <1>2, <1>3, <1>4, <1>5, <1>7, FrontKeeps

LEMMA ClearItemsKeeps == ASSUME MemoryAssumption, MemoryInv, NEW close \in BOOLEAN, ClearItems(close) PROVE MemoryInv'
<1>1. <<>> \in Seq(MemoryEntry) /\ Len(<<>>) = 0 /\ DOMAIN <<>> = {}
  OBVIOUS
<1>2. Memory(<<>>) = 0
  <2>1. MemoryUpTo(<<>>)[0] = 0
    BY <1>1, MemoryAdds
  <2> QED
    BY <1>1, <2>1 DEF Memory
<1>3. Listed(<<>>, usedSince)
  BY <1>1 DEF Listed, UniqueKeys, Recency
<1>4. lru' = <<>> /\ currentMem' = 0 /\ usedSince' = usedSince /\ stopped' \in BOOLEAN
  BY InvListed DEF ClearItems
<1>5. usedSince \in Since
  BY InvListed
<1> QED
  BY <1>2, <1>3, <1>4, <1>5, InvListedNext

LEMMA ExpireItemKeeps == ASSUME MemoryAssumption, MemoryInv, NEW k \in ItemKey, ExpireItem(k) PROVE MemoryInv'
<1>1. Listed(lru, usedSince) /\ usedSince \in Since /\ currentMem \in Nat /\ stopped \in BOOLEAN /\ currentMem = Memory(lru)
  BY InvListed
<1>2. lru \in Seq(MemoryEntry) /\ DOMAIN lru = 1..Len(lru) /\ Len(lru) \in Nat
  BY <1>1 DEF Listed
<1>3. /\ lru' = [n \in DOMAIN lru |-> IF lru[n].key = k THEN [lru[n] EXCEPT !.fresh = FALSE] ELSE lru[n]]
      /\ currentMem' = currentMem /\ stopped' = stopped /\ usedSince' = usedSince
  BY DEF ExpireItem
<1>4. \A n \in DOMAIN lru : lru'[n] \in MemoryEntry /\ lru'[n].key = lru[n].key /\ lru'[n].size = lru[n].size
  <2> TAKE n \in DOMAIN lru
  <2>1. lru[n] \in MemoryEntry
    BY <1>2
  <2>2. lru'[n] = IF lru[n].key = k THEN [lru[n] EXCEPT !.fresh = FALSE] ELSE lru[n]
    BY <1>3
  <2> QED
    BY <2>1, <2>2 DEF MemoryEntry
<1>5. lru' \in Seq(MemoryEntry) /\ Len(lru') = Len(lru) /\ DOMAIN lru' = DOMAIN lru
  <2>1. lru' \in [1..Len(lru) -> MemoryEntry]
    BY <1>2, <1>3, <1>4
  <2> QED
    BY <1>2, <2>1
<1>6. UniqueKeys(lru') /\ Recency(lru', usedSince')
  BY <1>1, <1>3, <1>4, <1>5 DEF Listed, UniqueKeys, Recency
<1>7. Memory(lru') = Memory(lru)
  BY <1>2, <1>4, <1>5, MemoryBySize
<1> QED
  BY <1>1, <1>3, <1>5, <1>6, <1>7, InvListedNext DEF Listed

LEMMA MemoryStep == ASSUME MemoryAssumption, MemoryInv, [MemoryNext]_memoryVars PROVE MemoryInv'
<1>1. CASE UNCHANGED memoryVars
  BY <1>1, InvListed, InvListedNext DEF memoryVars
<1>2. ASSUME NEW K, DeletePattern(K) \/ \E k \in K : DeleteItem(k) PROVE MemoryInv'
  BY <1>2, DeletesKeep DEF DeletePattern, DeleteItem
<1>3. CASE Cleanup
  BY <1>3, DeletesKeep DEF Cleanup
<1> QED
  BY <1>1, <1>2, <1>3, GetItemKeeps, SetItemKeeps, IncrItemKeeps, ClearItemsKeeps, ExpireItemKeeps DEF MemoryNext

LEMMA MemoryStarts == ASSUME MemoryAssumption, MemoryInit PROVE MemoryInv
<1>1. <<>> \in Seq(MemoryEntry) /\ Len(<<>>) = 0 /\ DOMAIN <<>> = {}
  OBVIOUS
<1>2. MemoryUpTo(<<>>)[0] = 0
  BY <1>1, MemoryAdds
<1>3. Memory(<<>>) = 0
  BY <1>1, <1>2 DEF Memory
<1>4. Listed(<<>>, usedSince)
  BY <1>1 DEF Listed, UniqueKeys, Recency
<1>5. usedSince \in Since
  BY DEF MemoryInit, Since
<1> QED
  BY <1>3, <1>4, <1>5, InvListed DEF MemoryInit

\* However Get, Set, Delete, Incr, Clear and expiry follow each other, the in-memory cache books
\* exactly the memory of its entries and has one for each key (internal/cache/memory.go).
THEOREM MemoryIsAccounted == ASSUME MemoryAssumption PROVE MemorySpec => []Accounted
<1>1. MemoryInit => MemoryInv
  BY MemoryStarts
<1>2. MemoryInv /\ [MemoryNext]_memoryVars => MemoryInv'
  BY MemoryStep
<1>3. MemoryInv => Accounted
  BY DEF MemoryInv
<1> QED
  BY <1>1, <1>2, <1>3, PTL DEF MemorySpec

\* The entries used after one of the others, and itself, are the first of them.
LEMMA NewerAreFirst ==
  ASSUME MemoryAssumption, MemoryInv, NEW k \in ItemKey, NEW p \in 1..Len(Without(lru, {k}))
  PROVE  LET q == Without(lru, {k})
             old == q[p].key
         IN  Only(lru, (usedSince[old] \cup {old}) \ {k}) = SubSeq(q, 1, p)
<1> DEFINE q == Without(lru, {k})
           old == q[p].key
           A == (usedSince[old] \cup {old}) \ {k}
           B == ItemKey \ {k}
           s == Only(lru, A)
           N == Len(lru)
<1>1. lru \in Seq(MemoryEntry) /\ N \in Nat
  BY InvListed DEF Listed
<1>2. PICK f : Enumerates(f, q, lru, B, N)
  BY <1>1, OnlyEnumerates DEF Without
<1>3. s \in Seq(MemoryEntry) /\ Len(s) \in Nat
  BY <1>1, OnlyEnumerates
<1>4. PICK g : Enumerates(g, s, lru, A, N)
  BY <1>1, OnlyEnumerates
<1>5. /\ q \in Seq(MemoryEntry) /\ Len(q) \in Nat /\ DOMAIN q = 1..Len(q) /\ UniqueKeys(q) /\ Recency(q, usedSince)
      /\ usedSince \in Since
  BY WithoutListed, InvListed DEF Listed
<1> HIDE DEF q, s, N
<1>6. p \in 1..Len(q)
  BY DEF q
<1>7. p \in Nat /\ \A i \in 1..p : i \in 1..Len(q) /\ i \in DOMAIN q /\ (i < p \/ i = p)
  BY <1>5, <1>6
<1>8. \A i \in DOMAIN q : q[i] \in MemoryEntry /\ q[i].key \in ItemKey
  <2>1. \A i \in DOMAIN q : q[i] \in MemoryEntry
    BY <1>5
  <2> QED
    BY <2>1 DEF MemoryEntry
<1>9. A \subseteq B
  BY <1>5, <1>6, <1>8 DEF Since
<1>10. \A i \in 1..Len(q) : f[i] \in 1..N /\ q[i] = lru[f[i]] /\ lru[f[i]].key \in B
  BY <1>2 DEF Enumerates
<1>11. \A i \in 1..Len(q) : q[i].key \in A <=> i \in 1..p
  <2> TAKE i \in 1..Len(q)
  <2>1. i \in DOMAIN q /\ p \in DOMAIN q /\ q[i].key # k
    BY <1>5, <1>6, <1>10
  <2>2. q[i].key \in usedSince[old] <=> i < p
    BY <1>5, <2>1 DEF Recency
  <2>3. q[i].key = old <=> i = p
    BY <1>5, <2>1 DEF UniqueKeys
  <2>4. i \in 1..p <=> i < p \/ i = p
    BY <1>5, <1>6
  <2> QED
    BY <2>1, <2>2, <2>3, <2>4
<1> HIDE DEF A, B, old
<1> DEFINE h == [i \in 1..p |-> f[i]]
           l == Len(s)
<1>12. Upwards(h, p, N)
  BY <1>2, <1>7, <1>10 DEF Enumerates, Upwards
<1>13. Upwards(g, l, N) /\ l \in Nat
  BY <1>3, <1>4 DEF Enumerates, Upwards
<1>14. Covers(g, l, h, p)
  <2> SUFFICES ASSUME NEW i \in 1..p PROVE \E j \in 1..l : h[i] = g[j]
    BY DEF Covers
  <2>1. f[i] \in 1..N /\ lru[f[i]].key \in A
    BY <1>7, <1>10, <1>11
  <2> QED
    BY <1>4, <2>1 DEF Enumerates
<1>15. Covers(h, p, g, l)
  <2> SUFFICES ASSUME NEW j \in 1..l PROVE \E i \in 1..p : g[j] = h[i]
    BY DEF Covers
  <2>1. g[j] \in 1..N /\ lru[g[j]].key \in A
    BY <1>4 DEF Enumerates
  <2>2. PICK i \in 1..Len(q) : f[i] = g[j]
    BY <1>2, <1>9, <2>1 DEF Enumerates
  <2>3. i \in 1..p
    BY <1>10, <1>11, <2>1, <2>2
  <2> QED
    BY <2>2, <2>3
<1>16. \A i \in 1..p : h[i] = f[i]
  OBVIOUS
<1> HIDE DEF h, l
<1>17. p = l /\ \A i \in 1..p : h[i] = g[i]
  BY <1>1, <1>7, <1>12, <1>13, <1>14, <1>15, OneWayUp
<1>18. \A i \in 1..p : s[i] = q[i]
  <2> TAKE i \in 1..p
  <2>1. i \in 1..Len(s)
    BY <1>17 DEF l
  <2>2. s[i] = lru[g[i]]
    BY <1>4, <2>1 DEF Enumerates
  <2>3. q[i] = lru[f[i]]
    BY <1>7, <1>10
  <2> QED
    BY <1>16, <1>17, <2>2, <2>3
<1> DEFINE t == SubSeq(q, 1, p)
<1>19. t \in Seq(MemoryEntry) /\ Len(t) = p /\ \A i \in 1..p : t[i] = q[i]
  BY <1>5, <1>6, <1>7
<1> HIDE DEF t
<1>20. Len(s) = p
  BY <1>17 DEF l
<1>21. s = t
  <2>1. s = [i \in 1..p |-> s[i]] /\ t = [i \in 1..p |-> t[i]]
    BY <1>3, <1>19, <1>20
  <2> QED
    BY <1>18, <1>19, <2>1
<1> QED
  BY <1>21 DEF s, t, q, A, old

LEMMA SetIsExact == ASSUME MemoryAssumption, MemoryInv, MemoryInv' PROVE SetStepExact
<1> SUFFICES ASSUME NEW e \in Range(lru'), SetStep(e) PROVE EvictedRightly(e) /\ WithinLimits
  BY DEF SetStepExact
<1> DEFINE k == e.key
           size == e.size
           q == Without(lru, {k})
           new == NewEntry(k, size, e.number)
<1>1. Listed(lru', usedSince') /\ currentMem' = Memory(lru')
  BY InvListedNext
<1>2. e \in MemoryEntry /\ k \in ItemKey /\ size \in ItemSize /\ size \in Nat
  <2>1. \A i \in DOMAIN lru' : lru'[i] \in MemoryEntry
    BY <1>1 DEF Listed
  <2>2. e \in MemoryEntry
    BY <2>1 DEF Range
  <2> QED
    BY <2>2 DEF MemoryEntry, MemoryAssumption
<1>3. SetItem(k, size, e.number)
  BY DEF SetStep
<1>4. PICK n \in 0..Len(q) :
            /\ lru' = <<new>> \o SubSeq(q, 1, n) /\ currentMem' = MemoryUpTo(q)[n] + size
            /\ (Fits(q, n, size) \/ n = 0) /\ \A p \in 0..Len(q) : Fits(q, p, size) => p <= n
  <2> HIDE DEF k, size
  <2> QED
    BY <1>2, <1>3, SetDoes
<1>5. /\ Listed(q, usedSince) /\ q \in Seq(MemoryEntry) /\ Len(q) \in Nat /\ DOMAIN q = 1..Len(q)
      /\ KeysOf(q) = KeysOf(lru) \ {k} /\ usedSince \in Since
  BY WithoutListed, InvListed DEF Listed
<1> DEFINE s == SubSeq(q, 1, n)
<1>6. new.key = k
  BY DEF NewEntry
<1> HIDE DEF q, new, k, size
<1>7. /\ Len(s) = n /\ s \in Seq(MemoryEntry) /\ KeysOf(s) = {q[i].key : i \in 1..n}
      /\ \A i \in 1..n : s[i] = q[i] /\ i \in DOMAIN q
  BY <1>5, FirstListed DEF Listed
<1>8. n \in Nat /\ MemoryUpTo(q)[n] \in Nat
  BY <1>5, MemorySplits
<1>9. Len(lru') = n + 1 /\ KeysOf(lru') = {k} \cup KeysOf(s)
  <2>1. lru' = <<new>> \o s
    BY <1>4
  <2> HIDE DEF s
  <2>2. /\ Len(lru') = n + 1 /\ DOMAIN lru' = 1..(n + 1) /\ lru'[1] = new
        /\ \A i \in 1..n : lru'[i + 1] = s[i] /\ i + 1 \in 1..(n + 1)
    BY <1>7, <1>8, <2>1
  <2>3. DOMAIN s = 1..n /\ 1 \in 1..(n + 1)
    BY <1>7, <1>8
  <2>4. \A i \in 1..(n + 1) : i = 1 \/ \E j \in 1..n : i = j + 1
    <3> TAKE i \in 1..(n + 1)
    <3>1. i = 1 \/ (i - 1 \in 1..n /\ i = (i - 1) + 1)
      BY <1>8
    <3> QED
      BY <3>1
  <2>5. ASSUME NEW x \in KeysOf(lru') PROVE x \in {k} \cup KeysOf(s)
    <3>1. PICK i \in 1..(n + 1) : x = lru'[i].key
      BY <2>2 DEF KeysOf
    <3>2. i = 1 \/ \E j \in 1..n : i = j + 1
      BY <2>4
    <3> QED
      BY <1>6, <2>2, <2>3, <3>1, <3>2 DEF KeysOf
  <2>6. k \in KeysOf(lru')
    BY <1>6, <2>2, <2>3 DEF KeysOf
  <2>7. ASSUME NEW x \in KeysOf(s) PROVE x \in KeysOf(lru')
    BY <2>2, <2>3 DEF KeysOf
  <2> QED
    BY <2>2, <2>5, <2>6, <2>7
<1>10. WithinLimits
  <2>1. Memory(lru') = MemoryUpTo(q)[n] + size
    BY <1>1, <1>4
  <2>2. MaxItems > 0 => Len(lru') <= MaxItems
    BY <1>4, <1>8, <1>9 DEF Fits, RoomForItem, MemoryAssumption
  <2>3. n # 0 => (MaxMemory > 0 => Memory(lru') <= MaxMemory)
    BY <1>4, <2>1 DEF Fits, RoomForMemory
  <2>4. n = 0 => Len(lru') = 1
    BY <1>9
  <2> QED
    BY <2>2, <2>3, <2>4 DEF WithinLimits
<1>11. EvictedRightly(e)
  <2> SUFFICES ASSUME NEW old \in KeysOf(lru) \ ({k} \cup KeysOf(lru'))
               PROVE  LET newer == Only(lru, (usedSince[old] \cup {old}) \ {k}) IN
                      /\ (KeysOf(lru') \ {k}) \subseteq usedSince[old]
                      /\ \/ MaxMemory > 0 /\ Memory(newer) + size > MaxMemory
                         \/ MaxItems > 0 /\ Len(newer) >= MaxItems
    BY DEF EvictedRightly, k, size
  <2>1. PICK p \in 1..Len(q) : q[p].key = old
    <3>1. old \in KeysOf(q)
      BY <1>5
    <3> QED
      BY <1>5, <3>1 DEF KeysOf
  <2>2. p \in Nat /\ p \in 0..Len(q) /\ p \in DOMAIN q
    BY <1>5
  <2>3. p > n
    <3>1. ~(p \in 1..n)
      BY <1>7, <1>9, <2>1
    <3> QED
      BY <1>8, <2>2, <3>1
  <2>4. (KeysOf(lru') \ {k}) \subseteq usedSince[old]
    <3> SUFFICES ASSUME NEW i \in 1..n PROVE q[i].key \in usedSince[old]
      BY <1>7, <1>9
    <3>1. i \in DOMAIN q /\ i < p
      BY <1>7, <1>8, <2>2, <2>3
    <3> QED
      BY <1>5, <2>1, <2>2, <3>1 DEF Listed, Recency
  <2> DEFINE newer == Only(lru, (usedSince[old] \cup {old}) \ {k})
  <2>5. newer = SubSeq(q, 1, p)
    BY <1>2, <2>1, NewerAreFirst DEF q
  <2>6. Memory(newer) = MemoryUpTo(q)[p] /\ Len(newer) = p /\ MemoryUpTo(q)[p] \in Nat
    <3>1. Len(SubSeq(q, 1, p)) = p
      BY <1>5, <2>2, FirstListed
    <3> QED
      BY <1>5, <2>2, <2>5, <3>1, MemorySplits
  <2>7. ~Fits(q, p, size)
    <3>1. ~(p <= n)
      BY <1>8, <2>2, <2>3
    <3> QED
      BY <1>4, <2>2, <3>1
  <2> HIDE DEF newer
  <2>8. (MaxMemory > 0 /\ Memory(newer) + size > MaxMemory) \/ (MaxItems > 0 /\ Len(newer) >= MaxItems)
    <3>1. ~(MaxMemory > 0 => MemoryUpTo(q)[p] + size <= MaxMemory) \/ ~(MaxItems > 0 => p < MaxItems)
      BY <2>7 DEF Fits, RoomForMemory, RoomForItem
    <3>2. MaxMemory \in Nat /\ MaxItems \in Nat
      BY DEF MemoryAssumption
    <3> QED
      BY <1>2, <2>2, <2>6, <3>1, <3>2
  <2> QED
    BY <2>4, <2>8 DEF newer
<1> QED
  BY <1>10, <1>11

\* A Set of the in-memory cache evicts only least recently used entries that had to go, and leaves
\* both limits kept, but for a single value beyond the whole memory (internal/cache/memory.go).
THEOREM SetsEvictExactly == ASSUME MemoryAssumption PROVE MemorySpec => SetEvictsExactly
<1>1. MemoryInit => MemoryInv
  BY MemoryStarts
<1>2. MemoryInv /\ [MemoryNext]_memoryVars => MemoryInv'
  BY MemoryStep
<1>3. MemoryInv /\ MemoryInv' => [SetStepExact]_memoryVars
  BY SetIsExact
<1> QED
  BY <1>1, <1>2, <1>3, PTL DEF MemorySpec, SetEvictsExactly

(***************************************************************************)
(* The generated endpoints: requests, their effects and the breaker        *)
(***************************************************************************)

EffectType == [step : Nat, what : {"insert", "event", "call"}]
InProgress == {"handler", "emitting", "calling", "answered"}
Calling == {"calling", "answered"}

\* What was done so far is in the order of the steps, none beyond the current one, none after a step
\* that no request gets past.
EffectsWithin(p, q, e) ==
    /\ \A i, j \in DOMAIN e : i < j => e[i].step <= e[j].step
    /\ \A i \in DOMAIN e : e[i].step \in 1..q.step /\ \A j \in Hopeless(p) : e[i].step <= j

\* Of the steps behind the current one, exactly those with an effect have had it.
BehindDone(p, q, e) ==
    /\ q.step > 0
    /\ \A j \in 1..(q.step - 1) : j \notin Hopeless(p) /\ (j \in Effectful(p) <=> j \in StepsWithEffect(e))

ServingSound(p, q, e) ==
    /\ EffectsWithin(p, q, e) /\ q.step \in 0..(Len(p.logic) + 1)
    /\ q.pc = "idle" => q.step = 0
    /\ q.pc \in InProgress => BehindDone(p, q, e)
    /\ q.pc = "handler" => q.step \notin StepsWithEffect(e)
    /\ q.pc \in {"emitting", "calling", "answered"} => q.step \in Effectful(p) \cap StepsWithEffect(e) /\ q.step \notin Hopeless(p)
    /\ q.pc = "emitting" => q.dispatches # <<>>
    /\ q.pc = "done" /\ q.status = p.code => StepsWithEffect(e) = Effectful(p)

\* The chain lets the token through to the steps.
LetsIn(c, bearer) == \A i \in DOMAIN c : c[i] = "required" => bearer = "valid"

EndpointCore ==
    /\ program \in Programs \cup {NoProgram} /\ reachable \in BOOLEAN
    /\ serving \in [EndpointRequest -> Serving] /\ effects \in [EndpointRequest -> Seq(EffectType)]
    /\ program # NoProgram => Generates(program) /\ chain = BuildMiddlewareChain(program, reachable)
    /\ program = NoProgram => chain = <<>> /\ \A r \in EndpointRequest : serving[r].pc = "idle"
    /\ \A r \in EndpointRequest : serving[r].step > 0 => LetsIn(chain, serving[r].token)
    /\ \A r \in EndpointRequest : ServingSound(program, serving[r], effects[r])

CircuitSound ==
    /\ breaker \in [state : {"closed", "open", "half_open"}, failures : Nat, concurrent : Nat]
    /\ SlotsMatchCalls

EndpointInv == EndpointCore /\ CircuitSound

-----------------------------------------------------------------------------
\* Programs and chains

LEMMA ProgramTyped ==
  ASSUME EndpointAssumption, program \in Programs \cup {NoProgram}
  PROVE  program \in Program
<1>1. NoProgram \in Program
  <2>1. <<>> \in Seq(Declaration) /\ <<>> \in Seq(STRING) /\ <<>> \in Seq(LogicStep)
    BY EmptySeq
  <2>2. 200 \in Nat /\ FALSE \in BOOLEAN
    OBVIOUS
  <2> QED
    BY <2>1, <2>2 DEF NoProgram, Program, Methods
<1> QED
  BY <1>1 DEF EndpointAssumption

LEMMA ProgramFields ==
  ASSUME NEW p \in Program
  PROVE  /\ p.decls \in Seq(Declaration) /\ p.refs \in Seq(STRING) /\ p.logic \in Seq(LogicStep) /\ p.code \in Nat
         /\ p.db \in BOOLEAN /\ p.params \in BOOLEAN
         /\ Len(p.logic) \in Nat /\ DOMAIN p.logic = 1..Len(p.logic)
         /\ \A i \in DOMAIN p.logic : p.logic[i] \in LogicStep
         /\ DOMAIN p.decls = 1..Len(p.decls) /\ \A i \in DOMAIN p.decls : p.decls[i] \in Declaration
BY DEF Program

LEMMA ServingFields ==
  ASSUME NEW q \in Serving
  PROVE  /\ q.pc \in {"idle", "handler", "emitting", "calling", "answered", "done"} /\ q.step \in Nat
         /\ q.kind \in {"nil", "nilmap", "map"} /\ q.data \in Values \cup {"unset"} /\ q.result \in Values
         /\ q.status \in Nat /\ q.failed \in BOOLEAN /\ q.token \in {"none", "valid", "invalid"}
         /\ q.dispatches \in Seq([event : STRING, next : Nat])
BY DEF Serving

\* Every middleware that a chain has is one that could be built.
LEMMA ChainTyped ==
  ASSUME NEW p, NEW up
  PROVE  LET c == BuildMiddlewareChain(p, up) IN
         DOMAIN c \subseteq DOMAIN p.refs /\ \A i \in DOMAIN c : c[i] \in {"required", "optional", "pass"}
BY DEF BuildMiddlewareChain, Usable, GenerateMiddleware

\* Names of middlewares are unique: the one a reference finds is the one declared.
LEMMA ChainHasRequired ==
  ASSUME NEW p, NEW up, Generates(p), NEW i \in DOMAIN p.refs, NEW j \in Named(p, p.refs[i]),
         p.decls[j].type = "authentication", p.decls[j].required, CreateMiddlewareChain(p, up, p.decls[j])
  PROVE  LET c == BuildMiddlewareChain(p, up) IN i \in DOMAIN c /\ c[i] = "required"
<1> DEFINE k == CHOOSE k \in Named(p, p.refs[i]) : TRUE
<1>1. k \in Named(p, p.refs[i])
  OBVIOUS
<1>2. ~Duplicate(p, "middleware")
  BY DEF Generates, LoadProgram
<1>3. k = j
  BY <1>1, <1>2 DEF Named, Duplicate
<1>4. GetMiddleware(p, p.refs[i]) = p.decls[j]
  BY <1>3 DEF GetMiddleware
<1>5. GenerateMiddleware(p, up, GetMiddleware(p, p.refs[i])) = "required"
  BY <1>4 DEF GenerateMiddleware
<1>6. i \in Usable(p, up)
  BY <1>5 DEF Usable
<1> QED
  BY <1>5, <1>6 DEF BuildMiddlewareChain

\* The invariant is all that the property asks for.
LEMMA EndpointInvStrong == ASSUME EndpointAssumption, EndpointInv PROVE EndpointsKeepFaith
<1> USE DEF EndpointInv
<1>0. program \in Program
  BY ProgramTyped DEF EndpointCore
<1>1. ASSUME NEW r \in EndpointRequest
      PROVE  /\ serving[r] \in Serving /\ effects[r] \in Seq(EffectType) /\ ServingSound(program, serving[r], effects[r])
  BY DEF EndpointCore
<1>2. ASSUME NEW r \in EndpointRequest PROVE serving[r].step <= Len(program.logic) + 1
  BY <1>0, <1>1, ProgramFields DEF ServingSound
<1>3. DOMAIN chain \subseteq DOMAIN program.refs /\ \A i \in DOMAIN chain : chain[i] \in {"required", "optional", "pass"}
  BY ChainTyped DEF EndpointCore
<1>4. EndpointTypeOK
  BY <1>2, <1>3 DEF EndpointTypeOK, EndpointCore, CircuitSound, EffectType
<1>5. ResponsesTellEffects
  <2> SUFFICES ASSUME NEW r \in EndpointRequest
               PROVE  /\ \A i, j \in DOMAIN effects[r] : i < j => effects[r][i].step <= effects[r][j].step
                      /\ \A i \in StepsWithEffect(effects[r]) : i <= serving[r].step /\ \A j \in Hopeless(program) : i <= j
                      /\ Succeeded(r) => StepsWithEffect(effects[r]) = Effectful(program)
                      /\ serving[r].pc = "done" /\ serving[r].step = 0 => effects[r] = <<>>
    BY DEF ResponsesTellEffects
  <2>1. EffectsWithin(program, serving[r], effects[r])
    BY <1>1 DEF ServingSound
  <2>2. \A i \in StepsWithEffect(effects[r]) : i <= serving[r].step /\ \A j \in Hopeless(program) : i <= j
    BY <2>1, <1>1, ServingFields DEF EffectsWithin, StepsWithEffect
  <2>3. serving[r].step = 0 => effects[r] = <<>>
    BY <2>1, <1>1 DEF EffectsWithin
  <2>4. Succeeded(r) => StepsWithEffect(effects[r]) = Effectful(program)
    BY <1>1 DEF Succeeded, ServingSound
  <2> QED
    BY <2>1, <2>2, <2>3, <2>4 DEF EffectsWithin
<1>6. TokensAreChecked
  <2> SUFFICES ASSUME NEW r \in EndpointRequest, serving[r].step > 0, serving[r].token # "valid",
                      NEW i \in DOMAIN program.refs, NEW j \in Named(program, program.refs[i]),
                      program.decls[j].type = "authentication", program.decls[j].required,
                      CreateMiddlewareChain(program, reachable, program.decls[j])
               PROVE  FALSE
    BY DEF TokensAreChecked
  <2>1. program # NoProgram
    BY <1>1 DEF EndpointCore, ServingSound
  <2>2. Generates(program) /\ chain = BuildMiddlewareChain(program, reachable)
    BY <2>1 DEF EndpointCore
  <2>3. i \in DOMAIN chain /\ chain[i] = "required"
    BY <2>2, ChainHasRequired
  <2> QED
    BY <2>3 DEF EndpointCore, LetsIn
<1> QED
  BY <1>4, <1>5, <1>6 DEF EndpointsKeepFaith, CircuitSound

-----------------------------------------------------------------------------
\* The requests start with nothing done.
LEMMA EndpointInitInv == ASSUME EndpointAssumption, EndpointInit PROVE EndpointInv
<1>1. Fresh \in Serving
  <2>1. <<>> \in Seq([event : STRING, next : Nat])
    BY EmptySeq
  <2> QED
    BY <2>1 DEF Fresh, Serving, Values
<1>2. <<>> \in Seq(EffectType) /\ DOMAIN <<>> = {}
  OBVIOUS
<1>3. NoProgram \in Program
  BY ProgramTyped DEF EndpointInit
<1>4. \A r \in EndpointRequest : serving[r] = Fresh /\ effects[r] = <<>>
  BY DEF EndpointInit
<1>5. ServingSound(NoProgram, Fresh, <<>>)
  <2>1. EffectsWithin(NoProgram, Fresh, <<>>)
    BY <1>2 DEF EffectsWithin
  <2>2. Fresh.step = 0 /\ Fresh.pc = "idle"
    BY DEF Fresh
  <2>3. Len(NoProgram.logic) \in Nat
    BY <1>3, ProgramFields
  <2> QED
    BY <2>1, <2>2, <2>3 DEF ServingSound, InProgress
<1>6. EndpointCore
  <2>1. Fresh.pc = "idle" /\ Fresh.step = 0
    BY DEF Fresh
  <2>2. \A r \in EndpointRequest : ServingSound(program, serving[r], effects[r])
    BY <1>4, <1>5 DEF EndpointInit
  <2>3. serving \in [EndpointRequest -> Serving] /\ effects \in [EndpointRequest -> Seq(EffectType)]
    BY <1>1, <1>2 DEF EndpointInit
  <2>4. ~(0 > 0)
    OBVIOUS
  <2> QED
    BY <1>4, <2>1, <2>2, <2>3, <2>4 DEF EndpointCore, EndpointInit
<1>7. {r \in EndpointRequest : serving[r].pc \in {"calling", "answered"}} = {}
  BY <1>4 DEF Fresh
<1>8. CircuitSound
  BY <1>7, FS_EmptySet DEF CircuitSound, SlotsMatchCalls, EndpointInit
<1> QED
  BY <1>6, <1>8 DEF EndpointInv

-----------------------------------------------------------------------------
\* What a step does to its request

\* A request that is done but not with the declared status owes nothing.
LEMMA FailsSound ==
  ASSUME EndpointAssumption, NEW p \in Programs, NEW q \in Serving, NEW e \in Seq(EffectType), NEW status \in ErrorCodes,
         EffectsWithin(p, q, e), q.step <= Len(p.logic) + 1
  PROVE  Responded(q, status) \in Serving /\ ServingSound(p, Responded(q, status), e)
<1>1. p.code # status /\ p \in Program
  BY DEF EndpointAssumption
<1>2. Responded(q, status) \in Serving /\ Responded(q, status).pc = "done" /\ Responded(q, status).status = status
      /\ Responded(q, status).step = q.step
  <2>1. status \in Nat
    BY DEF ErrorCodes
  <2> QED
    BY <2>1 DEF Responded, Serving
<1>3. EffectsWithin(p, Responded(q, status), e)
  BY <1>2 DEF EffectsWithin
<1>4. Len(p.logic) \in Nat /\ q.step \in Nat
  BY <1>1, ProgramFields, ServingFields
<1> QED
  BY <1>1, <1>2, <1>3, <1>4 DEF ServingSound, InProgress

\* A step that went well and had its effect, if it has one, is behind the request.
LEMMA AdvanceSound ==
  ASSUME NEW p \in Program, NEW q \in Serving, NEW e \in Seq(EffectType), q.pc = "handler",
         EffectsWithin(p, q, e), BehindDone(p, q, e), q.step <= Len(p.logic),
         q.step \notin Hopeless(p), q.step \in Effectful(p) <=> q.step \in StepsWithEffect(e)
  PROVE  LET n == [q EXCEPT !.step = @ + 1] IN n \in Serving /\ ServingSound(p, n, e)
<1> DEFINE n == [q EXCEPT !.step = @ + 1]
<1>1. n \in Serving /\ n.step = q.step + 1 /\ n.pc = "handler" /\ q.step \in Nat
  BY DEF Serving
<1>2. Len(p.logic) \in Nat
  BY ProgramFields
<1> HIDE DEF n
<1>3. EffectsWithin(p, n, e)
  BY <1>1 DEF EffectsWithin
<1>4. BehindDone(p, n, e)
  BY <1>1 DEF BehindDone
<1>5. n.step \notin StepsWithEffect(e)
  BY <1>1 DEF EffectsWithin, StepsWithEffect
<1>6. ServingSound(p, n, e)
  BY <1>1, <1>2, <1>3, <1>4, <1>5 DEF ServingSound, InProgress
<1> QED
  BY <1>1, <1>6 DEF n

\* An effect is added to those of the current step.
LEMMA EffectAdded ==
  ASSUME NEW p \in Program, NEW q \in Serving, NEW e \in Seq(EffectType), NEW what \in {"insert", "event", "call"},
         EffectsWithin(p, q, e), BehindDone(p, q, e)
  PROVE  LET f == Append(e, [step |-> q.step, what |-> what]) IN
         /\ f \in Seq(EffectType) /\ EffectsWithin(p, q, f) /\ BehindDone(p, q, f)
         /\ q.step \in StepsWithEffect(f)
<1> DEFINE x == [step |-> q.step, what |-> what]
           f == Append(e, x)
<1>1. x \in EffectType /\ x.step = q.step /\ q.step \in Nat /\ q.step > 0
  BY ServingFields DEF EffectType, BehindDone
<1> HIDE DEF x
<1>2. /\ f \in Seq(EffectType) /\ Len(f) = Len(e) + 1 /\ DOMAIN f = 1..(Len(e) + 1) /\ DOMAIN e = 1..Len(e) /\ Len(e) \in Nat
      /\ f[Len(e) + 1] = x /\ \A i \in 1..Len(e) : f[i] = e[i]
  BY <1>1
<1> HIDE DEF f
<1>3. \A j \in Hopeless(p) : q.step <= j
  <2> SUFFICES ASSUME NEW j \in Hopeless(p), j < q.step PROVE FALSE
    BY <1>1, ProgramFields DEF Hopeless
  <2>1. j \in 1..(q.step - 1)
    BY <1>1, ProgramFields DEF Hopeless
  <2> QED
    BY <2>1 DEF BehindDone
<1>4. \A i \in DOMAIN e : e[i].step \in 1..q.step
  BY DEF EffectsWithin
<1>5. EffectsWithin(p, q, f)
  <2>1. ASSUME NEW i \in DOMAIN f, NEW j \in DOMAIN f, i < j PROVE f[i].step <= f[j].step
    <3>1. CASE j = Len(e) + 1
      BY <1>1, <1>2, <1>4, <2>1, <3>1
    <3>2. CASE j # Len(e) + 1
      BY <1>1, <1>2, <2>1, <3>2 DEF EffectsWithin
    <3> QED
      BY <3>1, <3>2
  <2>2. ASSUME NEW i \in DOMAIN f PROVE f[i].step \in 1..q.step /\ \A j \in Hopeless(p) : f[i].step <= j
    <3>1. CASE i = Len(e) + 1
      BY <1>1, <1>2, <1>3, <3>1
    <3>2. CASE i # Len(e) + 1
      BY <1>2, <3>2 DEF EffectsWithin
    <3> QED
      BY <3>1, <3>2
  <2> QED
    BY <2>1, <2>2 DEF EffectsWithin
<1>6. StepsWithEffect(f) = StepsWithEffect(e) \cup {q.step}
  BY <1>1, <1>2 DEF StepsWithEffect
<1>7. BehindDone(p, q, f)
  BY <1>1, <1>6 DEF BehindDone
<1> QED
  BY <1>2, <1>5, <1>6, <1>7 DEF f, x

-----------------------------------------------------------------------------
\* One request moves

LEMMA CoreMoves ==
  ASSUME EndpointCore, program # NoProgram, NEW r \in EndpointRequest, NEW q \in Serving, NEW e \in Seq(EffectType),
         ServingSound(program, q, e), q.step > 0 => LetsIn(chain, q.token),
         Moves(r, q), effects' = [effects EXCEPT ![r] = e], UNCHANGED <<program, reachable, chain>>
  PROVE  EndpointCore'
<1>1. serving' \in [EndpointRequest -> Serving] /\ effects' \in [EndpointRequest -> Seq(EffectType)]
  BY DEF EndpointCore, Moves
<1>2. \A t \in EndpointRequest : serving'[t] = (IF t = r THEN q ELSE serving[t]) /\ effects'[t] = (IF t = r THEN e ELSE effects[t])
  BY DEF EndpointCore, Moves
<1>3. \A t \in EndpointRequest : ServingSound(program', serving'[t], effects'[t])
  BY <1>2 DEF EndpointCore
<1>4. \A t \in EndpointRequest : serving'[t].step > 0 => LetsIn(chain', serving'[t].token)
  BY <1>2 DEF EndpointCore
<1>5. program' # NoProgram => Generates(program') /\ chain' = BuildMiddlewareChain(program', reachable')
  BY DEF EndpointCore
<1> QED
  BY <1>1, <1>3, <1>4, <1>5 DEF EndpointCore

\* The breaker has nothing to do with a request that does not begin or end a call.
LEMMA CircuitStays ==
  ASSUME CircuitSound, serving \in [EndpointRequest -> Serving], NEW r \in EndpointRequest, NEW q,
         q.pc \in Calling <=> serving[r].pc \in Calling, Moves(r, q), UNCHANGED breaker
  PROVE  CircuitSound'
<1>1. {t \in EndpointRequest : serving'[t].pc \in {"calling", "answered"}}
        = {t \in EndpointRequest : serving[t].pc \in {"calling", "answered"}}
  BY DEF Moves, Calling
<1> QED
  BY <1>1 DEF CircuitSound, SlotsMatchCalls

LEMMA RequestMoves ==
  ASSUME EndpointInv, program # NoProgram, NEW r \in EndpointRequest, NEW q \in Serving, NEW e \in Seq(EffectType),
         ServingSound(program, q, e), q.step > 0 => LetsIn(chain, q.token), q.pc \in Calling <=> serving[r].pc \in Calling,
         Moves(r, q), effects' = [effects EXCEPT ![r] = e], UNCHANGED <<program, reachable, chain, breaker>>
  PROVE  EndpointInv'
<1>1. EndpointCore'
  BY CoreMoves DEF EndpointInv
<1>2. CircuitSound'
  BY CircuitStays DEF EndpointInv, EndpointCore
<1> QED
  BY <1>1, <1>2 DEF EndpointInv

\* What is known of a request under way
LEMMA UnderwayFacts ==
  ASSUME EndpointAssumption, EndpointCore, NEW r \in EndpointRequest, serving[r].pc \in InProgress
  PROVE  /\ program # NoProgram /\ program \in Programs /\ program \in Program
         /\ serving[r] \in Serving /\ effects[r] \in Seq(EffectType) /\ effects = [effects EXCEPT ![r] = effects[r]]
         /\ EffectsWithin(program, serving[r], effects[r]) /\ BehindDone(program, serving[r], effects[r])
         /\ serving[r].step \in 1..(Len(program.logic) + 1) /\ Len(program.logic) \in Nat
         /\ LetsIn(chain, serving[r].token)
<1>1. program # NoProgram /\ program \in Programs
  BY DEF EndpointCore, InProgress
<1>2. program \in Program
  BY <1>1 DEF EndpointAssumption
<1>3. /\ serving[r] \in Serving /\ effects[r] \in Seq(EffectType) /\ effects = [effects EXCEPT ![r] = effects[r]]
      /\ ServingSound(program, serving[r], effects[r])
  BY DEF EndpointCore
<1>4. EffectsWithin(program, serving[r], effects[r]) /\ BehindDone(program, serving[r], effects[r])
  BY <1>3 DEF ServingSound
<1>5. Len(program.logic) \in Nat
  BY <1>2, ProgramFields
<1>6. serving[r].step \in 1..(Len(program.logic) + 1) /\ serving[r].step > 0
  BY <1>3, <1>4, <1>5 DEF ServingSound, BehindDone
<1> QED
  BY <1>1, <1>2, <1>3, <1>4, <1>5, <1>6 DEF EndpointCore

LEMMA AtStepFacts ==
  ASSUME EndpointAssumption, EndpointCore, NEW r \in EndpointRequest, NEW actions, AtStep(r, actions)
  PROVE  /\ serving[r].pc = "handler" /\ serving[r].pc \in InProgress /\ serving[r].pc \notin Calling
         /\ serving[r].step \in DOMAIN program.logic /\ serving[r].step <= Len(program.logic)
         /\ CurrentStep(r) \in LogicStep /\ CurrentStep(r) = program.logic[serving[r].step] /\ CurrentStep(r).action \in actions
         /\ serving[r].step \notin StepsWithEffect(effects[r])
<1>1. serving[r].pc = "handler" /\ serving[r].pc \in InProgress /\ serving[r].pc \notin Calling
  BY DEF AtStep, InProgress, Calling
<1>2. serving[r].step \in 1..(Len(program.logic) + 1) /\ program \in Program
  BY <1>1, UnderwayFacts
<1>3. serving[r].step \in DOMAIN program.logic /\ serving[r].step <= Len(program.logic) /\ CurrentStep(r) \in LogicStep
  BY <1>2, ProgramFields DEF AtStep, CurrentStep
<1>4. serving[r].step \notin StepsWithEffect(effects[r])
  BY <1>1 DEF EndpointCore, ServingSound
<1> QED
  BY <1>1, <1>3, <1>4 DEF AtStep, CurrentStep

\* The value that a step stores leaves the rest of the request as it is.
Alike(n, q) == n \in Serving /\ n.pc = q.pc /\ n.step = q.step /\ n.token = q.token

LEMMA StoreAlike ==
  ASSUME NEW q \in Serving, NEW s, NEW value \in Values
  PROVE  Alike(StoreResult(q, s, value), q) /\ Alike(StoreTarget(q, s, value), q) /\ Alike(q, q)
BY DEF Alike, StoreResult, StoreTarget, Serving

\* A step fails, with or without an effect of its own.
LEMMA StepFails ==
  ASSUME EndpointAssumption, EndpointInv, NEW r \in EndpointRequest, NEW actions, AtStep(r, actions),
         NEW error, error # "none", NEW e \in Seq(EffectType), EffectsWithin(program, serving[r], e),
         Moves(r, AfterStep(serving[r], error)), effects' = [effects EXCEPT ![r] = e],
         UNCHANGED <<program, reachable, chain, breaker>>
  PROVE  EndpointInv'
<1>0. EndpointCore
  BY DEF EndpointInv
<1>1. serving[r].pc \in InProgress /\ serving[r].pc \notin Calling
  BY <1>0, AtStepFacts
<1>2. /\ program # NoProgram /\ program \in Programs /\ serving[r] \in Serving /\ LetsIn(chain, serving[r].token)
      /\ serving[r].step <= Len(program.logic) + 1
  BY <1>0, <1>1, UnderwayFacts
<1> DEFINE status == StatusOf(error)
           q == Responded(serving[r], status)
<1>3. status \in ErrorCodes
  BY DEF StatusOf, ErrorCodes
<1>4. Moves(r, q)
  BY DEF AfterStep
<1> HIDE DEF status
<1>5. q \in Serving /\ ServingSound(program, q, e)
  BY <1>2, <1>3, FailsSound
<1>6. q.token = serving[r].token /\ q.pc = "done"
  BY <1>2 DEF Responded, Serving
<1> HIDE DEF q
<1> QED
  BY <1>1, <1>2, <1>4, <1>5, <1>6, RequestMoves DEF Calling

\* A step goes well, and has had its effect if it has one.
LEMMA StepSucceeds ==
  ASSUME EndpointAssumption, EndpointInv, NEW r \in EndpointRequest, NEW actions, AtStep(r, actions),
         NEW n, Alike(n, serving[r]), NEW e \in Seq(EffectType), EffectsWithin(program, serving[r], e),
         BehindDone(program, serving[r], e),
         serving[r].step \notin Hopeless(program), serving[r].step \in Effectful(program) <=> serving[r].step \in StepsWithEffect(e),
         Moves(r, AfterStep(n, "none")), effects' = [effects EXCEPT ![r] = e],
         UNCHANGED <<program, reachable, chain, breaker>>
  PROVE  EndpointInv'
<1>0. EndpointCore
  BY DEF EndpointInv
<1>1. serving[r].pc = "handler" /\ serving[r].pc \in InProgress /\ serving[r].pc \notin Calling /\ serving[r].step <= Len(program.logic)
  BY <1>0, AtStepFacts
<1>2. program # NoProgram /\ program \in Program /\ serving[r] \in Serving /\ LetsIn(chain, serving[r].token)
  BY <1>0, <1>1, UnderwayFacts
<1>3. n \in Serving /\ n.pc = "handler" /\ n.step = serving[r].step /\ n.token = serving[r].token
  BY <1>1 DEF Alike
<1>4. EffectsWithin(program, n, e) /\ BehindDone(program, n, e)
  BY <1>3 DEF EffectsWithin, BehindDone
<1> DEFINE q == [n EXCEPT !.step = @ + 1]
<1>5. Moves(r, q)
  BY DEF AfterStep
<1>6. q \in Serving /\ ServingSound(program, q, e)
  BY <1>1, <1>2, <1>3, <1>4, AdvanceSound
<1>7. q.token = serving[r].token /\ q.pc = "handler"
  BY <1>3 DEF Serving
<1> HIDE DEF q
<1> QED
  BY <1>1, <1>2, <1>5, <1>6, <1>7, RequestMoves DEF Calling

\* Steps without an effect: they fail or go on.
LEMMA QuietStep ==
  ASSUME EndpointAssumption, EndpointInv, NEW r \in EndpointRequest, NEW actions, AtStep(r, actions),
         NEW n, Alike(n, serving[r]), NEW error,
         error = "none" => serving[r].step \notin Hopeless(program) /\ serving[r].step \notin Effectful(program),
         error # "none" => n = serving[r],
         Moves(r, AfterStep(n, error)), UNCHANGED <<program, reachable, chain, breaker, effects>>
  PROVE  EndpointInv'
<1>0. EndpointCore
  BY DEF EndpointInv
<1>1. serving[r].pc \in InProgress /\ serving[r].step \notin StepsWithEffect(effects[r])
  BY <1>0, AtStepFacts
<1>2. /\ effects[r] \in Seq(EffectType) /\ effects' = [effects EXCEPT ![r] = effects[r]]
      /\ EffectsWithin(program, serving[r], effects[r]) /\ BehindDone(program, serving[r], effects[r])
  BY <1>0, <1>1, UnderwayFacts
<1>3. CASE error = "none"
  BY <1>1, <1>2, <1>3, StepSucceeds
<1>4. CASE error # "none"
  BY <1>2, <1>4, StepFails
<1> QED
  BY <1>3, <1>4

-----------------------------------------------------------------------------
\* One lemma per action

LEMMA GenerateInv ==
  ASSUME EndpointAssumption, EndpointInv, NEW p \in Programs, NEW up \in BOOLEAN, GenerateFromAST(p, up)
  PROVE  EndpointInv'
<1>1. CASE ~Generates(p)
  BY <1>1 DEF GenerateFromAST, EndpointInv, EndpointCore, CircuitSound, SlotsMatchCalls
<1>2. CASE Generates(p)
  <2>1. /\ program = NoProgram /\ program' = p /\ reachable' = up /\ chain' = BuildMiddlewareChain(p, up)
        /\ UNCHANGED <<serving, breaker, effects>>
    BY <1>2 DEF GenerateFromAST
  <2>2. p # NoProgram /\ p \in Program
    BY DEF EndpointAssumption
  <2>3. ASSUME NEW r \in EndpointRequest
        PROVE  serving[r].step = 0 /\ ServingSound(p, serving[r], effects[r])
    <3>1. serving[r].pc = "idle" /\ ServingSound(program, serving[r], effects[r])
      BY <2>1 DEF EndpointInv, EndpointCore
    <3>2. serving[r].step = 0 /\ EffectsWithin(program, serving[r], effects[r])
      BY <3>1 DEF ServingSound
    <3>3. DOMAIN effects[r] = {}
      BY <3>2 DEF EffectsWithin
    <3>4. EffectsWithin(p, serving[r], effects[r])
      BY <3>3 DEF EffectsWithin
    <3>5. Len(p.logic) \in Nat
      BY <2>2, ProgramFields
    <3> QED
      BY <3>1, <3>2, <3>4, <3>5 DEF ServingSound, InProgress
  <2>4. EndpointCore'
    <3>1. \A r \in EndpointRequest : serving'[r].step > 0 => LetsIn(chain', serving'[r].token)
      BY <2>1, <2>3
    <3>2. \A r \in EndpointRequest : ServingSound(program', serving'[r], effects'[r])
      BY <2>1, <2>3
    <3>3. Generates(program') /\ chain' = BuildMiddlewareChain(program', reachable')
      BY <1>2, <2>1
    <3>4. program' \in Programs \cup {NoProgram} /\ reachable' \in BOOLEAN /\ program' # NoProgram
      BY <2>1, <2>2
    <3>5. serving' \in [EndpointRequest -> Serving] /\ effects' \in [EndpointRequest -> Seq(EffectType)]
      BY <2>1 DEF EndpointInv, EndpointCore
    <3> QED
      BY <3>1, <3>2, <3>3, <3>4, <3>5 DEF EndpointCore
  <2>5. CircuitSound'
    BY <2>1 DEF EndpointInv, CircuitSound, SlotsMatchCalls
  <2> QED
    BY <2>4, <2>5 DEF EndpointInv
<1> QED
  BY <1>1, <1>2

\* A request that is turned away has step 0; one that is let in is at step 1 and has done nothing.
LEMMA ServeInv ==
  ASSUME EndpointAssumption, EndpointInv, NEW r \in EndpointRequest, NEW bearer \in {"none", "valid", "invalid"},
         NEW body \in {"object", "withV", "null", "bad"}, NEW method, ServeRequest(r, bearer, body, method)
  PROVE  EndpointInv'
<1> DEFINE q == [Fresh EXCEPT !.token = bearer, !.body = body]
           h == [q EXCEPT !.pc = "handler", !.step = 1]
           n == IF method # program.method THEN Responded(q, 405)
                ELSE IF ~Admitted(bearer) THEN Responded(q, 401)
                ELSE IF program.request = "none" THEN h ELSE ExtractRequestData(h)
<1>1. EndpointCore /\ program # NoProgram /\ program \in Programs /\ serving[r].pc = "idle" /\ program \in Program
  BY DEF EndpointInv, EndpointCore, ServeRequest, EndpointAssumption
<1>2. /\ effects[r] \in Seq(EffectType) /\ effects = [effects EXCEPT ![r] = effects[r]]
      /\ ServingSound(program, serving[r], effects[r])
  BY <1>1 DEF EndpointCore
<1>3. DOMAIN effects[r] = {}
  BY <1>1, <1>2 DEF ServingSound, EffectsWithin
<1>4. Moves(r, n) /\ UNCHANGED <<program, reachable, chain, breaker, effects>>
  BY DEF ServeRequest, Moves
<1>5. <<>> \in Seq([event : STRING, next : Nat])
  BY EmptySeq
<1>6. q \in Serving /\ q.step = 0 /\ q.pc = "idle" /\ q.token = bearer
  BY <1>5 DEF Fresh, Serving, Values
<1>7. h \in Serving /\ h.step = 1 /\ h.pc = "handler" /\ h.token = bearer
  BY <1>6 DEF Serving
<1> HIDE DEF q, h
<1>8. Len(program.logic) \in Nat /\ program.params \in BOOLEAN
  BY <1>1, ProgramFields
<1>9. \A x \in Serving : EffectsWithin(program, x, effects[r])
  BY <1>3 DEF EffectsWithin
<1>10. ASSUME NEW x \in Serving, x.step = 1, x.pc = "handler" PROVE ServingSound(program, x, effects[r])
  <2>1. StepsWithEffect(effects[r]) = {}
    BY <1>3 DEF StepsWithEffect
  <2>2. BehindDone(program, x, effects[r])
    BY <1>10 DEF BehindDone
  <2> QED
    BY <1>8, <1>9, <1>10, <2>1, <2>2 DEF ServingSound
<1>11. ASSUME NEW x \in Serving, x.step \in {0, 1}, NEW status \in ErrorCodes
       PROVE  Responded(x, status) \in Serving /\ ServingSound(program, Responded(x, status), effects[r])
              /\ Responded(x, status).pc = "done" /\ Responded(x, status).step = x.step /\ Responded(x, status).token = x.token
  <2>1. x.step <= Len(program.logic) + 1
    BY <1>8, <1>11
  <2>2. Responded(x, status) \in Serving /\ ServingSound(program, Responded(x, status), effects[r])
    BY <1>1, <1>2, <1>9, <2>1, FailsSound
  <2> QED
    BY <2>2 DEF Responded, Serving
<1>12. 405 \in ErrorCodes /\ 401 \in ErrorCodes /\ 400 \in ErrorCodes /\ 500 \in ErrorCodes
  BY DEF ErrorCodes
<1>13. ASSUME method = program.method, Admitted(bearer)
       PROVE  n \in Serving /\ ServingSound(program, n, effects[r]) /\ n.pc \notin Calling /\ n.token = bearer
  <2> DEFINE input == [h EXCEPT !.kind = "map", !.v = h.body = "withV" \/ program.params]
             null == [h EXCEPT !.kind = "nilmap"]
  <2>1. input \in Serving /\ input.step = 1 /\ input.pc = "handler" /\ input.token = bearer
    BY <1>7, <1>8 DEF Serving
  <2>2. null \in Serving /\ null.step = 1 /\ null.pc = "handler" /\ null.token = bearer
    BY <1>7 DEF Serving
  <2>3. n = h \/ n = ExtractRequestData(h)
    BY <1>13
  <2>4. ExtractRequestData(h) \in {input, Responded(h, 400), Responded(h, 500), null}
    BY DEF ExtractRequestData
  <2> HIDE DEF input, null, n
  <2>5. n \in {h, input, null} \/ \E status \in ErrorCodes : n = Responded(h, status)
    BY <1>12, <2>3, <2>4
  <2>6. CASE n \in {h, input, null}
    BY <1>7, <1>10, <2>1, <2>2, <2>6 DEF Calling
  <2>7. ASSUME NEW status \in ErrorCodes, n = Responded(h, status)
        PROVE  n \in Serving /\ ServingSound(program, n, effects[r]) /\ n.pc \notin Calling /\ n.token = bearer
    BY <1>7, <1>11, <2>7 DEF Calling
  <2> QED
    BY <2>5, <2>6, <2>7
<1>14. ASSUME method # program.method \/ ~Admitted(bearer)
       PROVE  n \in Serving /\ ServingSound(program, n, effects[r]) /\ n.pc \notin Calling /\ n.step = 0
  <2>1. n = Responded(q, 405) \/ n = Responded(q, 401)
    BY <1>14
  <2> HIDE DEF n
  <2> QED
    BY <1>6, <1>11, <1>12, <2>1 DEF Calling
<1> HIDE DEF n
<1>15. n \in Serving /\ ServingSound(program, n, effects[r]) /\ n.pc \notin Calling /\ (n.step > 0 => LetsIn(chain, n.token))
  BY <1>13, <1>14 DEF Admitted, LetsIn
<1> QED
  BY <1>1, <1>2, <1>4, <1>15, RequestMoves DEF Calling

LEMMA ValidateInv ==
  ASSUME EndpointAssumption, EndpointInv, NEW r \in EndpointRequest, ExecuteValidate(r) PROVE EndpointInv'
<1>1. AtStep(r, {"validate"}) /\ EndpointCore
  BY DEF ExecuteValidate, EndpointInv
<1>2. CurrentStep(r) = program.logic[serving[r].step] /\ CurrentStep(r).action = "validate" /\ serving[r].pc \in InProgress
  BY <1>1, AtStepFacts
<1>3. serving[r].step \notin Hopeless(program) /\ serving[r].step \notin Effectful(program)
  BY <1>2 DEF Hopeless, Effectful
<1>4. Alike(serving[r], serving[r])
  BY <1>1, <1>2, UnderwayFacts DEF Alike
<1> DEFINE error == IF FromInput(serving[r], CurrentStep(r).arg) = "nil" THEN "validation" ELSE "none"
<1>5. Moves(r, AfterStep(serving[r], error)) /\ UNCHANGED <<program, reachable, chain, breaker, effects>>
  BY DEF ExecuteValidate
<1> HIDE DEF error
<1> QED
  BY <1>1, <1>3, <1>4, <1>5, QuietStep

LEMMA AuthorizeInv ==
  ASSUME EndpointAssumption, EndpointInv, NEW r \in EndpointRequest, ExecuteAuthorize(r) PROVE EndpointInv'
<1>1. AtStep(r, {"authorize"}) /\ EndpointCore
  BY DEF ExecuteAuthorize, EndpointInv
<1>2. CurrentStep(r) = program.logic[serving[r].step] /\ CurrentStep(r).action = "authorize" /\ serving[r].pc \in InProgress
  BY <1>1, AtStepFacts
<1> DEFINE error == IF CurrentStep(r).arg = "role" THEN "authorization" ELSE "none"
<1>3. error = "none" => serving[r].step \notin Hopeless(program) /\ serving[r].step \notin Effectful(program)
  BY <1>2 DEF Hopeless, Effectful
<1>4. Alike(serving[r], serving[r])
  BY <1>1, <1>2, UnderwayFacts DEF Alike
<1>5. Moves(r, AfterStep(serving[r], error)) /\ UNCHANGED <<program, reachable, chain, breaker, effects>>
  BY DEF ExecuteAuthorize
<1> HIDE DEF error
<1> QED
  BY <1>1, <1>3, <1>4, <1>5, QuietStep

LEMMA FindInv ==
  ASSUME EndpointAssumption, EndpointInv, NEW r \in EndpointRequest, ExecuteDBFind(r) PROVE EndpointInv'
<1>1. AtStep(r, {"find"}) /\ EndpointCore /\ UNCHANGED <<program, reachable, chain, breaker, effects>>
  BY DEF ExecuteDBFind, EndpointInv
<1>2. CurrentStep(r) = program.logic[serving[r].step] /\ CurrentStep(r).action = "find" /\ serving[r].pc \in InProgress
  BY <1>1, AtStepFacts
<1>3. serving[r].step \notin Hopeless(program) /\ serving[r].step \notin Effectful(program)
  BY <1>2 DEF Hopeless, Effectful
<1> DEFINE n == StoreResult(serving[r], CurrentStep(r), "list")
<1>4. Alike(serving[r], serving[r]) /\ Alike(n, serving[r])
  <2>1. serving[r] \in Serving /\ "list" \in Values
    BY <1>1, <1>2, UnderwayFacts DEF Values
  <2> QED
    BY <2>1, StoreAlike
<1>5. Moves(r, AfterStep(serving[r], "other")) \/ Moves(r, AfterStep(n, "none"))
  BY DEF ExecuteDBFind
<1> HIDE DEF n
<1>6. CASE Moves(r, AfterStep(serving[r], "other"))
  BY <1>1, <1>4, <1>6, QuietStep
<1>7. CASE Moves(r, AfterStep(n, "none"))
  BY <1>1, <1>3, <1>4, <1>7, QuietStep
<1> QED
  BY <1>5, <1>6, <1>7

LEMMA FindOneInv ==
  ASSUME EndpointAssumption, EndpointInv, NEW r \in EndpointRequest, ExecuteDBFindOne(r) PROVE EndpointInv'
<1>1. AtStep(r, {"findOne"}) /\ EndpointCore
  BY DEF ExecuteDBFindOne, EndpointInv
<1>2. serving[r].pc \in InProgress
  BY <1>1, AtStepFacts
<1>3. Alike(serving[r], serving[r])
  BY <1>1, <1>2, UnderwayFacts DEF Alike
<1>4. Moves(r, AfterStep(serving[r], "not_found")) /\ UNCHANGED <<program, reachable, chain, breaker, effects>>
  BY DEF ExecuteDBFindOne
<1> QED
  BY <1>1, <1>3, <1>4, QuietStep

LEMMA DisconnectedInv ==
  ASSUME EndpointAssumption, EndpointInv, NEW r \in EndpointRequest, ExecuteDisconnected(r) PROVE EndpointInv'
<1> DEFINE actions == {"update", "delete", "cache.get", "cache.set", "paginate", "unknown"}
           s == CurrentStep(r)
           n == IF s.action \in {"update", "delete"} THEN StoreTarget(serving[r], s, "map")
                ELSE IF s.action = "cache.get" THEN StoreTarget(serving[r], s, "nil") ELSE serving[r]
<1>1. AtStep(r, actions) /\ EndpointCore
  BY DEF ExecuteDisconnected, EndpointInv
<1>2. CurrentStep(r) = program.logic[serving[r].step] /\ CurrentStep(r).action \in actions /\ serving[r].pc \in InProgress
  BY <1>1, AtStepFacts
<1>3. serving[r].step \notin Hopeless(program) /\ serving[r].step \notin Effectful(program)
  BY <1>2 DEF Hopeless, Effectful
<1>4. serving[r] \in Serving /\ "map" \in Values /\ "nil" \in Values
  BY <1>1, <1>2, UnderwayFacts DEF Values
<1>5. Alike(n, serving[r])
  BY <1>4, StoreAlike
<1>6. Moves(r, AfterStep(n, "none")) /\ UNCHANGED <<program, reachable, chain, breaker, effects>>
  BY DEF ExecuteDisconnected
<1> HIDE DEF n
<1> QED
  BY <1>1, <1>3, <1>5, <1>6, QuietStep

LEMMA TransformInv ==
  ASSUME EndpointAssumption, EndpointInv, NEW r \in EndpointRequest, ExecuteTransform(r) PROVE EndpointInv'
<1>1. AtStep(r, {"transform"}) /\ EndpointCore /\ UNCHANGED <<program, reachable, chain, breaker, effects>>
  BY DEF ExecuteTransform, EndpointInv
<1>2. CurrentStep(r) = program.logic[serving[r].step] /\ CurrentStep(r).action = "transform" /\ serving[r].pc \in InProgress
  BY <1>1, AtStepFacts
<1>3. serving[r].step \notin Hopeless(program) /\ serving[r].step \notin Effectful(program)
  BY <1>2 DEF Hopeless, Effectful
<1>4. serving[r] \in Serving
  BY <1>1, <1>2, UnderwayFacts
<1> DEFINE source == FromResult(serving[r], CurrentStep(r).arg)
<1>5. source \in Values
  BY <1>4, ServingFields DEF FromResult, GetValue, Values
<1> HIDE DEF source
<1>6. PICK value \in Transformed(CurrentStep(r), source) :
         Moves(r, IF value = "error" THEN AfterStep(serving[r], "other")
                  ELSE AfterStep(StoreResult(serving[r], CurrentStep(r), value), "none"))
  BY DEF ExecuteTransform, source
<1>7. value \in Values \cup {"error"}
  BY <1>5, <1>6 DEF Transformed, Values
<1>8. CASE value = "error"
  BY <1>1, <1>4, <1>6, <1>8, QuietStep DEF Alike
<1>9. CASE value # "error"
  <2> DEFINE n == StoreResult(serving[r], CurrentStep(r), value)
  <2>1. Alike(n, serving[r])
    BY <1>4, <1>7, <1>9, StoreAlike
  <2>2. Moves(r, AfterStep(n, "none"))
    BY <1>6, <1>9
  <2> HIDE DEF n
  <2> QED
    BY <1>1, <1>3, <2>1, <2>2, QuietStep
<1> QED
  BY <1>8, <1>9

LEMMA InsertInv ==
  ASSUME EndpointAssumption, EndpointInv, NEW r \in EndpointRequest, ExecuteDBInsert(r) PROVE EndpointInv'
<1> DEFINE q == serving[r]
           outcome == InsertDatabase(q, CurrentStep(r))
           n == StoreResult(q, CurrentStep(r), "map")
           f == Append(effects[r], [step |-> q.step, what |-> "insert"])
<1>1. AtStep(r, {"insert"}) /\ EndpointCore /\ UNCHANGED <<program, reachable, chain, breaker>>
  BY DEF ExecuteDBInsert, EndpointInv
<1>2. /\ CurrentStep(r) = program.logic[q.step] /\ CurrentStep(r).action = "insert" /\ q.pc \in InProgress
      /\ q.step \in DOMAIN program.logic /\ q.step \notin StepsWithEffect(effects[r])
  BY <1>1, AtStepFacts
<1>3. /\ q \in Serving /\ effects[r] \in Seq(EffectType) /\ program \in Program
      /\ effects = [effects EXCEPT ![r] = effects[r]]
      /\ EffectsWithin(program, q, effects[r]) /\ BehindDone(program, q, effects[r])
  BY <1>1, <1>2, UnderwayFacts
<1>4. q.step \notin Hopeless(program) /\ (q.step \in Effectful(program) <=> program.db)
  BY <1>2 DEF Hopeless, Effectful
<1>5. Alike(n, q) /\ Alike(q, q)
  <2>1. "map" \in Values
    BY DEF Values
  <2> QED
    BY <1>3, <2>1, StoreAlike
<1>6. /\ f \in Seq(EffectType) /\ EffectsWithin(program, q, f) /\ BehindDone(program, q, f) /\ q.step \in StepsWithEffect(f)
  BY <1>3, EffectAdded
<1>7. Effect(r, "insert") = [effects EXCEPT ![r] = f]
  BY DEF Effect
<1>8. outcome = "insert" => program.db
  BY DEF InsertDatabase
<1>9. outcome = "mock" => ~program.db
  BY DEF InsertDatabase
<1>10. \/ outcome = "mock" /\ Moves(r, AfterStep(n, "none")) /\ UNCHANGED effects
       \/ outcome \in {"panic", "other"} /\ Moves(r, AfterStep(q, outcome)) /\ UNCHANGED effects
       \/ outcome = "insert" /\ Moves(r, AfterStep(n, "none")) /\ effects' = Effect(r, "insert")
       \/ outcome = "insert" /\ Moves(r, AfterStep(q, "other")) /\ effects' \in {effects, Effect(r, "insert")}
  BY DEF ExecuteDBInsert
<1> HIDE DEF n, f, outcome, q
<1> USE DEF q
<1>11. CASE outcome = "mock" /\ Moves(r, AfterStep(n, "none")) /\ UNCHANGED effects
  BY <1>1, <1>4, <1>5, <1>9, <1>11, QuietStep
<1>12. CASE outcome \in {"panic", "other"} /\ Moves(r, AfterStep(q, outcome)) /\ UNCHANGED effects
  BY <1>1, <1>5, <1>12, QuietStep
<1>13. CASE outcome = "insert" /\ Moves(r, AfterStep(n, "none")) /\ effects' = Effect(r, "insert")
  BY <1>1, <1>4, <1>5, <1>6, <1>7, <1>8, <1>13, StepSucceeds
<1>14. CASE outcome = "insert" /\ Moves(r, AfterStep(q, "other")) /\ effects' \in {effects, Effect(r, "insert")}
  <2>1. CASE effects' = effects
    BY <1>1, <1>3, <1>14, <2>1, StepFails
  <2>2. CASE effects' = Effect(r, "insert")
    BY <1>1, <1>6, <1>7, <1>14, <2>2, StepFails
  <2> QED
    BY <1>14, <2>1, <2>2
<1> QED
  BY <1>10, <1>11, <1>12, <1>13, <1>14

\* A request in the middle of a step that has had its effect
LEMMA BusySound ==
  ASSUME NEW p \in Program, NEW q, NEW n \in Serving, NEW e, n.pc \in {"emitting", "calling", "answered"}, n.step = q.step,
         EffectsWithin(p, q, e), BehindDone(p, q, e), q.step \in Effectful(p) \cap StepsWithEffect(e), q.step \notin Hopeless(p),
         n.pc = "emitting" => n.dispatches # <<>>
  PROVE  ServingSound(p, n, e)
<1>1. EffectsWithin(p, n, e) /\ BehindDone(p, n, e)
  BY DEF EffectsWithin, BehindDone
<1>2. n.step \in 0..(Len(p.logic) + 1)
  BY ProgramFields, ServingFields DEF Effectful
<1> QED
  BY <1>1, <1>2 DEF ServingSound

LEMMA BusyFacts ==
  ASSUME EndpointCore, NEW r \in EndpointRequest, serving[r].pc \in {"emitting", "calling", "answered"}
  PROVE  /\ serving[r].step \in Effectful(program) \cap StepsWithEffect(effects[r]) /\ serving[r].step \notin Hopeless(program)
         /\ serving[r].pc \in InProgress /\ (serving[r].pc = "emitting" => serving[r].dispatches # <<>>)
BY DEF EndpointCore, ServingSound, InProgress

LEMMA EmitInv ==
  ASSUME EndpointAssumption, EndpointInv, NEW r \in EndpointRequest, ExecuteEmit(r) PROVE EndpointInv'
<1> DEFINE q == serving[r]
           f == Append(effects[r], [step |-> q.step, what |-> "event"])
           n == [q EXCEPT !.pc = "emitting", !.dispatches = <<Dispatch(CurrentStep(r).name)>>]
<1>1. AtStep(r, {"emit"}) /\ EndpointCore /\ UNCHANGED <<program, reachable, chain, breaker>>
  BY DEF ExecuteEmit, EndpointInv
<1>2. /\ CurrentStep(r) = program.logic[q.step] /\ CurrentStep(r).action = "emit" /\ q.pc \in InProgress /\ CurrentStep(r) \in LogicStep
      /\ q.step \in DOMAIN program.logic /\ q.pc \notin Calling
  BY <1>1, AtStepFacts
<1>3. /\ q \in Serving /\ effects[r] \in Seq(EffectType) /\ program \in Program /\ program # NoProgram
      /\ effects = [effects EXCEPT ![r] = effects[r]] /\ LetsIn(chain, q.token)
      /\ EffectsWithin(program, q, effects[r]) /\ BehindDone(program, q, effects[r])
  BY <1>1, <1>2, UnderwayFacts
<1>4. q.step \notin Hopeless(program) /\ q.step \in Effectful(program)
  BY <1>2 DEF Hopeless, Effectful
<1>5. /\ f \in Seq(EffectType) /\ EffectsWithin(program, q, f) /\ BehindDone(program, q, f) /\ q.step \in StepsWithEffect(f)
  BY <1>3, EffectAdded
<1>6. n \in Serving /\ n.pc = "emitting" /\ n.step = q.step /\ n.token = q.token /\ n.dispatches # <<>>
  <2>1. Dispatch(CurrentStep(r).name) \in [event : STRING, next : Nat]
    BY <1>2 DEF Dispatch, LogicStep
  <2> DEFINE stack == <<Dispatch(CurrentStep(r).name)>>
  <2>2. stack \in Seq([event : STRING, next : Nat]) /\ stack # <<>>
    BY <2>1
  <2> HIDE DEF stack
  <2>3. n = [q EXCEPT !.pc = "emitting", !.dispatches = stack]
    BY DEF stack
  <2> QED
    BY <1>3, <2>2, <2>3 DEF Serving
<1>7. \/ Moves(r, n) /\ effects' = Effect(r, "event")
      \/ Moves(r, AfterStep(q, "other")) /\ UNCHANGED effects
  BY DEF ExecuteEmit
<1>8. Effect(r, "event") = [effects EXCEPT ![r] = f]
  BY DEF Effect
<1> HIDE DEF n, f
<1>9. CASE Moves(r, AfterStep(q, "other")) /\ UNCHANGED effects
  BY <1>1, <1>3, <1>9, StepFails
<1>10. CASE Moves(r, n) /\ effects' = Effect(r, "event")
  <2>1. ServingSound(program, n, f)
    BY <1>3, <1>4, <1>5, <1>6, BusySound
  <2> QED
    BY <1>1, <1>2, <1>3, <1>5, <1>6, <1>8, <1>10, <2>1, RequestMoves DEF Calling
<1> QED
  BY <1>7, <1>9, <1>10

DispatchFrame == [event : STRING, next : Nat]

\* A request that dispatches has a stack of calls, of which the last is innermost.
LEMMA StackFacts ==
  ASSUME EndpointAssumption, EndpointCore, NEW r \in EndpointRequest, serving[r].pc = "emitting"
  PROVE  OuterDispatches(r) \in Seq(DispatchFrame) /\ InnermostDispatch(r) \in DispatchFrame
<1>1. serving[r] \in Serving /\ serving[r].dispatches # <<>>
  BY BusyFacts DEF EndpointCore
<1> DEFINE s == serving[r].dispatches
<1>2. s \in Seq(DispatchFrame) /\ s # <<>>
  BY <1>1 DEF Serving, DispatchFrame
<1>3. OuterDispatches(r) = SubSeq(s, 1, Len(s) - 1) /\ InnermostDispatch(r) = s[Len(s)]
  BY DEF OuterDispatches, InnermostDispatch
<1> HIDE DEF s
<1>4. Len(s) \in Nat /\ Len(s) > 0
  BY <1>2
<1>5. SubSeq(s, 1, Len(s) - 1) \in Seq(DispatchFrame)
  BY <1>2, <1>4
<1>6. s[Len(s)] \in DispatchFrame
  BY <1>2, <1>4
<1> QED
  BY <1>3, <1>5, <1>6

LEMMA PushedStack ==
  ASSUME NEW stack \in Seq(DispatchFrame), NEW frame \in DispatchFrame
  PROVE  Append(stack, frame) \in Seq(DispatchFrame) /\ Append(stack, frame) # <<>>
OBVIOUS

LEMMA CallHandlerInv ==
  ASSUME EndpointAssumption, EndpointInv, NEW r \in EndpointRequest, CallHandler(r) PROVE EndpointInv'
<1> DEFINE q == serving[r]
           f == Append(effects[r], [step |-> q.step, what |-> "event"])
<1>1. q.pc = "emitting" /\ EndpointCore /\ UNCHANGED <<program, reachable, chain, breaker>>
  BY DEF CallHandler, EndpointInv
<1>2. q.step \in Effectful(program) \cap StepsWithEffect(effects[r]) /\ q.step \notin Hopeless(program) /\ q.pc \in InProgress
  BY <1>1, BusyFacts
<1>3. /\ q \in Serving /\ effects[r] \in Seq(EffectType) /\ program \in Program /\ program # NoProgram
      /\ effects = [effects EXCEPT ![r] = effects[r]] /\ LetsIn(chain, q.token)
      /\ EffectsWithin(program, q, effects[r]) /\ BehindDone(program, q, effects[r])
  BY <1>1, <1>2, UnderwayFacts
<1>4. /\ f \in Seq(EffectType) /\ EffectsWithin(program, q, f) /\ BehindDone(program, q, f) /\ q.step \in StepsWithEffect(f)
  BY <1>3, EffectAdded
<1>5. OuterDispatches(r) \in Seq(DispatchFrame) /\ InnermostDispatch(r) \in DispatchFrame
  BY <1>1, StackFacts
<1>6. PICK j \in HandlersFrom(InnermostDispatch(r)) :
        LET resumed == Append(OuterDispatches(r), [InnermostDispatch(r) EXCEPT !.next = j + 1]) IN
        IF program.decls[j].emits = "nothing" THEN Moves(r, [serving[r] EXCEPT !.dispatches = resumed]) /\ UNCHANGED effects
        ELSE /\ Moves(r, [serving[r] EXCEPT !.dispatches = Append(resumed, Dispatch(program.decls[j].emits))])
             /\ effects' = Effect(r, "event")
  BY DEF CallHandler
<1>7. j \in Nat /\ program.decls[j] \in Declaration
  BY <1>3, ProgramFields DEF HandlersFrom, Declared
<1> DEFINE frame == [InnermostDispatch(r) EXCEPT !.next = j + 1]
           deeper == Dispatch(program.decls[j].emits)
           resumed == Append(OuterDispatches(r), frame)
           pushed == Append(resumed, deeper)
<1>8. frame \in DispatchFrame /\ deeper \in DispatchFrame
  BY <1>5, <1>7 DEF DispatchFrame, Dispatch, Declaration
<1> HIDE DEF frame, deeper
<1>9. resumed \in Seq(DispatchFrame) /\ resumed # <<>>
  BY <1>5, <1>8, PushedStack
<1> HIDE DEF resumed
<1>10. pushed \in Seq(DispatchFrame) /\ pushed # <<>>
  BY <1>8, <1>9, PushedStack
<1> HIDE DEF pushed
<1>11. ASSUME NEW stack \in Seq(DispatchFrame), stack # <<>>
       PROVE  LET n == [q EXCEPT !.dispatches = stack] IN
              n \in Serving /\ n.pc = "emitting" /\ n.step = q.step /\ n.token = q.token /\ n.dispatches # <<>>
  BY <1>1, <1>3, <1>11 DEF Serving, DispatchFrame
<1>12. \/ Moves(r, [q EXCEPT !.dispatches = resumed]) /\ UNCHANGED effects
       \/ Moves(r, [q EXCEPT !.dispatches = pushed]) /\ effects' = [effects EXCEPT ![r] = f]
  BY <1>6 DEF frame, deeper, resumed, pushed, Effect
<1> HIDE DEF f
<1>13. CASE Moves(r, [q EXCEPT !.dispatches = resumed]) /\ UNCHANGED effects
  <2> DEFINE n == [q EXCEPT !.dispatches = resumed]
  <2>1. n \in Serving /\ n.pc = "emitting" /\ n.step = q.step /\ n.token = q.token /\ n.dispatches # <<>>
    BY <1>9, <1>11
  <2>2. Moves(r, n)
    BY <1>13
  <2> HIDE DEF n
  <2>3. ServingSound(program, n, effects[r])
    BY <1>2, <1>3, <2>1, BusySound
  <2> QED
    BY <1>1, <1>3, <1>13, <2>1, <2>2, <2>3, RequestMoves DEF Calling
<1>14. CASE Moves(r, [q EXCEPT !.dispatches = pushed]) /\ effects' = [effects EXCEPT ![r] = f]
  <2> DEFINE n == [q EXCEPT !.dispatches = pushed]
  <2>1. n \in Serving /\ n.pc = "emitting" /\ n.step = q.step /\ n.token = q.token /\ n.dispatches # <<>>
    BY <1>10, <1>11
  <2>2. Moves(r, n)
    BY <1>14
  <2> HIDE DEF n
  <2>3. ServingSound(program, n, f)
    BY <1>2, <1>3, <1>4, <2>1, BusySound
  <2> QED
    BY <1>1, <1>3, <1>4, <1>14, <2>1, <2>2, <2>3, RequestMoves DEF Calling
<1> QED
  BY <1>12, <1>13, <1>14

LEMMA EndDispatchInv ==
  ASSUME EndpointAssumption, EndpointInv, NEW r \in EndpointRequest, EndDispatch(r) PROVE EndpointInv'
<1> DEFINE q == serving[r]
           outer == OuterDispatches(r)
           back == [q EXCEPT !.dispatches = outer]
           ready == [back EXCEPT !.pc = "handler"]
<1>1. q.pc = "emitting" /\ EndpointCore /\ UNCHANGED <<program, reachable, chain, breaker, effects>>
  BY DEF EndDispatch, EndpointInv
<1>2. q.step \in Effectful(program) \cap StepsWithEffect(effects[r]) /\ q.step \notin Hopeless(program) /\ q.pc \in InProgress
  BY <1>1, BusyFacts
<1>3. /\ q \in Serving /\ effects[r] \in Seq(EffectType) /\ program \in Program /\ program # NoProgram
      /\ effects = [effects EXCEPT ![r] = effects[r]] /\ LetsIn(chain, q.token)
      /\ EffectsWithin(program, q, effects[r]) /\ BehindDone(program, q, effects[r])
  BY <1>1, <1>2, UnderwayFacts
<1>4. outer \in Seq(DispatchFrame)
  BY <1>1, StackFacts
<1>5. (outer # <<>> /\ Moves(r, back)) \/ Moves(r, [ready EXCEPT !.step = @ + 1])
  BY DEF EndDispatch, AfterStep
<1> HIDE DEF outer
<1>6. back \in Serving /\ back.pc = "emitting" /\ back.step = q.step /\ back.token = q.token /\ back.dispatches = outer
  BY <1>1, <1>3, <1>4 DEF Serving, DispatchFrame
<1> HIDE DEF back
<1>7. ready \in Serving /\ ready.pc = "handler" /\ ready.step = q.step /\ ready.token = q.token
  BY <1>6 DEF Serving
<1> HIDE DEF ready
<1>8. CASE outer # <<>> /\ Moves(r, back)
  <2>1. ServingSound(program, back, effects[r])
    BY <1>2, <1>3, <1>6, <1>8, BusySound
  <2> QED
    BY <1>1, <1>3, <1>6, <1>8, <2>1, RequestMoves DEF Calling
<1>9. CASE Moves(r, [ready EXCEPT !.step = @ + 1])
  <2> DEFINE n == [ready EXCEPT !.step = @ + 1]
  <2>1. EffectsWithin(program, ready, effects[r]) /\ BehindDone(program, ready, effects[r])
    BY <1>3, <1>7 DEF EffectsWithin, BehindDone
  <2>2. ready.step <= Len(program.logic)
    BY <1>2, <1>3, <1>7, ProgramFields DEF Effectful
  <2>3. n \in Serving /\ ServingSound(program, n, effects[r])
    BY <1>2, <1>3, <1>7, <2>1, <2>2, AdvanceSound
  <2>4. n.pc = "handler" /\ n.token = q.token
    BY <1>7 DEF Serving
  <2>5. Moves(r, n)
    BY <1>9
  <2> HIDE DEF n
  <2> QED
    BY <1>1, <1>3, <2>3, <2>4, <2>5, RequestMoves DEF Calling
<1> QED
  BY <1>5, <1>8, <1>9

LEMMA WriteInv ==
  ASSUME EndpointAssumption, EndpointInv, NEW r \in EndpointRequest, WriteResponse(r) PROVE EndpointInv'
<1> DEFINE q == serving[r]
           n == Responded(q, program.code)
<1>1. /\ q.pc = "handler" /\ q.pc \in InProgress /\ q.step > Len(program.logic) /\ EndpointCore /\ Moves(r, n)
      /\ UNCHANGED <<program, reachable, chain, breaker, effects>>
  BY DEF WriteResponse, EndpointInv, InProgress
<1>2. /\ q \in Serving /\ effects[r] \in Seq(EffectType) /\ program \in Program /\ program # NoProgram
      /\ effects = [effects EXCEPT ![r] = effects[r]] /\ LetsIn(chain, q.token)
      /\ EffectsWithin(program, q, effects[r]) /\ BehindDone(program, q, effects[r])
      /\ q.step \in 1..(Len(program.logic) + 1) /\ Len(program.logic) \in Nat
  BY <1>1, UnderwayFacts
<1>3. q.step = Len(program.logic) + 1 /\ program.code \in Nat /\ DOMAIN program.logic = 1..Len(program.logic)
  BY <1>1, <1>2, ProgramFields
<1>4. q.step \notin StepsWithEffect(effects[r])
  BY <1>1 DEF EndpointCore, ServingSound
<1>5. StepsWithEffect(effects[r]) = Effectful(program)
  <2>1. ASSUME NEW i \in StepsWithEffect(effects[r]) PROVE i \in Effectful(program)
    <3>1. i \in 1..q.step
      BY <1>2 DEF EffectsWithin, StepsWithEffect
    <3>2. i \in 1..(q.step - 1)
      BY <1>3, <1>4, <3>1, <1>2
    <3> QED
      BY <1>2, <3>2 DEF BehindDone
  <2>2. ASSUME NEW i \in Effectful(program) PROVE i \in StepsWithEffect(effects[r])
    <3>1. i \in 1..(q.step - 1)
      BY <1>2, <1>3 DEF Effectful
    <3> QED
      BY <1>2, <3>1 DEF BehindDone
  <2> QED
    BY <2>1, <2>2
<1>6. n \in Serving /\ n.pc = "done" /\ n.step = q.step /\ n.token = q.token
  BY <1>2, <1>3 DEF Responded, Serving
<1> HIDE DEF n
<1>7. EffectsWithin(program, n, effects[r])
  BY <1>2, <1>6 DEF EffectsWithin
<1>8. ServingSound(program, n, effects[r])
  BY <1>2, <1>5, <1>6, <1>7 DEF ServingSound, InProgress
<1> QED
  BY <1>1, <1>2, <1>6, <1>8, RequestMoves DEF Calling, InProgress

-----------------------------------------------------------------------------
\* Calls through the breaker

AtCall(t) == {r \in EndpointRequest : t[r].pc \in {"calling", "answered"}}

\* A state of the breaker that is sound when n calls are under way
BreakerSound(c, n) ==
    /\ c \in [state : {"closed", "open", "half_open"}, failures : Nat, concurrent : Nat]
    /\ c.concurrent = n /\ (c.state # "closed" => c.failures >= BreakerThreshold)

LEMMA CircuitSoundIs == CircuitSound <=> BreakerSound(breaker, Cardinality(AtCall(serving)))
BY DEF CircuitSound, SlotsMatchCalls, BreakerSound, AtCall

LEMMA CircuitSoundThen ==
  ASSUME BreakerSound(breaker', Cardinality(AtCall(serving'))) PROVE CircuitSound'
BY DEF CircuitSound, SlotsMatchCalls, BreakerSound, AtCall

LEMMA CallsFinite ==
  ASSUME EndpointAssumption, NEW t PROVE IsFiniteSet(AtCall(t)) /\ Cardinality(AtCall(t)) \in Nat
<1>1. AtCall(t) \in SUBSET EndpointRequest
  BY DEF AtCall
<1>2. IsFiniteSet(AtCall(t))
  BY <1>1, FS_Subset DEF EndpointAssumption
<1> QED
  BY <1>2, FS_CardinalityType

LEMMA AllowInv ==
  ASSUME EndpointAssumption, EndpointInv, NEW r \in EndpointRequest, AllowCall(r) PROVE EndpointInv'
<1> DEFINE q == serving[r]
           f == Append(effects[r], [step |-> q.step, what |-> "call"])
           n == [q EXCEPT !.pc = "calling"]
           c == [breaker EXCEPT !.concurrent = @ + 1, !.state = IF @ = "open" THEN "half_open" ELSE @]
<1>1. AtStep(r, {"call"}) /\ EndpointCore /\ CircuitSound /\ UNCHANGED <<program, reachable, chain>>
  BY DEF AllowCall, EndpointInv
<1>2. /\ CurrentStep(r) = program.logic[q.step] /\ CurrentStep(r).action = "call" /\ q.pc \in InProgress
      /\ q.step \in DOMAIN program.logic /\ q.pc \notin Calling
  BY <1>1, AtStepFacts
<1>3. /\ q \in Serving /\ effects[r] \in Seq(EffectType) /\ program \in Program /\ program # NoProgram
      /\ effects = [effects EXCEPT ![r] = effects[r]] /\ LetsIn(chain, q.token)
      /\ EffectsWithin(program, q, effects[r]) /\ BehindDone(program, q, effects[r])
  BY <1>1, <1>2, UnderwayFacts
<1>4. q.step \notin Hopeless(program) /\ q.step \in Effectful(program)
  BY <1>2 DEF Hopeless, Effectful
<1>5. /\ f \in Seq(EffectType) /\ EffectsWithin(program, q, f) /\ BehindDone(program, q, f) /\ q.step \in StepsWithEffect(f)
  BY <1>3, EffectAdded
<1>6. n \in Serving /\ n.pc = "calling" /\ n.step = q.step /\ n.token = q.token
  BY <1>3 DEF Serving
<1>7. \/ Moves(r, n) /\ effects' = [effects EXCEPT ![r] = f] /\ breaker' = c
      \/ Moves(r, AfterStep(q, "other")) /\ UNCHANGED <<breaker, effects>>
  BY DEF AllowCall, Effect
<1> HIDE DEF n, f
<1>8. CASE Moves(r, AfterStep(q, "other")) /\ UNCHANGED <<breaker, effects>>
  BY <1>1, <1>3, <1>8, StepFails
<1>9. CASE Moves(r, n) /\ effects' = [effects EXCEPT ![r] = f] /\ breaker' = c
  <2>1. ServingSound(program, n, f)
    BY <1>3, <1>4, <1>5, <1>6, BusySound
  <2>2. EndpointCore'
    BY <1>1, <1>3, <1>5, <1>6, <1>9, <2>1, CoreMoves
  <2>3. AtCall(serving') = AtCall(serving) \cup {r} /\ r \notin AtCall(serving)
    BY <1>1, <1>2, <1>6, <1>9 DEF AtCall, Moves, Calling, EndpointCore
  <2>4. Cardinality(AtCall(serving')) = Cardinality(AtCall(serving)) + 1 /\ Cardinality(AtCall(serving)) \in Nat
    BY <2>3, CallsFinite, FS_AddElement
  <2>5. BreakerSound(c, Cardinality(AtCall(serving)) + 1)
    <3>1. BreakerSound(breaker, Cardinality(AtCall(serving)))
      BY <1>1, CircuitSoundIs
    <3>2. /\ c \in [state : {"closed", "open", "half_open"}, failures : Nat, concurrent : Nat]
          /\ c.concurrent = breaker.concurrent + 1 /\ c.failures = breaker.failures
          /\ c.state # "closed" => breaker.state # "closed"
      <4> DEFINE state == IF breaker.state = "open" THEN "half_open" ELSE breaker.state
                 slots == breaker.concurrent + 1
      <4>1. state \in {"closed", "open", "half_open"} /\ slots \in Nat /\ (state # "closed" => breaker.state # "closed")
        BY <3>1 DEF BreakerSound
      <4>2. c = [breaker EXCEPT !.concurrent = slots, !.state = state]
        BY <3>1 DEF BreakerSound
      <4> HIDE DEF state, slots, c
      <4>3. slots = breaker.concurrent + 1
        BY DEF slots
      <4> QED
        BY <3>1, <4>1, <4>2, <4>3 DEF BreakerSound
    <3> HIDE DEF c
    <3> QED
      BY <3>1, <3>2 DEF BreakerSound
  <2>6. CircuitSound'
    BY <1>9, <2>4, <2>5, CircuitSoundThen
  <2> QED
    BY <2>2, <2>6 DEF EndpointInv
<1> QED
  BY <1>7, <1>8, <1>9

LEMMA AnswerInv ==
  ASSUME EndpointAssumption, EndpointInv, NEW r \in EndpointRequest, AnswerCall(r) PROVE EndpointInv'
<1> DEFINE q == serving[r]
<1>1. q.pc = "calling" /\ EndpointCore /\ CircuitSound /\ UNCHANGED <<program, reachable, chain, effects>>
  BY DEF AnswerCall, EndpointInv
<1>2. q.step \in Effectful(program) \cap StepsWithEffect(effects[r]) /\ q.step \notin Hopeless(program) /\ q.pc \in InProgress
  BY <1>1, BusyFacts
<1>3. /\ q \in Serving /\ effects[r] \in Seq(EffectType) /\ program \in Program /\ program # NoProgram
      /\ effects = [effects EXCEPT ![r] = effects[r]] /\ LetsIn(chain, q.token)
      /\ EffectsWithin(program, q, effects[r]) /\ BehindDone(program, q, effects[r])
  BY <1>1, <1>2, UnderwayFacts
<1>4. PICK answer \in {"ok", "server_error", "failed"} :
        /\ breaker' = IF answer = "ok" THEN RecordCallSuccess ELSE RecordCallFailure
        /\ Moves(r, [q EXCEPT !.pc = "answered", !.failed = answer = "failed"])
  BY DEF AnswerCall
<1> DEFINE n == [q EXCEPT !.pc = "answered", !.failed = answer = "failed"]
<1>5. n \in Serving /\ n.pc = "answered" /\ n.step = q.step /\ n.token = q.token
  BY <1>3 DEF Serving
<1>6. Moves(r, n)
  BY <1>4
<1> HIDE DEF n
<1>7. ServingSound(program, n, effects[r])
  BY <1>2, <1>3, <1>5, BusySound
<1>8. EndpointCore'
  BY <1>1, <1>3, <1>5, <1>6, <1>7, CoreMoves
<1>9. AtCall(serving') = AtCall(serving)
  BY <1>1, <1>5, <1>6 DEF AtCall, Moves, EndpointCore
<1>10. BreakerSound(breaker, Cardinality(AtCall(serving)))
  BY <1>1, CircuitSoundIs
<1>11. BreakerThreshold \in Int
  BY DEF EndpointAssumption
<1>12. BreakerSound(RecordCallSuccess, Cardinality(AtCall(serving)))
  BY <1>10, <1>11 DEF BreakerSound, RecordCallSuccess
<1>13. BreakerSound(RecordCallFailure, Cardinality(AtCall(serving)))
  <2> DEFINE c == RecordCallFailure
             failures == IF breaker.failures < BreakerThreshold THEN breaker.failures + 1 ELSE breaker.failures
  <2>1. breaker.failures \in Nat /\ failures \in Nat
    BY <1>10, <1>11 DEF BreakerSound
  <2>2. /\ c \in [state : {"closed", "open", "half_open"}, failures : Nat, concurrent : Nat]
        /\ c.concurrent = breaker.concurrent /\ c.failures = failures
        /\ c.state = (IF breaker.failures + 1 >= BreakerThreshold THEN "open" ELSE breaker.state)
    BY <1>10, <1>11, <2>1 DEF BreakerSound, RecordCallFailure
  <2> HIDE DEF c
  <2>3. c.state # "closed" => failures >= BreakerThreshold
    BY <1>10, <1>11, <2>1, <2>2 DEF BreakerSound
  <2> HIDE DEF failures
  <2>4. BreakerSound(c, Cardinality(AtCall(serving)))
    BY <1>10, <2>2, <2>3 DEF BreakerSound
  <2> QED
    BY <2>4 DEF c
<1>14. CircuitSound'
  BY <1>4, <1>9, <1>12, <1>13, CircuitSoundThen
<1> QED
  BY <1>8, <1>14 DEF EndpointInv

LEMMA FinishInv ==
  ASSUME EndpointAssumption, EndpointInv, NEW r \in EndpointRequest, FinishCall(r) PROVE EndpointInv'
<1> DEFINE q == serving[r]
           h == [q EXCEPT !.pc = "handler", !.failed = FALSE]
           c == [breaker EXCEPT !.concurrent = SlotsAfter(serving[r])]
<1>1. q.pc = "answered" /\ EndpointCore /\ CircuitSound /\ UNCHANGED <<program, reachable, chain, effects>> /\ breaker' = c
  BY DEF FinishCall, EndpointInv
<1>2. q.step \in Effectful(program) \cap StepsWithEffect(effects[r]) /\ q.step \notin Hopeless(program) /\ q.pc \in InProgress
  BY <1>1, BusyFacts
<1>3. /\ q \in Serving /\ effects[r] \in Seq(EffectType) /\ program \in Program /\ program \in Programs /\ program # NoProgram
      /\ effects = [effects EXCEPT ![r] = effects[r]] /\ LetsIn(chain, q.token)
      /\ EffectsWithin(program, q, effects[r]) /\ BehindDone(program, q, effects[r])
  BY <1>1, <1>2, UnderwayFacts
<1>4. h \in Serving /\ h.pc = "handler" /\ h.step = q.step /\ h.token = q.token
  BY <1>3 DEF Serving
<1>5. PICK value \in {"error", "nil", "map", "list", "text"} :
        Moves(r, IF value = "error" THEN AfterStep(h, "other") ELSE AfterStep(StoreResult(h, CurrentStep(r), value), "none"))
  BY DEF FinishCall
<1> HIDE DEF h
<1>6. q.step <= Len(program.logic) /\ Len(program.logic) \in Nat /\ q.step \in Nat
  BY <1>2, <1>3, ProgramFields DEF Effectful
<1>7. EffectsWithin(program, h, effects[r]) /\ BehindDone(program, h, effects[r])
  BY <1>3, <1>4 DEF EffectsWithin, BehindDone
<1>8. \E n \in Serving : Moves(r, n) /\ ServingSound(program, n, effects[r]) /\ n.token = q.token /\ n.pc \in {"handler", "done"}
  <2>1. CASE value = "error"
    <3> DEFINE n == Responded(h, 500)
    <3>1. Moves(r, n)
      BY <1>5, <2>1 DEF AfterStep, StatusOf
    <3>2. 500 \in ErrorCodes
      BY DEF ErrorCodes
    <3>3. n \in Serving /\ ServingSound(program, n, effects[r])
      BY <1>3, <1>4, <1>6, <1>7, <3>2, FailsSound
    <3>4. n.token = q.token /\ n.pc = "done"
      BY <1>4 DEF Responded, Serving
    <3> HIDE DEF n
    <3> QED
      BY <3>1, <3>3, <3>4
  <2>2. CASE value # "error"
    <3> DEFINE m == StoreResult(h, CurrentStep(r), value)
               n == [m EXCEPT !.step = @ + 1]
    <3>1. value \in Values
      BY <2>2 DEF Values
    <3>2. m \in Serving /\ m.pc = "handler" /\ m.step = q.step /\ m.token = q.token
      BY <1>4, <3>1, StoreAlike DEF Alike
    <3>3. Moves(r, n)
      BY <1>5, <2>2 DEF AfterStep
    <3> HIDE DEF m
    <3>4. EffectsWithin(program, m, effects[r]) /\ BehindDone(program, m, effects[r])
      BY <1>3, <3>2 DEF EffectsWithin, BehindDone
    <3>5. n \in Serving /\ ServingSound(program, n, effects[r])
      BY <1>2, <1>3, <1>6, <3>2, <3>4, AdvanceSound
    <3>6. n.token = q.token /\ n.pc = "handler"
      BY <3>2 DEF Serving
    <3> HIDE DEF n
    <3> QED
      BY <3>3, <3>5, <3>6
  <2> QED
    BY <2>1, <2>2
<1>9. PICK n \in Serving : Moves(r, n) /\ ServingSound(program, n, effects[r]) /\ n.token = q.token /\ n.pc \in {"handler", "done"}
  BY <1>8
<1>10. EndpointCore'
  BY <1>1, <1>3, <1>9, CoreMoves
<1>11. AtCall(serving') = AtCall(serving) \ {r} /\ r \in AtCall(serving)
  BY <1>1, <1>9 DEF AtCall, Moves, EndpointCore
<1>12. /\ Cardinality(AtCall(serving')) = Cardinality(AtCall(serving)) - 1
       /\ Cardinality(AtCall(serving)) \in Nat /\ Cardinality(AtCall(serving')) \in Nat
  BY <1>11, CallsFinite, FS_RemoveElement
<1>13. BreakerSound(c, Cardinality(AtCall(serving')))
  BY <1>1, <1>12, CircuitSoundIs DEF BreakerSound, SlotsAfter
<1>14. CircuitSound'
  BY <1>1, <1>13, CircuitSoundThen
<1> QED
  BY <1>10, <1>14 DEF EndpointInv

-----------------------------------------------------------------------------
LEMMA EndpointNextInv == ASSUME EndpointAssumption, EndpointInv, [EndpointNext]_endpointVars PROVE EndpointInv'
<1>1. ASSUME NEW p \in Programs, NEW up \in BOOLEAN, GenerateFromAST(p, up) PROVE EndpointInv'
  BY <1>1, GenerateInv
<1>2. ASSUME NEW r \in EndpointRequest, NEW bearer \in PresentedTokens, NEW body \in Bodies, NEW method,
             ServeRequest(r, bearer, body, method)
      PROVE  EndpointInv'
  <2>1. bearer \in {"none", "valid", "invalid"} /\ body \in {"object", "withV", "null", "bad"}
    BY DEF PresentedTokens, Bodies
  <2> QED
    BY <1>2, <2>1, ServeInv
<1>3. ASSUME NEW r \in EndpointRequest,
             \/ ExecuteValidate(r) \/ ExecuteAuthorize(r) \/ ExecuteDBFind(r) \/ ExecuteDBFindOne(r) \/ ExecuteDBInsert(r)
             \/ ExecuteDisconnected(r) \/ ExecuteTransform(r) \/ ExecuteEmit(r) \/ CallHandler(r) \/ EndDispatch(r)
             \/ AllowCall(r) \/ AnswerCall(r) \/ FinishCall(r) \/ WriteResponse(r)
      PROVE  EndpointInv'
  BY <1>3, ValidateInv, AuthorizeInv, FindInv, FindOneInv, InsertInv, DisconnectedInv, TransformInv, EmitInv,
     CallHandlerInv, EndDispatchInv, AllowInv, AnswerInv, FinishInv, WriteInv
<1>4. CASE UNCHANGED endpointVars
  BY <1>4 DEF endpointVars, EndpointInv, EndpointCore, CircuitSound, SlotsMatchCalls
<1> QED
  BY <1>1, <1>2, <1>3, <1>4 DEF EndpointNext

\* Whatever the programs declare and however the requests interleave, fail and share the breaker:
\* what generated handlers answer is what their steps have done, a step is reached only past the
\* required authentication that could be built, and Allow and Done keep count of the calls.
THEOREM EndpointsAreFaithful == ASSUME EndpointAssumption PROVE EndpointSpec => []EndpointsKeepFaith
<1>1. EndpointInit => EndpointInv
  BY EndpointInitInv
<1>2. EndpointInv /\ [EndpointNext]_endpointVars => EndpointInv'
  BY EndpointNextInv
<1>3. EndpointInv => EndpointsKeepFaith
  BY EndpointInvStrong
<1> QED
  BY <1>1, <1>2, <1>3, PTL DEF EndpointSpec
=============================================================================
