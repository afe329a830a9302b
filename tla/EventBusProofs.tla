--------------------------- MODULE EventBusProofs ---------------------------
(***************************************************************************)
(* Proofs about the event bus: whatever publishers, workers, subscribers   *)
(* and Close do side by side, an event has one holder at a time, the       *)
(* subscribers of its snapshot are called in order and once, after it was  *)
(* stored; and Close, called once, leaves nothing behind.                  *)
(***************************************************************************)
EXTENDS EventBus, SequenceTheorems, TLAPS

Early == {"save", "saveAsync", "publish", "publishAsync", "send"}
Active == Early \cup {"handle"}
Queued == {asyncBuffer[i] : i \in 1..Len(asyncBuffer)}
Untouched(e) == handled[e] = <<>> /\ snapshot[e] = <<>>

FlagsTyped ==
    /\ subscribers \in [EventType -> Seq(Subscriber)] /\ \A t \in EventType : Len(subscribers[t]) <= MaxSubscriptions
    /\ closed \in BOOLEAN /\ chanClosed \in BOOLEAN /\ panicked \in BOOLEAN
    /\ closer \in [Closer -> {"idle", "marked", "waiting", "returned"}]
CoreTyped ==
    /\ asyncBuffer \in Seq(Event) /\ Len(asyncBuffer) <= AsyncBufferSize
    /\ pc \in [Thread -> Label] /\ job \in [Thread -> Event \cup {NoEvent}]
    /\ todo \in [Thread -> Seq(Subscriber)] /\ \A th \in Thread : Len(todo[th]) <= MaxSubscriptions
    /\ stored \subseteq Event /\ dispatched \subseteq Event /\ accepted \subseteq dispatched
    /\ handled \in [Event -> Seq(Subscriber)] /\ snapshot \in [Event -> Seq(Subscriber)]

\* What a thread is doing with its event: it is stored before it goes on, nobody was called
\* before its snapshot, and what is left to call is the rest of the snapshot.
InStep(th) == snapshot[job[th]] = handled[job[th]] \o todo[th]
ThreadSound(th) ==
    /\ pc[th] \in Active => job[th] \in dispatched /\ job[th] \notin Queued
    /\ pc[th] \in Early => Untouched(job[th])
    /\ pc[th] \in Active \ {"save", "saveAsync"} => job[th] \in stored
    /\ pc[th] = "handle" => InStep(th)
    /\ th \in Worker => pc[th] \in {"receive", "publish", "handle", "exited"}
    /\ th \in Publisher => pc[th] \notin {"receive", "exited"} /\ (pc[th] \in Active => job[th] \notin accepted)

\* No two threads hold one event.
Exclusive == \A th, u \in Thread : pc[th] \in Active /\ pc[u] \in Active /\ job[th] = job[u] => th = u

\* The buffer holds an event once; nobody has been called with it.
QueueSound ==
    /\ \A i, j \in 1..Len(asyncBuffer) : asyncBuffer[i] = asyncBuffer[j] => i = j
    /\ \A e \in Queued : e \in accepted /\ e \in stored /\ Untouched(e)

\* An accepted event waits, is being published by a worker, or is done.
EventSound(e) ==
    /\ e \notin dispatched => Untouched(e)
    /\ IsPrefix(handled[e], snapshot[e])
    /\ handled[e] # <<>> => e \in stored
    /\ e \in accepted => \/ e \in Queued \/ handled[e] = snapshot[e]
                         \/ \E w \in Worker : pc[w] \in {"publish", "handle"} /\ job[w] = e

CoreInv == CoreTyped /\ Exclusive /\ QueueSound /\ (\A th \in Thread : ThreadSound(th)) /\ \A e \in Event : EventSound(e)

(***************************************************************************)
(* Sequences                                                               *)
(***************************************************************************)

\* The bounded sequences of the type invariant
LEMMA BoundedIs ==
  ASSUME NEW S, NEW n \in Nat, NEW s \in Seq(S), Len(s) <= n
  PROVE  s \in BoundedSeq(S, n)
<1>1. Len(s) \in 0..n /\ s \in [1..Len(s) -> S]
  OBVIOUS
<1> QED
  BY <1>1 DEF BoundedSeq, SeqOf

\* Moving the head of the rest to the end of what is done changes nothing.
LEMMA ShiftOne ==
  ASSUME NEW S, NEW h \in Seq(S), NEW t \in Seq(S), t # <<>>
  PROVE  Append(h, Head(t)) \in Seq(S) /\ Tail(t) \in Seq(S) /\ Append(h, Head(t)) \o Tail(t) = h \o t
<1>1. Head(t) \in S /\ Tail(t) \in Seq(S) /\ <<Head(t)>> \in Seq(S)
  OBVIOUS
<1>2. Append(h, Head(t)) = h \o <<Head(t)>>
  BY <1>1, AppendIsConcat
<1>3. (h \o <<Head(t)>>) \o Tail(t) = h \o (<<Head(t)>> \o Tail(t))
  BY <1>1, ConcatAssociative
<1>4. <<Head(t)>> \o Tail(t) = t
  BY <1>1
<1> QED
  BY <1>1, <1>2, <1>3, <1>4

\* What was put in front is a prefix.
LEMMA FrontIsPrefix ==
  ASSUME NEW S, NEW h \in Seq(S), NEW t \in Seq(S)
  PROVE  IsPrefix(h, h \o t)
<1>1. Len(h \o t) = Len(h) + Len(t) /\ Len(h) \in Nat /\ Len(t) \in Nat
  BY ConcatProperties
<1>2. SubSeq(h \o t, 1, Len(h)) = SubSeq(h, 1, Len(h))
  <2>1. CASE Len(h) = 0
    BY <2>1, SubSeqEmpty
  <2>2. CASE Len(h) # 0
    <3>1. 1 \in 1..Len(h) /\ Len(h) \in 1..Len(h)
      BY <1>1, <2>2
    <3> QED
      BY <3>1, SubSeqOfConcat1
  <2> QED
    BY <2>1, <2>2
<1> QED
  BY <1>1, <1>2 DEF IsPrefix

\* The type invariant follows from its unbounded form.
LEMMA BusTyped == ASSUME FlagsTyped, CoreTyped PROVE TypeOK
<1>1. subscribers \in [EventType -> BoundedSeq(Subscriber, MaxSubscriptions)]
  BY BoundedIs, BusAssumption DEF FlagsTyped
<1>2. todo \in [Thread -> BoundedSeq(Subscriber, MaxSubscriptions)]
  BY BoundedIs, BusAssumption DEF CoreTyped
<1>3. asyncBuffer \in BoundedSeq(Event, AsyncBufferSize)
  BY BoundedIs, BusAssumption DEF CoreTyped
<1> QED
  BY <1>1, <1>2, <1>3 DEF FlagsTyped, CoreTyped, TypeOK

(***************************************************************************)
(* The threads                                                             *)
(***************************************************************************)

\* Nobody has dispatched anything.
LEMMA BusInit == ASSUME Init PROVE FlagsTyped /\ CoreInv
<1>1. FlagsTyped
  <2>1. <<>> \in Seq(Subscriber) /\ Len(<<>>) <= MaxSubscriptions
    BY BusAssumption
  <2> QED
    BY <2>1 DEF Init, FlagsTyped
<1>2. CoreTyped
  <2>1. pc \in [Thread -> Label]
    BY DEF Init, Label
  <2>2. \A th \in Thread : Len(todo[th]) <= MaxSubscriptions
    BY BusAssumption DEF Init
  <2> QED
    BY <2>1, <2>2, BusAssumption DEF Init, CoreTyped
<1>3. \A th \in Thread : pc[th] = Rest(th) /\ pc[th] \notin Active
  BY DEF Init, Active, Early, Rest
<1>4. Queued = {} /\ accepted = {} /\ asyncBuffer = <<>> /\ \A e \in Event : handled[e] = <<>> /\ snapshot[e] = <<>>
  BY DEF Init, Queued
<1>5. ASSUME NEW th \in Thread PROVE ThreadSound(th)
  <2>1. "handle" \in Active /\ Early \subseteq Active
    BY DEF Active
  <2> QED
    BY <1>3, <2>1, BusAssumption DEF ThreadSound, Rest, Thread
<1>6. ASSUME NEW e \in Event PROVE EventSound(e)
  <2>1. IsPrefix(<<>>, <<>>)
    BY DEF IsPrefix
  <2> QED
    BY <1>4, <2>1 DEF EventSound, Untouched
<1> QED
  BY <1>1, <1>2, <1>3, <1>4, <1>5, <1>6 DEF CoreInv, Exclusive, QueueSound

\* What others do does not disturb a thread whose event they leave alone.
LEMMA ThreadFrame ==
  ASSUME NEW th, ThreadSound(th), pc'[th] = pc[th], job'[th] = job[th], todo'[th] = todo[th],
         dispatched \subseteq dispatched', stored \subseteq stored',
         pc[th] \in Active => (job[th] \in Queued' => job[th] \in Queued) /\ (job[th] \in accepted' => job[th] \in accepted),
         pc[th] \in Active => handled'[job[th]] = handled[job[th]] /\ snapshot'[job[th]] = snapshot[job[th]]
  PROVE  ThreadSound(th)'
<1>1. "handle" \in Active /\ Early \subseteq Active
  BY DEF Active
<1>2. pc[th] \in Early /\ Untouched(job[th]) => Untouched(job[th])'
  BY <1>1 DEF Untouched
<1>3. pc[th] = "handle" /\ InStep(th) => InStep(th)'
  BY <1>1 DEF InStep
<1> QED
  BY <1>1, <1>2, <1>3 DEF ThreadSound

\* Steps that leave the threads, the buffer and the histories alone
LEMMA QuietKeeps == ASSUME CoreInv, UNCHANGED <<asyncBuffer, pc, job, todo, stored, history>> PROVE CoreInv'
<1>1. /\ asyncBuffer' = asyncBuffer /\ pc' = pc /\ job' = job /\ todo' = todo /\ stored' = stored
      /\ dispatched' = dispatched /\ accepted' = accepted /\ snapshot' = snapshot /\ handled' = handled
  BY DEF history
<1>2. Queued' = Queued /\ CoreTyped' /\ Exclusive'
  BY <1>1 DEF CoreInv, Queued, CoreTyped, Exclusive
<1>3. QueueSound'
  BY <1>1, <1>2 DEF CoreInv, QueueSound, Untouched
<1>4. ASSUME NEW th \in Thread PROVE ThreadSound(th)'
  BY <1>1, <1>2, ThreadFrame DEF CoreInv
<1>5. ASSUME NEW e \in Event PROVE EventSound(e)'
  BY <1>1, <1>2 DEF CoreInv, EventSound, Untouched
<1> QED
  BY <1>2, <1>3, <1>4, <1>5 DEF CoreInv

\* A thread moves on with its event, or lets go of it when it is done or not accepted.
LEMMA ThreadMoves ==
  ASSUME CoreInv, NEW th \in Thread, NEW l \in Label, NEW e \in Event \cup {NoEvent},
         pc' = [pc EXCEPT ![th] = l], job' = [job EXCEPT ![th] = e],
         UNCHANGED <<asyncBuffer, todo, history>>, stored \subseteq stored', stored' \subseteq Event,
         l \in Active => pc[th] \in Active /\ e = job[th],
         ThreadSound(th)',
         th \in Worker /\ pc[th] \in {"publish", "handle"} =>
            (l \in {"publish", "handle"} /\ e = job[th]) \/ handled[job[th]] = snapshot[job[th]]
  PROVE  CoreInv'
<1>1. /\ asyncBuffer' = asyncBuffer /\ todo' = todo /\ dispatched' = dispatched /\ accepted' = accepted
      /\ snapshot' = snapshot /\ handled' = handled /\ Queued' = Queued
  BY DEF history, Queued
<1>2. CoreTyped' /\ pc'[th] = l /\ job'[th] = e
  BY <1>1 DEF CoreInv, CoreTyped
<1>3. \A u \in Thread : u # th => pc'[u] = pc[u] /\ job'[u] = job[u]
  BY DEF CoreInv, CoreTyped
<1>4. Exclusive'
  BY <1>2, <1>3 DEF CoreInv, Exclusive
<1>5. QueueSound'
  BY <1>1 DEF CoreInv, QueueSound, Untouched
<1>6. ASSUME NEW u \in Thread PROVE ThreadSound(u)'
  <2>1. CASE u # th
    BY <1>1, <1>3, <2>1, ThreadFrame DEF CoreInv
  <2> QED
    BY <2>1
<1>7. ASSUME NEW f \in Event PROVE EventSound(f)'
  <2>1. EventSound(f)
    BY DEF CoreInv
  <2>2. ASSUME NEW w \in Worker, pc[w] \in {"publish", "handle"}, job[w] = f
        PROVE  handled[f] = snapshot[f] \/ \E v \in Worker : pc'[v] \in {"publish", "handle"} /\ job'[v] = f
    <3>1. w \in Thread
      BY DEF Thread
    <3> QED
      BY <1>2, <1>3, <2>2, <3>1
  <2> QED
    BY <1>1, <2>1, <2>2 DEF EventSound, Untouched
<1> QED
  BY <1>2, <1>4, <1>5, <1>6, <1>7 DEF CoreInv

\* A goroutine hands a new event to the dispatcher.
LEMMA DispatchKeeps ==
  ASSUME CoreInv, NEW th \in Publisher, NEW e \in Event, Dispatch(th, e) \/ DispatchAsync(th, e)
  PROVE  CoreInv'
<1>1. PICK l \in {"save", "saveAsync"} : pc' = [pc EXCEPT ![th] = l]
  BY DEF Dispatch, DispatchAsync, GoTo
<1>2. /\ asyncBuffer' = asyncBuffer /\ todo' = todo /\ stored' = stored /\ dispatched' = dispatched \cup {e}
      /\ accepted' = accepted /\ snapshot' = snapshot /\ handled' = handled /\ Queued' = Queued
      /\ e \notin dispatched /\ job' = [job EXCEPT ![th] = e]
  BY DEF Dispatch, DispatchAsync, busVars, Queued
<1>3. th \in Thread /\ th \notin Worker /\ l \in Early /\ l \in Active /\ l \in Label
  BY BusAssumption DEF Thread, Early, Active, Label
<1>4. CoreTyped' /\ pc'[th] = l /\ job'[th] = e
  BY <1>1, <1>2, <1>3 DEF CoreInv, CoreTyped
<1>5. \A u \in Thread : u # th => pc'[u] = pc[u] /\ job'[u] = job[u]
  BY <1>1, <1>2 DEF CoreInv, CoreTyped
<1>6. e \notin accepted /\ e \notin Queued /\ Untouched(e) /\ \A u \in Thread : pc[u] \in Active => job[u] # e
  BY <1>2 DEF CoreInv, CoreTyped, QueueSound, EventSound, ThreadSound
<1>7. Exclusive'
  BY <1>4, <1>5, <1>6 DEF CoreInv, Exclusive
<1>8. QueueSound'
  BY <1>2 DEF CoreInv, QueueSound, Untouched
<1>9. ASSUME NEW u \in Thread PROVE ThreadSound(u)'
  <2>1. CASE u # th
    BY <1>2, <1>5, <2>1, ThreadFrame DEF CoreInv
  <2>2. CASE u = th
    <3>1. l \notin Active \ {"save", "saveAsync"} /\ l \notin {"handle", "receive", "exited"}
      OBVIOUS
    <3>2. Untouched(job[th])'
      BY <1>2, <1>4, <1>6 DEF Untouched
    <3> QED
      BY <1>2, <1>3, <1>4, <1>6, <2>2, <3>1, <3>2 DEF ThreadSound
  <2> QED
    BY <2>1, <2>2
<1>10. ASSUME NEW f \in Event PROVE EventSound(f)'
  <2>1. ASSUME NEW w \in Worker PROVE pc'[w] = pc[w] /\ job'[w] = job[w]
    BY <1>3, <1>5 DEF Thread
  <2> QED
    BY <1>2, <2>1 DEF CoreInv, EventSound, Untouched
<1> QED
  BY <1>4, <1>7, <1>8, <1>9, <1>10 DEF CoreInv

\* The event is saved, or the dispatcher gives up.
LEMMA SaveKeeps == ASSUME CoreInv, NEW th \in Thread, SaveEvent(th) \/ SaveFails(th) PROVE CoreInv'
<1>1. /\ pc[th] \in {"save", "saveAsync"} /\ UNCHANGED <<asyncBuffer, job, todo, history>>
      /\ ThreadSound(th) /\ CoreTyped
  BY DEF SaveEvent, SaveFails, busVars, CoreInv
<1>2. pc[th] \in Active /\ pc[th] \in Early /\ th \notin Worker /\ th \in Publisher /\ job[th] \in Event
  BY <1>1 DEF ThreadSound, Active, Early, Thread, CoreTyped
<1>3. job' = [job EXCEPT ![th] = job[th]] /\ job[th] \in Event \cup {NoEvent}
  BY <1>1 DEF CoreTyped
<1>4. dispatched' = dispatched /\ accepted' = accepted /\ snapshot' = snapshot /\ handled' = handled /\ Queued' = Queued
  BY <1>1 DEF history, Queued
<1>5. CASE SaveFails(th)
  <2>1. pc' = [pc EXCEPT ![th] = "idle"] /\ stored' = stored /\ "idle" \in Label /\ "idle" \notin Active /\ "idle" \notin Early
    BY <1>5 DEF SaveFails, GoTo, AfterFailedSave, Label, Active, Early
  <2>2. pc'[th] = "idle"
    BY <2>1 DEF CoreInv, CoreTyped
  <2>3. ThreadSound(th)'
    BY <1>2, <2>1, <2>2 DEF ThreadSound
  <2> QED
    BY <1>1, <1>2, <1>3, <2>1, <2>3, ThreadMoves DEF CoreTyped
<1>6. CASE SaveEvent(th)
  <2>1. PICK l \in {"publish", "publishAsync"} : pc' = [pc EXCEPT ![th] = l]
    BY <1>6 DEF SaveEvent, GoTo, AfterSave
  <2>2. stored' = stored \cup {job[th]} /\ l \in Label /\ l \in Active /\ l \in Early
    BY <1>6 DEF SaveEvent, Label, Active, Early
  <2>3. pc'[th] = l
    BY <2>1 DEF CoreInv, CoreTyped
  <2>4. ThreadSound(th)'
    BY <1>1, <1>2, <1>4, <2>2, <2>3 DEF ThreadSound, Untouched
  <2>5. stored \subseteq stored' /\ stored' \subseteq Event
    BY <1>1, <1>2, <2>2 DEF CoreTyped
  <2> QED
    BY <1>1, <1>2, <1>3, <2>1, <2>2, <2>4, <2>5, ThreadMoves
<1> QED
  BY <1>5, <1>6

\* The bus is closed, or the publisher holds the read lock.
LEMMA CheckKeeps == ASSUME CoreInv, NEW th \in Thread, PublishAsyncCheck(th) PROVE CoreInv'
<1>1. /\ pc[th] = "publishAsync" /\ UNCHANGED <<asyncBuffer, todo, stored, history>> /\ ThreadSound(th) /\ CoreTyped
  BY DEF PublishAsyncCheck, busVars, CoreInv
<1>2. pc[th] \in Active /\ pc[th] \in Early /\ th \notin Worker /\ th \in Publisher /\ pc[th] \notin {"save", "saveAsync"}
  BY <1>1 DEF ThreadSound, Active, Early, Thread
<1>3. dispatched' = dispatched /\ accepted' = accepted /\ snapshot' = snapshot /\ handled' = handled /\ Queued' = Queued
  BY <1>1 DEF history, Queued
<1>4. CASE pc' = [pc EXCEPT ![th] = "idle"] /\ job' = [job EXCEPT ![th] = NoEvent]
  <2>1. "idle" \in Label /\ "idle" \notin Active /\ "idle" \notin Early /\ pc'[th] = "idle"
    BY <1>1, <1>4 DEF Label, Active, Early, CoreTyped
  <2>2. ThreadSound(th)'
    BY <1>2, <2>1 DEF ThreadSound
  <2> QED
    BY <1>1, <1>2, <1>4, <2>1, <2>2, ThreadMoves DEF CoreTyped
<1>5. CASE pc' = [pc EXCEPT ![th] = "send"] /\ job' = job
  <2>1. "send" \in Label /\ "send" \in Active /\ "send" \in Early /\ pc'[th] = "send"
    BY <1>1, <1>5 DEF Label, Active, Early, CoreTyped
  <2>2. ThreadSound(th)'
    BY <1>1, <1>2, <1>3, <1>5, <2>1 DEF ThreadSound, Untouched
  <2>3. job' = [job EXCEPT ![th] = job[th]] /\ job[th] \in Event \cup {NoEvent}
    BY <1>1, <1>5 DEF CoreTyped
  <2> QED
    BY <1>1, <1>2, <1>5, <2>1, <2>2, <2>3, ThreadMoves DEF CoreTyped
<1> QED
  BY <1>4, <1>5 DEF PublishAsyncCheck, GoTo

\* All subscribers of the snapshot have been called.
LEMMA ReturnKeeps == ASSUME CoreInv, NEW th \in Thread, PublishReturns(th) PROVE CoreInv'
<1>1. /\ pc[th] = "handle" /\ todo[th] = <<>> /\ UNCHANGED <<asyncBuffer, todo, stored, history>> /\ ThreadSound(th)
      /\ CoreTyped /\ pc' = [pc EXCEPT ![th] = Rest(th)] /\ job' = [job EXCEPT ![th] = NoEvent]
  BY DEF PublishReturns, busVars, CoreInv, GoTo
<1>2. pc[th] \in Active /\ job[th] \in Event
  BY <1>1 DEF ThreadSound, Active, CoreTyped
<1>3. snapshot[job[th]] = handled[job[th]]
  BY <1>1, <1>2, ConcatEmptySeq DEF ThreadSound, InStep, CoreTyped
<1>4. Rest(th) \in Label /\ Rest(th) \notin Active /\ Rest(th) \notin Early
  BY DEF Rest, Label, Active, Early
<1>5. ThreadSound(th)'
  <2>1. pc'[th] = Rest(th)
    BY <1>1 DEF CoreTyped
  <2> QED
    BY <1>4, <2>1, BusAssumption DEF ThreadSound, Rest
<1> QED
  BY <1>1, <1>3, <1>4, <1>5, ThreadMoves DEF CoreTyped

\* The subscribers are copied; from now on they are called in this order.
LEMMA SnapshotKeeps == ASSUME FlagsTyped, CoreInv, NEW th \in Thread, PublishSnapshot(th) PROVE CoreInv'
<1> DEFINE e == job[th]
           subs == subscribers[TypeOf[e]]
<1>1. /\ pc[th] = "publish" /\ todo' = [todo EXCEPT ![th] = subs] /\ snapshot' = [snapshot EXCEPT ![e] = subs]
      /\ pc' = [pc EXCEPT ![th] = "handle"] /\ job' = job /\ stored' = stored /\ dispatched' = dispatched
      /\ accepted' = accepted /\ handled' = handled /\ asyncBuffer' = asyncBuffer /\ Queued' = Queued
  BY DEF PublishSnapshot, GoTo, busVars, Queued
<1>2. "publish" \in Active /\ "publish" \in Early /\ "handle" \in Active /\ "handle" \notin Early /\ "handle" \in Label
  BY DEF Active, Early, Label
<1>3. ThreadSound(th) /\ e \in dispatched /\ e \in Event /\ e \in stored /\ e \notin Queued /\ Untouched(e)
  BY <1>1, <1>2 DEF CoreInv, CoreTyped, ThreadSound
<1>4. subs \in Seq(Subscriber) /\ Len(subs) <= MaxSubscriptions
  BY <1>3, BusAssumption DEF FlagsTyped
<1> HIDE DEF subs
<1>5. CoreTyped'
  <2>1. todo' \in [Thread -> Seq(Subscriber)] /\ \A u \in Thread : Len(todo'[u]) <= MaxSubscriptions
    BY <1>1, <1>4 DEF CoreInv, CoreTyped
  <2>2. snapshot' \in [Event -> Seq(Subscriber)] /\ pc' \in [Thread -> Label]
    BY <1>1, <1>2, <1>4 DEF CoreInv, CoreTyped
  <2> QED
    BY <1>1, <2>1, <2>2 DEF CoreInv, CoreTyped
<1>6. /\ pc'[th] = "handle" /\ todo'[th] = subs /\ snapshot'[e] = subs
      /\ \A u \in Thread : u # th => pc'[u] = pc[u] /\ todo'[u] = todo[u]
      /\ \A f \in Event : f # e => snapshot'[f] = snapshot[f]
  BY <1>1, <1>3 DEF CoreInv, CoreTyped
<1>7. Exclusive'
  BY <1>1, <1>2, <1>6 DEF CoreInv, Exclusive
<1>8. QueueSound'
  <2>1. \A f \in Queued : f # e /\ f \in Event
    BY <1>3 DEF CoreInv, CoreTyped, QueueSound
  <2> QED
    BY <1>1, <1>6, <2>1 DEF CoreInv, QueueSound, Untouched
<1>9. ASSUME NEW u \in Thread PROVE ThreadSound(u)'
  <2>1. CASE u # th
    <3>1. pc[u] \in Active => job[u] # e /\ job[u] \in Event
      BY <1>1, <1>2, <2>1 DEF CoreInv, CoreTyped, Exclusive, ThreadSound
    <3> QED
      BY <1>1, <1>6, <2>1, <3>1, ThreadFrame DEF CoreInv
  <2>2. CASE u = th
    <3>1. handled[e] = <<>> /\ subs = <<>> \o subs
      BY <1>3, <1>4, ConcatEmptySeq DEF Untouched
    <3>2. InStep(th)'
      BY <1>1, <1>6, <3>1 DEF InStep
    <3> QED
      BY <1>1, <1>2, <1>3, <1>6, <2>2, <3>2 DEF ThreadSound
  <2> QED
    BY <2>1, <2>2
<1>10. ASSUME NEW f \in Event PROVE EventSound(f)'
  <2>1. EventSound(f)
    BY DEF CoreInv
  <2>2. ASSUME NEW w \in Worker, pc[w] \in {"publish", "handle"} PROVE pc'[w] \in {"publish", "handle"} /\ job'[w] = job[w]
    BY <1>1, <1>6, <2>2 DEF Thread
  <2>3. CASE f # e
    BY <1>1, <1>6, <2>1, <2>2, <2>3 DEF EventSound, Untouched
  <2>4. CASE f = e
    <3>1. IsPrefix(<<>>, subs)
      <4>1. <<>> \o subs = subs
        BY <1>4, ConcatEmptySeq
      <4>2. <<>> \in Seq(Subscriber)
        OBVIOUS
      <4> QED
        BY <1>4, <4>1, <4>2, FrontIsPrefix
    <3>2. f \in accepted => th \in Worker
      BY <1>1, <1>2, <1>3, <2>4 DEF ThreadSound, Thread
    <3> QED
      BY <1>1, <1>3, <1>6, <2>4, <3>1, <3>2 DEF EventSound, Untouched
  <2> QED
    BY <2>3, <2>4
<1> QED
  BY <1>5, <1>7, <1>8, <1>9, <1>10 DEF CoreInv

\* The next subscriber is called, whatever it returns.
LEMMA HandleKeeps ==
  ASSUME CoreInv, NEW th \in Thread, NEW outcome \in Outcome, Handle(th, outcome)
  PROVE  CoreInv'
<1> DEFINE e == job[th]
           h == Append(handled[e], Head(todo[th]))
           rest == Tail(todo[th])
<1>1. /\ pc[th] = "handle" /\ todo[th] # <<>> /\ todo' = [todo EXCEPT ![th] = rest] /\ handled' = [handled EXCEPT ![e] = h]
      /\ pc' = pc /\ job' = job /\ stored' = stored /\ dispatched' = dispatched
      /\ accepted' = accepted /\ snapshot' = snapshot /\ asyncBuffer' = asyncBuffer /\ Queued' = Queued
  BY DEF Handle, GoOn, busVars, Queued, CoreInv, CoreTyped
<1>2. "handle" \in Active /\ "handle" \notin Early
  BY DEF Active, Early
<1>3. ThreadSound(th) /\ e \in dispatched /\ e \in Event /\ e \in stored /\ e \notin Queued /\ InStep(th)
  BY <1>1, <1>2 DEF CoreInv, CoreTyped, ThreadSound
<1>4. handled[e] \in Seq(Subscriber) /\ todo[th] \in Seq(Subscriber) /\ Len(todo[th]) <= MaxSubscriptions
  BY <1>3 DEF CoreInv, CoreTyped
<1>5. h \in Seq(Subscriber) /\ rest \in Seq(Subscriber) /\ h \o rest = snapshot[e]
  <2>1. h \in Seq(Subscriber) /\ rest \in Seq(Subscriber) /\ h \o rest = handled[e] \o todo[th]
    <3> DEFINE H == handled[e]
               T == todo[th]
    <3>1. H \in Seq(Subscriber) /\ T \in Seq(Subscriber) /\ T # <<>>
      BY <1>1, <1>4
    <3> HIDE DEF H, T
    <3>2. Append(H, Head(T)) \in Seq(Subscriber) /\ Tail(T) \in Seq(Subscriber) /\ Append(H, Head(T)) \o Tail(T) = H \o T
      BY <3>1, ShiftOne
    <3> QED
      BY <3>2 DEF H, T
  <2> QED
    BY <1>3, <2>1 DEF InStep
<1>6. Len(rest) <= MaxSubscriptions
  BY <1>1, <1>4, BusAssumption
<1> HIDE DEF h, rest
<1>7. CoreTyped'
  <2>1. todo' \in [Thread -> Seq(Subscriber)] /\ \A u \in Thread : Len(todo'[u]) <= MaxSubscriptions
    BY <1>1, <1>5, <1>6 DEF CoreInv, CoreTyped
  <2>2. handled' \in [Event -> Seq(Subscriber)]
    BY <1>1, <1>5 DEF CoreInv, CoreTyped
  <2> QED
    BY <1>1, <2>1, <2>2 DEF CoreInv, CoreTyped
<1>8. /\ todo'[th] = rest /\ handled'[e] = h /\ \A u \in Thread : u # th => todo'[u] = todo[u]
      /\ \A f \in Event : f # e => handled'[f] = handled[f]
  BY <1>1, <1>3 DEF CoreInv, CoreTyped
<1>9. Exclusive'
  BY <1>1 DEF CoreInv, Exclusive
<1>10. QueueSound'
  <2>1. \A f \in Queued : f # e /\ f \in Event
    BY <1>3 DEF CoreInv, CoreTyped, QueueSound
  <2> QED
    BY <1>1, <1>8, <2>1 DEF CoreInv, QueueSound, Untouched
<1>11. ASSUME NEW u \in Thread PROVE ThreadSound(u)'
  <2>1. CASE u # th
    <3>1. pc[u] \in Active => job[u] # e /\ job[u] \in Event
      BY <1>1, <1>2, <2>1 DEF CoreInv, CoreTyped, Exclusive, ThreadSound
    <3> QED
      BY <1>1, <1>8, <2>1, <3>1, ThreadFrame DEF CoreInv
  <2>2. CASE u = th
    <3>1. InStep(th)'
      BY <1>1, <1>5, <1>8 DEF InStep
    <3> QED
      BY <1>1, <1>2, <1>3, <2>2, <3>1 DEF ThreadSound
  <2> QED
    BY <2>1, <2>2
<1>12. ASSUME NEW f \in Event PROVE EventSound(f)'
  <2>1. EventSound(f)
    BY DEF CoreInv
  <2>2. CASE f # e
    BY <1>1, <1>8, <2>1, <2>2 DEF EventSound, Untouched
  <2>3. CASE f = e
    <3>1. IsPrefix(h, snapshot[e])
      BY <1>5, FrontIsPrefix
    <3>2. f \in accepted => th \in Worker
      BY <1>1, <1>2, <1>3, <2>3 DEF ThreadSound, Thread
    <3> QED
      BY <1>1, <1>3, <1>8, <2>3, <3>1, <3>2 DEF EventSound
  <2> QED
    BY <2>2, <2>3
<1> QED
  BY <1>7, <1>9, <1>10, <1>11, <1>12 DEF CoreInv

\* What a longer buffer holds
LEMMA AppendQueued ==
  ASSUME CoreTyped, NEW e \in Event, asyncBuffer' = Append(asyncBuffer, e)
  PROVE  Queued' = Queued \cup {e} /\ Len(asyncBuffer') = Len(asyncBuffer) + 1 /\ asyncBuffer' \in Seq(Event)
<1>1. /\ asyncBuffer' \in Seq(Event) /\ Len(asyncBuffer') = Len(asyncBuffer) + 1 /\ Len(asyncBuffer) \in Nat
      /\ asyncBuffer'[Len(asyncBuffer) + 1] = e
      /\ \A i \in 1..Len(asyncBuffer) : asyncBuffer'[i] = asyncBuffer[i]
  BY AppendProperties DEF CoreTyped
<1>2. 1..Len(asyncBuffer') = (1..Len(asyncBuffer)) \cup {Len(asyncBuffer) + 1}
  BY <1>1
<1> QED
  BY <1>1, <1>2 DEF Queued

\* The event gets into the buffer, or is dropped.
LEMMA SendKeeps == ASSUME CoreInv, NEW th \in Thread, PublishAsyncSend(th) PROVE CoreInv'
<1> DEFINE e == job[th]
<1>1. /\ pc[th] = "send" /\ pc' = [pc EXCEPT ![th] = "idle"] /\ job' = [job EXCEPT ![th] = NoEvent]
      /\ todo' = todo /\ stored' = stored /\ dispatched' = dispatched /\ snapshot' = snapshot /\ handled' = handled
  BY DEF PublishAsyncSend, GoTo
<1>2. /\ "idle" \in Label /\ "idle" \notin Active /\ "idle" \notin Early /\ "send" \in Active /\ "send" \in Early
      /\ "idle" # "handle"
  BY DEF Active, Early, Label
<1>3. CoreTyped /\ ThreadSound(th) /\ th \notin Worker /\ th \in Publisher
  BY <1>1 DEF CoreInv, ThreadSound, Thread
<1>4. e \in dispatched /\ e \in Event /\ e \notin Queued /\ e \notin accepted /\ e \in stored /\ Untouched(e)
  BY <1>1, <1>2, <1>3 DEF CoreTyped, ThreadSound
<1>5. pc'[th] = "idle" /\ \A u \in Thread : u # th => pc'[u] = pc[u] /\ job'[u] = job[u]
  BY <1>1, <1>3 DEF CoreTyped
<1>6. ThreadSound(th)'
  BY <1>2, <1>3, <1>5 DEF ThreadSound
<1>7. CASE UNCHANGED <<asyncBuffer, accepted>>
  <2>1. UNCHANGED <<asyncBuffer, todo, history>>
    BY <1>1, <1>7 DEF history
  <2> QED
    BY <1>1, <1>2, <1>3, <1>6, <2>1, ThreadMoves DEF CoreTyped
<1>8. CASE Room /\ asyncBuffer' = Append(asyncBuffer, e) /\ accepted' = accepted \cup {e}
  <2>1. Queued' = Queued \cup {e} /\ Len(asyncBuffer') = Len(asyncBuffer) + 1 /\ asyncBuffer' \in Seq(Event)
    BY <1>3, <1>4, <1>8, AppendQueued
  <2>2. CoreTyped'
    <3>1. Len(asyncBuffer') <= AsyncBufferSize
      BY <1>3, <1>8, <2>1, BusAssumption DEF Room, CoreTyped
    <3>2. pc' \in [Thread -> Label] /\ job' \in [Thread -> Event \cup {NoEvent}]
      BY <1>1, <1>2, <1>3 DEF CoreTyped
    <3> QED
      BY <1>1, <1>3, <1>4, <1>8, <2>1, <3>1, <3>2 DEF CoreTyped
  <2>3. Exclusive'
    BY <1>2, <1>5 DEF CoreInv, Exclusive
  <2>4. QueueSound'
    <3>1. \A i, j \in 1..Len(asyncBuffer') : asyncBuffer'[i] = asyncBuffer'[j] => i = j
      <4>1. /\ \A i \in 1..Len(asyncBuffer) : asyncBuffer'[i] = asyncBuffer[i] /\ asyncBuffer[i] # e
            /\ asyncBuffer'[Len(asyncBuffer) + 1] = e
        BY <1>3, <1>4, <1>8, AppendProperties DEF CoreTyped, Queued
      <4>2. \A i \in 1..Len(asyncBuffer') : i \in 1..Len(asyncBuffer) \/ i = Len(asyncBuffer) + 1
        BY <1>3, <2>1 DEF CoreTyped
      <4>3. \A i, j \in 1..Len(asyncBuffer) : asyncBuffer[i] = asyncBuffer[j] => i = j
        BY DEF CoreInv, QueueSound
      <4> QED
        BY <4>1, <4>2, <4>3
    <3>2. \A f \in Queued' : f \in accepted' /\ f \in stored' /\ Untouched(f)'
      BY <1>1, <1>4, <1>8, <2>1 DEF CoreInv, QueueSound, Untouched
    <3> QED
      BY <3>1, <3>2 DEF QueueSound
  <2>5. ASSUME NEW u \in Thread PROVE ThreadSound(u)'
    <3>1. CASE u # th
      <4>1. pc[u] \in Active => job[u] # e
        BY <1>1, <1>2, <3>1 DEF CoreInv, Exclusive
      <4> QED
        BY <1>1, <1>5, <1>8, <2>1, <3>1, <4>1, ThreadFrame DEF CoreInv
    <3> QED
      BY <1>6, <3>1
  <2>6. ASSUME NEW f \in Event PROVE EventSound(f)'
    <3>1. ASSUME NEW w \in Worker PROVE pc'[w] = pc[w] /\ job'[w] = job[w]
      BY <1>3, <1>5 DEF Thread
    <3>2. EventSound(f)
      BY DEF CoreInv
    <3> QED
      BY <1>1, <1>8, <2>1, <3>1, <3>2 DEF EventSound, Untouched
  <2> QED
    BY <2>2, <2>3, <2>4, <2>5, <2>6 DEF CoreInv
<1> QED
  BY <1>7, <1>8 DEF PublishAsyncSend

\* A worker takes the first event of the buffer.
LEMMA TakeKeeps ==
  ASSUME CoreInv, NEW th \in Worker, pc[th] = "receive", asyncBuffer # <<>>,
         job' = [job EXCEPT ![th] = Head(asyncBuffer)], asyncBuffer' = Tail(asyncBuffer),
         pc' = [pc EXCEPT ![th] = "publish"], UNCHANGED <<todo, stored, history>>
  PROVE  CoreInv'
<1> DEFINE e == Head(asyncBuffer)
           n == Len(asyncBuffer)
<1>1. /\ dispatched' = dispatched /\ accepted' = accepted /\ snapshot' = snapshot /\ handled' = handled
      /\ todo' = todo /\ stored' = stored
  BY DEF history
<1>2. /\ asyncBuffer \in Seq(Event) /\ n \in Nat /\ n > 0 /\ e = asyncBuffer[1] /\ e \in Event
      /\ asyncBuffer' \in Seq(Event) /\ Len(asyncBuffer') = n - 1
      /\ \A i \in 1..(n - 1) : asyncBuffer'[i] = asyncBuffer[i + 1]
  BY HeadTailProperties DEF CoreInv, CoreTyped
<1>3. th \in Thread /\ th \notin Publisher /\ "publish" \in Active /\ "publish" \in Early /\ "publish" \in Label
  BY BusAssumption DEF Thread, Active, Early, Label
<1> HIDE DEF e, n
<1>4. \A i, j \in 1..n : asyncBuffer[i] = asyncBuffer[j] => i = j
  BY DEF n, CoreInv, QueueSound
<1>5. Queued' \subseteq Queued /\ e \in Queued /\ e \notin Queued' /\ Queued \subseteq Queued' \cup {e}
  <2>1. Queued = {asyncBuffer[i] : i \in 1..n} /\ Queued' = {asyncBuffer[i + 1] : i \in 1..(n - 1)}
    BY <1>2 DEF Queued, n
  <2>2. \A i \in 1..(n - 1) : i + 1 \in 1..n /\ i + 1 # 1
    BY <1>2
  <2>3. 1 \in 1..n /\ \A i \in 1..n : i = 1 \/ (i - 1 \in 1..(n - 1) /\ (i - 1) + 1 = i)
    BY <1>2
  <2>4. Queued' \subseteq Queued /\ e \in Queued
    BY <1>2, <2>1, <2>2, <2>3
  <2>5. e \notin Queued'
    BY <1>2, <1>4, <2>1, <2>2, <2>3
  <2>6. ASSUME NEW i \in 1..n PROVE asyncBuffer[i] \in Queued' \cup {e}
    <3>1. CASE i = 1
      BY <1>2, <3>1
    <3>2. CASE i # 1
      <4>1. i - 1 \in 1..(n - 1) /\ asyncBuffer[(i - 1) + 1] = asyncBuffer[i]
        BY <2>3, <3>2
      <4> QED
        BY <2>1, <4>1
    <3> QED
      BY <3>1, <3>2
  <2> QED
    BY <2>1, <2>4, <2>5, <2>6
<1>6. e \in accepted /\ e \in dispatched /\ e \in stored /\ Untouched(e) /\ \A u \in Thread : pc[u] \in Active => job[u] # e
  BY <1>5 DEF CoreInv, CoreTyped, QueueSound, ThreadSound
<1>7. /\ pc'[th] = "publish" /\ job'[th] = e /\ \A u \in Thread : u # th => pc'[u] = pc[u] /\ job'[u] = job[u]
      /\ pc' \in [Thread -> Label] /\ job' \in [Thread -> Event \cup {NoEvent}]
  BY <1>2, <1>3 DEF CoreInv, CoreTyped, e
<1>8. CoreTyped'
  <2>1. Len(asyncBuffer') <= AsyncBufferSize
    BY <1>2, BusAssumption DEF CoreInv, CoreTyped, n
  <2> QED
    BY <1>1, <1>2, <1>7, <2>1 DEF CoreInv, CoreTyped
<1>9. Exclusive'
  BY <1>6, <1>7 DEF CoreInv, Exclusive
<1>10. QueueSound'
  <2>1. \A i, j \in 1..Len(asyncBuffer') : asyncBuffer'[i] = asyncBuffer'[j] => i = j
    <3>1. ASSUME NEW i \in 1..(n - 1), NEW j \in 1..(n - 1), asyncBuffer[i + 1] = asyncBuffer[j + 1] PROVE i = j
      <4>1. i + 1 \in 1..n /\ j + 1 \in 1..n
        BY <1>2
      <4>2. i + 1 = j + 1
        BY <1>4, <3>1, <4>1
      <4> QED
        BY <1>2, <4>2
    <3> QED
      BY <1>2, <3>1
  <2>2. \A f \in Queued' : f \in accepted' /\ f \in stored' /\ Untouched(f)'
    BY <1>1, <1>5 DEF CoreInv, QueueSound, Untouched
  <2> QED
    BY <2>1, <2>2 DEF QueueSound
<1>11. ASSUME NEW u \in Thread PROVE ThreadSound(u)'
  <2>1. CASE u # th
    BY <1>1, <1>5, <1>7, <2>1, ThreadFrame DEF CoreInv
  <2>2. CASE u = th
    <3>1. Untouched(job[th])'
      BY <1>1, <1>6, <1>7 DEF Untouched
    <3> QED
      BY <1>1, <1>3, <1>5, <1>6, <1>7, <2>2, <3>1 DEF ThreadSound
  <2> QED
    BY <2>1, <2>2
<1>12. ASSUME NEW f \in Event PROVE EventSound(f)'
  <2>1. EventSound(f)
    BY DEF CoreInv
  <2>2. ASSUME NEW w \in Worker, pc[w] \in {"publish", "handle"} PROVE pc'[w] = pc[w] /\ job'[w] = job[w]
    <3>1. w # th /\ w \in Thread
      BY <2>2 DEF Thread
    <3> QED
      BY <1>7, <3>1
  <2> QED
    BY <1>1, <1>5, <1>7, <2>1, <2>2 DEF EventSound, Untouched
<1> QED
  BY <1>8, <1>9, <1>10, <1>11, <1>12 DEF CoreInv

\* The channel is closed and empty: the worker leaves.
LEMMA ExitKeeps ==
  ASSUME CoreInv, NEW th \in Worker, pc[th] = "receive", pc' = [pc EXCEPT ![th] = "exited"],
         UNCHANGED <<asyncBuffer, job, todo, stored, history>>
  PROVE  CoreInv'
<1>1. th \in Thread /\ th \notin Publisher /\ "exited" \notin Active /\ "exited" \notin Early /\ "exited" \in Label /\ CoreTyped
  BY BusAssumption DEF Thread, Active, Early, Label, CoreInv
<1>2. pc'[th] = "exited" /\ job' = [job EXCEPT ![th] = job[th]] /\ job[th] \in Event \cup {NoEvent}
  BY <1>1 DEF CoreTyped
<1>3. ThreadSound(th)'
  BY <1>1, <1>2 DEF ThreadSound
<1> QED
  BY <1>1, <1>2, <1>3, ThreadMoves DEF CoreTyped

\* Subscriptions and Close keep the types of the flags; so do the threads, which leave all but panicked alone.
LEMMA FlagsKept == ASSUME FlagsTyped, [Next]_vars PROVE FlagsTyped'
<1>1. ASSUME NEW t \in EventType, NEW s \in Subscriber, Subscribe(t, s) PROVE FlagsTyped'
  <2>1. /\ subscribers' = [subscribers EXCEPT ![t] = Append(@, s)] /\ Len(subscribers[t]) < MaxSubscriptions
        /\ UNCHANGED <<closed, chanClosed, closer, panicked>>
    BY <1>1 DEF Subscribe
  <2>2. /\ subscribers[t] \in Seq(Subscriber) /\ Append(subscribers[t], s) \in Seq(Subscriber)
        /\ Len(Append(subscribers[t], s)) <= MaxSubscriptions
    BY <2>1, BusAssumption DEF FlagsTyped
  <2> QED
    BY <2>1, <2>2 DEF FlagsTyped
<1>2. ASSUME NEW c \in Closer, CloseStep(c) PROVE FlagsTyped'
  BY <1>2 DEF CloseStep, CloseMark, CloseChannel, CloseReturns, FlagsTyped
<1>3. ASSUME UNCHANGED <<subscribers, closed, chanClosed, closer>>, panicked' \in BOOLEAN PROVE FlagsTyped'
  BY <1>3 DEF FlagsTyped
<1>4. ASSUME NEW th \in Thread, ThreadStep(th) PROVE FlagsTyped'
  <2>1. CASE PublishAsyncSend(th)
    BY <1>3, <2>1 DEF PublishAsyncSend, FlagsTyped
  <2>2. CASE SaveEvent(th) \/ SaveFails(th) \/ PublishSnapshot(th) \/ PublishReturns(th) \/ PublishAsyncCheck(th)
    BY <1>3, <2>2 DEF SaveEvent, SaveFails, PublishSnapshot, PublishReturns, PublishAsyncCheck, busVars, FlagsTyped
  <2>3. ASSUME NEW outcome \in Outcome, Handle(th, outcome) PROVE FlagsTyped'
    BY <1>3, <2>3 DEF Handle, busVars, FlagsTyped
  <2> QED
    BY <1>4, <2>1, <2>2, <2>3 DEF ThreadStep
<1>5. ASSUME NEW w \in Worker, WorkerReceive(w) PROVE FlagsTyped'
  BY <1>3, <1>5 DEF WorkerReceive, FlagsTyped
<1>6. ASSUME NEW th \in Publisher, NEW e \in Event, Dispatch(th, e) \/ DispatchAsync(th, e) PROVE FlagsTyped'
  BY <1>3, <1>6 DEF Dispatch, DispatchAsync, busVars, FlagsTyped
<1>7. CASE UNCHANGED vars
  BY <1>3, <1>7 DEF vars, busVars, FlagsTyped
<1> QED
  BY <1>1, <1>2, <1>4, <1>5, <1>6, <1>7 DEF Next, Unsubscribe, Terminating

\* Every step of the bus keeps the invariant of the threads.
LEMMA CoreStep == ASSUME FlagsTyped, CoreInv, [Next]_vars PROVE CoreInv'
<1>1. ASSUME NEW t \in EventType, NEW s \in Subscriber, Subscribe(t, s) PROVE CoreInv'
  BY <1>1, QuietKeeps DEF Subscribe
<1>2. ASSUME NEW c \in Closer, CloseStep(c) PROVE CoreInv'
  BY <1>2, QuietKeeps DEF CloseStep, CloseMark, CloseChannel, CloseReturns
<1>3. ASSUME NEW th \in Thread, ThreadStep(th) PROVE CoreInv'
  BY <1>3, SaveKeeps, CheckKeeps, ReturnKeeps, SnapshotKeeps, HandleKeeps, SendKeeps DEF ThreadStep
<1>4. ASSUME NEW w \in Worker, WorkerReceive(w) PROVE CoreInv'
  BY <1>4, TakeKeeps, ExitKeeps DEF WorkerReceive, GoTo
<1>5. ASSUME NEW th \in Publisher, NEW e \in Event, Dispatch(th, e) \/ DispatchAsync(th, e) PROVE CoreInv'
  BY <1>5, DispatchKeeps
<1>6. CASE UNCHANGED vars
  BY <1>6, QuietKeeps DEF vars, busVars
<1> QED
  BY <1>1, <1>2, <1>3, <1>4, <1>5, <1>6 DEF Next, Unsubscribe, Terminating

\* Publish, Dispatch and DispatchAsync: for any events, subscribers, publishers and workers,
\* the subscribers of the snapshot are called in order and once, after the event was stored.
THEOREM EventsHandledRightly == Spec => []HandledRightly
<1>1. Init => FlagsTyped /\ CoreInv
  BY BusInit
<1>2. FlagsTyped /\ CoreInv /\ [Next]_vars => (FlagsTyped /\ CoreInv)'
  BY FlagsKept, CoreStep
<1>3. FlagsTyped /\ CoreInv => HandledRightly
  BY BusTyped DEF CoreInv, HandledRightly, InOrderOnce, StoredBeforeHandled, EventSound
<1> QED
  BY <1>1, <1>2, <1>3, PTL DEF Spec

(***************************************************************************)
(* Close                                                                   *)
(***************************************************************************)

\* Close is called once, and the pool has workers (ten by default).
CloseAssumption == (\A c, d \in Closer : c = d) /\ Worker # {}

\* The lock keeps publishers that passed the check ahead of Close; the channel is closed
\* by the one Close; a worker leaves only an empty, closed channel.
CloseInv ==
    /\ (\A c \in Closer : closer[c] # "idle" => closed) /\ (chanClosed => closed)
    /\ \A c \in Closer : closer[c] \in {"idle", "marked"} => ~chanClosed
    /\ \A th \in Publisher : pc[th] = "send" => ~closed
    /\ \A w \in Worker : pc[w] = "exited" => chanClosed /\ asyncBuffer = <<>>
    /\ \A c \in Closer : closer[c] = "returned" => \A w \in Worker : pc[w] = "exited"
    /\ ~panicked

\* Nobody has called Close.
LEMMA CloseInit == ASSUME Init PROVE CloseInv
<1>1. /\ \A th \in Publisher : pc[th] = "idle"
      /\ \A w \in Worker : pc[w] = "receive"
  BY BusAssumption DEF Init, Thread
<1> QED
  BY <1>1 DEF Init, CloseInv

\* Threads other than a sender and a worker that leaves do not touch what Close is about.
LEMMA OthersKeepClose ==
  ASSUME CloseInv, UNCHANGED <<closed, chanClosed, closer, panicked>>, asyncBuffer = <<>> => asyncBuffer' = <<>>,
         \A th \in Publisher : pc'[th] = "send" => pc[th] = "send" \/ ~closed,
         \A w \in Worker : pc'[w] = "exited" <=> pc[w] = "exited"
  PROVE  CloseInv'
  BY DEF CloseInv

\* A step of one thread that neither begins to send nor leaves
LEMMA OneMoves ==
  ASSUME CoreTyped, CloseInv, NEW th \in Thread, NEW l, pc' = [pc EXCEPT ![th] = l] \/ pc' = pc,
         l = "send" => ~closed, l # "exited", pc[th] # "exited",
         UNCHANGED <<closed, chanClosed, closer, panicked>>, asyncBuffer = <<>> => asyncBuffer' = <<>>
  PROVE  CloseInv'
<1>1. \A u \in Thread : pc'[u] = pc[u] \/ (u = th /\ pc'[u] = l)
  BY DEF CoreTyped
<1>2. \A u \in Publisher : pc'[u] = "send" => pc[u] = "send" \/ ~closed
  BY <1>1 DEF Thread
<1>3. \A w \in Worker : pc'[w] = "exited" <=> pc[w] = "exited"
  BY <1>1 DEF Thread
<1> QED
  BY <1>2, <1>3, OthersKeepClose

\* A publisher that passed the check sends on an open channel.
LEMMA SendKeepsClose == ASSUME CoreInv, CloseInv, NEW th \in Thread, PublishAsyncSend(th) PROVE CloseInv'
<1>1. pc[th] = "send" /\ pc' = [pc EXCEPT ![th] = "idle"] /\ UNCHANGED <<closed, chanClosed, closer>> /\ CoreTyped
  BY DEF PublishAsyncSend, GoTo, CoreInv
<1>2. th \in Publisher
  BY <1>1 DEF CoreInv, ThreadSound, Thread
<1>3. ~closed /\ ~chanClosed
  BY <1>1, <1>2 DEF CloseInv
<1>4. panicked' = panicked
  BY <1>3 DEF PublishAsyncSend
<1>5. \A w \in Worker : pc[w] # "exited"
  BY <1>3 DEF CloseInv
<1>6. \A u \in Thread : pc'[u] = pc[u] \/ pc'[u] = "idle"
  BY <1>1 DEF CoreTyped
<1>7. \A w \in Worker : pc'[w] # "exited"
  BY <1>5, <1>6 DEF Thread
<1>8. \A c \in Closer : closer[c] # "returned"
  BY <1>3 DEF CloseInv
<1> QED
  BY <1>1, <1>3, <1>4, <1>6, <1>7, <1>8 DEF CloseInv, Thread

\* A worker takes an event, or leaves an empty and closed channel.
LEMMA ReceiveKeepsClose == ASSUME CoreInv, CloseInv, NEW w \in Worker, WorkerReceive(w) PROVE CloseInv'
<1>1. pc[w] = "receive" /\ UNCHANGED <<closed, chanClosed, closer, panicked>> /\ CoreTyped /\ w \in Thread
  BY DEF WorkerReceive, CoreInv, Thread
<1>2. CASE asyncBuffer # <<>> /\ pc' = [pc EXCEPT ![w] = "publish"]
  <2>1. PICK l \in {"publish"} : pc' = [pc EXCEPT ![w] = l]
    BY <1>2
  <2>2. l # "send" /\ l # "exited" /\ pc[w] # "exited" /\ (asyncBuffer = <<>> => asyncBuffer' = <<>>)
    BY <1>1, <1>2
  <2> QED
    BY <1>1, <2>1, <2>2, OneMoves
<1>3. CASE RangeEnds /\ pc' = [pc EXCEPT ![w] = "exited"] /\ asyncBuffer' = asyncBuffer
  <2>1. chanClosed /\ asyncBuffer = <<>> /\ w \notin Publisher
    BY <1>3, BusAssumption DEF RangeEnds
  <2>2. \A u \in Thread : u # w => pc'[u] = pc[u]
    BY <1>3 DEF CoreInv, CoreTyped
  <2>3. \A u \in Publisher : pc'[u] = pc[u]
    BY <2>1, <2>2 DEF Thread
  <2>4. \A u \in Worker : pc[u] = "exited" => pc'[u] = "exited"
    BY <1>1, <2>2 DEF Thread
  <2> QED
    BY <1>1, <1>3, <2>1, <2>3, <2>4 DEF CloseInv
<1> QED
  BY <1>2, <1>3 DEF WorkerReceive, GoTo

\* Close takes the lock, closes the channel and waits for the workers.
LEMMA CloserKeeps == ASSUME CloseAssumption, FlagsTyped, CloseInv, NEW c \in Closer, CloseStep(c) PROVE CloseInv'
<1>1. pc' = pc /\ asyncBuffer' = asyncBuffer /\ \A d \in Closer : d = c
  BY DEF CloseStep, CloseMark, CloseChannel, CloseReturns, CloseAssumption
<1>2. CASE CloseMark(c)
  <2>1. /\ closer[c] = "idle" /\ closed' = TRUE /\ closer'[c] = "marked" /\ UNCHANGED <<chanClosed, panicked>>
        /\ \A th \in Publisher : pc[th] # "send"
    BY <1>2 DEF CloseMark, WriteLockFree, FlagsTyped
  <2> QED
    BY <1>1, <2>1 DEF CloseInv
<1>3. CASE CloseChannel(c)
  <2>1. closer[c] = "marked" /\ closer'[c] = "waiting" /\ ~chanClosed /\ closed /\ closed' = closed
    BY <1>3 DEF CloseChannel, FlagsTyped, CloseInv
  <2>2. chanClosed' = TRUE /\ panicked' = panicked
    BY <1>3, <2>1 DEF CloseChannel
  <2> QED
    BY <1>1, <2>1, <2>2 DEF CloseInv
<1>4. CASE CloseReturns(c)
  <2>1. /\ closer[c] = "waiting" /\ closer'[c] = "returned" /\ UNCHANGED <<closed, chanClosed, panicked>>
        /\ \A w \in Worker : pc[w] = "exited"
    BY <1>4 DEF CloseReturns, FlagsTyped
  <2> QED
    BY <1>1, <2>1 DEF CloseInv
<1> QED
  BY <1>2, <1>3, <1>4 DEF CloseStep

\* Every step of the bus keeps the invariant of Close.
LEMMA CloseKeeps == ASSUME CloseAssumption, FlagsTyped, CoreInv, CloseInv, [Next]_vars PROVE CloseInv'
<1>0. CoreTyped
  BY DEF CoreInv
<1>1. ASSUME NEW t \in EventType, NEW s \in Subscriber, Subscribe(t, s) PROVE CloseInv'
  BY <1>1, OthersKeepClose DEF Subscribe
<1>2. ASSUME NEW c \in Closer, CloseStep(c) PROVE CloseInv'
  BY <1>2, CloserKeeps
<1>3. ASSUME NEW th \in Thread, ThreadStep(th) PROVE CloseInv'
  <2>1. CASE PublishAsyncSend(th)
    BY <2>1, SendKeepsClose
  <2>2. CASE PublishAsyncCheck(th)
    <3>1. /\ pc[th] = "publishAsync" /\ UNCHANGED <<closed, chanClosed, closer, panicked, asyncBuffer>>
          /\ pc' = [pc EXCEPT ![th] = "idle"] \/ (~closed /\ pc' = [pc EXCEPT ![th] = "send"])
      BY <2>2 DEF PublishAsyncCheck, busVars, GoTo
    <3> QED
      BY <1>0, <3>1, OneMoves
  <2>3. CASE SaveEvent(th) \/ SaveFails(th)
    <3>1. PICK l \in {"idle", "publish", "publishAsync"} : pc' = [pc EXCEPT ![th] = l]
      BY <2>3 DEF SaveEvent, SaveFails, GoTo, AfterSave, AfterFailedSave
    <3>2. pc[th] # "exited" /\ UNCHANGED <<closed, chanClosed, closer, panicked, asyncBuffer>>
      BY <2>3 DEF SaveEvent, SaveFails, busVars
    <3> QED
      BY <1>0, <3>1, <3>2, OneMoves
  <2>4. CASE PublishSnapshot(th) \/ PublishReturns(th)
    <3>1. PICK l \in {"idle", "receive", "handle"} : pc' = [pc EXCEPT ![th] = l]
      BY <2>4 DEF PublishSnapshot, PublishReturns, GoTo, Rest
    <3>2. pc[th] # "exited" /\ UNCHANGED <<closed, chanClosed, closer, panicked, asyncBuffer>>
      BY <2>4 DEF PublishSnapshot, PublishReturns, busVars
    <3> QED
      BY <1>0, <3>1, <3>2, OneMoves
  <2>5. ASSUME NEW outcome \in Outcome, Handle(th, outcome) PROVE CloseInv'
    BY <2>5, OthersKeepClose DEF Handle, busVars
  <2> QED
    BY <1>3, <2>1, <2>2, <2>3, <2>4, <2>5 DEF ThreadStep
<1>4. ASSUME NEW w \in Worker, WorkerReceive(w) PROVE CloseInv'
  BY <1>4, ReceiveKeepsClose
<1>5. ASSUME NEW th \in Publisher, NEW e \in Event, Dispatch(th, e) \/ DispatchAsync(th, e) PROVE CloseInv'
  <2>1. PICK l \in {"save", "saveAsync"} : pc' = [pc EXCEPT ![th] = l]
    BY <1>5 DEF Dispatch, DispatchAsync, GoTo
  <2>2. pc[th] # "exited" /\ UNCHANGED <<closed, chanClosed, closer, panicked, asyncBuffer>> /\ th \in Thread
    BY <1>5 DEF Dispatch, DispatchAsync, busVars, Thread
  <2> QED
    BY <1>0, <2>1, <2>2, OneMoves
<1>6. CASE UNCHANGED vars
  BY <1>6, OthersKeepClose DEF vars, busVars
<1> QED
  BY <1>1, <1>2, <1>3, <1>4, <1>5, <1>6 DEF Next, Unsubscribe, Terminating

\* PublishAsync and Close, called once, on a bus with workers: however they meet, nothing is
\* sent on the closed channel, and when Close has returned every accepted event was handled.
THEOREM BusClosesCleanly == ASSUME CloseAssumption PROVE Spec => []ClosesCleanly
<1>1. Init => FlagsTyped /\ CoreInv /\ CloseInv
  BY BusInit, CloseInit
<1>2. FlagsTyped /\ CoreInv /\ CloseInv /\ [Next]_vars => (FlagsTyped /\ CoreInv /\ CloseInv)'
  BY FlagsKept, CoreStep, CloseKeeps
<1>3. FlagsTyped /\ CoreInv /\ CloseInv => ClosesCleanly
  <2> SUFFICES ASSUME CoreInv, CloseInv, \E c \in Closer : closer[c] = "returned"
               PROVE  /\ asyncBuffer = <<>> /\ (\A w \in Worker : pc[w] = "exited")
                      /\ \A e \in accepted : handled[e] = snapshot[e]
    BY DEF ClosesCleanly, CloseDrains, NeverPanics, CloseInv
  <2>1. asyncBuffer = <<>> /\ \A w \in Worker : pc[w] = "exited"
    BY DEF CloseInv, CloseAssumption
  <2>2. Queued = {}
    BY <2>1 DEF Queued
  <2>3. accepted \subseteq Event
    BY DEF CoreInv, CoreTyped
  <2> QED
    BY <2>1, <2>2, <2>3 DEF CoreInv, EventSound
<1> QED
  BY <1>1, <1>2, <1>3, PTL DEF Spec
=============================================================================
