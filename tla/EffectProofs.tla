---------------------------- MODULE EffectProofs ----------------------------
(***************************************************************************)
(* Theorems of Effects, for any elements, durations, numbers of properties *)
(* and scripts of any length that EffectsAssumption allows.                *)
(*                                                                         *)
(* The invariant (EffectsInv) has two parts.  Whatever the page does, what *)
(* has begun is well formed (Sound): items, arrays and timers belong       *)
(* together, and the frames lie on each other as jQuery calls (Above).  Of *)
(* an element whose queue the page took in order (Orderly): at most one    *)
(* item of its queue has begun; without a queue only what a stop is about  *)
(* to end has; a stop has still to come to every timer of what runs;       *)
(* what runs beside the queue is marked.                                   *)
(*                                                                         *)
(* Every step is shown from what the functions of jQuery do to a state m:  *)
(* it keeps both parts (Keeps).  EasedOrderly says when it does: nothing   *)
(* of the element begins, and what lies deeper on the stack stays.         *)
(***************************************************************************)
EXTENDS Effects, SequenceTheorems, FiniteSetTheorems, WellFoundedInduction, TLAPS
-----------------------------------------------------------------------------
\* What waits, runs and ends, in a state m of the functions of jQuery.
ItemIds(m) == 1..Len(m.items)
Depth(m) == 1..Len(m.frames)
Places(m) == 1..Len(m.timers)

Animated == {"animation", "unqueued"}
Queueable == {"animation", "function", "delay"}

ItemType ==
  [kind : Animated \cup Queueable \cup {"none"}, on : FxElements \cup {NoItem.on},
   duration : Nat, todo : SUBSET Nat, complete : BOOLEAN, called : Nat]
TimerType == [item : Nat, property : Nat, left : Nat]
FrameType ==
  [op : {"page", "complete"}, item : Nat]
  \cup [op : {"dequeue"}, on : FxElements, array : Nat]
  \cup [op : {"start"}, item : Nat, left : SUBSET Nat]
  \cup [op : {"tick"}, at : Nat, timer : TimerType]
  \cup [op : {"stop"}, on : FxElements, at : Nat, gotoEnd : BOOLEAN, had : BOOLEAN,
        timer : TimerType]

StateType ==
  [arrays : Seq(Seq(Nat)), queue : [FxElements -> Nat], run : [FxElements -> Nat],
   items : Seq(ItemType), timers : Seq(TimerType), interval : BOOLEAN, delays : SUBSET Nat,
   marks : [FxElements -> Nat], defer : [FxElements -> Nat],
   deferrals : Seq(FxElements \X Nat), frames : Seq(FrameType)]

ItemsOK(m) ==
  /\ \A i \in ItemIds(m) :
       /\ m.items[i].kind # "function" =>
            m.items[i].called <= 1 /\ (m.items[i].complete => m.items[i].called = 0)
       /\ ~m.items[i].complete => m.items[i].todo = {}
       /\ m.items[i].kind # "none" => m.items[i].on \in FxElements
  /\ \A k \in Places(m) :
       m.timers[k].item \in ItemIds(m) /\ m.items[m.timers[k].item].kind \in Animated
  /\ \A i \in m.delays : i \in ItemIds(m) /\ m.items[i].kind = "delay"
  /\ \A e \in FxElements : m.defer[e] \in 0..Len(m.items)

\* The sentinel, and behind it what waits.
ArrayOK(m, s) == s # <<>> => s[1] = 0 /\ \A j \in 2..Len(s) : s[j] \in ItemIds(m)

QueuesOK(m) ==
  /\ \A k \in 1..Len(m.arrays) : ArrayOK(m, m.arrays[k])
  /\ \A e \in FxElements : m.queue[e] # 0 =>
       /\ m.queue[e] \in 1..Len(m.arrays)
       /\ m.arrays[m.queue[e]] # <<>>
       /\ \A j \in 2..Len(m.arrays[m.queue[e]]) :
            LET i == m.arrays[m.queue[e]][j]
            IN  m.items[i].on = e /\ m.items[i].kind \in Queueable
  /\ \A e, f \in FxElements : m.queue[e] = m.queue[f] /\ m.queue[e] # 0 => e = f

\* The element that a frame is about.
OfElement(m, f) == IF f.op \in {"dequeue", "stop"} THEN f.on ELSE m.items[f.item].on

\* A stop that has called the timers of its element for the last time does not dequeue.
Settled(f) == f.gotoEnd /\ f.had

\* What may lie on a frame.
Above(m, f, g) ==
  /\ f.op = "complete" => g.op = "page" /\ g.item = f.item
  /\ f.op \in {"dequeue", "start"} =>
       g.op \in {"page", "start", "complete", "dequeue"} /\ OfElement(m, g) = OfElement(m, f)
  /\ f.op = "stop" =>
       Settled(f) /\ g.op \in {"complete", "dequeue"} /\ OfElement(m, g) = f.on
  /\ f.op = "start" => f.left = {}

FrameMade(m, f) ==
  /\ f.op = "page" => f.item \in ItemIds(m) /\ m.items[f.item].kind # "none"
  /\ f.op = "complete" =>
       f.item \in ItemIds(m) /\ m.items[f.item].kind \in Animated /\ ~m.items[f.item].complete
  /\ f.op = "start" =>
       f.item \in ItemIds(m) /\ m.items[f.item].kind \in Animated
         /\ f.left \subseteq m.items[f.item].todo
  /\ f.op = "dequeue" =>
       f.array \in 1..Len(m.arrays) /\ \A e \in FxElements : m.queue[e] = f.array => e = f.on
  /\ f.op = "tick" \/ (f.op = "stop" /\ f.timer # NoTimer) => f.at # 0

FramesOK(m) ==
  /\ \A p \in Depth(m) :
       LET f == m.frames[p]
       IN  /\ FrameMade(m, f)
           /\ p # Len(m.frames) => Above(m, f, m.frames[p + 1])
  /\ \A p, q \in Depth(m) :
       m.frames[p].op = "complete" /\ m.frames[q].op = "complete"
         /\ m.frames[p].item = m.frames[q].item => p = q

HasTimer(m, i)   == \E k \in Places(m) : m.timers[k].item = i
Starting(m, i)   == \E p \in Depth(m) :
  m.frames[p].op = "start" /\ m.frames[p].item = i /\ m.frames[p].left # {}
Completing(m, i) == \E p \in Depth(m) : m.frames[p].op = "complete" /\ m.frames[p].item = i
Moving(m, i) ==
  (m.items[i].complete /\ HasTimer(m, i)) \/ Starting(m, i) \/ Completing(m, i)

\* What has begun of the queue of e and not ended.
Lives(m, i) ==
  \/ m.items[i].kind = "animation" /\ Moving(m, i)
  \/ m.items[i].kind = "function" /\ m.items[i].called = 1
  \/ i \in m.delays
Begins(m, e) == {i \in ItemIds(m) : m.items[i].on = e /\ Lives(m, i)}

\* What runs beside the queue.
Beside(m, e) == {i \in ItemIds(m) : m.items[i].on = e /\ m.items[i].kind = "unqueued" /\ Moving(m, i)}

\* A stop of e, with its place in the stack.
StopsOf(m, e) == {p \in Depth(m) : m.frames[p].op = "stop" /\ m.frames[p].on = e}

\* The timers of i that a stop has still to come to.
ToCome(m, i, at) == \A k \in Places(m) : m.timers[k].item = i => k <= at

OneBegun(m, e) == \A i, j \in Begins(m, e) : i = j

Unqueued(m, e) ==
  m.queue[e] = 0 => \A i \in Begins(m, e) :
    /\ m.items[i].kind = "animation"
    /\ \E p \in StopsOf(m, e) :
         p # Len(m.frames) => m.frames[p + 1].op = "complete" /\ OfElement(m, m.frames[p + 1]) = e

StopOK(m, e, p) ==
  LET f == m.frames[p]
  IN  /\ \A q \in 1..(p - 1) :
           m.frames[q].op \in {"page", "complete", "stop"} => OfElement(m, m.frames[q]) # e
      /\ ~Settled(f) => p = Len(m.frames) /\ \A i \in Begins(m, e) : m.items[i].kind = "animation"
      /\ ~Settled(f) \/ m.queue[e] = 0 => \A i \in Begins(m, e) : ToCome(m, i, f.at)
      /\ ~f.gotoEnd => \A i \in Beside(m, e) : ToCome(m, i, f.at)

EmptyOnes(m, e) ==
  \A p \in Depth(m) :
    m.frames[p].op = "dequeue" /\ m.frames[p].on = e /\ m.arrays[m.frames[p].array] = <<>> =>
      m.queue[e] = 0 /\ Begins(m, e) = {}

DelayRuns(m, e) == \A i \in Begins(m, e) : i \in m.delays => m.run[e] = i

StartsQueued(m, e) ==
  \A i \in Begins(m, e) : Starting(m, i) => m.queue[e] # 0

Marked(m, e) ==
  \/ Cardinality(Beside(m, e)) <= m.marks[e]
  \/ \E p \in StopsOf(m, e) : ~m.frames[p].gotoEnd

Orderly(m, e) ==
  /\ OneBegun(m, e) /\ Unqueued(m, e) /\ (\A p \in StopsOf(m, e) : StopOK(m, e, p))
  /\ EmptyOnes(m, e) /\ DelayRuns(m, e) /\ StartsQueued(m, e) /\ Marked(m, e)

Sound(m) == m \in StateType /\ ItemsOK(m) /\ QueuesOK(m) /\ FramesOK(m)

Regular == IF spoiled THEN {} ELSE FxElements \ loose

EffectsInv ==
  /\ fxScript \in Scripts
  /\ Sound(FxNow) /\ fxCalls = Len(items)
  /\ \A e \in Regular : Orderly(FxNow, e)
-----------------------------------------------------------------------------
LEMMA Least ==
  ASSUME NEW S, S \subseteq Nat, S # {}
  PROVE  \E i \in S : \A j \in S : i <= j
<1>1. PICK i \in S : \A j \in S : ~(<<j, i>> \in OpToRel(<, Nat))
  BY NatLessThanWellFounded, WFMin
<1>2. ASSUME NEW j \in S PROVE i <= j
  <2>1. ~(j < i)
    BY <1>1 DEF OpToRel
  <2> QED BY <2>1
<1> QED BY <1>2

LEMMA Ends ==
  ASSUME NEW S, NEW st \in Seq(S), st # <<>>
  PROVE  /\ Len(st) \in Nat \ {0} /\ Last(st) = st[Len(st)] /\ Last(st) \in S
         /\ Front(st) \in Seq(S) /\ Len(Front(st)) = Len(st) - 1
         /\ \A i \in 1..(Len(st) - 1) : Front(st)[i] = st[i]
<1>1. Len(st) \in Nat \ {0} /\ \A i \in 1..Len(st) : st[i] \in S
  OBVIOUS
<1>2. Last(st) = st[Len(st)] /\ Last(st) \in S
  BY <1>1 DEF Last
<1>3. /\ Front(st) \in Seq(S) /\ Len(Front(st)) = Len(st) - 1
      /\ \A i \in 1..(Len(st) - 1) : Front(st)[i] = st[i]
  <2>1. \A i \in 1..(Len(st) - 1) : st[i] \in S
    BY <1>1
  <2>2. PICK n \in Nat : Len(st) = n + 1
    BY <1>1
  <2>3. Len(st) - 1 = n /\ 1 \in Int /\ n \in Int
    BY <2>2
  <2> DEFINE r == SubSeq(st, 1, n)
  <2>4. /\ r \in Seq(S) /\ Len(r) = IF 1 <= n THEN n - 1 + 1 ELSE 0
        /\ \A i \in 1..(n - 1 + 1) : r[i] = st[1 + i - 1]
    BY <2>1, <2>3, SubSeqProperties
  <2>5. Front(st) = r
    BY <2>3 DEF Front
  <2> HIDE DEF r
  <2>6. Len(r) = n
    BY <2>4
  <2>7. ASSUME NEW i \in 1..n PROVE r[i] = st[i]
    <3>1. i \in 1..(n - 1 + 1) /\ 1 + i - 1 = i
      OBVIOUS
    <3> QED BY <2>4, <3>1
  <2> QED BY <2>3, <2>4, <2>5, <2>6, <2>7
<1> QED BY <1>1, <1>2, <1>3

LEMMA Pushed ==
  ASSUME NEW S, NEW st \in Seq(S), NEW f \in S
  PROVE  LET r == Append(st, f)
         IN  /\ r \in Seq(S) /\ Len(r) = Len(st) + 1 /\ r[Len(st) + 1] = f
             /\ \A i \in 1..Len(st) : r[i] = st[i]
OBVIOUS

LEMMA ItemOf ==
  ASSUME NEW S, NEW s \in Seq(S)
  PROVE  Len(s) \in Nat /\ DOMAIN s = 1..Len(s) /\ \A i \in DOMAIN s : s[i] \in S
OBVIOUS
-----------------------------------------------------------------------------
\* The fields of a state and of a frame.
LEMMA StateFields ==
  ASSUME NEW m \in StateType
  PROVE  /\ m.arrays \in Seq(Seq(Nat)) /\ m.queue \in [FxElements -> Nat]
         /\ m.run \in [FxElements -> Nat] /\ m.items \in Seq(ItemType)
         /\ m.timers \in Seq(TimerType) /\ m.interval \in BOOLEAN /\ m.delays \in SUBSET Nat
         /\ m.marks \in [FxElements -> Nat] /\ m.defer \in [FxElements -> Nat]
         /\ m.deferrals \in Seq(FxElements \X Nat) /\ m.frames \in Seq(FrameType)
BY DEF StateType

LEMMA ItemFields ==
  ASSUME NEW m \in StateType, NEW i \in ItemIds(m)
  PROVE  /\ i \in Nat /\ m.items[i] \in ItemType /\ m.items[i].todo \in SUBSET Nat
         /\ m.items[i].complete \in BOOLEAN /\ m.items[i].called \in Nat
         /\ m.items[i].duration \in Nat
         /\ m.items[i].kind \in Animated \cup Queueable \cup {"none"}
<1>1. i \in Nat /\ m.items[i] \in ItemType
  <2>1. m.items \in Seq(ItemType)
    BY StateFields
  <2> QED BY <2>1, ItemOf DEF ItemIds
<1> QED BY <1>1 DEF ItemType

LEMMA FrameIs ==
  ASSUME NEW f \in FrameType
  PROVE  /\ f.op \in {"page", "complete", "dequeue", "start", "tick", "stop"}
         /\ f.op \in {"page", "complete", "start"} => f.item \in Nat
         /\ f.op \in {"dequeue", "stop"} => f.on \in FxElements
         /\ f.op = "dequeue" => f.array \in Nat
         /\ f.op = "start" => f.left \in SUBSET Nat
         /\ f.op \in {"tick", "stop"} => f.at \in Nat /\ f.timer \in TimerType
         /\ f.op = "stop" => f.gotoEnd \in BOOLEAN /\ f.had \in BOOLEAN
<1>1. CASE f \in [op : {"page", "complete"}, item : Nat]
  BY <1>1
<1>2. CASE f \in [op : {"dequeue"}, on : FxElements, array : Nat]
  BY <1>2
<1>3. CASE f \in [op : {"start"}, item : Nat, left : SUBSET Nat]
  BY <1>3
<1>4. CASE f \in [op : {"tick"}, at : Nat, timer : TimerType]
  BY <1>4
<1>5. CASE f \in [op : {"stop"}, on : FxElements, at : Nat, gotoEnd : BOOLEAN, had : BOOLEAN,
                  timer : TimerType]
  BY <1>5
<1> QED BY <1>1, <1>2, <1>3, <1>4, <1>5 DEF FrameType

LEMMA FramesMake ==
  /\ \A i \in Nat : PageFrame(i) \in FrameType /\ CompleteFrame(i) \in FrameType
  /\ \A e \in FxElements, k \in Nat : DequeueFrame(e, k) \in FrameType
  /\ \A i \in Nat, left \in SUBSET Nat : StartFrame(i, left) \in FrameType
  /\ \A at \in Nat, t \in TimerType : TickFrame(at, t) \in FrameType
  /\ \A e \in FxElements, at \in Nat, g \in BOOLEAN, h \in BOOLEAN, t \in TimerType :
       StopFrame(e, at, g, h, t) \in FrameType
BY DEF FrameType, PageFrame, CompleteFrame, DequeueFrame, StartFrame, TickFrame, StopFrame

LEMMA FramesAre ==
  ASSUME NEW m \in StateType
  PROVE  /\ Len(m.frames) \in Nat /\ DOMAIN m.frames = Depth(m)
         /\ \A p \in Depth(m) : p \in Nat /\ m.frames[p] \in FrameType
BY StateFields, ItemOf DEF Depth

KindsKept(m, n) ==
  /\ Len(m.items) <= Len(n.items)
  /\ \A i \in ItemIds(m) : n.items[i].kind = m.items[i].kind /\ n.items[i].on = m.items[i].on

\* With the same queues and items of the same kinds.
LEMMA QueuesSame ==
  ASSUME NEW m \in StateType, NEW n \in StateType, QueuesOK(m), KindsKept(m, n),
         n.arrays = m.arrays, n.queue = m.queue
  PROVE  QueuesOK(n)
<1>1. /\ Len(m.items) \in Nat /\ Len(n.items) \in Nat
      /\ \A k \in 1..Len(m.arrays) : m.arrays[k] \in Seq(Nat)
  BY StateFields, ItemOf
<1>2. \A i \in ItemIds(m) : i \in ItemIds(n)
  BY <1>1 DEF KindsKept, ItemIds
<1>3. \A k \in 1..Len(n.arrays) : ArrayOK(n, n.arrays[k])
  BY <1>2 DEF QueuesOK, ArrayOK
<1>4. ASSUME NEW e \in FxElements, n.queue[e] # 0
      PROVE  /\ n.queue[e] \in 1..Len(n.arrays)
             /\ n.arrays[n.queue[e]] # <<>>
             /\ \A j \in 2..Len(n.arrays[n.queue[e]]) :
                  LET i == n.arrays[n.queue[e]][j]
                  IN  n.items[i].on = e /\ n.items[i].kind \in Queueable
  <2>1. m.queue[e] # 0
    BY <1>4
  <2>2. /\ m.queue[e] \in 1..Len(m.arrays)
        /\ m.arrays[m.queue[e]] # <<>>
        /\ \A j \in 2..Len(m.arrays[m.queue[e]]) :
             LET i == m.arrays[m.queue[e]][j]
             IN  m.items[i].on = e /\ m.items[i].kind \in Queueable
    BY <2>1 DEF QueuesOK
  <2>3. \A j \in 2..Len(m.arrays[m.queue[e]]) : m.arrays[m.queue[e]][j] \in ItemIds(m)
    BY <2>2 DEF QueuesOK, ArrayOK
  <2> QED BY <2>2, <2>3 DEF KindsKept
<1>5. \A e, f \in FxElements : n.queue[e] = n.queue[f] /\ n.queue[e] # 0 => e = f
  BY DEF QueuesOK
<1> QED BY <1>3, <1>4, <1>5 DEF QueuesOK

\* The same frames, over items that go on.
LEMMA FramesSame ==
  ASSUME NEW m \in StateType, NEW n \in StateType, FramesOK(m), KindsKept(m, n),
         n.frames = m.frames, Len(m.arrays) <= Len(n.arrays),
         \A e \in FxElements : n.queue[e] \in {0, m.queue[e]} \/ n.queue[e] > Len(m.arrays),
         \A i \in ItemIds(m) : ~m.items[i].complete => ~n.items[i].complete,
         \A p \in Depth(m) : m.frames[p].op = "start" =>
           m.frames[p].left \subseteq n.items[m.frames[p].item].todo
  PROVE  FramesOK(n)
<1>1. /\ Len(m.items) \in Nat /\ Len(n.items) \in Nat
      /\ Len(m.arrays) \in Nat /\ Len(n.arrays) \in Nat
  BY StateFields, ItemOf
<1>2. \A i \in ItemIds(m) : i \in ItemIds(n)
  BY <1>1 DEF KindsKept, ItemIds
<1>3. Depth(n) = Depth(m)
  BY DEF Depth
<1>4. ASSUME NEW p \in Depth(m) PROVE FrameMade(m, m.frames[p])
  BY <1>4 DEF FramesOK
<1>5. ASSUME NEW p \in Depth(m) PROVE FrameMade(n, m.frames[p])
  <2> DEFINE f == m.frames[p]
  <2>1. FrameMade(m, f)
    BY <1>4
  <2>2. f.op = "start" => f.left \subseteq n.items[f.item].todo
    OBVIOUS
  <2> HIDE DEF f
  <2>3. f.op = "dequeue" =>
          f.array \in 1..Len(n.arrays) /\ \A e \in FxElements : n.queue[e] = f.array => e = f.on
    <3>1. ASSUME f.op = "dequeue", NEW e \in FxElements, n.queue[e] = f.array PROVE e = f.on
      <4>1. f.array \in 1..Len(m.arrays) /\ (m.queue[e] = f.array => e = f.on)
        BY <2>1, <3>1 DEF FrameMade
      <4>2. n.queue[e] = m.queue[e]
        BY <4>1, <3>1, <1>1
      <4> QED BY <4>1, <4>2, <3>1
    <3> QED BY <1>1, <2>1, <3>1 DEF FrameMade
  <2>4. f.op \in {"page", "complete", "start"} => f.item \in ItemIds(m)
    BY <2>1 DEF FrameMade
  <2>5. f.op \in {"page", "complete", "start"} =>
          f.item \in ItemIds(n) /\ n.items[f.item].kind = m.items[f.item].kind
    BY <1>2, <2>4 DEF KindsKept
  <2>6. f.op = "complete" => ~n.items[f.item].complete
    BY <2>1, <2>4 DEF FrameMade
  <2>7. /\ f.op = "page" => m.items[f.item].kind # "none"
        /\ f.op \in {"complete", "start"} => m.items[f.item].kind \in Animated
        /\ f.op = "tick" \/ (f.op = "stop" /\ f.timer # NoTimer) => f.at # 0
    BY <2>1 DEF FrameMade
  <2>8. f.op = "page" => f.item \in ItemIds(n) /\ n.items[f.item].kind # "none"
    BY <2>5, <2>7
  <2>9. f.op = "complete" =>
          f.item \in ItemIds(n) /\ n.items[f.item].kind \in Animated /\ ~n.items[f.item].complete
    BY <2>5, <2>6, <2>7
  <2>10. f.op = "start" =>
           f.item \in ItemIds(n) /\ n.items[f.item].kind \in Animated
             /\ f.left \subseteq n.items[f.item].todo
    BY <2>2, <2>5, <2>7
  <2>11. FrameMade(n, f)
    BY ONLY <2>3, <2>7, <2>8, <2>9, <2>10 DEF FrameMade
  <2> QED BY <2>11 DEF f
<1>6. ASSUME NEW p \in Depth(m) PROVE OfElement(n, m.frames[p]) = OfElement(m, m.frames[p])
                                       \/ m.frames[p].op = "tick"
  <2>1. m.frames[p].op \in {"page", "complete", "start"} => m.frames[p].item \in ItemIds(m)
    BY <1>4 DEF FrameMade
  <2>2. m.frames[p].op \in {"page", "complete", "dequeue", "start", "tick", "stop"}
    BY FramesAre, FrameIs
  <2> QED BY <2>1, <2>2 DEF OfElement, KindsKept
<1>7. ASSUME NEW p \in Depth(m), p # Len(m.frames) PROVE Above(n, m.frames[p], m.frames[p + 1])
  <2>1. Above(m, m.frames[p], m.frames[p + 1])
    BY <1>7 DEF FramesOK
  <2>2. p + 1 \in Depth(m)
    BY <1>7, FramesAre DEF Depth
  <2> QED BY <2>1, <2>2, <1>6 DEF Above, OfElement
<1>8. \A p, q \in Depth(n) :
        n.frames[p].op = "complete" /\ n.frames[q].op = "complete"
          /\ n.frames[p].item = n.frames[q].item => p = q
  BY <1>3 DEF FramesOK
<1> QED BY <1>3, <1>5, <1>7, <1>8 DEF FramesOK

\* The same over the same items and queues, which is so when only the stack changes.
StackOnly(m, n) ==
  n.items = m.items /\ n.arrays = m.arrays /\ n.queue = m.queue

LEMMA StackOnlySame ==
  ASSUME NEW m, NEW n, StackOnly(m, n)
  PROVE  /\ ItemIds(n) = ItemIds(m)
         /\ \A f : FrameMade(n, f) = FrameMade(m, f) /\ OfElement(n, f) = OfElement(m, f)
         /\ \A f, g : Above(n, f, g) = Above(m, f, g)
<1>1. ItemIds(n) = ItemIds(m)
  BY DEF StackOnly, ItemIds
<1>2. \A f : FrameMade(n, f) = FrameMade(m, f)
  BY <1>1 DEF FrameMade, StackOnly
<1>3. \A f : OfElement(n, f) = OfElement(m, f)
  BY DEF StackOnly, OfElement
<1> QED BY <1>1, <1>2, <1>3 DEF Above

\* A frame on top.
LEMMA FramesPushed ==
  ASSUME NEW m \in StateType, FramesOK(m), NEW n \in StateType, StackOnly(m, n),
         NEW f \in FrameType, FrameMade(m, f), n.frames = Append(m.frames, f),
         m.frames # <<>> => Above(m, m.frames[Len(m.frames)], f),
         f.op = "complete" => ~Completing(m, f.item)
  PROVE  FramesOK(n)
<1> DEFINE l == Len(m.frames)
<1>0. m.frames \in Seq(FrameType) /\ l \in Nat
  BY StateFields, ItemOf
<1>2. /\ Len(n.frames) = l + 1 /\ n.frames[l + 1] = f
      /\ \A p \in 1..l : n.frames[p] = m.frames[p]
  BY <1>0, Pushed
<1>4. Depth(n) = Depth(m) \cup {l + 1} /\ l + 1 \notin Depth(m) /\ Depth(m) = 1..l
  BY <1>0, <1>2 DEF Depth
<1>8. ASSUME NEW p \in Depth(n) PROVE FrameMade(n, n.frames[p])
  <2>1. CASE p \in Depth(m)
    BY <2>1, <1>2, <1>4, StackOnlySame DEF FramesOK
  <2>2. CASE p = l + 1
    BY <2>2, <1>2, StackOnlySame
  <2> QED BY <1>4, <2>1, <2>2
<1>9. ASSUME NEW p \in Depth(n), p # Len(n.frames) PROVE Above(n, n.frames[p], n.frames[p + 1])
  <2>1. p \in 1..l
    BY <1>0, <1>2, <1>4, <1>9
  <2>2. CASE p = l
    <3>1. m.frames # <<>>
      BY <2>1, <1>0
    <3> QED BY <3>1, <2>1, <2>2, <1>2, StackOnlySame
  <2>3. CASE p # l
    <3>1. p + 1 \in 1..l
      BY <2>1, <2>3, <1>0
    <3>2. Above(m, m.frames[p], m.frames[p + 1])
      BY <2>1, <2>3, <1>4 DEF FramesOK
    <3> QED BY <3>1, <3>2, <2>1, <1>2, StackOnlySame
  <2> QED BY <2>2, <2>3
<1>10. ASSUME NEW p \in Depth(n), NEW q \in Depth(n),
              n.frames[p].op = "complete", n.frames[q].op = "complete",
              n.frames[p].item = n.frames[q].item
       PROVE  p = q
  <2>1. \A r \in Depth(m) : n.frames[r] = m.frames[r]
    BY <1>2, <1>4
  <2>2. CASE p \in Depth(m) /\ q \in Depth(m)
    BY <1>10, <2>1, <2>2 DEF FramesOK
  <2>3. CASE p = l + 1 /\ q \in Depth(m)
    BY <1>10, <2>1, <2>3, <1>2 DEF Completing
  <2>4. CASE q = l + 1 /\ p \in Depth(m)
    BY <1>10, <2>1, <2>4, <1>2 DEF Completing
  <2> QED BY <1>4, <2>2, <2>3, <2>4
<1> QED BY <1>8, <1>9, <1>10 DEF FramesOK

\* What is left of the frames when some are gone.
LEMMA FramesCut ==
  ASSUME NEW m \in StateType, FramesOK(m), NEW n \in StateType, StackOnly(m, n),
         Len(n.frames) <= Len(m.frames), \A p \in Depth(n) : n.frames[p] = m.frames[p]
  PROVE  FramesOK(n)
<1>0. Len(m.frames) \in Nat /\ Len(n.frames) \in Nat
  BY FramesAre
<1>1. \A p \in Depth(n) : p \in Depth(m) /\ p \in Nat
  BY <1>0 DEF Depth
<1>2. ASSUME NEW p \in Depth(n)
      PROVE  FrameMade(n, n.frames[p])
             /\ (p # Len(n.frames) => Above(n, n.frames[p], n.frames[p + 1]))
  <2>1. FrameMade(m, m.frames[p]) /\ (p # Len(m.frames) => Above(m, m.frames[p], m.frames[p + 1]))
    BY <1>1 DEF FramesOK
  <2>2. p # Len(n.frames) => p + 1 \in Depth(n) /\ p # Len(m.frames)
    BY <1>0 DEF Depth
  <2> QED BY <2>1, <2>2, StackOnlySame
<1>3. \A p, q \in Depth(n) :
        n.frames[p].op = "complete" /\ n.frames[q].op = "complete"
          /\ n.frames[p].item = n.frames[q].item => p = q
  BY <1>1 DEF FramesOK
<1> QED BY <1>2, <1>3 DEF FramesOK

\* What has begun in n had begun in m.
Calmer(m, n, e) ==
  /\ Begins(n, e) \subseteq Begins(m, e) /\ Beside(n, e) \subseteq Beside(m, e)
  /\ \A i \in Begins(n, e) :
       /\ n.items[i].kind = m.items[i].kind
       /\ (i \in n.delays => i \in m.delays) /\ (Starting(n, i) => Starting(m, i))
  /\ \A i \in Begins(n, e) \cup Beside(n, e), at \in Nat : ToCome(m, i, at) => ToCome(n, i, at)

\* The stacks are the same up to k, and of stops of e there are none above.
Shared(m, n, e, k) ==
  /\ k \in 0..Len(m.frames) /\ k <= Len(n.frames)
  /\ \A p \in 1..k : n.frames[p] = m.frames[p]
  /\ \A p \in StopsOf(m, e) \cup StopsOf(n, e) : p <= k

\* What may lie on a stop of e that is the k-th frame.
Covered(n, e, k) ==
  k \in StopsOf(n, e) /\ k # Len(n.frames) =>
    /\ Settled(n.frames[k])
    /\ \/ n.queue[e] # 0 \/ Begins(n, e) = {}
       \/ n.frames[k + 1].op = "complete" /\ OfElement(n, n.frames[k + 1]) = e

\* An array that is empty for a dequeue of e was so before.
EmptiesKept(m, n, e, k) ==
  \A p \in Depth(n) :
    n.frames[p].op = "dequeue" /\ n.frames[p].on = e /\ n.arrays[n.frames[p].array] = <<>> =>
      p <= k /\ m.arrays[n.frames[p].array] = <<>>

NoEmpties(n, e) ==
  \A p \in Depth(n) : n.frames[p].op = "dequeue" /\ n.frames[p].on = e =>
    n.arrays[n.frames[p].array] # <<>>

LEMMA StopsShared ==
  ASSUME NEW m \in StateType, NEW n \in StateType, NEW e, NEW k, Shared(m, n, e, k)
  PROVE  /\ StopsOf(n, e) = StopsOf(m, e)
         /\ \A p \in StopsOf(n, e) : /\ p \in Nat /\ p <= k /\ p \in Depth(m) /\ p \in Depth(n)
                                     /\ n.frames[p] = m.frames[p]
<1>1. /\ Len(m.frames) \in Nat /\ Len(n.frames) \in Nat /\ k \in Nat
      /\ k <= Len(m.frames) /\ k <= Len(n.frames)
  BY FramesAre DEF Shared
<1>2. \A p \in StopsOf(m, e) \cup StopsOf(n, e) : p \in Nat /\ p \in 1..k
  BY <1>1 DEF Shared, StopsOf, Depth
<1>3. \A p \in 1..k : p \in Depth(m) /\ p \in Depth(n)
  BY <1>1 DEF Depth
<1>4. \A p \in 1..k : n.frames[p] = m.frames[p]
  BY DEF Shared
<1>5. \A p \in StopsOf(m, e) : p \in StopsOf(n, e)
  BY <1>2, <1>3, <1>4 DEF StopsOf
<1>6. \A p \in StopsOf(n, e) : p \in StopsOf(m, e)
  BY <1>2, <1>3, <1>4 DEF StopsOf
<1> QED BY <1>1, <1>2, <1>3, <1>4, <1>5, <1>6, SMTT(30)

\* A step after which no more has begun keeps the order of the queue.
LEMMA OrderlyKept ==
  ASSUME NEW m \in StateType, NEW n \in StateType, FramesOK(m), KindsKept(m, n),
         NEW e \in FxElements, Orderly(m, e), NEW k, Shared(m, n, e, k),
         n.queue[e] = m.queue[e] \/ Begins(n, e) = {},
         n.run[e] = m.run[e] \/ Begins(n, e) = {},
         Calmer(m, n, e), Marked(n, e), Covered(n, e, k),
         \/ n.queue[e] \in {0, m.queue[e]} /\ EmptiesKept(m, n, e, k)
         \/ Begins(n, e) = {} /\ (n.queue[e] = 0 \/ NoEmpties(n, e))
  PROVE  Orderly(n, e)
<1>1. /\ Len(m.frames) \in Nat /\ Len(n.frames) \in Nat /\ k \in Nat
      /\ k <= Len(m.frames) /\ k <= Len(n.frames) /\ \A p \in 1..k : n.frames[p] = m.frames[p]
  BY FramesAre DEF Shared
<1>2. /\ StopsOf(n, e) = StopsOf(m, e)
      /\ \A p \in StopsOf(n, e) : /\ p \in Nat /\ p <= k /\ p \in Depth(m) /\ p \in Depth(n)
                                  /\ n.frames[p] = m.frames[p]
  BY StopsShared
<1>3. \A i \in Begins(n, e) : i \in Begins(m, e) /\ n.items[i].kind = m.items[i].kind
  BY DEF Calmer
<1>4. OneBegun(n, e)
  BY <1>3 DEF OneBegun, Orderly
<1>5. ASSUME NEW q \in Depth(m) PROVE m.frames[q].op # "tick" => OfElement(n, m.frames[q]) = OfElement(m, m.frames[q])
  <2>1. FrameMade(m, m.frames[q]) /\ m.frames[q].op \in {"page", "complete", "dequeue", "start", "tick", "stop"}
    BY FramesAre, FrameIs DEF FramesOK
  <2> QED BY <2>1 DEF FrameMade, OfElement, KindsKept
<1>6. ASSUME NEW p \in StopsOf(n, e), p < k
      PROVE  p + 1 \in Depth(m) /\ n.frames[p + 1] = m.frames[p + 1]
             /\ p # Len(m.frames) /\ p # Len(n.frames)
  BY <1>1, <1>2, <1>6 DEF Depth
<1>7. Unqueued(n, e)
  <2> SUFFICES ASSUME n.queue[e] = 0, NEW i \in Begins(n, e)
               PROVE  /\ n.items[i].kind = "animation"
                      /\ \E p \in StopsOf(n, e) :
                           p # Len(n.frames) =>
                             n.frames[p + 1].op = "complete" /\ OfElement(n, n.frames[p + 1]) = e
    BY DEF Unqueued
  <2>1. m.queue[e] = 0 /\ i \in Begins(m, e)
    BY <1>3
  <2>2. /\ m.items[i].kind = "animation"
        /\ \E p \in StopsOf(m, e) :
             p # Len(m.frames) =>
               m.frames[p + 1].op = "complete" /\ OfElement(m, m.frames[p + 1]) = e
    BY <2>1 DEF Orderly, Unqueued
  <2>3. PICK p \in StopsOf(m, e) :
          p # Len(m.frames) =>
            m.frames[p + 1].op = "complete" /\ OfElement(m, m.frames[p + 1]) = e
    BY <2>2
  <2>4. CASE p < k
    <3>1. p + 1 \in Depth(m) /\ n.frames[p + 1] = m.frames[p + 1] /\ p # Len(m.frames)
      BY <1>2, <1>6, <2>4
    <3>2. n.frames[p + 1].op = "complete" /\ OfElement(n, n.frames[p + 1]) = e
      BY <3>1, <2>3, <1>5
    <3> QED BY <3>2, <2>2, <1>2, <1>3
  <2>5. CASE p = k
    <3>1. k # Len(n.frames) =>
            n.frames[k + 1].op = "complete" /\ OfElement(n, n.frames[k + 1]) = e
      BY <2>5, <1>2 DEF Covered
    <3> QED BY <3>1, <2>5, <2>2, <1>2, <1>3
  <2> QED BY <2>4, <2>5, <1>1, <1>2
<1>8. ASSUME NEW p \in StopsOf(n, e) PROVE StopOK(n, e, p)
  <2> DEFINE f == n.frames[p]
  <2>0. p \in StopsOf(m, e) /\ p \in Nat /\ p <= k /\ f = m.frames[p] /\ f \in FrameType
        /\ f.op = "stop" /\ p \in Depth(n)
    BY <1>2, FramesAre DEF StopsOf
  <2>1. StopOK(m, e, p)
    BY <2>0 DEF Orderly
  <2>2. f.at \in Nat /\ f.gotoEnd \in BOOLEAN /\ f.had \in BOOLEAN
    BY <2>0, FrameIs
  <2>3. ASSUME NEW q \in 1..(p - 1), n.frames[q].op \in {"page", "complete", "stop"}
        PROVE  OfElement(n, n.frames[q]) # e
    <3>1. q \in Depth(m) /\ n.frames[q] = m.frames[q]
      BY <2>0, <1>1 DEF Depth
    <3>2. OfElement(m, m.frames[q]) # e
      BY <2>1, <2>3, <3>1 DEF StopOK
    <3> QED BY <3>1, <3>2, <1>5, <2>3
  <2>4. ~Settled(f) => p = Len(n.frames) /\ \A i \in Begins(n, e) : n.items[i].kind = "animation"
    <3> SUFFICES ASSUME ~Settled(f)
                 PROVE  p = Len(n.frames) /\ \A i \in Begins(n, e) : n.items[i].kind = "animation"
      OBVIOUS
    <3>1. p = Len(m.frames) /\ \A i \in Begins(m, e) : m.items[i].kind = "animation"
      BY <2>0, <2>1 DEF StopOK
    <3>2. p = k
      BY <3>1, <2>0, <1>1
    <3>3. k = Len(n.frames)
      BY <3>2 DEF Covered
    <3> QED BY <3>1, <3>2, <3>3, <1>3
  <2>5. ~Settled(f) \/ n.queue[e] = 0 => \A i \in Begins(n, e) : ToCome(n, i, f.at)
    <3> SUFFICES ASSUME ~Settled(f) \/ n.queue[e] = 0, NEW i \in Begins(n, e)
                 PROVE  ToCome(n, i, f.at)
      OBVIOUS
    <3>1. n.queue[e] = m.queue[e]
      OBVIOUS
    <3>2. ToCome(m, i, f.at)
      BY <3>1, <2>0, <2>1, <1>3 DEF StopOK
    <3> QED BY <3>2, <2>2 DEF Calmer
  <2>6. ~f.gotoEnd => \A i \in Beside(n, e) : ToCome(n, i, f.at)
    <3> SUFFICES ASSUME ~f.gotoEnd, NEW i \in Beside(n, e)
                 PROVE  ToCome(n, i, f.at)
      OBVIOUS
    <3>1. i \in Beside(m, e)
      BY DEF Calmer
    <3>2. ToCome(m, i, f.at)
      BY <3>1, <2>0, <2>1 DEF StopOK
    <3> QED BY <3>2, <2>2 DEF Calmer
  <2> QED BY <2>3, <2>4, <2>5, <2>6 DEF StopOK
<1>9. EmptyOnes(n, e)
  <2> SUFFICES ASSUME NEW p \in Depth(n), n.frames[p].op = "dequeue", n.frames[p].on = e,
                      n.arrays[n.frames[p].array] = <<>>
               PROVE  n.queue[e] = 0 /\ Begins(n, e) = {}
    BY DEF EmptyOnes
  <2> SUFFICES ASSUME n.queue[e] \in {0, m.queue[e]}, EmptiesKept(m, n, e, k)
               PROVE  n.queue[e] = 0 /\ Begins(n, e) = {}
    BY DEF NoEmpties
  <2>1. p <= k /\ m.arrays[n.frames[p].array] = <<>>
    BY DEF EmptiesKept
  <2>2. p \in Depth(m) /\ n.frames[p] = m.frames[p]
    BY <2>1, <1>1 DEF Depth
  <2>3. m.queue[e] = 0 /\ Begins(m, e) = {}
    BY <2>1, <2>2 DEF Orderly, EmptyOnes
  <2> QED BY <2>3, <1>3
<1>10. DelayRuns(n, e)
  BY <1>3 DEF Calmer, Orderly, DelayRuns
<1>11. StartsQueued(n, e)
  BY <1>3 DEF Calmer, Orderly, StartsQueued
<1> QED BY <1>4, <1>7, <1>8, <1>9, <1>10, <1>11 DEF Orderly

\* A queue of which only j has begun, and that is not stopped.
LEMMA OrderlyBusy ==
  ASSUME NEW n, NEW e, NEW j, n.queue[e] # 0, Begins(n, e) \subseteq {j},
         \A p \in StopsOf(n, e) :
           /\ Settled(n.frames[p])
           /\ \A q \in 1..(p - 1) :
                n.frames[q].op \in {"page", "complete", "stop"} => OfElement(n, n.frames[q]) # e,
         NoEmpties(n, e), j \in n.delays => n.run[e] = j, Marked(n, e)
  PROVE  Orderly(n, e)
<1>1. OneBegun(n, e) /\ Unqueued(n, e) /\ DelayRuns(n, e) /\ StartsQueued(n, e)
  BY DEF OneBegun, Unqueued, DelayRuns, StartsQueued
<1>2. EmptyOnes(n, e)
  BY DEF EmptyOnes, NoEmpties
<1>3. ASSUME NEW p \in StopsOf(n, e) PROVE StopOK(n, e, p)
  BY DEF StopOK, Settled
<1> QED BY <1>1, <1>2, <1>3 DEF Orderly

\* An item does not move in n unless it moved in m.
ItemEases(m, n, i) ==
  /\ Moving(n, i) => i \in ItemIds(m) /\ Moving(m, i)
  /\ n.items[i].kind = "function" /\ n.items[i].called = 1 =>
       i \in ItemIds(m) /\ m.items[i].called = 1
  /\ i \in n.delays => i \in m.delays
  /\ Starting(n, i) => Starting(m, i)
  /\ \A at \in Nat : ToCome(m, i, at) => ToCome(n, i, at)

\* The frames of i that make it move, and its timers, come from m.
FramesFrom(m, n, i) ==
  \A p \in Depth(n) :
    /\ n.frames[p].op \in {"start", "complete"} /\ n.frames[p].item = i
    /\ n.frames[p].op = "start" => n.frames[p].left # {}
    => \E q \in Depth(m) :
         /\ m.frames[q].op = n.frames[p].op /\ m.frames[q].item = i
         /\ m.frames[q].op = "start" => m.frames[q].left # {}

TimersFrom(m, n, i) ==
  \A k \in Places(n) : n.timers[k].item = i =>
    \E l \in Places(m) : k <= l /\ m.timers[l].item = i

LEMMA Eased ==
  ASSUME NEW m \in StateType, NEW n \in StateType, NEW i \in ItemIds(m),
         n.items[i].kind = m.items[i].kind,
         n.items[i].complete => m.items[i].complete,
         n.items[i].kind = "function" /\ n.items[i].called = 1 => m.items[i].called = 1,
         i \in n.delays => i \in m.delays, FramesFrom(m, n, i), TimersFrom(m, n, i)
  PROVE  ItemEases(m, n, i)
<1>1. HasTimer(n, i) => HasTimer(m, i)
  BY DEF TimersFrom, HasTimer
<1>2. Starting(n, i) => Starting(m, i)
  BY DEF FramesFrom, Starting
<1>3. Completing(n, i) => Completing(m, i)
  BY DEF FramesFrom, Completing
<1>4. Moving(n, i) => Moving(m, i)
  BY <1>1, <1>2, <1>3 DEF Moving
<1>5. ASSUME NEW at \in Nat, ToCome(m, i, at) PROVE ToCome(n, i, at)
  <2>1. Len(m.timers) \in Nat /\ Len(n.timers) \in Nat
    BY StateFields, ItemOf
  <2>2. ASSUME NEW k \in Places(n), n.timers[k].item = i PROVE k <= at
    <3>1. PICK l \in Places(m) : k <= l /\ m.timers[l].item = i
      BY <2>2 DEF TimersFrom
    <3>2. l <= at
      BY <1>5, <3>1 DEF ToCome
    <3> QED BY <2>1, <3>1, <3>2 DEF Places
  <2> QED BY <2>2 DEF ToCome
<1> QED BY <1>2, <1>4, <1>5 DEF ItemEases

\* Items that ease leave their queue calmer.
LEMMA CalmerThen ==
  ASSUME NEW m \in StateType, NEW n \in StateType, ItemsOK(m), KindsKept(m, n), NEW e,
         \A i \in ItemIds(n) : n.items[i].on = e => ItemEases(m, n, i)
  PROVE  Calmer(m, n, e)
<1>1. ASSUME NEW i \in ItemIds(n), n.items[i].on = e, Lives(n, i)
      PROVE  i \in ItemIds(m) /\ Lives(m, i)
  <2>1. ItemEases(m, n, i)
    BY <1>1
  <2>2. i \in ItemIds(m)
    BY <1>1, <2>1 DEF Lives, ItemEases, ItemsOK
  <2> QED BY <1>1, <2>1, <2>2 DEF Lives, ItemEases, KindsKept
<1>2. Begins(n, e) \subseteq Begins(m, e)
  BY <1>1 DEF Begins, KindsKept
<1>3. Beside(n, e) \subseteq Beside(m, e)
  BY DEF Beside, ItemEases, KindsKept
<1>4. \A i \in Begins(n, e) : i \in ItemIds(m) /\ ItemEases(m, n, i)
  BY <1>1 DEF Begins
<1>5. \A i \in Beside(n, e) : ItemEases(m, n, i)
  BY DEF Beside
<1> QED BY <1>2, <1>3, <1>4, <1>5 DEF Calmer, ItemEases, KindsKept

LEMMA BesideFinite ==
  ASSUME NEW m \in StateType, NEW e
  PROVE  IsFiniteSet(Beside(m, e)) /\ Cardinality(Beside(m, e)) \in Nat
<1>1. Len(m.items) \in Nat
  BY StateFields, ItemOf
<1>2. IsFiniteSet(ItemIds(m))
  BY <1>1, FS_Interval DEF ItemIds
<1>3. Beside(m, e) \subseteq ItemIds(m)
  BY DEF Beside
<1> QED BY <1>2, <1>3, FS_Subset, FS_CardinalityType

LEMMA MarkedKept ==
  ASSUME NEW m \in StateType, NEW n \in StateType, NEW e \in FxElements, NEW k,
         Shared(m, n, e, k), Marked(m, e), Beside(n, e) \subseteq Beside(m, e),
         n.marks[e] >= m.marks[e]
  PROVE  Marked(n, e)
<1>1. CASE Cardinality(Beside(m, e)) <= m.marks[e]
  <2>1. /\ Cardinality(Beside(n, e)) <= Cardinality(Beside(m, e))
        /\ Cardinality(Beside(n, e)) \in Nat /\ Cardinality(Beside(m, e)) \in Nat
    BY BesideFinite, FS_Subset
  <2>2. m.marks[e] \in Nat /\ n.marks[e] \in Nat
    BY StateFields
  <2> QED BY <1>1, <2>1, <2>2 DEF Marked
<1>2. CASE \E p \in StopsOf(m, e) : ~m.frames[p].gotoEnd
  BY <1>2, StopsShared DEF Marked
<1> QED BY <1>1, <1>2 DEF Marked

\* A step that lets items ease, for the order of the queue of e.
LEMMA EasedOrderly ==
  ASSUME NEW m \in StateType, ItemsOK(m), FramesOK(m), NEW n \in StateType, KindsKept(m, n),
         NEW e \in FxElements, Orderly(m, e), NEW k, Shared(m, n, e, k),
         \A i \in ItemIds(n) : n.items[i].on = e => ItemEases(m, n, i),
         n.queue[e] = m.queue[e] \/ Begins(m, e) = {},
         n.run[e] = m.run[e] \/ Begins(m, e) = {}, n.marks[e] >= m.marks[e],
         \/ n.queue[e] \in {0, m.queue[e]} /\ EmptiesKept(m, n, e, k)
         \/ Begins(m, e) = {} /\ (n.queue[e] = 0 \/ NoEmpties(n, e)),
         Covered(n, e, k)
  PROVE  Orderly(n, e) /\ Begins(n, e) \subseteq Begins(m, e)
<1>1. Calmer(m, n, e)
  BY CalmerThen
<1>2. Begins(n, e) \subseteq Begins(m, e) /\ Beside(n, e) \subseteq Beside(m, e)
  BY <1>1 DEF Calmer
<1>3. Marked(n, e)
  BY <1>2, MarkedKept DEF Orderly
<1>4. n.queue[e] = m.queue[e] \/ Begins(n, e) = {}
  BY <1>2
<1>5. n.run[e] = m.run[e] \/ Begins(n, e) = {}
  BY <1>2
<1>6. \/ n.queue[e] \in {0, m.queue[e]} /\ EmptiesKept(m, n, e, k)
      \/ Begins(n, e) = {} /\ (n.queue[e] = 0 \/ NoEmpties(n, e))
  BY <1>2
<1> QED BY <1>1, <1>2, <1>3, <1>4, <1>5, <1>6, OrderlyKept

\* Steps that leave items and the stack as they are, and make queues and timers less.
LEMMA QuietSound ==
  ASSUME NEW m, Sound(m), NEW n \in StateType,
         n.items = m.items, n.arrays = m.arrays, n.frames = m.frames,
         \A e \in FxElements : n.queue[e] \in {0, m.queue[e]},
         \A k \in Places(n) : \E l \in Places(m) : n.timers[k].item = m.timers[l].item,
         n.delays \subseteq m.delays, \A e \in FxElements : n.defer[e] \in 0..Len(m.items)
  PROVE  Sound(n)
<1>0. m \in StateType /\ ItemsOK(m) /\ QueuesOK(m) /\ FramesOK(m)
  BY DEF Sound
<1>1. KindsKept(m, n) /\ ItemIds(n) = ItemIds(m) /\ Depth(n) = Depth(m)
  BY <1>0, StateFields DEF KindsKept, ItemIds, Depth
<1>2. ItemsOK(n)
  BY <1>0, <1>1 DEF ItemsOK
<1>3. QueuesOK(n)
  <2>1. \A k \in 1..Len(n.arrays) : ArrayOK(n, n.arrays[k])
    BY <1>0, <1>1 DEF QueuesOK, ArrayOK
  <2>2. ASSUME NEW e \in FxElements, n.queue[e] # 0
        PROVE  /\ n.queue[e] \in 1..Len(n.arrays)
               /\ n.arrays[n.queue[e]] # <<>>
               /\ \A j \in 2..Len(n.arrays[n.queue[e]]) :
                    LET i == n.arrays[n.queue[e]][j]
                    IN  n.items[i].on = e /\ n.items[i].kind \in Queueable
    <3>1. n.queue[e] = m.queue[e] /\ m.queue[e] # 0
      BY <2>2
    <3> QED BY <3>1, <1>0, SMTT(30) DEF QueuesOK
  <2>3. \A e, f \in FxElements : n.queue[e] = n.queue[f] /\ n.queue[e] # 0 => e = f
    BY <1>0 DEF QueuesOK
  <2> QED BY <2>1, <2>2, <2>3 DEF QueuesOK
<1>4. FramesOK(n)
  <2>1. \A p \in Depth(m) : FrameMade(m, m.frames[p])
    BY <1>0 DEF FramesOK
  <2>2. \A p \in Depth(m) : m.frames[p].op = "start" =>
          m.frames[p].left \subseteq n.items[m.frames[p].item].todo
    BY <2>1 DEF FrameMade
  <2>3. Len(m.arrays) \in Nat
    BY <1>0, StateFields, ItemOf
  <2>4. Len(m.arrays) <= Len(n.arrays)
    BY <2>3
  <2>5. \A e \in FxElements : n.queue[e] \in {0, m.queue[e]} \/ n.queue[e] > Len(m.arrays)
    OBVIOUS
  <2>6. \A i \in ItemIds(m) : ~m.items[i].complete => ~n.items[i].complete
    OBVIOUS
  <2> QED BY <1>0, <1>1, <2>2, <2>4, <2>5, <2>6, FramesSame
<1> QED BY <1>2, <1>3, <1>4 DEF Sound

\* The sentinel goes in front of what waits.
LEMMA ArrayTaken ==
  ASSUME NEW s \in Seq(Nat), s # <<>>, s[1] = 0, Tail(s) # <<>>
  PROVE  LET rest == Tail(s)
             r    == <<Sentinel>> \o Tail(rest)
         IN  /\ Head(rest) = s[2] /\ Len(s) >= 2 /\ 2 \in 2..Len(s)
             /\ r \in Seq(Nat) /\ r # <<>> /\ r[1] = 0 /\ Len(r) = Len(s) - 1
             /\ \A k \in 2..Len(r) : k + 1 \in 2..Len(s) /\ r[k] = s[k + 1]
<1>1. Len(s) \in Nat /\ Len(s) >= 2 /\ Tail(s) \in Seq(Nat) /\ Len(Tail(s)) = Len(s) - 1
      /\ \A k \in 1..(Len(s) - 1) : Tail(s)[k] = s[k + 1]
  OBVIOUS
<1> DEFINE rest == Tail(s)
           t    == Tail(rest)
           r    == <<Sentinel>> \o t
<1>2. Head(rest) = s[2]
  BY <1>1
<1>3. t \in Seq(Nat) /\ Len(t) = Len(s) - 2 /\ \A k \in 1..(Len(s) - 2) : t[k] = s[k + 2]
  <2>1. t \in Seq(Nat) /\ Len(t) = Len(rest) - 1 /\ \A k \in 1..(Len(rest) - 1) : t[k] = rest[k + 1]
    BY <1>1
  <2> HIDE DEF t
  <2>2. Len(t) = Len(s) - 2
    BY <2>1, <1>1
  <2>3. ASSUME NEW k \in 1..(Len(s) - 2) PROVE t[k] = s[k + 2]
    <3>1. t[k] = rest[k + 1] /\ k + 1 \in 1..(Len(s) - 1) /\ (k + 1) + 1 = k + 2
      BY <2>1, <1>1
    <3> QED BY <3>1, <1>1
  <2> QED BY <2>1, <2>2, <2>3
<1> HIDE DEF t
<1>4. r \in Seq(Nat) /\ r[1] = 0 /\ Len(r) = Len(s) - 1 /\ \A k \in 2..Len(r) : r[k] = t[k - 1]
  <2> DEFINE z == <<Sentinel>>
  <2>1. z \in Seq(Nat) /\ Len(z) = 1 /\ z[1] = 0
    BY DEF Sentinel
  <2> HIDE DEF z
  <2>2. /\ z \o t \in Seq(Nat) /\ Len(z \o t) = Len(z) + Len(t)
        /\ \A k \in 1..(Len(z) + Len(t)) :
             (z \o t)[k] = IF k <= Len(z) THEN z[k] ELSE t[k - Len(z)]
    BY <2>1, <1>3, ConcatProperties
  <2>3. r = z \o t
    BY DEF z
  <2> HIDE DEF r
  <2>4. Len(r) = Len(s) - 1
    BY <2>1, <2>2, <2>3, <1>1, <1>3
  <2>5. r[1] = 0
    BY <2>1, <2>2, <2>3, <1>1, <1>3
  <2>6. ASSUME NEW k \in 2..Len(r) PROVE r[k] = t[k - 1]
    <3>1. k \in Nat /\ k >= 2 /\ ~(k <= Len(z)) /\ k \in 1..(Len(z) + Len(t))
      BY <2>1, <2>4, <1>1, <1>3
    <3>2. (z \o t)[k] = t[k - Len(z)]
      BY <2>2, <3>1
    <3> QED BY <2>1, <2>3, <3>2
  <2> QED BY <2>2, <2>3, <2>4, <2>5, <2>6
<1> HIDE DEF r
<1>5. ASSUME NEW k \in 2..Len(r) PROVE k + 1 \in 2..Len(s) /\ r[k] = s[k + 1]
  <2>1. k - 1 \in 1..(Len(s) - 2) /\ (k - 1) + 2 = k + 1
    BY <1>1, <1>4
  <2> QED BY <2>1, <1>1, <1>3, <1>4
<1>6. r # <<>>
  BY <1>1, <1>4
<1> QED BY <1>1, <1>2, <1>4, <1>5, <1>6 DEF r, t

\* Only the stack differs.
OnlyStack(m, n) ==
  /\ n.arrays = m.arrays /\ n.queue = m.queue /\ n.run = m.run /\ n.items = m.items
  /\ n.timers = m.timers /\ n.interval = m.interval /\ n.delays = m.delays
  /\ n.marks = m.marks /\ n.defer = m.defer /\ n.deferrals = m.deferrals

LEMMA OnlyStackSound ==
  ASSUME NEW m, NEW n, OnlyStack(m, n), ItemsOK(m), QueuesOK(m)
  PROVE  /\ ItemsOK(n) /\ QueuesOK(n) /\ ItemIds(n) = ItemIds(m) /\ Places(n) = Places(m)
         /\ KindsKept(m, n) \/ m \notin StateType
<1>1. ItemIds(n) = ItemIds(m) /\ Places(n) = Places(m)
  BY DEF OnlyStack, ItemIds, Places
<1>2. ItemsOK(n)
  BY <1>1 DEF ItemsOK, OnlyStack
<1>3. \A s : ArrayOK(n, s) = ArrayOK(m, s)
  BY <1>1 DEF ArrayOK
<1>4. QueuesOK(n)
  BY <1>3, SMTT(30) DEF QueuesOK, OnlyStack
<1>5. ASSUME m \in StateType PROVE KindsKept(m, n)
  <2>1. Len(m.items) \in Nat
    BY <1>5, StateFields, ItemOf
  <2> QED BY <2>1 DEF KindsKept, OnlyStack
<1> QED BY <1>1, <1>2, <1>4, <1>5

LEMMA PushFields ==
  ASSUME NEW m \in StateType, NEW f \in FrameType
  PROVE  LET n == Push(m, f)
         IN  /\ n \in StateType /\ OnlyStack(m, n) /\ n.frames = Append(m.frames, f)
             /\ Len(m.frames) \in Nat /\ Len(n.frames) = Len(m.frames) + 1
             /\ n.frames[Len(m.frames) + 1] = f
             /\ \A p \in 1..Len(m.frames) : n.frames[p] = m.frames[p]
<1> DEFINE n == Push(m, f)
<1>1. m.frames \in Seq(FrameType) /\ Len(m.frames) \in Nat
  BY StateFields, ItemOf
<1>2. n.frames = Append(m.frames, f) /\ OnlyStack(m, n)
  BY DEF Push, StateType, OnlyStack
<1>3. /\ Append(m.frames, f) \in Seq(FrameType) /\ Len(Append(m.frames, f)) = Len(m.frames) + 1
      /\ Append(m.frames, f)[Len(m.frames) + 1] = f
      /\ \A p \in 1..Len(m.frames) : Append(m.frames, f)[p] = m.frames[p]
  BY <1>1, Pushed
<1>4. n \in StateType
  BY <1>3 DEF Push, StateType
<1> QED BY <1>1, <1>2, <1>3, <1>4

LEMMA PopFields ==
  ASSUME NEW m \in StateType, m.frames # <<>>
  PROVE  LET n == Pop(m)
         IN  /\ n \in StateType /\ OnlyStack(m, n)
             /\ Len(m.frames) \in Nat \ {0} /\ Len(n.frames) = Len(m.frames) - 1
             /\ \A p \in 1..(Len(m.frames) - 1) : n.frames[p] = m.frames[p]
             /\ Last(m.frames) = m.frames[Len(m.frames)] /\ Last(m.frames) \in FrameType
<1> DEFINE n == Pop(m)
<1>1. m.frames \in Seq(FrameType)
  BY StateFields
<1>2. n.frames = Front(m.frames) /\ OnlyStack(m, n)
  BY DEF Pop, StateType, OnlyStack
<1>3. /\ Len(m.frames) \in Nat \ {0} /\ Last(m.frames) = m.frames[Len(m.frames)]
      /\ Last(m.frames) \in FrameType
      /\ Front(m.frames) \in Seq(FrameType) /\ Len(Front(m.frames)) = Len(m.frames) - 1
      /\ \A i \in 1..(Len(m.frames) - 1) : Front(m.frames)[i] = m.frames[i]
  BY <1>1, Ends
<1>4. n \in StateType
  BY <1>3 DEF Pop, StateType
<1> QED BY <1>2, <1>3, <1>4

LEMMA PushSound ==
  ASSUME NEW m, Sound(m), NEW f \in FrameType, FrameMade(m, f),
         m.frames # <<>> => Above(m, m.frames[Len(m.frames)], f),
         f.op = "complete" => ~Completing(m, f.item)
  PROVE  Sound(Push(m, f))
<1>1. m \in StateType /\ ItemsOK(m) /\ QueuesOK(m) /\ FramesOK(m)
  BY DEF Sound
<1> DEFINE n == Push(m, f)
<1>2. n \in StateType /\ OnlyStack(m, n) /\ n.frames = Append(m.frames, f)
  BY <1>1, PushFields
<1> HIDE DEF n
<1>3. StackOnly(m, n)
  BY <1>2 DEF OnlyStack, StackOnly
<1>4. FramesOK(n)
  BY <1>1, <1>2, <1>3, FramesPushed
<1>5. ItemsOK(n) /\ QueuesOK(n)
  BY <1>1, <1>2, OnlyStackSound
<1>6. Sound(n)
  BY <1>2, <1>4, <1>5 DEF Sound
<1> QED BY <1>6 DEF n

LEMMA CutSound ==
  ASSUME NEW m, Sound(m), NEW n \in StateType, OnlyStack(m, n),
         Len(n.frames) <= Len(m.frames), \A p \in Depth(n) : n.frames[p] = m.frames[p]
  PROVE  Sound(n)
<1>1. m \in StateType /\ ItemsOK(m) /\ QueuesOK(m) /\ FramesOK(m)
  BY DEF Sound
<1>2. StackOnly(m, n)
  BY DEF OnlyStack, StackOnly
<1>3. FramesOK(n)
  BY <1>1, <1>2, FramesCut
<1>4. ItemsOK(n) /\ QueuesOK(n)
  BY <1>1, OnlyStackSound
<1> QED BY <1>3, <1>4 DEF Sound

LEMMA PopSound ==
  ASSUME NEW m, Sound(m), m.frames # <<>>
  PROVE  Sound(Pop(m))
<1>1. m \in StateType
  BY DEF Sound
<1> DEFINE n == Pop(m)
<1>2. /\ n \in StateType /\ OnlyStack(m, n) /\ Len(m.frames) \in Nat \ {0}
      /\ Len(n.frames) = Len(m.frames) - 1
      /\ \A p \in 1..(Len(m.frames) - 1) : n.frames[p] = m.frames[p]
  BY <1>1, PopFields
<1> HIDE DEF n
<1>3. Sound(n)
  BY <1>2, CutSound DEF Depth
<1> QED BY <1>3 DEF n

\* Items that only go on, under the same stack and queues.
LEMMA ItemsSound ==
  ASSUME NEW m, Sound(m), NEW n \in StateType, Len(n.items) = Len(m.items),
         \A i \in ItemIds(m) :
           /\ n.items[i].kind = m.items[i].kind /\ n.items[i].on = m.items[i].on
           /\ ~m.items[i].complete => ~n.items[i].complete
           /\ n.items[i].kind # "function" =>
                n.items[i].called <= 1 /\ (n.items[i].complete => n.items[i].called = 0)
           /\ ~n.items[i].complete => n.items[i].todo = {},
         n.arrays = m.arrays, n.queue = m.queue, n.timers = m.timers, n.delays \subseteq ItemIds(m),
         \A i \in n.delays : i \in m.delays \/ m.items[i].kind = "delay",
         n.defer = m.defer, n.frames = m.frames,
         \A p \in Depth(m) : m.frames[p].op = "start" =>
           m.frames[p].left \subseteq n.items[m.frames[p].item].todo
  PROVE  Sound(n) /\ KindsKept(m, n)
<1>0. m \in StateType /\ ItemsOK(m) /\ QueuesOK(m) /\ FramesOK(m)
  BY DEF Sound
<1>1. KindsKept(m, n) /\ ItemIds(n) = ItemIds(m) /\ Places(n) = Places(m)
      /\ Len(m.items) \in Nat /\ Len(m.arrays) \in Nat
  BY <1>0, StateFields, ItemOf DEF KindsKept, ItemIds, Places
<1>2. ItemsOK(n)
  <2>1. \A k \in Places(n) :
          n.timers[k].item \in ItemIds(n) /\ n.items[n.timers[k].item].kind \in Animated
    BY <1>0, <1>1 DEF ItemsOK
  <2>2. \A i \in n.delays : i \in ItemIds(n) /\ n.items[i].kind = "delay"
    BY <1>0, <1>1 DEF ItemsOK
  <2>3. \A e \in FxElements : n.defer[e] \in 0..Len(n.items)
    BY <1>0 DEF ItemsOK
  <2>4. ASSUME NEW i \in ItemIds(n)
        PROVE  /\ n.items[i].kind # "function" =>
                    n.items[i].called <= 1 /\ (n.items[i].complete => n.items[i].called = 0)
               /\ ~n.items[i].complete => n.items[i].todo = {}
               /\ n.items[i].kind # "none" => n.items[i].on \in FxElements
    BY <1>0, <1>1 DEF ItemsOK
  <2> QED BY <2>1, <2>2, <2>3, <2>4 DEF ItemsOK
<1>3. QueuesOK(n)
  BY <1>0, <1>1, QueuesSame
<1>4. FramesOK(n)
  <2>1. \A e \in FxElements : n.queue[e] \in {0, m.queue[e]} \/ n.queue[e] > Len(m.arrays)
    OBVIOUS
  <2>2. Len(m.arrays) <= Len(n.arrays)
    BY <1>1
  <2> QED BY <1>0, <1>1, <2>1, <2>2, FramesSame
<1> QED BY <1>1, <1>2, <1>3, <1>4 DEF Sound

\* What the first item of a queue puts on the stack.
Runs(m, i) ==
  IF m.items[i].kind = "animation" THEN StartFrame(i, m.items[i].todo) ELSE PageFrame(i)

LEMMA RunsFrame ==
  ASSUME NEW m, Sound(m), NEW i \in ItemIds(m), m.items[i].kind \in Queueable
  PROVE  /\ Runs(m, i) \in FrameType /\ Runs(m, i).item = i
         /\ Runs(m, i).op \in {"start", "page"}
         /\ Runs(m, i).op = "start" => m.items[i].kind = "animation"
         /\ FrameMade(m, Runs(m, i)) /\ OfElement(m, Runs(m, i)) = m.items[i].on
<1>1. m \in StateType /\ i \in Nat /\ m.items[i].todo \in SUBSET Nat
  BY ItemFields DEF Sound
<1>2. CASE m.items[i].kind = "animation"
  BY <1>1, <1>2, FramesMake DEF Runs, StartFrame, FrameMade, OfElement, Animated
<1>3. CASE m.items[i].kind # "animation"
  BY <1>1, <1>3, FramesMake DEF Runs, PageFrame, FrameMade, OfElement, Queueable
<1> QED BY <1>2, <1>3

LEMMA Overwritten ==
  ASSUME NEW S, NEW s \in Seq(S), NEW i \in 1..Len(s), NEW r \in S
  PROVE  LET t == [s EXCEPT ![i] = r]
         IN  /\ t \in Seq(S) /\ Len(t) = Len(s)
             /\ \A j \in 1..Len(s) : t[j] = IF j = i THEN r ELSE s[j]
OBVIOUS

LEMMA BegunFields ==
  ASSUME NEW m, Sound(m), NEW i \in ItemIds(m), m.items[i].kind \in Queueable,
         m.items[i].on \in FxElements,
         m.frames # <<>> => Above(m, m.frames[Len(m.frames)], Runs(m, i))
  PROVE  LET n == BegunItem(m, i)
             e == m.items[i].on
         IN  /\ Sound(n) /\ KindsKept(m, n) /\ Len(n.items) = Len(m.items)
             /\ \A j \in ItemIds(m) :
                  /\ n.items[j].kind = m.items[j].kind /\ n.items[j].complete = m.items[j].complete
                  /\ j # i => n.items[j].called = m.items[j].called
             /\ n.arrays = m.arrays /\ n.queue = m.queue /\ n.timers = m.timers
             /\ n.marks = m.marks /\ n.defer = m.defer
             /\ \A j : j # i => (j \in n.delays) = (j \in m.delays)
             /\ i \in n.delays => n.run[e] = i
             /\ \A x \in FxElements \ {e} : n.run[x] = m.run[x]
             /\ Len(n.frames) \in Len(m.frames)..(Len(m.frames) + 1)
             /\ \A p \in 1..Len(m.frames) : n.frames[p] = m.frames[p]
             /\ Len(n.frames) > Len(m.frames) => n.frames[Len(m.frames) + 1] = Runs(m, i)
<1> DEFINE n == BegunItem(m, i)
           e == m.items[i].on
<1>0. m \in StateType /\ ItemsOK(m)
  BY DEF Sound
<1>1. /\ i \in Nat /\ m.items[i] \in ItemType /\ Len(m.items) \in Nat /\ Len(m.frames) \in Nat
      /\ m.items \in Seq(ItemType)
  BY <1>0, ItemFields, StateFields, ItemOf
<1>2. CASE m.items[i].kind = "animation"
  <2>1. n = Push(m, Runs(m, i))
    BY <1>2 DEF BegunItem, Runs
  <2>2. Sound(n)
    BY <2>1, RunsFrame, PushSound
  <2>3. /\ OnlyStack(m, n) /\ Len(n.frames) = Len(m.frames) + 1
        /\ n.frames[Len(m.frames) + 1] = Runs(m, i)
        /\ \A p \in 1..Len(m.frames) : n.frames[p] = m.frames[p]
    BY <1>0, <2>1, RunsFrame, PushFields
  <2>4. i \notin m.delays
    BY <1>0, <1>2 DEF ItemsOK
  <2> HIDE DEF n
  <2>5. KindsKept(m, n)
    BY <2>3, <1>1 DEF KindsKept, OnlyStack
  <2>6. Len(n.frames) \in Len(m.frames)..(Len(m.frames) + 1)
    BY <2>3, <1>1
  <2>7. QED BY <2>2, <2>3, <2>4, <2>5, <2>6 DEF OnlyStack, n
<1>3. CASE m.items[i].kind = "function"
  <2> DEFINE b == [m EXCEPT !.items[i].called = 1]
  <2>1. n = Push(b, PageFrame(i))
    BY <1>3 DEF BegunItem
  <2>2. /\ b.items = [m.items EXCEPT ![i].called = 1] /\ b.arrays = m.arrays /\ b.queue = m.queue
        /\ b.run = m.run /\ b.timers = m.timers /\ b.delays = m.delays /\ b.marks = m.marks
        /\ b.defer = m.defer /\ b.frames = m.frames
    BY <1>0 DEF StateType
  <2>3. b.items \in Seq(ItemType) /\ Len(b.items) = Len(m.items)
        /\ \A j \in ItemIds(m) :
             /\ b.items[j].kind = m.items[j].kind /\ b.items[j].on = m.items[j].on
             /\ b.items[j].complete = m.items[j].complete /\ b.items[j].todo = m.items[j].todo
             /\ j # i => b.items[j].called = m.items[j].called
    <3>1. [m.items[i] EXCEPT !.called = 1] \in ItemType
      BY <1>1 DEF ItemType
    <3>2. \A j \in ItemIds(m) : m.items[j] \in ItemType
      BY <1>0, ItemFields
    <3> DEFINE r == [m.items[i] EXCEPT !.called = 1]
    <3>3. b.items = [m.items EXCEPT ![i] = r]
      BY <2>2
    <3>4. /\ r.kind = m.items[i].kind /\ r.on = m.items[i].on
          /\ r.complete = m.items[i].complete /\ r.todo = m.items[i].todo
      BY <1>1 DEF ItemType
    <3> HIDE DEF r
    <3>5. /\ b.items \in Seq(ItemType) /\ Len(b.items) = Len(m.items)
          /\ \A j \in ItemIds(m) : b.items[j] = IF j = i THEN r ELSE m.items[j]
      BY <3>1, <3>3, <1>1, Overwritten DEF ItemIds, r
    <3> QED BY <3>4, <3>5
  <2>4. b \in StateType
    BY <1>0, <2>2, <2>3 DEF StateType
  <2> HIDE DEF b
  <2>5. Sound(b) /\ KindsKept(m, b)
    <3>1. \A j \in ItemIds(m) :
           /\ b.items[j].kind # "function" =>
                b.items[j].called <= 1 /\ (b.items[j].complete => b.items[j].called = 0)
           /\ ~b.items[j].complete => b.items[j].todo = {}
      BY <1>0, <1>3, <2>3 DEF ItemsOK
    <3>2. \A p \in Depth(m) : m.frames[p].op = "start" =>
            m.frames[p].left \subseteq b.items[m.frames[p].item].todo
      <4>1. \A p \in Depth(m) : FrameMade(m, m.frames[p])
        BY DEF Sound, FramesOK
      <4> QED BY <4>1, <2>3 DEF FrameMade
    <3>3. b.delays \subseteq ItemIds(m)
      BY <1>0, <2>2 DEF ItemsOK
    <3> QED BY <2>2, <2>3, <2>4, <3>1, <3>2, <3>3, ItemsSound, ZenonT(40)
  <2>6. Runs(m, i) = PageFrame(i) /\ PageFrame(i) \in FrameType /\ PageFrame(i).op = "page"
        /\ PageFrame(i).item = i
    BY <1>1, <1>3, FramesMake DEF Runs, PageFrame
  <2>7. FrameMade(b, PageFrame(i))
    BY <2>3, <2>6, <1>3 DEF FrameMade, ItemIds
  <2>8. b.frames # <<>> => Above(b, b.frames[Len(b.frames)], PageFrame(i))
    <3> SUFFICES ASSUME b.frames # <<>> PROVE Above(b, b.frames[Len(b.frames)], PageFrame(i))
      OBVIOUS
    <3> DEFINE g == m.frames[Len(m.frames)]
    <3>1. Above(m, g, PageFrame(i)) /\ b.frames[Len(b.frames)] = g
      BY <2>2, <2>6
    <3>2. Len(m.frames) \in Depth(m)
      <4>1. m.frames \in Seq(FrameType) /\ m.frames # <<>>
        BY <1>0, <2>2, StateFields
      <4> QED BY <4>1 DEF Depth
    <3>3. FrameMade(m, g) /\ g \in FrameType
      BY <3>2, <1>0, FramesAre DEF Sound, FramesOK
    <3>4. g.op \in {"dequeue", "start"} => OfElement(b, g) = OfElement(m, g)
      BY <3>3, <2>3 DEF OfElement, FrameMade
    <3>5. OfElement(b, PageFrame(i)) = OfElement(m, PageFrame(i))
      BY <2>3, <2>6 DEF OfElement
    <3> HIDE DEF g
    <3>6. Above(b, g, PageFrame(i))
      BY <3>1, <3>4, <3>5, <2>6 DEF Above
    <3> QED BY <3>1, <3>6
  <2>9. Sound(n)
    BY <2>1, <2>5, <2>6, <2>7, <2>8, PushSound
  <2>10. /\ OnlyStack(b, n) /\ Len(n.frames) = Len(b.frames) + 1
         /\ n.frames[Len(b.frames) + 1] = PageFrame(i)
         /\ \A p \in 1..Len(b.frames) : n.frames[p] = b.frames[p]
    BY <2>1, <2>4, <2>6, PushFields
  <2>11. i \notin m.delays
    BY <1>0, <1>3 DEF ItemsOK
  <2> HIDE DEF n
  <2>12. KindsKept(m, n) /\ Len(n.items) = Len(m.items)
    BY <2>3, <2>10, <1>1 DEF KindsKept, OnlyStack, ItemIds
  <2>13. Len(n.frames) \in Len(m.frames)..(Len(m.frames) + 1)
    BY <2>2, <2>10, <1>1
  <2>14. QED BY <2>2, <2>3, <2>6, <2>9, <2>10, <2>11, <2>12, <2>13 DEF OnlyStack, n
<1>4. CASE m.items[i].kind = "delay"
  <2>1. n = [m EXCEPT !.delays = @ \cup {i}, !.run[e] = i]
    BY <1>4 DEF BegunItem
  <2>2. /\ n.items = m.items /\ n.arrays = m.arrays /\ n.queue = m.queue
        /\ n.run = [m.run EXCEPT ![e] = i] /\ n.timers = m.timers /\ n.delays = m.delays \cup {i}
        /\ n.marks = m.marks /\ n.defer = m.defer /\ n.frames = m.frames
    BY <1>0, <2>1 DEF StateType
  <2>3. n \in StateType
    <3>1. m.delays \cup {i} \in SUBSET Nat
      BY <1>0, <1>1, StateFields
    <3>2. [m.run EXCEPT ![e] = i] \in [FxElements -> Nat]
      BY <1>0, <1>1, StateFields
    <3>3. n = [m EXCEPT !.delays = m.delays \cup {i}, !.run = [m.run EXCEPT ![e] = i]]
      BY <1>0, <2>1 DEF StateType
    <3> QED BY <1>0, <3>1, <3>2, <3>3 DEF StateType
  <2> HIDE DEF n
  <2>4. Sound(n) /\ KindsKept(m, n)
    <3>1. \A p \in Depth(m) : m.frames[p].op = "start" =>
            m.frames[p].left \subseteq n.items[m.frames[p].item].todo
      BY <2>2 DEF Sound, FramesOK, FrameMade
    <3>2. n.delays \subseteq ItemIds(m)
      BY <1>0, <2>2 DEF ItemsOK
    <3>3. \A j \in ItemIds(m) :
           /\ n.items[j].kind = m.items[j].kind /\ n.items[j].on = m.items[j].on
           /\ ~m.items[j].complete => ~n.items[j].complete
           /\ n.items[j].kind # "function" =>
                n.items[j].called <= 1 /\ (n.items[j].complete => n.items[j].called = 0)
           /\ ~n.items[j].complete => n.items[j].todo = {}
      BY <1>0, <2>2 DEF ItemsOK
    <3>4. \A j \in n.delays : j \in m.delays \/ m.items[j].kind = "delay"
      BY <2>2, <1>4
    <3> QED BY <2>2, <2>3, <3>1, <3>2, <3>3, <3>4, ItemsSound
  <2>5. n.run[e] = i /\ \A x \in FxElements \ {e} : n.run[x] = m.run[x]
    BY <2>2, <1>0, StateFields
  <2>6. Len(n.frames) \in Len(m.frames)..(Len(m.frames) + 1)
    BY <2>2, <1>1
  <2>7. QED BY <2>2, <2>4, <2>5, <2>6, <1>1 DEF n
<1> QED BY <1>2, <1>3, <1>4 DEF Queueable

\* What a dequeue of e may lie on.
TopTakes(m, e) ==
  m.frames # <<>> =>
    LET g == m.frames[Len(m.frames)]
    IN  /\ g.op # "complete"
        /\ g.op \in {"dequeue", "start", "stop"} => OfElement(m, g) = e
        /\ g.op = "start" => g.left = {}
        /\ g.op = "stop" => Settled(g)

LEMMA BegunSound ==
  ASSUME NEW m, Sound(m), NEW e \in FxElements, m.queue[e] # 0, TopTakes(m, e),
         NEW j \in ItemIds(m), m.items[j].on = e, m.items[j].kind \in Queueable
  PROVE  LET a == m.queue[e]
             d == DequeueFrame(e, a)
             b == Push(m, d)
             n == BegunItem(b, j)
             l == Len(m.frames)
         IN  /\ Sound(n) /\ KindsKept(m, n) /\ Len(n.items) = Len(m.items)
             /\ \A i \in ItemIds(m) :
                  /\ n.items[i].kind = m.items[i].kind /\ n.items[i].complete = m.items[i].complete
                  /\ i # j => n.items[i].called = m.items[i].called
             /\ n.arrays = m.arrays /\ n.queue = m.queue /\ n.timers = m.timers
             /\ n.marks = m.marks /\ n.defer = m.defer
             /\ \A i : i # j => (i \in n.delays) = (i \in m.delays)
             /\ j \in n.delays => n.run[e] = j
             /\ \A x \in FxElements \ {e} : n.run[x] = m.run[x]
             /\ l \in Nat /\ Len(n.frames) \in (l + 1)..(l + 2)
             /\ \A p \in 1..l : n.frames[p] = m.frames[p]
             /\ n.frames[l + 1] = d /\ d.op = "dequeue" /\ d.on = e /\ d.array = a
             /\ Len(n.frames) = l + 2 => /\ n.frames[l + 2].op \in {"start", "page"}
                                         /\ n.frames[l + 2].item = j
<1> DEFINE a == m.queue[e]
           d == DequeueFrame(e, a)
           b == Push(m, d)
           n == BegunItem(b, j)
           l == Len(m.frames)
<1>1. m \in StateType /\ QueuesOK(m) /\ FramesOK(m)
  BY DEF Sound
<1>2. /\ a \in 1..Len(m.arrays) /\ a \in Nat
      /\ \A x \in FxElements : m.queue[x] = a => x = e
  <2>1. a \in 1..Len(m.arrays) /\ \A x \in FxElements : m.queue[x] = a => x = e
    BY <1>1 DEF QueuesOK
  <2> QED BY <2>1, <1>1, StateFields
<1>3. d \in FrameType /\ d.op = "dequeue" /\ d.on = e /\ d.array = a
  BY <1>2, FramesMake DEF DequeueFrame
<1> HIDE DEF a, d
<1>4. FrameMade(m, d)
  BY <1>2, <1>3 DEF FrameMade
<1>5. m.frames # <<>> => Above(m, m.frames[Len(m.frames)], d)
  BY <1>3 DEF TopTakes, Above, OfElement
<1>6. Sound(b)
  BY <1>3, <1>4, <1>5, PushSound
<1>7. /\ OnlyStack(m, b) /\ l \in Nat /\ Len(b.frames) = l + 1 /\ b.frames[l + 1] = d
      /\ \A p \in 1..l : b.frames[p] = m.frames[p]
  BY <1>1, <1>3, PushFields
<1> HIDE DEF b
<1>8. /\ j \in ItemIds(b) /\ b.items[j].kind \in Queueable /\ b.items[j].on = e
      /\ b.items = m.items
  BY <1>7 DEF OnlyStack, ItemIds
<1>9. /\ Runs(b, j).item = j /\ Runs(b, j).op \in {"start", "page"} /\ OfElement(b, Runs(b, j)) = e
  BY <1>6, <1>8, RunsFrame
<1>10. Above(b, b.frames[Len(b.frames)], Runs(b, j))
  <2>1. b.frames[Len(b.frames)] = d /\ OfElement(b, d) = e
    BY <1>3, <1>7 DEF OfElement
  <2> QED BY <2>1, <1>3, <1>9 DEF Above
<1>11. /\ Sound(n) /\ KindsKept(b, n) /\ Len(n.items) = Len(b.items)
       /\ \A i \in ItemIds(b) :
            /\ n.items[i].kind = b.items[i].kind /\ n.items[i].complete = b.items[i].complete
            /\ i # j => n.items[i].called = b.items[i].called
       /\ n.arrays = b.arrays /\ n.queue = b.queue /\ n.timers = b.timers
       /\ n.marks = b.marks /\ n.defer = b.defer
       /\ \A i : i # j => (i \in n.delays) = (i \in b.delays)
       /\ j \in n.delays => n.run[e] = j
       /\ \A x \in FxElements \ {e} : n.run[x] = b.run[x]
       /\ Len(n.frames) \in Len(b.frames)..(Len(b.frames) + 1)
       /\ \A p \in 1..Len(b.frames) : n.frames[p] = b.frames[p]
       /\ Len(n.frames) > Len(b.frames) => n.frames[Len(b.frames) + 1] = Runs(b, j)
  BY <1>6, <1>8, <1>10, BegunFields
<1> HIDE DEF n
<1>12. KindsKept(m, n)
  BY <1>7, <1>11 DEF KindsKept, OnlyStack, ItemIds
<1>13. /\ Len(n.frames) \in (l + 1)..(l + 2) /\ \A p \in 1..l : n.frames[p] = m.frames[p]
       /\ n.frames[l + 1] = d
  BY <1>7, <1>11
<1>14. Len(n.frames) = l + 2 => n.frames[l + 2].op \in {"start", "page"} /\ n.frames[l + 2].item = j
  <2>1. Len(b.frames) + 1 = l + 2
    BY <1>7
  <2>2. Len(n.frames) = l + 2 => Len(n.frames) > Len(b.frames)
    BY <1>7
  <2> QED BY <2>1, <2>2, <1>9, <1>11
<1>15. QED BY <1>3, <1>7, <1>11, <1>12, <1>13, <1>14, SMTT(30) DEF OnlyStack, ItemIds, a, d, b, n

LEMMA BegunOrderly ==
  ASSUME NEW m, Sound(m), NEW e \in FxElements, m.queue[e] # 0, TopTakes(m, e),
         NEW j \in ItemIds(m), m.items[j].on = e, m.items[j].kind \in Queueable
  PROVE  LET n == BegunItem(Push(m, DequeueFrame(e, m.queue[e])), j)
         IN  \A x \in FxElements :
               Orderly(m, x) /\ (x = e => Begins(m, e) = {}) => Orderly(n, x)
<1> DEFINE n == BegunItem(Push(m, DequeueFrame(e, m.queue[e])), j)
           l == Len(m.frames)
<1>1. m \in StateType /\ ItemsOK(m) /\ QueuesOK(m) /\ FramesOK(m)
  BY DEF Sound
<1>2. /\ Sound(n) /\ KindsKept(m, n) /\ Len(n.items) = Len(m.items)
      /\ \A i \in ItemIds(m) :
           /\ n.items[i].kind = m.items[i].kind /\ n.items[i].complete = m.items[i].complete
           /\ i # j => n.items[i].called = m.items[i].called
      /\ n.arrays = m.arrays /\ n.queue = m.queue /\ n.timers = m.timers
      /\ n.marks = m.marks /\ n.defer = m.defer
      /\ \A i : i # j => (i \in n.delays) = (i \in m.delays)
      /\ j \in n.delays => n.run[e] = j
      /\ \A x \in FxElements \ {e} : n.run[x] = m.run[x]
  BY BegunSound
<1>3. /\ l \in Nat /\ Len(n.frames) \in (l + 1)..(l + 2)
      /\ \A p \in 1..l : n.frames[p] = m.frames[p]
      /\ n.frames[l + 1].op = "dequeue" /\ n.frames[l + 1].on = e
      /\ n.frames[l + 1].array = m.queue[e]
      /\ Len(n.frames) = l + 2 => n.frames[l + 2].op \in {"start", "page"} /\ n.frames[l + 2].item = j
  BY BegunSound
<1> HIDE DEF n
<1>4. n \in StateType /\ ItemsOK(n)
  BY <1>2 DEF Sound
<1>5. ASSUME NEW p \in Depth(n)
      PROVE  \/ p \in 1..l /\ p \in Depth(m) /\ n.frames[p] = m.frames[p]
             \/ p = l + 1
             \/ p = l + 2 /\ Len(n.frames) = l + 2
  BY <1>3 DEF Depth
<1>6. ASSUME NEW x PROVE Shared(m, n, x, l)
  <2>1. \A p \in StopsOf(m, x) : p <= l
    BY <1>3 DEF StopsOf, Depth
  <2>2. \A p \in StopsOf(n, x) : p \in 1..l
    BY <1>3, <1>5 DEF StopsOf
  <2>3. l \in 0..Len(m.frames) /\ l <= Len(n.frames)
    BY <1>3
  <2> QED BY <2>1, <2>2, <2>3, <1>3 DEF Shared
<1>7. ASSUME NEW i \in ItemIds(m), i # j PROVE ItemEases(m, n, i)
  <2>1. FramesFrom(m, n, i)
    BY <1>3, <1>5, <1>7 DEF FramesFrom
  <2>2. TimersFrom(m, n, i)
    <3>1. Len(m.timers) \in Nat
      BY <1>1, StateFields, ItemOf
    <3> QED BY <1>2, <3>1 DEF TimersFrom, Places
  <2> QED BY <1>1, <1>2, <1>4, <1>7, <2>1, <2>2, Eased
<1>8. ItemIds(n) = ItemIds(m)
  BY <1>2 DEF ItemIds
<1>9. ASSUME NEW x \in FxElements, Orderly(m, x), x # e PROVE Orderly(n, x)
  <2>1. \A i \in ItemIds(n) : n.items[i].on = x => ItemEases(m, n, i)
    BY <1>2, <1>7, <1>8, <1>9 DEF KindsKept
  <2>2. EmptiesKept(m, n, x, l)
    BY <1>2, <1>3, <1>5, <1>9 DEF EmptiesKept
  <2>3. Covered(n, x, l)
    <3> SUFFICES ASSUME l \in StopsOf(n, x) PROVE FALSE
      BY DEF Covered
    <3>1. l \in 1..l /\ m.frames[l].op = "stop" /\ m.frames[l].on = x /\ m.frames # <<>>
      <4>1. l \in StopsOf(m, x) /\ l \in Depth(m)
        BY <1>1, <1>4, <1>6, StopsShared
      <4> QED BY <4>1, <1>3 DEF StopsOf, Depth
    <3> QED BY <3>1, <1>9 DEF TopTakes, OfElement
  <2>4. n.queue[x] = m.queue[x] /\ n.run[x] = m.run[x] /\ n.marks[x] >= m.marks[x]
    BY <1>1, <1>2, <1>9, StateFields
  <2> QED BY <1>1, <1>2, <1>4, <1>6, <1>9, <2>1, <2>2, <2>3, <2>4, EasedOrderly
<1>10. ASSUME Orderly(m, e), Begins(m, e) = {} PROVE Orderly(n, e)
  <2>1. Begins(n, e) \subseteq {j}
    <3> SUFFICES ASSUME NEW i \in ItemIds(n), n.items[i].on = e, Lives(n, i), i # j PROVE FALSE
      BY DEF Begins
    <3>1. i \in ItemIds(m) /\ ItemEases(m, n, i)
      BY <1>7, <1>8
    <3>2. Lives(m, i) /\ m.items[i].on = e
      BY <3>1, <1>2 DEF Lives, ItemEases, KindsKept
    <3> QED BY <3>1, <3>2, <1>10 DEF Begins
  <2>2. ASSUME NEW p \in StopsOf(n, e)
        PROVE  /\ Settled(n.frames[p])
               /\ \A q \in 1..(p - 1) :
                    n.frames[q].op \in {"page", "complete", "stop"} =>
                      OfElement(n, n.frames[q]) # e
    <3>1. p \in StopsOf(m, e) /\ p \in Nat /\ p <= l /\ n.frames[p] = m.frames[p] /\ p \in Depth(m)
      BY <1>1, <1>4, <1>6, StopsShared
    <3>2. StopOK(m, e, p)
      BY <3>1, <1>10 DEF Orderly
    <3>3. Settled(n.frames[p])
      <4> SUFFICES ASSUME ~Settled(m.frames[p]) PROVE FALSE
        BY <3>1
      <4>1. p = l /\ m.frames[p].op = "stop"
        BY <3>1, <3>2 DEF StopOK, StopsOf
      <4>2. m.frames # <<>>
        BY <3>1, <4>1 DEF Depth
      <4> QED BY <4>1, <4>2 DEF TopTakes
    <3>4. ASSUME NEW q \in 1..(p - 1), n.frames[q].op \in {"page", "complete", "stop"}
          PROVE  OfElement(n, n.frames[q]) # e
      <4>1. q \in Depth(m) /\ n.frames[q] = m.frames[q]
        BY <3>1, <1>3 DEF Depth
      <4>2. OfElement(m, m.frames[q]) # e
        BY <3>2, <3>4, <4>1 DEF StopOK
      <4>3. FrameMade(m, m.frames[q])
        BY <4>1, <1>1 DEF FramesOK
      <4> QED BY <4>1, <4>2, <4>3, <3>4, <1>2 DEF OfElement, FrameMade, KindsKept
    <3> QED BY <3>3, <3>4
  <2>3. NoEmpties(n, e)
    <3> SUFFICES ASSUME NEW p \in Depth(n), n.frames[p].op = "dequeue", n.frames[p].on = e
                 PROVE  n.arrays[n.frames[p].array] # <<>>
      BY DEF NoEmpties
    <3>1. CASE p \in 1..l
      BY <3>1, <1>2, <1>3, <1>5, <1>10 DEF Orderly, EmptyOnes, Depth
    <3>2. CASE p = l + 1
      BY <3>2, <1>1, <1>2, <1>3 DEF QueuesOK
    <3> QED BY <3>1, <3>2, <1>3, <1>5
  <2>4. Marked(n, e)
    <3>1. Beside(n, e) \subseteq Beside(m, e)
      <4> SUFFICES ASSUME NEW i \in Beside(n, e) PROVE i \in Beside(m, e)
        OBVIOUS
      <4>1. i \in ItemIds(m) /\ n.items[i].kind = m.items[i].kind /\ n.items[i].on = m.items[i].on
        BY <1>2, <1>8 DEF Beside, KindsKept
      <4>2. i # j
        BY <4>1 DEF Beside, Queueable
      <4> QED BY <4>1, <4>2, <1>7 DEF Beside, ItemEases
    <3>2. n.marks[e] >= m.marks[e] /\ Marked(m, e)
      BY <1>1, <1>2, <1>10, StateFields DEF Orderly
    <3> QED BY <3>1, <3>2, <1>1, <1>4, <1>6, MarkedKept
  <2>5. n.queue[e] # 0
    BY <1>2
  <2> QED BY <1>2, <2>1, <2>2, <2>3, <2>4, <2>5, OrderlyBusy
<1> QED BY <1>9, <1>10 DEF n

\* A step that leaves items and the stack as they are, for the order of the queue of e.
LEMMA StillOrderly ==
  ASSUME NEW m, Sound(m), NEW n \in StateType, n.items = m.items, n.frames = m.frames,
         n.delays \subseteq m.delays, \A i \in ItemIds(m) : TimersFrom(m, n, i),
         NEW e \in FxElements, Orderly(m, e),
         n.queue[e] = m.queue[e] \/ Begins(m, e) = {},
         n.run[e] = m.run[e] \/ Begins(m, e) = {}, n.marks[e] >= m.marks[e],
         \/ /\ n.queue[e] \in {0, m.queue[e]}
            /\ \A p \in Depth(m) :
                 m.frames[p].op = "dequeue" /\ m.frames[p].on = e
                   /\ n.arrays[m.frames[p].array] = <<>> => m.arrays[m.frames[p].array] = <<>>
         \/ Begins(m, e) = {} /\ (n.queue[e] = 0 \/ NoEmpties(n, e))
  PROVE  Orderly(n, e)
<1>0. m \in StateType /\ ItemsOK(m) /\ FramesOK(m)
  BY DEF Sound
<1> DEFINE l == Len(m.frames)
<1>1. l \in Nat /\ Len(m.items) \in Nat /\ Depth(n) = Depth(m) /\ ItemIds(n) = ItemIds(m)
  BY <1>0, StateFields, ItemOf DEF Depth, ItemIds
<1>2. KindsKept(m, n)
  BY <1>1 DEF KindsKept
<1>3. Shared(m, n, e, l)
  BY <1>1 DEF Shared, StopsOf, Depth
<1>4. ASSUME NEW i \in ItemIds(n) PROVE ItemEases(m, n, i)
  <2>1. FramesFrom(m, n, i)
    BY <1>1 DEF FramesFrom
  <2>2. TimersFrom(m, n, i) /\ i \in ItemIds(m)
    BY <1>1
  <2> QED BY <1>0, <2>1, <2>2, Eased
<1>5. \/ n.queue[e] \in {0, m.queue[e]} /\ EmptiesKept(m, n, e, l)
      \/ Begins(m, e) = {} /\ (n.queue[e] = 0 \/ NoEmpties(n, e))
  BY <1>1 DEF EmptiesKept, Depth
<1>6. Covered(n, e, l)
  BY DEF Covered
<1>7. \A i \in ItemIds(n) : n.items[i].on = e => ItemEases(m, n, i)
  BY <1>4
<1> QED BY <1>0, <1>2, <1>3, <1>5, <1>6, <1>7, EasedOrderly

LEMMA SameTimers ==
  ASSUME NEW m \in StateType, NEW n, n.timers = m.timers, NEW i
  PROVE  TimersFrom(m, n, i)
<1>1. Len(m.timers) \in Nat
  BY StateFields, ItemOf
<1> QED BY <1>1 DEF TimersFrom, Places

\* handleQueueMarkDefer only sets a timeout.
LEMMA MarkDeferFields ==
  ASSUME NEW m \in StateType, NEW e \in FxElements, NEW src
  PROVE  LET n == QueueMarkDefer(m, e, src)
         IN  /\ n \in StateType /\ n.arrays = m.arrays /\ n.queue = m.queue /\ n.run = m.run
             /\ n.items = m.items /\ n.timers = m.timers /\ n.interval = m.interval
             /\ n.delays = m.delays /\ n.marks = m.marks /\ n.defer = m.defer
             /\ n.frames = m.frames
<1> DEFINE d == Append(m.deferrals, <<e, m.defer[e]>>)
           n == [m EXCEPT !.deferrals = d]
<1>1. m.deferrals \in Seq(FxElements \X Nat) /\ m.defer[e] \in Nat
  BY StateFields
<1>2. d \in Seq(FxElements \X Nat)
  BY <1>1
<1> HIDE DEF d
<1>3. n \in StateType
  BY <1>2 DEF StateType
<1>4. /\ n.arrays = m.arrays /\ n.queue = m.queue /\ n.run = m.run
      /\ n.items = m.items /\ n.timers = m.timers /\ n.interval = m.interval
      /\ n.delays = m.delays /\ n.marks = m.marks /\ n.defer = m.defer
      /\ n.frames = m.frames
  BY DEF StateType
<1>5. QueueMarkDefer(m, e, src) = n \/ QueueMarkDefer(m, e, src) = m
  BY DEF QueueMarkDefer, d
<1> HIDE DEF n
<1> QED BY <1>3, <1>4, <1>5

LEMMA EmptiedFields ==
  ASSUME NEW m \in StateType, NEW e \in FxElements
  PROVE  LET n == EmptiedQueue(m, e)
         IN  /\ n \in StateType /\ n.arrays = m.arrays /\ n.items = m.items
             /\ n.timers = m.timers /\ n.interval = m.interval /\ n.delays = m.delays
             /\ n.marks = m.marks /\ n.defer = m.defer /\ n.frames = m.frames
             /\ n.queue[e] = 0 /\ n.run[e] = 0
             /\ \A x \in FxElements \ {e} : n.queue[x] = m.queue[x] /\ n.run[x] = m.run[x]
<1> DEFINE b == [m EXCEPT !.queue[e] = 0, !.run[e] = 0]
<1>1. m.queue \in [FxElements -> Nat] /\ m.run \in [FxElements -> Nat]
  BY StateFields
<1>2. /\ b.queue = [m.queue EXCEPT ![e] = 0] /\ b.run = [m.run EXCEPT ![e] = 0]
      /\ b.arrays = m.arrays /\ b.items = m.items /\ b.timers = m.timers
      /\ b.interval = m.interval /\ b.delays = m.delays /\ b.marks = m.marks
      /\ b.defer = m.defer /\ b.frames = m.frames
  BY DEF StateType
<1>3. b \in StateType
  <2>1. [m.queue EXCEPT ![e] = 0] \in [FxElements -> Nat]
        /\ [m.run EXCEPT ![e] = 0] \in [FxElements -> Nat]
    BY <1>1
  <2>2. b = [m EXCEPT !.queue = [m.queue EXCEPT ![e] = 0], !.run = [m.run EXCEPT ![e] = 0]]
    BY DEF StateType
  <2> QED BY <2>1, <2>2 DEF StateType
<1>4. EmptiedQueue(m, e) = QueueMarkDefer(b, e, "queue")
  BY DEF EmptiedQueue
<1> HIDE DEF b
<1>5. /\ b.queue[e] = 0 /\ b.run[e] = 0
      /\ \A x \in FxElements \ {e} : b.queue[x] = m.queue[x] /\ b.run[x] = m.run[x]
  BY <1>1, <1>2
<1> DEFINE n == QueueMarkDefer(b, e, "queue")
<1>6. /\ n \in StateType /\ n.arrays = b.arrays /\ n.queue = b.queue /\ n.run = b.run
      /\ n.items = b.items /\ n.timers = b.timers /\ n.interval = b.interval
      /\ n.delays = b.delays /\ n.marks = b.marks /\ n.defer = b.defer
      /\ n.frames = b.frames
  BY <1>3, MarkDeferFields
<1> HIDE DEF n
<1>7. EmptiedQueue(m, e) = n
  BY <1>4 DEF n
<1> QED BY <1>2, <1>5, <1>6, <1>7

LEMMA EmptiedOrderly ==
  ASSUME NEW m, Sound(m), NEW e \in FxElements
  PROVE  LET n == EmptiedQueue(m, e)
         IN  /\ Sound(n)
             /\ \A x \in FxElements :
                  Orderly(m, x) /\ (x = e => Begins(m, e) = {}) => Orderly(n, x)
<1> DEFINE n == EmptiedQueue(m, e)
<1>0. m \in StateType /\ ItemsOK(m)
  BY DEF Sound
<1>1. /\ n \in StateType /\ n.arrays = m.arrays /\ n.items = m.items
      /\ n.timers = m.timers /\ n.interval = m.interval /\ n.delays = m.delays
      /\ n.marks = m.marks /\ n.defer = m.defer /\ n.frames = m.frames
      /\ n.queue[e] = 0 /\ n.run[e] = 0
      /\ \A x \in FxElements \ {e} : n.queue[x] = m.queue[x] /\ n.run[x] = m.run[x]
  BY <1>0, EmptiedFields
<1> HIDE DEF n
<1>2. Sound(n)
  <2>1. \A k \in Places(n) : \E l \in Places(m) : n.timers[k].item = m.timers[l].item
    BY <1>1 DEF Places
  <2>2. \A x \in FxElements : n.queue[x] \in {0, m.queue[x]}
    BY <1>1
  <2>3. \A x \in FxElements : n.defer[x] \in 0..Len(m.items)
    BY <1>0, <1>1 DEF ItemsOK
  <2> QED BY <1>1, <2>1, <2>2, <2>3, QuietSound
<1>3. ASSUME NEW x \in FxElements, Orderly(m, x), x = e => Begins(m, e) = {}
      PROVE  Orderly(n, x)
  <2>1. \A i \in ItemIds(m) : TimersFrom(m, n, i)
    BY <1>0, <1>1, SameTimers
  <2>2. n.queue[x] = m.queue[x] \/ (n.queue[x] = 0 /\ Begins(m, x) = {})
    BY <1>1, <1>3
  <2>3. n.run[x] = m.run[x] \/ Begins(m, x) = {}
    BY <1>1, <1>3
  <2>4. n.marks[x] >= m.marks[x]
    BY <1>0, <1>1, StateFields
  <2>5. \A p \in Depth(m) :
              m.frames[p].op = "dequeue" /\ m.frames[p].on = x
                /\ n.arrays[m.frames[p].array] = <<>> => m.arrays[m.frames[p].array] = <<>>
    BY <1>1
  <2> QED BY <1>1, <1>3, <2>1, <2>2, <2>3, <2>4, <2>5, StillOrderly
<1> QED BY <1>2, <1>3 DEF n

\* An array of the queues is written; with it, perhaps, its element has no queue any more.
Written(m, n, e, r) ==
  /\ m.queue[e] # 0 /\ r \in Seq(Nat) /\ ArrayOK(m, r)
  /\ \A k \in 2..Len(r) : m.items[r[k]].on = e /\ m.items[r[k]].kind \in Queueable
  /\ n.arrays = [m.arrays EXCEPT ![m.queue[e]] = r]
  /\ n.items = m.items /\ n.timers = m.timers /\ n.delays = m.delays /\ n.defer = m.defer
  /\ n.frames = m.frames /\ n.marks = m.marks
  /\ \A x \in FxElements \ {e} : n.queue[x] = m.queue[x] /\ n.run[x] = m.run[x]
  /\ r = <<>> => n.queue[e] = 0
  /\ r # <<>> => n.queue[e] = m.queue[e]

LEMMA ArrayWritten ==
  ASSUME NEW m, Sound(m), NEW e \in FxElements, NEW r, NEW n \in StateType, Written(m, n, e, r)
  PROVE  /\ Sound(n)
         /\ \A x \in FxElements :
              /\ Orderly(m, x)
              /\ x = e => Begins(m, e) = {} \/ (r # <<>> /\ n.run[e] = m.run[e])
              => Orderly(n, x)
<1> USE DEF Written
<1> DEFINE a == m.queue[e]
<1>0. m \in StateType /\ ItemsOK(m) /\ QueuesOK(m) /\ FramesOK(m)
  BY DEF Sound
<1>1. /\ Len(m.arrays) \in Nat /\ Len(m.items) \in Nat /\ m.arrays \in Seq(Seq(Nat))
      /\ ItemIds(n) = ItemIds(m) /\ Depth(n) = Depth(m) /\ Places(n) = Places(m)
  BY <1>0, StateFields, ItemOf DEF ItemIds, Depth, Places
<1>2. a \in 1..Len(m.arrays)
  BY <1>0 DEF QueuesOK
<1>3. /\ Len(n.arrays) = Len(m.arrays)
      /\ \A k \in 1..Len(m.arrays) : n.arrays[k] = IF k = a THEN r ELSE m.arrays[k]
  BY <1>1, <1>2, Overwritten, SMTT(30)
<1>4. \A x \in FxElements : n.queue[x] \in {0, m.queue[x]}
  OBVIOUS
<1>5. KindsKept(m, n)
  BY <1>1 DEF KindsKept
<1>6. ItemsOK(n)
  BY <1>0, <1>1 DEF ItemsOK
<1>7. QueuesOK(n)
  <2>1. ASSUME NEW k \in 1..Len(n.arrays) PROVE ArrayOK(n, n.arrays[k])
    <3>1. ArrayOK(n, n.arrays[k]) = ArrayOK(m, n.arrays[k])
      BY <1>1 DEF ArrayOK
    <3> QED BY <3>1, <1>0, <1>3 DEF QueuesOK
  <2>2. ASSUME NEW x \in FxElements, n.queue[x] # 0
        PROVE  /\ n.queue[x] \in 1..Len(n.arrays)
               /\ n.arrays[n.queue[x]] # <<>>
               /\ \A j \in 2..Len(n.arrays[n.queue[x]]) :
                    LET i == n.arrays[n.queue[x]][j]
                    IN  n.items[i].on = x /\ n.items[i].kind \in Queueable
    <3>1. n.queue[x] = m.queue[x] /\ m.queue[x] \in 1..Len(m.arrays)
      BY <2>2, <1>0, <1>4 DEF QueuesOK
    <3>2. CASE x = e
      <4>1. n.arrays[n.queue[x]] = r /\ r # <<>>
        BY <3>1, <3>2, <2>2, <1>3
      <4> QED BY <3>1, <3>2, <4>1, <1>3
    <3>3. CASE x # e
      <4>1. m.queue[x] # a
        BY <3>1, <3>3, <2>2, <1>0 DEF QueuesOK
      <4>2. n.arrays[n.queue[x]] = m.arrays[m.queue[x]]
        BY <4>1, <3>1, <1>3
      <4>3. m.queue[x] # 0 /\ QueuesOK(m)
        BY <3>1, <2>2, <1>0
      <4>4. /\ m.arrays[m.queue[x]] # <<>>
            /\ \A j \in 2..Len(m.arrays[m.queue[x]]) :
                 LET i == m.arrays[m.queue[x]][j]
                 IN  m.items[i].on = x /\ m.items[i].kind \in Queueable
        BY ONLY x \in FxElements, <4>3 DEF QueuesOK
      <4>5. n.items = m.items
        OBVIOUS
      <4> QED BY ONLY <3>1, <4>2, <4>4, <4>5, <1>3
    <3> QED BY <3>2, <3>3
  <2>3. \A x, y \in FxElements : n.queue[x] = n.queue[y] /\ n.queue[x] # 0 => x = y
    BY <1>0, <1>4, SMTT(30) DEF QueuesOK
  <2> QED BY <2>1, <2>2, <2>3 DEF QueuesOK
<1>8. FramesOK(n)
  <2>1. \A p \in Depth(m) : m.frames[p].op = "start" =>
          m.frames[p].left \subseteq n.items[m.frames[p].item].todo
    BY <1>0 DEF FramesOK, FrameMade
  <2>2. Len(m.arrays) <= Len(n.arrays)
    BY <1>1, <1>3
  <2>3. \A x \in FxElements : n.queue[x] \in {0, m.queue[x]} \/ n.queue[x] > Len(m.arrays)
    BY <1>4
  <2>4. \A i \in ItemIds(m) : ~m.items[i].complete => ~n.items[i].complete
    OBVIOUS
  <2> QED BY <1>0, <1>5, <2>1, <2>2, <2>3, <2>4, FramesSame
<1>9. Sound(n)
  BY <1>6, <1>7, <1>8 DEF Sound
<1>10. ASSUME NEW x \in FxElements, Orderly(m, x),
              x = e => Begins(m, e) = {} \/ (r # <<>> /\ n.run[e] = m.run[e])
       PROVE  Orderly(n, x)
  <2>1. \A i \in ItemIds(m) : TimersFrom(m, n, i)
    BY <1>0, SameTimers
  <2>2. n.queue[x] = m.queue[x] \/ (n.queue[x] = 0 /\ Begins(m, x) = {})
    BY <1>10
  <2>3. n.run[x] = m.run[x] \/ Begins(m, x) = {}
    BY <1>10
  <2>4. n.marks[x] >= m.marks[x]
    BY <1>0, StateFields
  <2>5. \/ /\ n.queue[x] \in {0, m.queue[x]}
           /\ \A p \in Depth(m) :
                m.frames[p].op = "dequeue" /\ m.frames[p].on = x
                  /\ n.arrays[m.frames[p].array] = <<>> => m.arrays[m.frames[p].array] = <<>>
        \/ Begins(m, x) = {} /\ n.queue[x] = 0
    <3> SUFFICES ASSUME NEW p \in Depth(m), m.frames[p].op = "dequeue", m.frames[p].on = x,
                        n.arrays[m.frames[p].array] = <<>>, m.arrays[m.frames[p].array] # <<>>
                 PROVE  n.queue[x] = 0 /\ Begins(m, x) = {}
      BY <1>4
    <3>1. FrameMade(m, m.frames[p])
      BY <1>0 DEF FramesOK
    <3>2. m.frames[p].array = a /\ r = <<>> /\ x = e
      BY <3>1, <1>3 DEF FrameMade
    <3> QED BY <3>2, <1>10
  <2> QED BY <1>10, <2>1, <2>2, <2>3, <2>4, <2>5, StillOrderly
<1> QED BY <1>9, <1>10

LEMMA DequeueGood ==
  ASSUME NEW m, Sound(m), NEW e \in FxElements, TopTakes(m, e)
  PROVE  LET n == Dequeue(m, e)
         IN  /\ Sound(n) /\ Len(n.items) = Len(m.items)
             /\ \A x \in FxElements :
                  Orderly(m, x) /\ (x = e => Begins(m, e) = {}) => Orderly(n, x)
<1> DEFINE n == Dequeue(m, e)
           a == m.queue[e]
<1>0. m \in StateType /\ ItemsOK(m) /\ QueuesOK(m) /\ FramesOK(m)
  BY DEF Sound
<1>1. /\ m.arrays \in Seq(Seq(Nat)) /\ m.queue \in [FxElements -> Nat]
      /\ m.run \in [FxElements -> Nat] /\ Len(m.arrays) \in Nat
      /\ \A k \in 1..Len(m.arrays) : m.arrays[k] \in Seq(Nat)
  BY <1>0, StateFields, ItemOf
<1>2. CASE a = 0
  <2>1. n = EmptiedQueue(m, e)
    BY <1>2 DEF Dequeue
  <2>2. n.items = m.items
    BY <2>1, <1>0, EmptiedFields
  <2> QED BY <2>1, <2>2, EmptiedOrderly
<1>3. CASE a # 0
  <2> DEFINE s == m.arrays[a]
             rest == Tail(s)
             r == <<Sentinel>> \o Tail(rest)
  <2>1. /\ a \in 1..Len(m.arrays) /\ s \in Seq(Nat) /\ s # <<>> /\ s[1] = 0
        /\ \A j \in 2..Len(s) :
             s[j] \in ItemIds(m) /\ m.items[s[j]].on = e /\ m.items[s[j]].kind \in Queueable
    BY <1>0, <1>1, <1>3 DEF QueuesOK, ArrayOK
  <2>2. Head(s) = Sentinel
    BY <2>1 DEF Sentinel
  <2>3. CASE rest # <<>>
    <3> DEFINE t == [m EXCEPT !.arrays[a] = r, !.run[e] = 0]
    <3>1. /\ Head(rest) = s[2] /\ 2 \in 2..Len(s) /\ r \in Seq(Nat) /\ r # <<>> /\ r[1] = 0
          /\ \A k \in 2..Len(r) : k + 1 \in 2..Len(s) /\ r[k] = s[k + 1]
      BY <2>1, <2>3, ArrayTaken
    <3>2. n = BegunItem(Push(t, DequeueFrame(e, a)), s[2])
      BY <1>3, <2>1, <2>2, <2>3, <3>1 DEF Dequeue
    <3> HIDE DEF r
    <3>3. /\ t.arrays = [m.arrays EXCEPT ![a] = r] /\ t.run = [m.run EXCEPT ![e] = 0]
          /\ t.queue = m.queue /\ t.items = m.items /\ t.timers = m.timers
          /\ t.delays = m.delays /\ t.marks = m.marks /\ t.defer = m.defer
          /\ t.frames = m.frames
      BY <1>0 DEF StateType
    <3>4. t \in StateType
      <4>1. [m.arrays EXCEPT ![a] = r] \in Seq(Seq(Nat))
        BY <1>1, <2>1, <3>1, Overwritten
      <4>2. [m.run EXCEPT ![e] = 0] \in [FxElements -> Nat]
        BY <1>1
      <4>3. t = [m EXCEPT !.arrays = [m.arrays EXCEPT ![a] = r],
                          !.run = [m.run EXCEPT ![e] = 0]]
        BY <1>0 DEF StateType
      <4> QED BY <1>0, <4>1, <4>2, <4>3 DEF StateType
    <3> HIDE DEF t
    <3>5. /\ Sound(t)
          /\ \A x \in FxElements :
               Orderly(m, x) /\ (x = e => Begins(m, e) = {}) => Orderly(t, x)
      <4>1. ArrayOK(m, r)
        BY <2>1, <3>1 DEF ArrayOK
      <4>2. \A k \in 2..Len(r) : m.items[r[k]].on = e /\ m.items[r[k]].kind \in Queueable
        BY <2>1, <3>1
      <4>3. \A x \in FxElements \ {e} : t.queue[x] = m.queue[x] /\ t.run[x] = m.run[x]
        BY <1>1, <3>3
      <4>4. Written(m, t, e, r)
        BY <1>3, <3>1, <3>3, <4>1, <4>2, <4>3 DEF Written
      <4> QED BY <3>4, <4>4, ArrayWritten
    <3>6. Begins(t, e) = Begins(m, e)
      BY <3>3 DEF Begins, Lives, Moving, HasTimer, Starting, Completing, ItemIds, Depth, Places
    <3>7. TopTakes(t, e)
      BY <3>3 DEF TopTakes, OfElement
    <3>8. /\ t.queue[e] = a /\ s[2] \in ItemIds(t) /\ t.items[s[2]].on = e
          /\ t.items[s[2]].kind \in Queueable
      BY <2>1, <3>1, <3>3 DEF ItemIds
    <3>9. Sound(n) /\ Len(n.items) = Len(t.items)
      BY <1>3, <3>2, <3>5, <3>7, <3>8, BegunSound, SMTT(30)
    <3>10. \A x \in FxElements : Orderly(t, x) /\ (x = e => Begins(t, e) = {}) => Orderly(n, x)
      BY <1>3, <3>2, <3>5, <3>7, <3>8, BegunOrderly
    <3> QED BY <3>3, <3>5, <3>6, <3>9, <3>10
  <2>4. CASE rest = <<>>
    <3> DEFINE t == [m EXCEPT !.arrays[a] = <<>>]
    <3>1. n = EmptiedQueue(t, e)
      BY <1>3, <2>1, <2>2, <2>4 DEF Dequeue
    <3>2. /\ t.arrays = [m.arrays EXCEPT ![a] = <<>>] /\ t.run = m.run
          /\ t.queue = m.queue /\ t.items = m.items /\ t.timers = m.timers
          /\ t.delays = m.delays /\ t.marks = m.marks /\ t.defer = m.defer
          /\ t.frames = m.frames
      BY <1>0 DEF StateType
    <3>3. t \in StateType
      <4>1. [m.arrays EXCEPT ![a] = <<>>] \in Seq(Seq(Nat))
        BY <1>1, <2>1, Overwritten
      <4>2. t = [m EXCEPT !.arrays = [m.arrays EXCEPT ![a] = <<>>]]
        BY <1>0 DEF StateType
      <4> QED BY <1>0, <4>1, <4>2 DEF StateType
    <3> HIDE DEF t
    <3>4. /\ n \in StateType /\ n.arrays = t.arrays /\ n.items = t.items
          /\ n.timers = t.timers /\ n.delays = t.delays
          /\ n.marks = t.marks /\ n.defer = t.defer /\ n.frames = t.frames
          /\ n.queue[e] = 0 /\ n.run[e] = 0
          /\ \A x \in FxElements \ {e} : n.queue[x] = t.queue[x] /\ n.run[x] = t.run[x]
      BY <3>1, <3>3, EmptiedFields
    <3> HIDE DEF n
    <3>5. ArrayOK(m, <<>>) /\ <<>> \in Seq(Nat) /\ Len(<<>>) = 0
      BY DEF ArrayOK
    <3>6. \A k \in 2..Len(<<>>) : m.items[<<>>[k]].on = e /\ m.items[<<>>[k]].kind \in Queueable
      OBVIOUS
    <3>7. /\ n.arrays = [m.arrays EXCEPT ![m.queue[e]] = <<>>]
          /\ n.items = m.items /\ n.timers = m.timers /\ n.delays = m.delays
          /\ n.defer = m.defer /\ n.frames = m.frames /\ n.marks = m.marks
          /\ \A x \in FxElements \ {e} : n.queue[x] = m.queue[x] /\ n.run[x] = m.run[x]
          /\ n.queue[e] = 0
      BY <3>2, <3>4
    <3> DEFINE z == <<>>
    <3> HIDE DEF z
    <3>9. Written(m, n, e, z)
      BY <1>3, <3>5, <3>6, <3>7 DEF Written, z
    <3>8. /\ Sound(n)
          /\ \A x \in FxElements :
               Orderly(m, x) /\ (x = e => Begins(m, e) = {}) => Orderly(n, x)
      BY <3>4, <3>9, ArrayWritten
    <3> QED BY <3>7, <3>8 DEF n
  <2> QED BY <2>3, <2>4
<1> QED BY <1>2, <1>3

\* A new item has not begun.
Fresh(item) ==
  /\ item \in ItemType /\ item.called = 0 /\ (~item.complete => item.todo = {})
  /\ item.kind # "none" => item.on \in FxElements

Added(m, item) == [m EXCEPT !.items = Append(@, item)]

LEMMA AddedFields ==
  ASSUME NEW m \in StateType, NEW item \in ItemType
  PROVE  LET n == Added(m, item)
             l == Len(m.items)
         IN  /\ n \in StateType /\ l \in Nat /\ Len(n.items) = l + 1 /\ n.items[l + 1] = item
             /\ \A i \in ItemIds(m) : n.items[i] = m.items[i]
             /\ n.arrays = m.arrays /\ n.queue = m.queue /\ n.run = m.run
             /\ n.timers = m.timers /\ n.interval = m.interval /\ n.delays = m.delays
             /\ n.marks = m.marks /\ n.defer = m.defer /\ n.deferrals = m.deferrals
             /\ n.frames = m.frames
             /\ KindsKept(m, n) /\ ItemIds(n) = ItemIds(m) \cup {l + 1} /\ l + 1 \notin ItemIds(m)
<1> DEFINE n == Added(m, item)
           l == Len(m.items)
<1>1. m.items \in Seq(ItemType) /\ l \in Nat
  BY StateFields, ItemOf
<1>2. /\ n.items = Append(m.items, item)
      /\ n.arrays = m.arrays /\ n.queue = m.queue /\ n.run = m.run
      /\ n.timers = m.timers /\ n.interval = m.interval /\ n.delays = m.delays
      /\ n.marks = m.marks /\ n.defer = m.defer /\ n.deferrals = m.deferrals
      /\ n.frames = m.frames
  BY DEF Added, StateType
<1>3. /\ Append(m.items, item) \in Seq(ItemType) /\ Len(n.items) = l + 1 /\ n.items[l + 1] = item
      /\ \A i \in 1..l : n.items[i] = m.items[i]
  BY <1>1, <1>2, Pushed
<1>4. n \in StateType
  BY <1>3 DEF Added, StateType
<1> HIDE DEF n
<1>5. KindsKept(m, n)
  BY <1>1, <1>3 DEF KindsKept, ItemIds
<1>6. ItemIds(n) = ItemIds(m) \cup {l + 1} /\ l + 1 \notin ItemIds(m)
  BY <1>1, <1>3 DEF ItemIds
<1>7. QED BY <1>1, <1>2, <1>3, <1>4, <1>5, <1>6 DEF ItemIds, n

LEMMA AddedGood ==
  ASSUME NEW m, Sound(m), NEW item, Fresh(item)
  PROVE  LET n == Added(m, item)
         IN  /\ Sound(n)
             /\ \A x \in FxElements : Orderly(m, x) =>
                  /\ Orderly(n, x) /\ Begins(n, x) \subseteq Begins(m, x)
                  /\ Beside(n, x) \subseteq Beside(m, x)
<1> DEFINE n == Added(m, item)
           l == Len(m.items)
<1>0. m \in StateType /\ ItemsOK(m) /\ QueuesOK(m) /\ FramesOK(m) /\ item \in ItemType
  BY DEF Sound, Fresh
<1>1. /\ n \in StateType /\ l \in Nat /\ Len(n.items) = l + 1 /\ n.items[l + 1] = item
      /\ \A i \in ItemIds(m) : n.items[i] = m.items[i]
      /\ n.arrays = m.arrays /\ n.queue = m.queue /\ n.run = m.run
      /\ n.timers = m.timers /\ n.delays = m.delays
      /\ n.marks = m.marks /\ n.defer = m.defer /\ n.frames = m.frames
      /\ KindsKept(m, n) /\ ItemIds(n) = ItemIds(m) \cup {l + 1} /\ l + 1 \notin ItemIds(m)
  BY <1>0, AddedFields
<1> HIDE DEF n
<1>2. Depth(n) = Depth(m) /\ Places(n) = Places(m) /\ Len(m.frames) \in Nat /\ Len(m.arrays) \in Nat
  BY <1>0, <1>1, StateFields, ItemOf DEF Depth, Places
<1>3. ItemsOK(n)
  <2>1. ASSUME NEW i \in ItemIds(n)
        PROVE  /\ n.items[i].kind # "function" =>
                    n.items[i].called <= 1 /\ (n.items[i].complete => n.items[i].called = 0)
               /\ ~n.items[i].complete => n.items[i].todo = {}
               /\ n.items[i].kind # "none" => n.items[i].on \in FxElements
    <3>1. CASE i \in ItemIds(m)
      BY <3>1, <1>0, <1>1 DEF ItemsOK
    <3>2. CASE i = l + 1
      BY <3>2, <1>1 DEF Fresh
    <3> QED BY <3>1, <3>2, <1>1
  <2>2. \A k \in Places(n) :
          n.timers[k].item \in ItemIds(n) /\ n.items[n.timers[k].item].kind \in Animated
    BY <1>0, <1>1, <1>2 DEF ItemsOK
  <2>3. \A i \in n.delays : i \in ItemIds(n) /\ n.items[i].kind = "delay"
    BY <1>0, <1>1 DEF ItemsOK
  <2>4. \A e \in FxElements : n.defer[e] \in 0..Len(n.items)
    <3>1. \A e \in FxElements : m.defer[e] \in 0..l
      BY <1>0 DEF ItemsOK
    <3> QED BY <3>1, <1>1
  <2> QED BY <2>1, <2>2, <2>3, <2>4 DEF ItemsOK
<1>4. QueuesOK(n)
  BY <1>0, <1>1, QueuesSame
<1>5. \A p \in Depth(m) : FrameMade(m, m.frames[p])
  BY <1>0 DEF FramesOK
<1>6. FramesOK(n)
  <2>1. \A p \in Depth(m) : m.frames[p].op = "start" =>
          m.frames[p].left \subseteq n.items[m.frames[p].item].todo
    BY <1>1, <1>5 DEF FrameMade
  <2>2. Len(m.arrays) <= Len(n.arrays)
    BY <1>1, <1>2
  <2>3. \A x \in FxElements : n.queue[x] \in {0, m.queue[x]} \/ n.queue[x] > Len(m.arrays)
    BY <1>1
  <2>4. \A i \in ItemIds(m) : ~m.items[i].complete => ~n.items[i].complete
    BY <1>1
  <2> QED BY <1>0, <1>1, <2>1, <2>2, <2>3, <2>4, FramesSame
<1>7. Sound(n)
  BY <1>1, <1>3, <1>4, <1>6 DEF Sound
<1>8. ASSUME NEW i \in ItemIds(n) PROVE ItemEases(m, n, i)
  <2>1. CASE i \in ItemIds(m)
    <3>1. FramesFrom(m, n, i)
      BY <1>1, <1>2 DEF FramesFrom
    <3>2. TimersFrom(m, n, i)
      BY <1>0, <1>1, SameTimers
    <3> QED BY <2>1, <3>1, <3>2, <1>0, <1>1, Eased
  <2>2. CASE i = l + 1
    <3>1. \A k \in Places(n) : n.timers[k].item # i
      BY <2>2, <1>0, <1>1, <1>2 DEF ItemsOK
    <3>2. \A p \in Depth(n) : n.frames[p].op \in {"start", "complete"} => n.frames[p].item # i
      BY <2>2, <1>1, <1>2, <1>5 DEF FrameMade
    <3>3. i \notin n.delays
      BY <2>2, <1>0, <1>1 DEF ItemsOK
    <3>4. n.items[i].called = 0
      BY <2>2, <1>1 DEF Fresh
    <3> QED BY <3>1, <3>2, <3>3, <3>4 DEF ItemEases, Moving, HasTimer, Starting, Completing, ToCome
  <2> QED BY <2>1, <2>2, <1>1
<1>9. ASSUME NEW x \in FxElements, Orderly(m, x)
      PROVE  /\ Orderly(n, x) /\ Begins(n, x) \subseteq Begins(m, x)
             /\ Beside(n, x) \subseteq Beside(m, x)
  <2> DEFINE k == Len(m.frames)
  <2>1. Shared(m, n, x, k)
    BY <1>1, <1>2 DEF Shared, StopsOf, Depth
  <2>2. EmptiesKept(m, n, x, k)
    BY <1>1, <1>2 DEF EmptiesKept, Depth
  <2>3. Covered(n, x, k)
    BY <1>1 DEF Covered
  <2>4. n.queue[x] = m.queue[x] /\ n.run[x] = m.run[x] /\ n.marks[x] >= m.marks[x]
    BY <1>0, <1>1, StateFields
  <2>5. \A i \in ItemIds(n) : n.items[i].on = x => ItemEases(m, n, i)
    BY <1>8
  <2>6. Orderly(n, x) /\ Begins(n, x) \subseteq Begins(m, x)
    BY <1>0, <1>1, <1>9, <2>1, <2>2, <2>3, <2>4, <2>5, EasedOrderly
  <2>7. Calmer(m, n, x)
    BY <1>0, <1>1, <2>5, CalmerThen
  <2> QED BY <2>6, <2>7 DEF Calmer
<1> QED BY <1>7, <1>9 DEF n

\* An array is made for the queue of e, which had none.
Made(m, n, e, r) ==
  /\ m.queue[e] = 0 /\ r \in Seq(Nat) /\ r # <<>> /\ r[1] = 0 /\ Len(r) = 1
  /\ Len(n.arrays) = Len(m.arrays) + 1 /\ n.arrays[Len(m.arrays) + 1] = r
  /\ \A k \in 1..Len(m.arrays) : n.arrays[k] = m.arrays[k]
  /\ n.queue = [m.queue EXCEPT ![e] = Len(m.arrays) + 1] /\ n.run = [m.run EXCEPT ![e] = 0]
  /\ n.items = m.items /\ n.timers = m.timers /\ n.delays = m.delays /\ n.defer = m.defer
  /\ n.frames = m.frames /\ n.marks = m.marks

LEMMA ArrayMade ==
  ASSUME NEW m, Sound(m), NEW e \in FxElements, NEW r, NEW n \in StateType, Made(m, n, e, r)
  PROVE  /\ Sound(n)
         /\ \A x \in FxElements :
              Orderly(m, x) /\ (x = e => Begins(m, e) = {} /\ NoEmpties(m, e)) => Orderly(n, x)
<1> USE DEF Made
<1> DEFINE l == Len(m.arrays)
<1>0. m \in StateType /\ ItemsOK(m) /\ QueuesOK(m) /\ FramesOK(m)
  BY DEF Sound
<1>1. /\ l \in Nat /\ Len(m.items) \in Nat
      /\ ItemIds(n) = ItemIds(m) /\ Depth(n) = Depth(m) /\ Places(n) = Places(m)
  BY <1>0, StateFields, ItemOf DEF ItemIds, Depth, Places
<1>2. /\ n.queue[e] = l + 1 /\ n.run[e] = 0
      /\ \A x \in FxElements \ {e} : n.queue[x] = m.queue[x] /\ n.run[x] = m.run[x]
  BY <1>0, StateFields
<1>3. \A x \in FxElements : m.queue[x] # 0 => m.queue[x] \in 1..l
  BY <1>0 DEF QueuesOK
<1>4. KindsKept(m, n)
  BY <1>1 DEF KindsKept
<1>5. ItemsOK(n)
  BY <1>0, <1>1 DEF ItemsOK
<1>6. QueuesOK(n)
  <2>1. ASSUME NEW k \in 1..Len(n.arrays) PROVE ArrayOK(n, n.arrays[k])
    <3>1. ArrayOK(n, n.arrays[k]) = ArrayOK(m, n.arrays[k])
      BY <1>1 DEF ArrayOK
    <3>2. CASE k \in 1..l
      BY <3>1, <3>2, <1>0 DEF QueuesOK
    <3>3. CASE k = l + 1
      BY <3>1, <3>3 DEF ArrayOK
    <3> QED BY <3>2, <3>3, <1>1
  <2>2. ASSUME NEW x \in FxElements, n.queue[x] # 0
        PROVE  /\ n.queue[x] \in 1..Len(n.arrays)
               /\ n.arrays[n.queue[x]] # <<>>
               /\ \A j \in 2..Len(n.arrays[n.queue[x]]) :
                    LET i == n.arrays[n.queue[x]][j]
                    IN  n.items[i].on = x /\ n.items[i].kind \in Queueable
    <3>1. CASE x = e
      BY <3>1, <1>1, <1>2, SMTT(30)
    <3>2. CASE x # e
      <4>1. n.queue[x] = m.queue[x] /\ m.queue[x] # 0 /\ m.queue[x] \in 1..l
        BY <3>2, <2>2, <1>2, <1>3
      <4>2. /\ m.arrays[m.queue[x]] # <<>>
            /\ \A j \in 2..Len(m.arrays[m.queue[x]]) :
                 LET i == m.arrays[m.queue[x]][j]
                 IN  m.items[i].on = x /\ m.items[i].kind \in Queueable
        BY <4>1, <1>0 DEF QueuesOK
      <4>3. n.arrays[n.queue[x]] = m.arrays[m.queue[x]] /\ n.queue[x] \in 1..Len(n.arrays)
        BY <4>1, <1>1
      <4>4. n.items = m.items
        OBVIOUS
      <4> QED BY ONLY <4>2, <4>3, <4>4
    <3> QED BY <3>1, <3>2
  <2>3. ASSUME NEW x \in FxElements, NEW y \in FxElements,
               n.queue[x] = n.queue[y], n.queue[x] # 0
        PROVE  x = y
    <3>1. x # e /\ y # e => x = y
      BY <2>3, <1>0, <1>2, SMTT(30) DEF QueuesOK
    <3> QED BY <3>1, <2>3, <1>1, <1>2, <1>3
  <2> QED BY <2>1, <2>2, <2>3 DEF QueuesOK
<1>7. \A p \in Depth(m) : FrameMade(m, m.frames[p])
  BY <1>0 DEF FramesOK
<1>8. FramesOK(n)
  <2>1. \A p \in Depth(m) : m.frames[p].op = "start" =>
          m.frames[p].left \subseteq n.items[m.frames[p].item].todo
    BY <1>7 DEF FrameMade
  <2>2. Len(m.arrays) <= Len(n.arrays)
    BY <1>1
  <2>3. \A x \in FxElements : n.queue[x] \in {0, m.queue[x]} \/ n.queue[x] > Len(m.arrays)
    BY <1>1, <1>2
  <2>4. \A i \in ItemIds(m) : ~m.items[i].complete => ~n.items[i].complete
    OBVIOUS
  <2> QED BY <1>0, <1>4, <2>1, <2>2, <2>3, <2>4, FramesSame
<1>9. Sound(n)
  BY <1>5, <1>6, <1>8 DEF Sound
<1>10. \A p \in Depth(m) : m.frames[p].op = "dequeue" =>
         n.arrays[m.frames[p].array] = m.arrays[m.frames[p].array]
  BY <1>7 DEF FrameMade
<1>11. ASSUME NEW x \in FxElements, Orderly(m, x),
              x = e => Begins(m, e) = {} /\ NoEmpties(m, e)
       PROVE  Orderly(n, x)
  <2>1. \A i \in ItemIds(m) : TimersFrom(m, n, i)
    BY <1>0, SameTimers
  <2>2. n.marks[x] >= m.marks[x] /\ n.delays \subseteq m.delays
    BY <1>0, StateFields
  <2>3. CASE x = e
    <3>1. NoEmpties(n, e)
      BY <2>3, <1>1, <1>10, <1>11 DEF NoEmpties
    <3> QED BY <2>1, <2>2, <2>3, <3>1, <1>11, StillOrderly
  <2>4. CASE x # e
    <3>1. n.queue[x] = m.queue[x] /\ n.run[x] = m.run[x]
      BY <2>4, <1>2
    <3> QED BY <2>1, <2>2, <3>1, <1>10, <1>11, StillOrderly
  <2> QED BY <2>3, <2>4
<1> QED BY <1>9, <1>11

LEMMA QueuedGood ==
  ASSUME NEW m, Sound(m), NEW e \in FxElements, NEW i \in ItemIds(m), m.items[i].on = e,
         m.items[i].kind \in Queueable, TopTakes(m, e)
  PROVE  LET n == Queued(m, e, i)
         IN  /\ Sound(n) /\ Len(n.items) = Len(m.items)
             /\ \A x \in FxElements :
                  /\ Orderly(m, x)
                  /\ x = e /\ m.queue[e] = 0 => Begins(m, e) = {} /\ NoEmpties(m, e)
                  => Orderly(n, x)
<1> DEFINE n == Queued(m, e, i)
           a == m.queue[e]
           l == Len(m.arrays)
<1>0. m \in StateType /\ ItemsOK(m) /\ QueuesOK(m) /\ FramesOK(m)
  BY DEF Sound
<1>1. /\ m.arrays \in Seq(Seq(Nat)) /\ m.queue \in [FxElements -> Nat]
      /\ m.run \in [FxElements -> Nat] /\ l \in Nat
      /\ \A k \in 1..l : m.arrays[k] \in Seq(Nat)
  BY <1>0, StateFields, ItemOf
<1>2. i \in Nat \ {0}
  BY <1>0, StateFields, ItemOf DEF ItemIds
<1>3. CASE a # 0
  <2> DEFINE s == m.arrays[a]
             r == Append(s, i)
             t == [m EXCEPT !.arrays[a] = r]
  <2>1. /\ a \in 1..l /\ s \in Seq(Nat) /\ s # <<>> /\ s[1] = 0
        /\ \A j \in 2..Len(s) :
             s[j] \in ItemIds(m) /\ m.items[s[j]].on = e /\ m.items[s[j]].kind \in Queueable
    BY <1>0, <1>1, <1>3 DEF QueuesOK, ArrayOK
  <2> HIDE DEF s
  <2>2. /\ r \in Seq(Nat) /\ Len(r) = Len(s) + 1 /\ r[Len(s) + 1] = i
        /\ \A k \in 1..Len(s) : r[k] = s[k]
    BY <2>1, <1>2, Pushed
  <2>3. r # <<>> /\ r[1] = 0 /\ Len(s) \in Nat \ {0}
    BY <2>1, <2>2
  <2> HIDE DEF r
  <2>4. /\ t.arrays = [m.arrays EXCEPT ![a] = r] /\ t.run = m.run
        /\ t.queue = m.queue /\ t.items = m.items /\ t.timers = m.timers
        /\ t.delays = m.delays /\ t.marks = m.marks /\ t.defer = m.defer
        /\ t.frames = m.frames
    BY <1>0 DEF StateType, s
  <2>5. t \in StateType
    <3>1. [m.arrays EXCEPT ![a] = r] \in Seq(Seq(Nat))
      BY <1>1, <2>1, <2>2, Overwritten
    <3>2. t = [m EXCEPT !.arrays = [m.arrays EXCEPT ![a] = r]]
      BY <1>0 DEF StateType
    <3> QED BY <1>0, <3>1, <3>2 DEF StateType
  <2>6. n = t
    <3>1. t.arrays[t.queue[e]] = r
      BY <2>1, <2>4, <1>1 DEF s
    <3>2. Head(r) = Sentinel
      BY <2>2, <2>3 DEF Sentinel
    <3>3. n = IF Head(t.arrays[t.queue[e]]) = Sentinel THEN t ELSE Dequeue(t, e)
      BY <1>3 DEF Queued, r, s
    <3> QED BY <3>1, <3>2, <3>3
  <2> HIDE DEF t, n
  <2>7. Written(m, t, e, r)
    <3>1. \A k \in 2..Len(r) : /\ r[k] \in ItemIds(m) /\ m.items[r[k]].on = e
                               /\ m.items[r[k]].kind \in Queueable
      <4> SUFFICES ASSUME NEW k \in 2..Len(r)
                   PROVE  /\ r[k] \in ItemIds(m) /\ m.items[r[k]].on = e
                          /\ m.items[r[k]].kind \in Queueable
        OBVIOUS
      <4>1. (k \in 2..Len(s) /\ k \in 1..Len(s)) \/ k = Len(s) + 1
        BY <2>2, <2>3
      <4> QED BY <4>1, <2>1, <2>2
    <3> QED BY <3>1, <2>2, <2>3, <2>4, <1>3 DEF Written, ArrayOK
  <2>8. /\ Sound(t)
        /\ \A x \in FxElements :
             /\ Orderly(m, x)
             /\ x = e => Begins(m, e) = {} \/ (r # <<>> /\ t.run[e] = m.run[e])
             => Orderly(t, x)
    BY <2>5, <2>7, ArrayWritten
  <2>9. Sound(t) /\ Len(t.items) = Len(m.items) /\ \A x \in FxElements : Orderly(m, x) => Orderly(t, x)
    BY <2>3, <2>4, <2>8
  <2> QED BY <2>6, <2>9 DEF n
<1>4. CASE a = 0
  <2> DEFINE new == [m EXCEPT !.arrays = Append(@, <<i>>), !.queue[e] = l + 1]
             r == <<Sentinel>> \o Tail(<<i>>)
             t == [new EXCEPT !.arrays[l + 1] = r, !.run[e] = 0]
  <2>1. r \in Seq(Nat) /\ r # <<>> /\ r[1] = 0 /\ Len(r) = 1
    BY DEF Sentinel
  <2>2. /\ new.arrays = Append(m.arrays, <<i>>) /\ new.queue = [m.queue EXCEPT ![e] = l + 1]
        /\ new.queue[e] = l + 1 /\ new.arrays[l + 1] = <<i>>
    BY <1>0, <1>1 DEF StateType
  <2>3. n = Dequeue(new, e)
    BY <1>2, <1>4, <2>2 DEF Queued, Sentinel
  <2>4. Head(<<i>>) = i /\ i # Sentinel /\ <<i>> # <<>> /\ l + 1 # 0
    BY <1>1, <1>2 DEF Sentinel
  <2>5. n = BegunItem(Push(t, DequeueFrame(e, l + 1)), i)
    BY <2>2, <2>3, <2>4 DEF Dequeue
  <2> HIDE DEF r, n
  <2>6. /\ t.arrays = [Append(m.arrays, <<i>>) EXCEPT ![l + 1] = r]
        /\ t.run = [m.run EXCEPT ![e] = 0] /\ t.queue = [m.queue EXCEPT ![e] = l + 1]
        /\ t.items = m.items /\ t.timers = m.timers
        /\ t.delays = m.delays /\ t.marks = m.marks /\ t.defer = m.defer
        /\ t.frames = m.frames
    BY <1>0 DEF StateType
  <2>7. /\ t.arrays \in Seq(Seq(Nat)) /\ Len(t.arrays) = l + 1 /\ t.arrays[l + 1] = r
        /\ \A k \in 1..l : t.arrays[k] = m.arrays[k]
    <3> DEFINE w == Append(m.arrays, <<i>>)
    <3>0. <<i>> \in Seq(Nat)
      BY <1>2
    <3>1. w \in Seq(Seq(Nat)) /\ Len(w) = l + 1 /\ \A k \in 1..l : w[k] = m.arrays[k]
      BY <3>0, <1>1, Pushed
    <3> HIDE DEF w
    <3>2. LET v == [w EXCEPT ![l + 1] = r]
          IN  /\ v \in Seq(Seq(Nat)) /\ Len(v) = Len(w)
              /\ \A j \in 1..Len(w) : v[j] = IF j = l + 1 THEN r ELSE w[j]
      BY <3>1, <2>1, <1>1, Overwritten
    <3>3. t.arrays = [w EXCEPT ![l + 1] = r]
      BY <2>6 DEF w
    <3> HIDE DEF t
    <3> QED BY <3>1, <3>2, <3>3, <1>1
  <2>8. t \in StateType
    <3>1. [m.queue EXCEPT ![e] = l + 1] \in [FxElements -> Nat]
          /\ [m.run EXCEPT ![e] = 0] \in [FxElements -> Nat]
      BY <1>1
    <3>2. t = [m EXCEPT !.arrays = [Append(m.arrays, <<i>>) EXCEPT ![l + 1] = r],
                        !.queue = [m.queue EXCEPT ![e] = l + 1],
                        !.run = [m.run EXCEPT ![e] = 0]]
      BY <1>0 DEF StateType
    <3>3. [Append(m.arrays, <<i>>) EXCEPT ![l + 1] = r] \in Seq(Seq(Nat))
      BY <2>6, <2>7
    <3> QED BY <1>0, <3>1, <3>2, <3>3 DEF StateType
  <2> HIDE DEF t, new
  <2>9. /\ Sound(t)
        /\ \A x \in FxElements :
              Orderly(m, x) /\ (x = e => Begins(m, e) = {} /\ NoEmpties(m, e)) => Orderly(t, x)
    <3>1. Made(m, t, e, r)
      BY <1>4, <2>1, <2>6, <2>7 DEF Made
    <3> QED BY <2>8, <3>1, ArrayMade
  <2>10. Begins(t, e) = Begins(m, e)
    BY <2>6 DEF Begins, Lives, Moving, HasTimer, Starting, Completing, ItemIds, Depth, Places
  <2>11. TopTakes(t, e)
    BY <2>6 DEF TopTakes, OfElement
  <2>12. /\ t.queue[e] = l + 1 /\ l + 1 # 0 /\ i \in ItemIds(t) /\ t.items[i].on = e
         /\ t.items[i].kind \in Queueable
    BY <2>6, <1>1 DEF ItemIds
  <2>13. Sound(n) /\ Len(n.items) = Len(t.items)
    BY <2>5, <2>9, <2>11, <2>12, BegunSound
  <2>14. \A x \in FxElements : Orderly(t, x) /\ (x = e => Begins(t, e) = {}) => Orderly(n, x)
    BY <2>5, <2>9, <2>11, <2>12, BegunOrderly
  <2> QED BY <1>4, <2>6, <2>9, <2>10, <2>13, <2>14 DEF n
<1> QED BY <1>3, <1>4

\* An item of which a property has finished, and one of which that was the last.
LessTodo(m, i, p) == [m EXCEPT !.items[i].todo = @ \ {p}]
Completed(m, i) == [m EXCEPT !.items[i].complete = FALSE, !.items[i].called = @ + 1]

LEMMA LessTodoFields ==
  ASSUME NEW m, Sound(m), NEW i \in ItemIds(m), NEW p,
         \A q \in Depth(m) : m.frames[q].op = "start" /\ m.frames[q].item = i =>
           p \notin m.frames[q].left
  PROVE  LET n == LessTodo(m, i, p)
         IN  /\ Sound(n) /\ KindsKept(m, n) /\ Len(n.items) = Len(m.items)
             /\ n.items[i].todo = m.items[i].todo \ {p}
             /\ n.items[i].kind = m.items[i].kind /\ n.items[i].complete = m.items[i].complete
             /\ n.items[i].called = m.items[i].called
             /\ \A j \in ItemIds(m) \ {i} : n.items[j] = m.items[j]
             /\ n.arrays = m.arrays /\ n.queue = m.queue /\ n.run = m.run
             /\ n.timers = m.timers /\ n.delays = m.delays /\ n.marks = m.marks
             /\ n.defer = m.defer /\ n.frames = m.frames
<1> DEFINE n == LessTodo(m, i, p)
           r == [m.items[i] EXCEPT !.todo = m.items[i].todo \ {p}]
<1>0. m \in StateType /\ ItemsOK(m) /\ FramesOK(m)
  BY DEF Sound
<1>1. /\ m.items \in Seq(ItemType) /\ m.items[i] \in ItemType /\ m.items[i].todo \in SUBSET Nat
  BY <1>0, ItemFields, StateFields
<1>2. /\ n.items = [m.items EXCEPT ![i] = r]
      /\ n.arrays = m.arrays /\ n.queue = m.queue /\ n.run = m.run
      /\ n.timers = m.timers /\ n.delays = m.delays /\ n.marks = m.marks
      /\ n.defer = m.defer /\ n.frames = m.frames
  BY <1>0 DEF StateType, LessTodo
<1>3. /\ r \in ItemType /\ r.todo = m.items[i].todo \ {p} /\ r.kind = m.items[i].kind
      /\ r.on = m.items[i].on /\ r.complete = m.items[i].complete /\ r.called = m.items[i].called
  BY <1>1 DEF ItemType
<1> HIDE DEF r
<1>4. /\ n.items \in Seq(ItemType) /\ Len(n.items) = Len(m.items)
      /\ \A j \in ItemIds(m) : n.items[j] = IF j = i THEN r ELSE m.items[j]
  BY <1>1, <1>2, <1>3, Overwritten DEF ItemIds
<1>5. n \in StateType
  <2>1. n = [m EXCEPT !.items = [m.items EXCEPT ![i] = r]]
    BY <1>0 DEF LessTodo, r, StateType
  <2> HIDE DEF n
  <2> QED BY <2>1, <1>0, <1>2, <1>4 DEF StateType
<1> HIDE DEF n
<1>6. Sound(n) /\ KindsKept(m, n)
  <2>1. \A j \in ItemIds(m) :
          /\ n.items[j].kind = m.items[j].kind /\ n.items[j].on = m.items[j].on
          /\ ~m.items[j].complete => ~n.items[j].complete
          /\ n.items[j].kind # "function" =>
               n.items[j].called <= 1 /\ (n.items[j].complete => n.items[j].called = 0)
          /\ ~n.items[j].complete => n.items[j].todo = {}
    BY <1>0, <1>3, <1>4 DEF ItemsOK
  <2>2. ASSUME NEW q \in Depth(m), m.frames[q].op = "start"
        PROVE  m.frames[q].left \subseteq n.items[m.frames[q].item].todo
    <3>1. m.frames[q].item \in ItemIds(m) /\ m.frames[q].left \subseteq m.items[m.frames[q].item].todo
      BY <2>2, <1>0 DEF FramesOK, FrameMade
    <3>2. m.frames[q].item = i => p \notin m.frames[q].left
      BY <2>2
    <3> QED BY <3>1, <3>2, <1>3, <1>4
  <2>3. n.delays \subseteq ItemIds(m)
    BY <1>0, <1>2 DEF ItemsOK
  <2>4. \A j \in n.delays : j \in m.delays \/ m.items[j].kind = "delay"
    BY <1>2
  <2> QED BY <1>2, <1>4, <1>5, <2>1, <2>2, <2>3, <2>4, ItemsSound
<1>7. QED BY <1>2, <1>3, <1>4, <1>6 DEF n

LEMMA CompletedFields ==
  ASSUME NEW m, Sound(m), NEW i \in ItemIds(m), m.items[i].kind \in Animated,
         m.items[i].complete, m.items[i].todo = {}
  PROVE  LET n == Completed(m, i)
         IN  /\ Sound(n) /\ KindsKept(m, n) /\ Len(n.items) = Len(m.items)
             /\ n.items[i].kind = m.items[i].kind /\ ~n.items[i].complete
             /\ \A j \in ItemIds(m) \ {i} : n.items[j] = m.items[j]
             /\ n.arrays = m.arrays /\ n.queue = m.queue /\ n.run = m.run
             /\ n.timers = m.timers /\ n.delays = m.delays /\ n.marks = m.marks
             /\ n.defer = m.defer /\ n.frames = m.frames
<1> DEFINE n == Completed(m, i)
           r == [m.items[i] EXCEPT !.complete = FALSE, !.called = m.items[i].called + 1]
<1>0. m \in StateType /\ ItemsOK(m) /\ FramesOK(m)
  BY DEF Sound
<1>1. /\ m.items \in Seq(ItemType) /\ m.items[i] \in ItemType /\ m.items[i].called \in Nat
  BY <1>0, ItemFields, StateFields
<1>2. /\ n.items = [m.items EXCEPT ![i] = r]
      /\ n.arrays = m.arrays /\ n.queue = m.queue /\ n.run = m.run
      /\ n.timers = m.timers /\ n.delays = m.delays /\ n.marks = m.marks
      /\ n.defer = m.defer /\ n.frames = m.frames
  BY <1>0 DEF StateType, Completed
<1>3. /\ r \in ItemType /\ r.todo = m.items[i].todo /\ r.kind = m.items[i].kind
      /\ r.on = m.items[i].on /\ ~r.complete /\ r.called = m.items[i].called + 1
  <2>1. FALSE \in BOOLEAN /\ m.items[i].called + 1 \in Nat
    BY <1>1
  <2>2. r \in ItemType
    BY <1>1, <2>1 DEF ItemType
  <2>3. r.todo = m.items[i].todo /\ r.kind = m.items[i].kind /\ r.on = m.items[i].on
        /\ r.called = m.items[i].called + 1
    BY <1>1 DEF ItemType
  <2>4. ~r.complete
    BY <1>1 DEF ItemType
  <2> QED BY <2>2, <2>3, <2>4
<1> HIDE DEF r
<1>4. /\ n.items \in Seq(ItemType) /\ Len(n.items) = Len(m.items)
      /\ \A j \in ItemIds(m) : n.items[j] = IF j = i THEN r ELSE m.items[j]
  BY <1>1, <1>2, <1>3, Overwritten DEF ItemIds
<1>5. n \in StateType
  <2>1. n = [m EXCEPT !.items = [m.items EXCEPT ![i] = r]]
    BY <1>0 DEF Completed, r, StateType
  <2> HIDE DEF n
  <2> QED BY <2>1, <1>0, <1>2, <1>4 DEF StateType
<1> HIDE DEF n
<1>6. Sound(n) /\ KindsKept(m, n)
  <2>1. m.items[i].called = 0
    BY <1>0 DEF ItemsOK, Animated
  <2>2. ASSUME NEW j \in ItemIds(m)
        PROVE
          /\ n.items[j].kind = m.items[j].kind /\ n.items[j].on = m.items[j].on
          /\ ~m.items[j].complete => ~n.items[j].complete
          /\ n.items[j].kind # "function" =>
               n.items[j].called <= 1 /\ (n.items[j].complete => n.items[j].called = 0)
          /\ ~n.items[j].complete => n.items[j].todo = {}
    BY <2>1, <1>0, <1>3, <1>4 DEF ItemsOK
  <2>3. \A q \in Depth(m) : m.frames[q].op = "start" =>
          m.frames[q].left \subseteq n.items[m.frames[q].item].todo
    BY <1>0, <1>3, <1>4 DEF FramesOK, FrameMade
  <2>4. n.delays \subseteq ItemIds(m)
    BY <1>0, <1>2 DEF ItemsOK
  <2>5. \A j \in n.delays : j \in m.delays \/ m.items[j].kind = "delay"
    BY <1>2
  <2> QED BY <1>2, <1>4, <1>5, <2>2, <2>3, <2>4, <2>5, ItemsSound
<1>7. QED BY <1>2, <1>3, <1>4, <1>6 DEF n

LEMMA AboveKept ==
  ASSUME NEW m, NEW n, KindsKept(m, n), NEW g, NEW f,
         g.op \in {"page", "complete", "start"} => g.item \in ItemIds(m),
         f.op \in {"page", "complete", "start"} => f.item \in ItemIds(m), Above(m, g, f)
  PROVE  Above(n, g, f)
<1>1. g.op \in {"dequeue", "start"} => OfElement(n, g) = OfElement(m, g)
  BY DEF OfElement, KindsKept
<1>2. f.op \in {"page", "start", "complete", "dequeue"} => OfElement(n, f) = OfElement(m, f)
  BY DEF OfElement, KindsKept
<1> QED BY <1>1, <1>2 DEF Above

\* The timer of an animation may finish its property.
Finishes(m, timer) ==
  /\ timer.item \in ItemIds(m) /\ m.items[timer.item].kind \in Animated
  /\ \A q \in Depth(m) : m.frames[q].op = "start" /\ m.frames[q].item = timer.item =>
       timer.property \notin m.frames[q].left
  /\ m.items[timer.item].complete /\ m.items[timer.item].todo \ {timer.property} = {}
       /\ m.frames # <<>> => Above(m, m.frames[Len(m.frames)], CompleteFrame(timer.item))

\* What n is when timer has finished its property.
FinishedTo(m, timer, n) ==
  LET i == timer.item
      l == Len(m.frames)
  IN  /\ Sound(n) /\ KindsKept(m, n) /\ Len(n.items) = Len(m.items)
      /\ n.items[i].kind = m.items[i].kind
      /\ n.items[i].complete => m.items[i].complete
      /\ \A j \in ItemIds(m) \ {i} : n.items[j] = m.items[j]
      /\ n.arrays = m.arrays /\ n.queue = m.queue /\ n.run = m.run
      /\ n.timers = m.timers /\ n.delays = m.delays /\ n.marks = m.marks
      /\ n.defer = m.defer
      /\ \/ n.frames = m.frames
         \/ /\ m.items[i].complete /\ m.items[i].todo \ {timer.property} = {}
            /\ Len(n.frames) = l + 2
            /\ n.frames[l + 1] = CompleteFrame(i) /\ n.frames[l + 2] = PageFrame(i)
            /\ \A p \in 1..l : n.frames[p] = m.frames[p]

LEMMA FinishedFields ==
  ASSUME NEW m, Sound(m), NEW timer, Finishes(m, timer)
  PROVE  FinishedTo(m, timer, Finished(m, timer))
<1> USE DEF Finishes
<1> DEFINE n == Finished(m, timer)
           i == timer.item
           l == Len(m.frames)
           d == LessTodo(m, i, timer.property)
<1>0. m \in StateType /\ ItemsOK(m) /\ FramesOK(m)
  BY DEF Sound
<1>1. /\ Sound(d) /\ KindsKept(m, d) /\ Len(d.items) = Len(m.items)
      /\ d.items[i].todo = m.items[i].todo \ {timer.property}
      /\ d.items[i].kind = m.items[i].kind /\ d.items[i].complete = m.items[i].complete
      /\ \A j \in ItemIds(m) \ {i} : d.items[j] = m.items[j]
      /\ d.arrays = m.arrays /\ d.queue = m.queue /\ d.run = m.run
      /\ d.timers = m.timers /\ d.delays = m.delays /\ d.marks = m.marks
      /\ d.defer = m.defer /\ d.frames = m.frames
  BY LessTodoFields
<1>2. d = [m EXCEPT !.items[i].todo = m.items[i].todo \ {timer.property}]
  BY <1>0 DEF LessTodo, StateType
<1>3. CASE m.items[i].todo \ {timer.property} # {} \/ ~m.items[i].complete
  <2>1. n = d
    BY <1>2, <1>3 DEF Finished
  <2> HIDE DEF n, d
  <2> QED BY <1>1, <2>1 DEF n, FinishedTo
<1>4. CASE m.items[i].todo \ {timer.property} = {} /\ m.items[i].complete
  <2> DEFINE c == Completed(d, i)
             b == Push(c, CompleteFrame(i))
  <2>1. n = Push(b, PageFrame(i))
    BY <1>2, <1>4 DEF Finished, Completed
  <2> HIDE DEF d, n
  <2>2. i \in ItemIds(d) /\ i \in Nat
    BY <1>0, <1>1, ItemFields DEF ItemIds
  <2>3. /\ Sound(c) /\ KindsKept(d, c) /\ Len(c.items) = Len(d.items)
        /\ c.items[i].kind = d.items[i].kind /\ ~c.items[i].complete
        /\ \A j \in ItemIds(d) \ {i} : c.items[j] = d.items[j]
        /\ c.arrays = d.arrays /\ c.queue = d.queue /\ c.run = d.run
        /\ c.timers = d.timers /\ c.delays = d.delays /\ c.marks = d.marks
        /\ c.defer = d.defer /\ c.frames = d.frames
    <3>1. d.items[i].kind \in Animated /\ d.items[i].complete /\ d.items[i].todo = {}
      BY <1>1, <1>4
    <3> QED BY <2>2, <3>1, <1>1, CompletedFields
  <2> HIDE DEF c
  <2>4. ItemIds(c) = ItemIds(m) /\ KindsKept(m, c)
    BY <1>1, <2>3 DEF ItemIds, KindsKept
  <2>5. /\ CompleteFrame(i) \in FrameType /\ CompleteFrame(i).op = "complete"
        /\ CompleteFrame(i).item = i
        /\ PageFrame(i) \in FrameType /\ PageFrame(i).op = "page" /\ PageFrame(i).item = i
    BY <2>2, FramesMake DEF CompleteFrame, PageFrame
  <2>6. FrameMade(c, CompleteFrame(i)) /\ FrameMade(c, PageFrame(i))
    BY <1>1, <2>3, <2>4, <2>5 DEF FrameMade, Animated
  <2>7. c.frames # <<>> => Above(c, c.frames[Len(c.frames)], CompleteFrame(i))
    <3> SUFFICES ASSUME m.frames # <<>>
                 PROVE  Above(c, m.frames[Len(m.frames)], CompleteFrame(i))
      BY <1>1, <2>3
    <3>1. Above(m, m.frames[Len(m.frames)], CompleteFrame(i))
      BY <1>4
    <3>2. Len(m.frames) \in Depth(m)
      <4>1. m.frames \in Seq(FrameType)
        BY <1>0, StateFields
      <4> QED BY <4>1 DEF Depth
    <3>3. FrameMade(m, m.frames[Len(m.frames)])
      BY <3>2, <1>0 DEF FramesOK
    <3>4. m.frames[Len(m.frames)].op \in {"page", "complete", "start"} =>
            m.frames[Len(m.frames)].item \in ItemIds(m)
      BY <3>3 DEF FrameMade
    <3> QED BY <3>1, <3>4, <2>4, <2>5, AboveKept
  <2>8. ~Completing(c, i)
    <3>1. ~Completing(m, i)
      BY <1>0, <1>4 DEF Completing, FramesOK, FrameMade
    <3> QED BY <3>1, <1>1, <2>3 DEF Completing, Depth
  <2>9. Sound(b)
    BY <2>3, <2>5, <2>6, <2>7, <2>8, PushSound
  <2>10. /\ OnlyStack(c, b) /\ Len(c.frames) \in Nat /\ Len(b.frames) = Len(c.frames) + 1
         /\ b.frames[Len(c.frames) + 1] = CompleteFrame(i)
         /\ \A p \in 1..Len(c.frames) : b.frames[p] = c.frames[p]
    <3>1. c \in StateType
      BY <2>3 DEF Sound
    <3> QED BY <3>1, <2>5, PushFields
  <2> HIDE DEF b
  <2>11. FrameMade(b, PageFrame(i)) /\ Above(b, b.frames[Len(b.frames)], PageFrame(i))
    <3>1. FrameMade(b, PageFrame(i))
      BY <2>5, <2>6, <2>10 DEF FrameMade, OnlyStack, ItemIds
    <3>2. Above(b, CompleteFrame(i), PageFrame(i))
      BY <2>5 DEF Above
    <3> QED BY <3>1, <3>2, <2>10
  <2>12. Sound(n)
    BY <2>1, <2>5, <2>9, <2>11, PushSound
  <2>13. /\ OnlyStack(b, n) /\ Len(n.frames) = Len(b.frames) + 1
         /\ n.frames[Len(b.frames) + 1] = PageFrame(i)
         /\ \A p \in 1..Len(b.frames) : n.frames[p] = b.frames[p]
    <3>1. b \in StateType
      BY <2>9 DEF Sound
    <3> QED BY <3>1, <2>1, <2>5, PushFields
  <2>14. /\ l \in Nat /\ Len(n.frames) = l + 2
         /\ n.frames[l + 1] = CompleteFrame(i) /\ n.frames[l + 2] = PageFrame(i)
         /\ \A p \in 1..l : n.frames[p] = m.frames[p]
    <3>1. c.frames = m.frames
      BY <1>1, <2>3
    <3>2. l \in Nat /\ Len(b.frames) = l + 1
      BY <2>10, <3>1
    <3> QED BY <3>1, <3>2, <2>10, <2>13
  <2>15. /\ n.items = c.items /\ n.arrays = c.arrays /\ n.queue = c.queue /\ n.run = c.run
         /\ n.timers = c.timers /\ n.delays = c.delays /\ n.marks = c.marks /\ n.defer = c.defer
    BY <2>10, <2>13 DEF OnlyStack
  <2>16. /\ n.items[i].kind = m.items[i].kind /\ n.items[i].complete => m.items[i].complete
         /\ \A j \in ItemIds(m) \ {i} : n.items[j] = m.items[j]
    BY <1>1, <1>4, <2>3, <2>15 DEF ItemIds
  <2>17. KindsKept(m, n) /\ Len(n.items) = Len(m.items)
    BY <1>1, <2>3, <2>4, <2>15 DEF KindsKept
  <2>18. /\ n.items[i].kind = m.items[i].kind
         /\ n.arrays = m.arrays /\ n.queue = m.queue /\ n.run = m.run
         /\ n.timers = m.timers /\ n.delays = m.delays /\ n.marks = m.marks /\ n.defer = m.defer
    BY <1>1, <2>3, <2>15
  <2> QED BY <1>4, <2>12, <2>14, <2>16, <2>17, <2>18 DEF n, FinishedTo
<1> QED BY <1>3, <1>4

\* A finished property, with a step b before it that only changed the stack.
\* The steps to b: only the stack is another, and the timer's item moves.
FinishesAfter(m, b, timer) ==
  /\ OnlyStack(m, b) /\ Finishes(b, timer)
  /\ b.items[timer.item].complete /\ b.items[timer.item].todo \ {timer.property} = {} =>
       Moving(m, timer.item)
  /\ \A j \in ItemIds(m) : FramesFrom(m, b, j)

\* For x the stack is the same up to k, and a stop that is its k-th frame is what finishes it.
FinishesFor(m, b, timer, x, k) ==
  /\ Shared(m, b, x, k) /\ EmptiesKept(m, b, x, k)
  /\ k \in StopsOf(b, x) =>
       k = Len(b.frames) /\ Settled(b.frames[k]) /\ b.items[timer.item].on = x

LEMMA FinishedOrderly ==
  ASSUME NEW m, Sound(m), NEW b, Sound(b), NEW timer, FinishesAfter(m, b, timer),
         NEW x \in FxElements, Orderly(m, x), NEW k, FinishesFor(m, b, timer, x, k)
  PROVE  Orderly(Finished(b, timer), x)
<1> /\ OnlyStack(m, b) /\ Finishes(b, timer)
    /\ b.items[timer.item].complete /\ b.items[timer.item].todo \ {timer.property} = {} =>
         Moving(m, timer.item)
    /\ \A j \in ItemIds(m) : FramesFrom(m, b, j)
  BY DEF FinishesAfter
<1> /\ Shared(m, b, x, k) /\ EmptiesKept(m, b, x, k)
    /\ k \in StopsOf(b, x) =>
         k = Len(b.frames) /\ Settled(b.frames[k]) /\ b.items[timer.item].on = x
  BY DEF FinishesFor
<1> DEFINE n == Finished(b, timer)
           i == timer.item
           l == Len(b.frames)
<1>0. /\ m \in StateType /\ ItemsOK(m) /\ FramesOK(m)
      /\ b \in StateType /\ ItemsOK(b) /\ FramesOK(b)
  BY DEF Sound
<1>1. /\ Sound(n) /\ KindsKept(b, n) /\ Len(n.items) = Len(b.items)
      /\ n.items[i].kind = b.items[i].kind
      /\ n.items[i].complete => b.items[i].complete
      /\ \A j \in ItemIds(b) \ {i} : n.items[j] = b.items[j]
      /\ n.arrays = b.arrays /\ n.queue = b.queue /\ n.run = b.run
      /\ n.timers = b.timers /\ n.delays = b.delays /\ n.marks = b.marks
      /\ n.defer = b.defer
      /\ \/ n.frames = b.frames
         \/ /\ b.items[i].complete /\ b.items[i].todo \ {timer.property} = {}
            /\ Len(n.frames) = l + 2
            /\ n.frames[l + 1] = CompleteFrame(i) /\ n.frames[l + 2] = PageFrame(i)
            /\ \A p \in 1..l : n.frames[p] = b.frames[p]
  <2>1. FinishedTo(b, timer, n)
    BY FinishedFields
  <2> QED BY <2>1 DEF FinishedTo
<1> HIDE DEF n
<1> USE DEF Finishes
<1>2. n \in StateType /\ ItemIds(n) = ItemIds(m) /\ ItemIds(b) = ItemIds(m)
  BY <1>1 DEF Sound, OnlyStack, ItemIds
<1>3. /\ l \in Nat /\ Len(m.frames) \in Nat /\ Len(m.items) \in Nat /\ Len(m.timers) \in Nat
      /\ k \in 0..Len(m.frames) /\ k <= l
  BY <1>0, StateFields, ItemOf DEF Shared
<1>4. CompleteFrame(i).op = "complete" /\ CompleteFrame(i).item = i /\ PageFrame(i).op = "page"
  BY DEF CompleteFrame, PageFrame
<1>5. /\ l <= Len(n.frames) /\ \A p \in 1..l : n.frames[p] = b.frames[p]
  BY <1>1, <1>3
<1>6. ASSUME NEW p \in Depth(n)
      PROVE  \/ p \in 1..l /\ p \in Depth(b) /\ n.frames[p] = b.frames[p]
             \/ p = l + 1 /\ n.frames[p] = CompleteFrame(i) /\ n.frames # b.frames
             \/ p = l + 2 /\ n.frames[p] = PageFrame(i)
  BY <1>1, <1>3, <1>5, SMTT(30) DEF Depth
<1>7. KindsKept(m, n)
  BY <1>1 DEF KindsKept, OnlyStack, ItemIds
<1>8. Shared(m, n, x, k)
  <2>1. \A p \in 1..k : n.frames[p] = m.frames[p]
    BY <1>3, <1>5 DEF Shared
  <2>2. \A p \in StopsOf(m, x) : p <= k
    BY DEF Shared
  <2>3. ASSUME NEW p \in StopsOf(n, x) PROVE p <= k
    <3>1. p \in Depth(n) /\ n.frames[p].op = "stop" /\ n.frames[p].on = x
      BY DEF StopsOf
    <3>2. p \in Depth(b) /\ n.frames[p] = b.frames[p]
      BY <3>1, <1>4, <1>6
    <3>3. p \in StopsOf(b, x)
      BY <3>1, <3>2 DEF StopsOf
    <3> QED BY <3>3 DEF Shared
  <2>4. k <= Len(n.frames)
    BY <1>0, <1>2, <1>3, <1>5, FramesAre
  <2> QED BY <1>3, <2>1, <2>2, <2>3, <2>4 DEF Shared
<1>9. ASSUME NEW j \in ItemIds(m) PROVE TimersFrom(m, n, j)
  BY <1>0, <1>1, SameTimers DEF OnlyStack
<1>10. ASSUME NEW j \in ItemIds(m), j # i \/ n.frames = b.frames PROVE ItemEases(m, n, j)
  <2>1. FramesFrom(m, n, j)
    <3> SUFFICES ASSUME NEW p \in Depth(n), n.frames[p].op \in {"start", "complete"},
                        n.frames[p].item = j, n.frames[p].op = "start" => n.frames[p].left # {}
                 PROVE  \E q \in Depth(m) :
                          /\ m.frames[q].op = n.frames[p].op /\ m.frames[q].item = j
                          /\ m.frames[q].op = "start" => m.frames[q].left # {}
      BY DEF FramesFrom
    <3>1. p \in Depth(b) /\ n.frames[p] = b.frames[p]
      BY <1>4, <1>6, <1>10
    <3>2. FramesFrom(m, b, j)
      OBVIOUS
    <3> QED BY <3>1, <3>2 DEF FramesFrom
  <2>2. /\ n.items[j].kind = m.items[j].kind
        /\ n.items[j].complete => m.items[j].complete
        /\ n.items[j].kind = "function" /\ n.items[j].called = 1 => m.items[j].called = 1
        /\ j \in n.delays => j \in m.delays
    BY <1>1, <1>2 DEF OnlyStack, Animated
  <2> QED BY <1>0, <1>2, <1>9, <2>1, <2>2, Eased
<1>11. ASSUME n.frames # b.frames PROVE ItemEases(m, n, i)
  <2>1. i \in ItemIds(m) /\ Moving(m, i)
    BY <1>1, <1>2, <1>11
  <2>2. n.items[i].kind # "function"
    BY <1>1 DEF Animated
  <2>3. i \in n.delays => i \in m.delays
    BY <1>1 DEF OnlyStack
  <2>4. ASSUME Starting(n, i) PROVE Starting(m, i)
    <3>1. PICK p \in Depth(n) :
            n.frames[p].op = "start" /\ n.frames[p].item = i /\ n.frames[p].left # {}
      BY <2>4 DEF Starting
    <3>2. p \in Depth(b) /\ n.frames[p] = b.frames[p]
      BY <3>1, <1>4, <1>6
    <3>3. FramesFrom(m, b, i)
      BY <2>1
    <3> QED BY <3>1, <3>2, <3>3 DEF FramesFrom, Starting
  <2>5. \A at \in Nat : ToCome(m, i, at) => ToCome(n, i, at)
    BY <1>1 DEF ToCome, OnlyStack, Places
  <2> QED BY <2>1, <2>2, <2>3, <2>4, <2>5 DEF ItemEases
<1>12. \A j \in ItemIds(n) : n.items[j].on = x => ItemEases(m, n, j)
  BY <1>2, <1>10, <1>11
<1>13. n.queue[x] = m.queue[x] /\ n.run[x] = m.run[x] /\ n.marks[x] >= m.marks[x]
  BY <1>0, <1>1, StateFields DEF OnlyStack
<1>14. EmptiesKept(m, n, x, k)
  <2> SUFFICES ASSUME NEW p \in Depth(n), n.frames[p].op = "dequeue", n.frames[p].on = x,
                      n.arrays[n.frames[p].array] = <<>>
               PROVE  p <= k /\ m.arrays[n.frames[p].array] = <<>>
    BY DEF EmptiesKept
  <2>1. p \in Depth(b) /\ n.frames[p] = b.frames[p]
    BY <1>4, <1>6
  <2> QED BY <2>1, <1>1 DEF EmptiesKept
<1>15. Covered(n, x, k)
  <2> SUFFICES ASSUME k \in StopsOf(n, x), k # Len(n.frames)
               PROVE  /\ Settled(n.frames[k]) /\ n.frames[k + 1].op = "complete"
                      /\ OfElement(n, n.frames[k + 1]) = x
    BY DEF Covered
  <2>1. k \in StopsOf(m, x) /\ k \in Depth(n) /\ k \in Depth(m) /\ k \in 1..k
    <3>1. k \in Depth(n) /\ k \in 1..k
      BY <1>3 DEF StopsOf, Depth
    <3> QED BY <3>1, <1>0, <1>2, <1>8, StopsShared
  <2>2. k \in StopsOf(b, x) /\ n.frames[k] = b.frames[k]
    BY <2>1, <1>0, <1>3, <1>5, StopsShared
  <2>3. k = l /\ Settled(b.frames[k]) /\ b.items[i].on = x
    BY <2>2
  <2>4. n.frames[k + 1] = CompleteFrame(i)
    BY <2>3, <1>1
  <2>5. OfElement(n, n.frames[k + 1]) = x
    BY <2>3, <2>4, <1>1, <1>4 DEF OfElement, KindsKept
  <2> QED BY <2>2, <2>3, <2>4, <2>5, <1>4
<1>16. Orderly(n, x)
  BY <1>0, <1>2, <1>7, <1>8, <1>12, <1>13, <1>14, <1>15, EasedOrderly
<1> QED BY <1>16 DEF n

\* The stack is the same up to k; above it nothing was that stops, and nothing is that stops,
\* dequeues or completes, or starts what was not starting.
Restacked(m, n, k) ==
  /\ n \in StateType /\ OnlyStack(m, n)
  /\ k \in 0..Len(m.frames) /\ k <= Len(n.frames)
  /\ \A p \in 1..k : n.frames[p] = m.frames[p]
  /\ \A p \in Depth(m) : p > k => m.frames[p].op # "stop"
  /\ \A p \in Depth(n) : p > k =>
       /\ n.frames[p].op \notin {"stop", "dequeue", "complete"}
       /\ n.frames[p].op = "start" /\ n.frames[p].left # {} => Starting(m, n.frames[p].item)
  /\ k # 0 /\ k # Len(n.frames) => n.frames[k].op # "stop"

LEMMA RestackedShares ==
  ASSUME NEW m, Sound(m), NEW n, NEW k, Restacked(m, n, k)
  PROVE  /\ \A x : Shared(m, n, x, k) /\ EmptiesKept(m, n, x, k) /\ Covered(n, x, k)
         /\ \A j \in ItemIds(m) : FramesFrom(m, n, j)
<1>0. m \in StateType /\ n \in StateType /\ Len(n.frames) \in Nat /\ Len(m.frames) \in Nat
  BY FramesAre DEF Sound, Restacked
<1>1. ASSUME NEW p \in Depth(n), p <= k PROVE p \in Depth(m) /\ n.frames[p] = m.frames[p]
  BY <1>0, <1>1 DEF Restacked, Depth
<1>2. ASSUME NEW x PROVE Shared(m, n, x, k)
  <2>1. \A p \in StopsOf(m, x) \cup StopsOf(n, x) : p <= k
    BY <1>0 DEF StopsOf, Depth, Restacked
  <2> QED BY <2>1 DEF Shared, Restacked
<1>3. ASSUME NEW x PROVE EmptiesKept(m, n, x, k)
  <2> SUFFICES ASSUME NEW p \in Depth(n), n.frames[p].op = "dequeue", n.frames[p].on = x,
                      n.arrays[n.frames[p].array] = <<>>
               PROVE  p <= k /\ m.arrays[n.frames[p].array] = <<>>
    BY DEF EmptiesKept
  <2>1. p <= k
    BY <1>0 DEF Restacked, Depth
  <2> QED BY <2>1 DEF Restacked, OnlyStack
<1>4. ASSUME NEW x PROVE Covered(n, x, k)
  BY DEF Covered, StopsOf, Restacked, Depth
<1>5. ASSUME NEW j \in ItemIds(m) PROVE FramesFrom(m, n, j)
  <2> SUFFICES ASSUME NEW p \in Depth(n), n.frames[p].op \in {"start", "complete"},
                      n.frames[p].item = j, n.frames[p].op = "start" => n.frames[p].left # {}
               PROVE  \E q \in Depth(m) :
                        /\ m.frames[q].op = n.frames[p].op /\ m.frames[q].item = j
                        /\ m.frames[q].op = "start" => m.frames[q].left # {}
    BY DEF FramesFrom
  <2>1. CASE p <= k
    BY <1>1, <2>1
  <2>2. CASE p > k
    <3>1. n.frames[p].op = "start" /\ Starting(m, j)
      BY <2>2 DEF Restacked
    <3> QED BY <3>1 DEF Starting
  <2> QED BY <1>0, <2>1, <2>2 DEF Depth, Restacked
<1> QED BY <1>2, <1>3, <1>4, <1>5

LEMMA RestackedOrderly ==
  ASSUME NEW m, Sound(m), NEW n, NEW k, Restacked(m, n, k), NEW x \in FxElements, Orderly(m, x)
  PROVE  Orderly(n, x) /\ Begins(n, x) \subseteq Begins(m, x)
<1>0. /\ m \in StateType /\ ItemsOK(m) /\ FramesOK(m) /\ n \in StateType /\ OnlyStack(m, n)
      /\ QueuesOK(m)
  BY DEF Sound, Restacked
<1>1. KindsKept(m, n) /\ ItemIds(n) = ItemIds(m)
  BY <1>0, OnlyStackSound
<1>2. ASSUME NEW i \in ItemIds(n) PROVE ItemEases(m, n, i)
  <2>1. FramesFrom(m, n, i)
    BY <1>1, RestackedShares
  <2>2. TimersFrom(m, n, i)
    BY <1>0, SameTimers DEF OnlyStack
  <2>3. /\ n.items[i].kind = m.items[i].kind
        /\ n.items[i].complete => m.items[i].complete
        /\ n.items[i].kind = "function" /\ n.items[i].called = 1 => m.items[i].called = 1
        /\ i \in n.delays => i \in m.delays
    BY <1>0 DEF OnlyStack
  <2> QED BY <1>0, <1>1, <2>1, <2>2, <2>3, Eased
<1>3. Shared(m, n, x, k) /\ EmptiesKept(m, n, x, k) /\ Covered(n, x, k)
  BY RestackedShares
<1>4. n.queue[x] = m.queue[x] /\ n.run[x] = m.run[x] /\ n.marks[x] >= m.marks[x]
  BY <1>0, StateFields DEF OnlyStack
<1> QED BY <1>0, <1>1, <1>2, <1>3, <1>4, EasedOrderly

\* Nothing is spoiled by n.
Keeps(m, n) ==
  /\ Sound(n) /\ Len(n.items) = Len(m.items)
  /\ \A x \in FxElements : Orderly(m, x) => Orderly(n, x)

LEMMA PopGood ==
  ASSUME NEW m, Sound(m), m.frames # <<>>, Last(m.frames).op # "stop"
  PROVE  LET n == Pop(m)
         IN  /\ Keeps(m, n) /\ Restacked(m, n, Len(m.frames) - 1)
             /\ \A x \in FxElements : Orderly(m, x) => Begins(n, x) \subseteq Begins(m, x)
<1> DEFINE n == Pop(m)
           l == Len(m.frames)
<1>0. m \in StateType
  BY DEF Sound
<1>1. /\ n \in StateType /\ OnlyStack(m, n) /\ l \in Nat \ {0} /\ Len(n.frames) = l - 1
      /\ \A p \in 1..(l - 1) : n.frames[p] = m.frames[p]
      /\ Last(m.frames) = m.frames[l]
  BY <1>0, PopFields
<1>2. Sound(n)
  BY PopSound
<1> HIDE DEF n
<1>3. Restacked(m, n, l - 1)
  BY <1>1 DEF Restacked, Depth
<1>4. \A x \in FxElements : Orderly(m, x) => Orderly(n, x) /\ Begins(n, x) \subseteq Begins(m, x)
  BY <1>3, RestackedOrderly
<1> QED BY <1>1, <1>2, <1>3, <1>4 DEF Keeps, OnlyStack, n

LEMMA ReplacedFields ==
  ASSUME NEW m, Sound(m), m.frames # <<>>, NEW f \in FrameType, FrameMade(m, f),
         f.op # "complete",
         Len(m.frames) > 1 => Above(m, m.frames[Len(m.frames) - 1], f)
  PROVE  LET n == Replaced(m, f)
             l == Len(m.frames)
         IN  /\ Sound(n) /\ OnlyStack(m, n) /\ l \in Nat \ {0} /\ Len(n.frames) = l
             /\ n.frames[l] = f /\ \A p \in 1..(l - 1) : n.frames[p] = m.frames[p]
             /\ ItemIds(n) = ItemIds(m) /\ KindsKept(m, n)
<1> DEFINE n == Replaced(m, f)
           b == Pop(m)
           l == Len(m.frames)
<1>0. m \in StateType /\ ItemsOK(m) /\ QueuesOK(m)
  BY DEF Sound
<1>1. /\ b \in StateType /\ OnlyStack(m, b) /\ l \in Nat \ {0} /\ Len(b.frames) = l - 1
      /\ \A p \in 1..(l - 1) : b.frames[p] = m.frames[p]
  BY <1>0, PopFields
<1>2. Sound(b)
  BY PopSound
<1>3. n = Push(b, f)
  BY DEF Replaced
<1> HIDE DEF n, b
<1>4. StackOnly(m, b)
  BY <1>1 DEF OnlyStack, StackOnly
<1>5. FrameMade(b, f)
  BY <1>4, StackOnlySame
<1>6. ASSUME b.frames # <<>> PROVE Above(b, b.frames[Len(b.frames)], f)
  <2>1. l - 1 \in 1..(l - 1)
    BY <1>1, <1>6
  <2>2. Above(m, m.frames[l - 1], f)
    BY <1>1, <2>1
  <2>3. Above(b, m.frames[l - 1], f)
    BY <1>4, <2>2, StackOnlySame
  <2> QED BY <1>1, <2>1, <2>3
<1>7. Sound(n)
  BY <1>2, <1>3, <1>5, <1>6, PushSound
<1>8. /\ n \in StateType /\ OnlyStack(b, n) /\ Len(n.frames) = Len(b.frames) + 1
      /\ n.frames[Len(b.frames) + 1] = f
      /\ \A p \in 1..Len(b.frames) : n.frames[p] = b.frames[p]
  BY <1>1, <1>3, PushFields
<1>9. Len(n.frames) = l /\ n.frames[l] = f /\ \A p \in 1..(l - 1) : n.frames[p] = m.frames[p]
  BY <1>1, <1>8
<1>10. OnlyStack(m, n)
  BY <1>1, <1>8 DEF OnlyStack
<1>11. ItemIds(n) = ItemIds(m) /\ KindsKept(m, n)
  BY <1>0, <1>10, OnlyStackSound
<1> QED BY <1>1, <1>7, <1>9, <1>10, <1>11 DEF n

\* A frame of the same function for the same element or item.
LEMMA SameAbove ==
  ASSUME NEW m, NEW g, NEW f, Above(m, g, f), NEW h, h.op = f.op, f.op # "page",
         OfElement(m, h) = OfElement(m, f)
  PROVE  Above(m, g, h)
BY DEF Above

\* Only timers, of the same items and further in front, and the interval.
Retimed(m, n) ==
  /\ n \in StateType /\ n.items = m.items /\ n.frames = m.frames /\ n.arrays = m.arrays
  /\ n.queue = m.queue /\ n.run = m.run /\ n.delays = m.delays /\ n.marks = m.marks
  /\ n.defer = m.defer
  /\ \A k \in Places(n) : \E l \in Places(m) : k <= l /\ n.timers[k].item = m.timers[l].item

LEMMA RetimedGood ==
  ASSUME NEW m, Sound(m), NEW n, Retimed(m, n)
  PROVE  Keeps(m, n) /\ \A i \in ItemIds(m) : TimersFrom(m, n, i)
<1>0. m \in StateType /\ ItemsOK(m)
  BY DEF Sound
<1>1. \A i \in ItemIds(m) : TimersFrom(m, n, i)
  BY DEF TimersFrom, Retimed
<1>2. \A e \in FxElements : n.defer[e] \in 0..Len(m.items)
  BY <1>0 DEF ItemsOK, Retimed
<1>3. Sound(n)
  BY <1>2, QuietSound DEF Retimed
<1>4. ASSUME NEW x \in FxElements, Orderly(m, x) PROVE Orderly(n, x)
  <2>1. n.marks[x] >= m.marks[x]
    BY <1>0, StateFields DEF Retimed
  <2> QED BY <1>1, <1>4, <2>1, StillOrderly DEF Retimed
<1> QED BY <1>1, <1>3, <1>4 DEF Keeps, Retimed

\* Only a mark.
Remarked(m, n, e) ==
  /\ n \in StateType /\ n.items = m.items /\ n.frames = m.frames /\ n.arrays = m.arrays
  /\ n.queue = m.queue /\ n.run = m.run /\ n.timers = m.timers /\ n.delays = m.delays
  /\ n.defer = m.defer /\ \A x \in FxElements \ {e} : n.marks[x] = m.marks[x]

LEMMA SameMoves ==
  ASSUME NEW m, NEW n, NEW e, Remarked(m, n, e)
  PROVE  /\ \A x : Begins(n, x) = Begins(m, x) /\ Beside(n, x) = Beside(m, x)
         /\ \A x : StopsOf(n, x) = StopsOf(m, x)
<1>1. ItemIds(n) = ItemIds(m) /\ Depth(n) = Depth(m) /\ Places(n) = Places(m)
  BY DEF Remarked, ItemIds, Depth, Places
<1>2. ASSUME NEW i PROVE Moving(n, i) = Moving(m, i)
  BY <1>1 DEF Moving, HasTimer, Starting, Completing, Remarked
<1>3. ASSUME NEW i PROVE Lives(n, i) = Lives(m, i)
  BY <1>2 DEF Lives, Remarked
<1>4. ASSUME NEW x PROVE StopsOf(n, x) = StopsOf(m, x)
  BY <1>1 DEF StopsOf, Remarked
<1>5. ASSUME NEW x PROVE Begins(n, x) = Begins(m, x) /\ Beside(n, x) = Beside(m, x)
  BY <1>1, <1>2, <1>3 DEF Begins, Beside, Remarked
<1> QED BY <1>4, <1>5

LEMMA RemarkedGood ==
  ASSUME NEW m, Sound(m), NEW n, NEW e, Remarked(m, n, e)
  PROVE  /\ Sound(n) /\ Len(n.items) = Len(m.items)
         /\ \A x \in FxElements : Orderly(m, x) /\ (x = e => Marked(n, x)) => Orderly(n, x)
<1>0. m \in StateType /\ ItemsOK(m)
  BY DEF Sound
<1>1. \A x \in FxElements : n.defer[x] \in 0..Len(m.items)
  BY <1>0 DEF ItemsOK, Remarked
<1>2. \A k \in Places(n) : \E l \in Places(m) : n.timers[k].item = m.timers[l].item
  BY DEF Places, Remarked
<1>3. Sound(n)
  BY <1>1, <1>2, QuietSound DEF Remarked
<1>4. ItemIds(n) = ItemIds(m) /\ Depth(n) = Depth(m) /\ Places(n) = Places(m)
  BY DEF Remarked, ItemIds, Depth, Places
<1>5. ASSUME NEW x \in FxElements, Orderly(m, x), x = e => Marked(n, x) PROVE Orderly(n, x)
  <2>1. /\ Begins(n, x) = Begins(m, x) /\ Beside(n, x) = Beside(m, x)
        /\ StopsOf(n, x) = StopsOf(m, x)
    BY SameMoves
  <2>2. \A f : OfElement(n, f) = OfElement(m, f)
    BY DEF OfElement, Remarked
  <2>3. \A i, at : ToCome(n, i, at) = ToCome(m, i, at)
    BY <1>4 DEF ToCome, Remarked
  <2>4. OneBegun(n, x) /\ DelayRuns(n, x)
    BY <1>5, <2>1 DEF Orderly, OneBegun, DelayRuns, Remarked
  <2>5. Unqueued(n, x)
    BY <1>5, <2>1, <2>2 DEF Orderly, Unqueued, Remarked
  <2>6. ASSUME NEW p \in StopsOf(n, x) PROVE StopOK(n, x, p)
    <3>1. StopOK(m, x, p)
      BY <1>5, <2>1, <2>6 DEF Orderly
    <3> QED BY <3>1, <2>1, <2>2, <2>3 DEF StopOK, Remarked
  <2>7. EmptyOnes(n, x)
    BY <1>4, <1>5, <2>1 DEF Orderly, EmptyOnes, Remarked
  <2>8. StartsQueued(n, x)
    BY <1>4, <1>5, <2>1 DEF Orderly, StartsQueued, Starting, Remarked
  <2>9. Marked(n, x)
    <3>1. CASE x = e
      BY <1>5, <3>1
    <3>2. CASE x # e
      BY <1>5, <2>1, <3>2 DEF Orderly, Marked, Remarked
    <3> QED BY <3>1, <3>2
  <2> QED BY <2>4, <2>5, <2>6, <2>7, <2>8, <2>9 DEF Orderly
<1> QED BY <1>3, <1>5 DEF Remarked

LEMMA KeepsKeeps ==
  ASSUME NEW m, NEW n, NEW o, Keeps(m, n), Keeps(n, o)
  PROVE  Keeps(m, o)
BY DEF Keeps

\* The frame of a tick.
LEMMA TickPushed ==
  ASSUME NEW m, Sound(m), m.frames # <<>> => m.frames[Len(m.frames)].op \in {"page", "tick"},
         NEW at \in Nat \ {0}, NEW timer \in TimerType
  PROVE  Keeps(m, Push(m, TickFrame(at, timer)))
<1> DEFINE f == TickFrame(at, timer)
           n == Push(m, f)
           l == Len(m.frames)
<1>0. m \in StateType /\ FramesOK(m)
  BY DEF Sound
<1>1. f \in FrameType /\ f.op = "tick" /\ f.at = at
  BY FramesMake DEF TickFrame
<1> HIDE DEF f
<1>2. FrameMade(m, f)
  BY <1>1 DEF FrameMade
<1>3. m.frames # <<>> => Above(m, m.frames[l], f)
  BY DEF Above
<1>4. Sound(n)
  BY <1>1, <1>2, <1>3, PushSound
<1>5. /\ n \in StateType /\ OnlyStack(m, n) /\ l \in Nat /\ Len(n.frames) = l + 1
      /\ n.frames[l + 1] = f /\ \A p \in 1..l : n.frames[p] = m.frames[p]
  BY <1>0, <1>1, PushFields
<1> HIDE DEF n
<1>6. l # 0 => n.frames[l].op # "stop"
  <2>1. ASSUME l # 0 PROVE m.frames # <<>> /\ n.frames[l] = m.frames[l]
    BY <1>0, <1>5, <2>1, FramesAre
  <2> QED BY <2>1
<1>7. Restacked(m, n, l)
  BY <1>1, <1>5, <1>6 DEF Restacked, Depth
<1>8. \A x \in FxElements : Orderly(m, x) => Orderly(n, x)
  BY <1>7, RestackedOrderly
<1> QED BY <1>4, <1>5, <1>8 DEF Keeps, OnlyStack, n, f

LEMMA DequeueEndsGood ==
  ASSUME NEW m, Sound(m), m.frames # <<>>, Last(m.frames).op = "dequeue"
  PROVE  Keeps(m, IF m.arrays[Last(m.frames).array] = <<>>
                  THEN EmptiedQueue(Pop(m), Last(m.frames).on) ELSE Pop(m))
<1> DEFINE b == Pop(m)
           f == Last(m.frames)
           e == f.on
           n == EmptiedQueue(b, e)
<1>0. m \in StateType /\ FramesOK(m)
  BY DEF Sound
<1>1. Keeps(m, b) /\ \A x \in FxElements : Orderly(m, x) => Begins(b, x) \subseteq Begins(m, x)
  BY PopGood
<1>2. /\ Len(m.frames) \in Nat \ {0} /\ f = m.frames[Len(m.frames)] /\ f \in FrameType
      /\ OnlyStack(m, b)
  BY <1>0, PopFields
<1>3. e \in FxElements /\ Len(m.frames) \in Depth(m)
  BY <1>2, FrameIs DEF Depth
<1> HIDE DEF b
<1>4. Sound(b) /\ b \in StateType
  BY <1>1 DEF Keeps, Sound
<1>5. /\ Sound(n) /\ n.items = b.items
      /\ \A x \in FxElements : Orderly(b, x) /\ (x = e => Begins(b, e) = {}) => Orderly(n, x)
  BY <1>3, <1>4, EmptiedOrderly, EmptiedFields
<1> HIDE DEF n
<1>6. ASSUME m.arrays[f.array] = <<>> PROVE Keeps(m, n)
  <2>1. ASSUME NEW x \in FxElements, Orderly(m, x) PROVE Orderly(n, x)
    <3>1. Orderly(b, x)
      BY <1>1, <2>1 DEF Keeps
    <3>2. x = e => Begins(m, e) = {}
      BY <1>2, <1>3, <1>6, <2>1 DEF Orderly, EmptyOnes
    <3>3. x = e => Begins(b, e) = {}
      BY <1>1, <2>1, <3>2
    <3> QED BY <1>5, <3>1, <3>3
  <2> QED BY <1>1, <1>5, <2>1 DEF Keeps
<1> QED BY <1>1, <1>6 DEF b, n

LEMMA Shortened ==
  ASSUME NEW S, NEW s \in Seq(S), NEW i \in 1..Len(s)
  PROVE  LET t == RemoveAt(s, i)
         IN  /\ t \in Seq(S) /\ Len(t) = Len(s) - 1
             /\ \A j \in 1..Len(t) : t[j] = IF j < i THEN s[j] ELSE s[j + 1]
<1>1. Len(s) \in Nat /\ i \in Nat /\ \A j \in 1..Len(s) : s[j] \in S
  OBVIOUS
<1> DEFINE a == SubSeq(s, 1, i - 1)
           b == SubSeq(s, i + 1, Len(s))
<1>2. /\ a \in Seq(S) /\ Len(a) = i - 1 /\ \A j \in 1..(i - 1) : a[j] = s[j]
  <2>1. 1 \in Int /\ i - 1 \in Int /\ \A j \in 1..(i - 1) : s[j] \in S
    BY <1>1
  <2>2. /\ a \in Seq(S) /\ Len(a) = IF 1 <= i - 1 THEN i - 1 - 1 + 1 ELSE 0
        /\ \A j \in 1..(i - 1 - 1 + 1) : a[j] = s[1 + j - 1]
    BY <2>1, SubSeqProperties
  <2> HIDE DEF a
  <2>3. ASSUME NEW j \in 1..(i - 1) PROVE a[j] = s[j]
    <3>1. j \in 1..(i - 1 - 1 + 1) /\ 1 + j - 1 = j
      BY <1>1
    <3> QED BY <2>2, <3>1
  <2> QED BY <1>1, <2>2, <2>3
<1>3. /\ b \in Seq(S) /\ Len(b) = Len(s) - i
      /\ \A j \in 1..(Len(s) - i) : b[j] = s[i + j]
  <2>1. i + 1 \in Int /\ Len(s) \in Int /\ \A j \in (i + 1)..Len(s) : s[j] \in S
    BY <1>1
  <2>2. /\ b \in Seq(S) /\ Len(b) = IF i + 1 <= Len(s) THEN Len(s) - (i + 1) + 1 ELSE 0
        /\ \A j \in 1..(Len(s) - (i + 1) + 1) : b[j] = s[i + 1 + j - 1]
    BY <2>1, SubSeqProperties
  <2> HIDE DEF b
  <2>3. ASSUME NEW j \in 1..(Len(s) - i) PROVE b[j] = s[i + j]
    <3>1. j \in 1..(Len(s) - (i + 1) + 1) /\ i + 1 + j - 1 = i + j
      BY <1>1
    <3> QED BY <2>2, <3>1
  <2> QED BY <1>1, <2>2, <2>3
<1>4. RemoveAt(s, i) = a \o b
  BY DEF RemoveAt
<1> HIDE DEF a, b
<1>5. /\ a \o b \in Seq(S) /\ Len(a \o b) = Len(s) - 1
      /\ \A j \in 1..(Len(s) - 1) :
           (a \o b)[j] = IF j <= Len(a) THEN a[j] ELSE b[j - Len(a)]
  BY <1>1, <1>2, <1>3
<1>6. ASSUME NEW j \in 1..(Len(s) - 1)
      PROVE  (a \o b)[j] = IF j < i THEN s[j] ELSE s[j + 1]
  <2>1. CASE j < i
    <3>1. j \in 1..(i - 1) /\ j <= Len(a)
      BY <1>1, <1>2, <2>1
    <3> QED BY <1>2, <1>5, <2>1, <3>1
  <2>2. CASE ~(j < i)
    <3>1. j - Len(a) \in 1..(Len(s) - i) /\ ~(j <= Len(a)) /\ i + (j - Len(a)) = j + 1
      BY <1>1, <1>2, <2>2
    <3> QED BY <1>3, <1>5, <2>2, <3>1
  <2> QED BY <2>1, <2>2
<1> QED BY <1>4, <1>5, <1>6

\* A timer taken away.
LEMMA CutRetimed ==
  ASSUME NEW m, Sound(m), NEW at \in Places(m)
  PROVE  LET n == [m EXCEPT !.timers = RemoveAt(m.timers, at)]
         IN  /\ Retimed(m, n)
             /\ \A i : ToCome(m, i, at) => ToCome(n, i, at - 1)
<1> DEFINE r == RemoveAt(m.timers, at)
           n == [m EXCEPT !.timers = r]
<1>1. m \in StateType /\ m.timers \in Seq(TimerType) /\ Len(m.timers) \in Nat /\ at \in 1..Len(m.timers)
  BY StateFields, ItemOf DEF Sound, Places
<1>2. /\ r \in Seq(TimerType) /\ Len(r) = Len(m.timers) - 1
      /\ \A j \in 1..Len(r) : r[j] = IF j < at THEN m.timers[j] ELSE m.timers[j + 1]
  BY <1>1, Shortened
<1> HIDE DEF r
<1>3. n \in StateType
  BY <1>1, <1>2 DEF StateType
<1>4. n.timers = r
  BY <1>1 DEF StateType
<1>5. ASSUME NEW k \in Places(n)
      PROVE  \E l \in Places(m) :
               k <= l /\ n.timers[k].item = m.timers[l].item /\ (k >= at => k < l)
  <2>1. k \in 1..Len(r) /\ k \in Places(m) /\ k + 1 \in Places(m)
    BY <1>1, <1>2, <1>4 DEF Places
  <2>2. CASE k < at
    BY <1>1, <1>2, <1>4, <2>1, <2>2
  <2>3. CASE ~(k < at)
    BY <1>1, <1>2, <1>4, <2>1, <2>3
  <2> QED BY <2>2, <2>3
<1>6. /\ n.items = m.items /\ n.frames = m.frames /\ n.arrays = m.arrays
      /\ n.queue = m.queue /\ n.run = m.run /\ n.delays = m.delays /\ n.marks = m.marks
      /\ n.defer = m.defer
  BY <1>1 DEF StateType
<1>7. Retimed(m, n)
  BY <1>3, <1>5, <1>6 DEF Retimed
<1>8. ASSUME NEW i, ToCome(m, i, at), NEW k \in Places(n), n.timers[k].item = i
      PROVE  k <= at - 1
  <2>1. PICK l \in Places(m) :
          k <= l /\ n.timers[k].item = m.timers[l].item /\ (k >= at => k < l)
    BY <1>5, <1>8
  <2>2. l <= at
    BY <2>1, <1>8 DEF ToCome
  <2>3. k \in Int /\ l \in Int
    BY <1>1, <1>8, <2>1 DEF Places
  <2> QED BY <1>1, <2>1, <2>2, <2>3
<1>9. \A i : ToCome(m, i, at) => ToCome(n, i, at - 1)
  BY <1>8 DEF ToCome
<1> QED BY <1>7, <1>9 DEF r

LEMMA OneLess ==
  ASSUME NEW l \in Nat, l # 0, l # 1
  PROVE  l > 1 /\ l - 1 \in 1..(l - 1)
OBVIOUS

LEMMA SameRetimed ==
  ASSUME NEW m \in StateType, NEW n \in StateType, n.timers = m.timers, n.items = m.items,
         n.frames = m.frames, n.arrays = m.arrays, n.queue = m.queue, n.run = m.run,
         n.delays = m.delays, n.marks = m.marks, n.defer = m.defer
  PROVE  Retimed(m, n)
<1>1. Len(m.timers) \in Nat
  BY StateFields, ItemOf
<1>2. \A k \in Places(n) : k \in Places(m) /\ k <= k /\ n.timers[k].item = m.timers[k].item
  BY <1>1 DEF Places
<1> QED BY <1>2 DEF Retimed

\* What the timers of a tick become when one is taken away.
LEMMA SplicedGood ==
  ASSUME NEW m, Sound(m), NEW at, NEW timer
  PROVE  LET n == [m EXCEPT !.timers = Spliced(m.timers, at, timer)]
         IN  Keeps(m, n) /\ n.frames = m.frames /\ n \in StateType
<1> DEFINE n == [m EXCEPT !.timers = Spliced(m.timers, at, timer)]
<1>0. m \in StateType /\ DOMAIN m.timers = Places(m) /\ Len(m.timers) \in Nat
  BY StateFields, ItemOf DEF Sound, Places
<1>1. Retimed(m, n)
  <2>1. CASE at \in DOMAIN m.timers /\ m.timers[at] = timer
    <3>1. Spliced(m.timers, at, timer) = RemoveAt(m.timers, at)
      BY <2>1 DEF Spliced
    <3> QED BY <1>0, <2>1, <3>1, CutRetimed
  <2>2. CASE ~(at \in DOMAIN m.timers /\ m.timers[at] = timer)
    <3>1. Spliced(m.timers, at, timer) = m.timers
      BY <2>2 DEF Spliced
    <3>2. n \in StateType /\ n.timers = m.timers
      BY <1>0, <3>1 DEF StateType
    <3>3. /\ n.items = m.items /\ n.frames = m.frames /\ n.arrays = m.arrays
          /\ n.queue = m.queue /\ n.run = m.run /\ n.delays = m.delays /\ n.marks = m.marks
          /\ n.defer = m.defer
      BY <1>0 DEF StateType
    <3> QED BY <1>0, <3>2, <3>3, SameRetimed
  <2> QED BY <2>1, <2>2
<1> HIDE DEF n
<1>2. Keeps(m, n) /\ n.frames = m.frames /\ n \in StateType
  BY <1>1, RetimedGood DEF Retimed
<1> QED BY <1>2 DEF n

LEMMA IntervalGood ==
  ASSUME NEW m, Sound(m), NEW b \in BOOLEAN
  PROVE  Keeps(m, [m EXCEPT !.interval = b])
<1>0. m \in StateType /\ Len(m.timers) \in Nat
  BY StateFields, ItemOf DEF Sound
<1> DEFINE n == [m EXCEPT !.interval = b]
<1>1. n \in StateType
  BY <1>0 DEF StateType
<1>2. /\ n.items = m.items /\ n.frames = m.frames /\ n.arrays = m.arrays
      /\ n.queue = m.queue /\ n.run = m.run /\ n.delays = m.delays /\ n.marks = m.marks
      /\ n.defer = m.defer /\ n.timers = m.timers
  BY <1>0 DEF StateType
<1>3. Retimed(m, n)
  BY <1>0, <1>1, <1>2, SameRetimed
<1> QED BY <1>3, RetimedGood

\* The next frame of a tick.
LEMMA TickReplaced ==
  ASSUME NEW m, Sound(m), m.frames # <<>>, Last(m.frames).op = "tick",
         NEW at \in Nat \ {0}, NEW timer \in TimerType
  PROVE  LET n == Replaced(m, TickFrame(at, timer))
             l == Len(m.frames)
         IN  /\ Keeps(m, n) /\ OnlyStack(m, n) /\ Restacked(m, n, l - 1)
             /\ l \in Nat \ {0} /\ Len(n.frames) = l
             /\ n.frames[l].op = "tick" /\ l - 1 \notin {p \in Depth(n) : n.frames[p].op = "stop"}
             /\ \A q \in Depth(n) : n.frames[q].op = "start" => n.frames[q].left = {}
<1> DEFINE f == TickFrame(at, timer)
           n == Replaced(m, f)
           l == Len(m.frames)
<1>0. m \in StateType /\ FramesOK(m)
  BY DEF Sound
<1>1. f \in FrameType /\ f.op = "tick" /\ f.at = at
  BY FramesMake DEF TickFrame
<1>2. /\ l \in Nat \ {0} /\ Last(m.frames) = m.frames[l]
  BY <1>0, PopFields
<1>3. ASSUME l > 1 PROVE Above(m, m.frames[l - 1], m.frames[l])
  <2>1. l - 1 \in Depth(m) /\ l - 1 # l /\ (l - 1) + 1 = l
    BY <1>2, <1>3 DEF Depth
  <2> QED BY <1>0, <2>1 DEF FramesOK
<1> HIDE DEF f
<1>4. FrameMade(m, f)
  BY <1>1 DEF FrameMade
<1>5. ASSUME l > 1 PROVE Above(m, m.frames[l - 1], f) /\ m.frames[l - 1].op # "stop"
  BY <1>1, <1>2, <1>3, <1>5 DEF Above
<1>6. /\ Sound(n) /\ OnlyStack(m, n) /\ Len(n.frames) = l
      /\ n.frames[l] = f /\ \A p \in 1..(l - 1) : n.frames[p] = m.frames[p]
  BY <1>0, <1>1, <1>4, <1>5, ReplacedFields
<1> HIDE DEF n
<1>7. n \in StateType /\ FramesOK(n)
  BY <1>6 DEF Sound
<1>8. \A p \in Depth(m) : p > l - 1 => p = l
  BY <1>2 DEF Depth
<1>9. \A p \in Depth(n) : p > l - 1 => p = l
  BY <1>2, <1>6 DEF Depth
<1>10. ASSUME l - 1 # 0 PROVE l > 1 /\ n.frames[l - 1] = m.frames[l - 1]
  <2>1. l \in Nat /\ l # 0 /\ l # 1
    BY <1>2, <1>10
  <2>2. l > 1 /\ l - 1 \in 1..(l - 1)
    BY <2>1, OneLess
  <2> QED BY <1>6, <2>2
<1>11. Restacked(m, n, l - 1)
  BY <1>1, <1>2, <1>5, <1>6, <1>7, <1>8, <1>9, <1>10 DEF Restacked
<1>12. l - 1 \notin {p \in Depth(n) : n.frames[p].op = "stop"}
  BY <1>2, <1>5, <1>10 DEF Depth
<1>13. ASSUME NEW q \in Depth(n), n.frames[q].op = "start" PROVE n.frames[q].left = {}
  <2>1. q # l
    BY <1>1, <1>6, <1>13
  <2> QED BY <1>6, <1>7, <1>13, <2>1 DEF FramesOK, Above
<1>14. \A x \in FxElements : Orderly(m, x) => Orderly(n, x)
  BY <1>11, RestackedOrderly
<1>15. Keeps(m, n)
  BY <1>6, <1>14 DEF Keeps, OnlyStack
<1>16. n.frames[l].op = "tick"
  BY <1>1, <1>6
<1> QED BY <1>2, <1>6, <1>11, <1>12, <1>13, <1>15, <1>16 DEF n, f

LEMMA TickFinishes ==
  ASSUME NEW m, Sound(m), m.frames # <<>>, Last(m.frames).op = "tick",
         NEW at \in Places(m)
  PROVE  Keeps(m, Finished(Replaced(m, TickFrame(at, m.timers[at])), m.timers[at]))
<1> DEFINE timer == m.timers[at]
           b == Replaced(m, TickFrame(at, timer))
           l == Len(m.frames)
           n == Finished(b, timer)
<1>0. m \in StateType /\ ItemsOK(m) /\ Len(m.timers) \in Nat
  BY StateFields, ItemOf DEF Sound
<1>1. timer \in TimerType /\ at \in Nat \ {0}
  BY <1>0, StateFields, ItemOf DEF Places
<1>2. /\ Keeps(m, b) /\ OnlyStack(m, b) /\ Restacked(m, b, l - 1)
      /\ l \in Nat \ {0} /\ Len(b.frames) = l
      /\ b.frames[l].op = "tick" /\ l - 1 \notin {p \in Depth(b) : b.frames[p].op = "stop"}
      /\ \A q \in Depth(b) : b.frames[q].op = "start" => b.frames[q].left = {}
  BY <1>1, TickReplaced
<1> HIDE DEF b
<1>3. Sound(b) /\ ItemIds(b) = ItemIds(m)
  BY <1>2 DEF Keeps, ItemIds
<1>4. timer.item \in ItemIds(m) /\ m.items[timer.item].kind \in Animated
  BY <1>0 DEF ItemsOK
<1>5. Above(b, b.frames[Len(b.frames)], CompleteFrame(timer.item))
  BY <1>2 DEF Above
<1>6. Finishes(b, timer)
  BY <1>2, <1>3, <1>4, <1>5 DEF Finishes, OnlyStack
<1>7. m.items[timer.item].complete => Moving(m, timer.item)
  BY DEF Moving, HasTimer
<1>8. /\ \A x : Shared(m, b, x, l - 1) /\ EmptiesKept(m, b, x, l - 1)
      /\ \A j \in ItemIds(m) : FramesFrom(m, b, j)
  BY <1>2, RestackedShares
<1>9. FinishesAfter(m, b, timer)
  BY <1>2, <1>6, <1>7, <1>8 DEF FinishesAfter, OnlyStack
<1>10. ASSUME NEW x PROVE FinishesFor(m, b, timer, x, l - 1)
  BY <1>2, <1>8 DEF FinishesFor, StopsOf
<1>11. FinishedTo(b, timer, n)
  BY <1>3, <1>6, FinishedFields
<1> HIDE DEF n, timer
<1>12. Sound(n) /\ Len(n.items) = Len(m.items)
  BY <1>2, <1>11 DEF FinishedTo, OnlyStack
<1>13. \A x \in FxElements : Orderly(m, x) => Orderly(n, x)
  BY <1>3, <1>9, <1>10, FinishedOrderly DEF n
<1> QED BY <1>12, <1>13 DEF Keeps, n, b, timer

\* A timer's time goes on.
LEMMA TimerStepped ==
  ASSUME NEW m, Sound(m), NEW at \in Places(m), m.timers[at].left # 0
  PROVE  LET n == [m EXCEPT !.timers[at].left = @ - 1]
         IN  Keeps(m, n) /\ n.frames = m.frames
<1> DEFINE t == m.timers[at]
           u == [t EXCEPT !.left = @ - 1]
           r == [m.timers EXCEPT ![at] = u]
           n == [m EXCEPT !.timers = r]
<1>1. m \in StateType /\ m.timers \in Seq(TimerType) /\ Len(m.timers) \in Nat /\ at \in 1..Len(m.timers)
  BY StateFields, ItemOf DEF Sound, Places
<1>2. t \in TimerType /\ t.left \in Nat \ {0}
  <2>1. t \in TimerType
    BY <1>1, ItemOf
  <2> QED BY <2>1 DEF TimerType
<1>3. u \in TimerType /\ u.item = t.item
  <2>1. t.left - 1 \in Nat
    BY <1>2
  <2> QED BY <1>2, <2>1 DEF TimerType
<1> HIDE DEF u
<1>4. /\ r \in Seq(TimerType) /\ Len(r) = Len(m.timers)
      /\ \A j \in 1..Len(m.timers) : r[j] = IF j = at THEN u ELSE m.timers[j]
  BY <1>1, <1>3, Overwritten
<1> HIDE DEF r
<1>5. n \in StateType /\ n.timers = r
  BY <1>1, <1>4 DEF StateType
<1>6. /\ n.items = m.items /\ n.frames = m.frames /\ n.arrays = m.arrays
      /\ n.queue = m.queue /\ n.run = m.run /\ n.delays = m.delays /\ n.marks = m.marks
      /\ n.defer = m.defer
  BY <1>1 DEF StateType
<1>7. ASSUME NEW k \in Places(n)
      PROVE  \E l \in Places(m) : k <= l /\ n.timers[k].item = m.timers[l].item
  <2>1. k \in Places(m) /\ k <= k
    BY <1>1, <1>4, <1>5 DEF Places
  <2>2. n.timers[k].item = m.timers[k].item
    BY <1>3, <1>4, <1>5, <2>1 DEF Places
  <2> QED BY <2>1, <2>2
<1>8. Retimed(m, n)
  BY <1>5, <1>6, <1>7 DEF Retimed
<1>9. n = [m EXCEPT !.timers[at].left = @ - 1]
  BY <1>1 DEF r, u, StateType
<1> HIDE DEF n
<1> QED BY <1>6, <1>8, <1>9, RetimedGood

LEMMA UnmarkedFields ==
  ASSUME NEW m \in StateType, NEW e \in FxElements, NEW force \in BOOLEAN
  PROVE  LET n == Unmarked(m, e, force)
         IN  /\ Remarked(m, n, e) /\ m.marks[e] \in Nat
             /\ n.marks[e] = IF force \/ m.marks[e] <= 1 THEN 0 ELSE m.marks[e] - 1
<1> DEFINE z(k) == [m EXCEPT !.marks[e] = k]
<1>1. m.marks \in [FxElements -> Nat] /\ m.marks[e] \in Nat
  BY StateFields
<1>2. ASSUME NEW k \in Nat
      PROVE  Remarked(m, z(k), e) /\ z(k).marks[e] = k /\ z(k) \in StateType
  <2>1. z(k) \in StateType
    BY <1>1 DEF StateType
  <2>2. z(k).marks = [m.marks EXCEPT ![e] = k]
    BY DEF StateType
  <2>3. /\ z(k).items = m.items /\ z(k).frames = m.frames /\ z(k).arrays = m.arrays
        /\ z(k).queue = m.queue /\ z(k).run = m.run /\ z(k).timers = m.timers
        /\ z(k).delays = m.delays /\ z(k).defer = m.defer
    BY DEF StateType
  <2> HIDE DEF z
  <2> QED BY <1>1, <2>1, <2>2, <2>3 DEF Remarked
<1>3. CASE force \/ m.marks[e] <= 1
  <2> DEFINE n == QueueMarkDefer(z(0), e, "mark")
  <2>1. Unmarked(m, e, force) = n
    BY <1>3 DEF Unmarked
  <2>2. Remarked(m, z(0), e) /\ z(0).marks[e] = 0 /\ z(0) \in StateType
    BY <1>2
  <2> HIDE DEF z
  <2>3. /\ n \in StateType /\ n.arrays = z(0).arrays /\ n.queue = z(0).queue /\ n.run = z(0).run
        /\ n.items = z(0).items /\ n.timers = z(0).timers
        /\ n.delays = z(0).delays /\ n.marks = z(0).marks /\ n.defer = z(0).defer
        /\ n.frames = z(0).frames
    BY <2>2, MarkDeferFields
  <2> HIDE DEF n
  <2>4. Remarked(m, n, e) /\ n.marks[e] = 0
    BY <2>2, <2>3 DEF Remarked
  <2> QED BY <1>1, <1>3, <2>1, <2>4
<1>4. CASE ~(force \/ m.marks[e] <= 1)
  <2>1. m.marks[e] - 1 \in Nat
    BY <1>1, <1>4
  <2>2. Unmarked(m, e, force) = z(m.marks[e] - 1)
    BY <1>4 DEF Unmarked
  <2>3. Remarked(m, z(m.marks[e] - 1), e) /\ z(m.marks[e] - 1).marks[e] = m.marks[e] - 1
    BY <1>2, <2>1
  <2> HIDE DEF z
  <2> QED BY <1>1, <1>4, <2>2, <2>3
<1> QED BY <1>3, <1>4

\* What is under a complete frame, and what stops moving when it is taken.
LEMMA CompletePopped ==
  ASSUME NEW m, Sound(m), m.frames # <<>>, Last(m.frames).op = "complete"
  PROVE  LET n == Pop(m)
             i == Last(m.frames).item
             e == m.items[i].on
         IN  /\ Keeps(m, n) /\ OnlyStack(m, n) /\ Restacked(m, n, Len(m.frames) - 1)
             /\ i \in ItemIds(m) /\ m.items[i].kind \in Animated /\ e \in FxElements
             /\ Moving(m, i) /\ ~Moving(n, i) /\ TopTakes(n, e)
             /\ Beside(n, e) \subseteq Beside(m, e) \ {i}
             /\ Orderly(m, e) => Begins(n, e) \subseteq Begins(m, e)
<1> DEFINE n == Pop(m)
           f == Last(m.frames)
           i == f.item
           e == m.items[i].on
           l == Len(m.frames)
<1>0. m \in StateType /\ FramesOK(m) /\ ItemsOK(m)
  BY DEF Sound
<1>1. /\ n \in StateType /\ OnlyStack(m, n) /\ l \in Nat \ {0} /\ Len(n.frames) = l - 1
      /\ \A p \in 1..(l - 1) : n.frames[p] = m.frames[p]
      /\ f = m.frames[l] /\ f \in FrameType
  BY <1>0, PopFields
<1>2. Keeps(m, n) /\ Restacked(m, n, l - 1)
      /\ \A x \in FxElements : Orderly(m, x) => Begins(n, x) \subseteq Begins(m, x)
  BY PopGood
<1> HIDE DEF n
<1>3. l \in Depth(m)
  BY <1>1 DEF Depth
<1>4. i \in ItemIds(m) /\ m.items[i].kind \in Animated /\ ~m.items[i].complete
  BY <1>0, <1>1, <1>3 DEF FramesOK, FrameMade
<1>5. e \in FxElements
  BY <1>0, <1>4 DEF ItemsOK, Animated
<1>6. Moving(m, i)
  BY <1>1, <1>3 DEF Moving, Completing
<1>7. ASSUME NEW p \in Depth(n)
      PROVE  /\ p \in Depth(m) /\ p # l /\ n.frames[p] = m.frames[p]
             /\ Above(m, m.frames[p], m.frames[p + 1])
  <2>1. p \in 1..(l - 1) /\ p \in Depth(m) /\ p # l
    BY <1>1 DEF Depth
  <2> QED BY <1>0, <1>1, <2>1 DEF FramesOK
<1>8. ~Completing(n, i)
  <2>1. ASSUME NEW p \in Depth(n), n.frames[p].op = "complete", n.frames[p].item = i PROVE FALSE
    <3>1. p \in Depth(m) /\ p # l /\ m.frames[p].op = "complete" /\ m.frames[p].item = i
      BY <1>7, <2>1
    <3> QED BY <1>0, <1>1, <1>3, <3>1 DEF FramesOK
  <2> QED BY <2>1 DEF Completing
<1>9. ~Starting(n, i)
  <2>1. ASSUME NEW p \in Depth(n), n.frames[p].op = "start" PROVE n.frames[p].left = {}
    BY <1>7, <2>1 DEF Above
  <2> QED BY <2>1 DEF Starting
<1>10. ~Moving(n, i)
  BY <1>1, <1>4, <1>8, <1>9 DEF Moving, OnlyStack
<1>11. TopTakes(n, e)
  <2> SUFFICES ASSUME n.frames # <<>>
               PROVE  LET g == n.frames[Len(n.frames)]
                      IN  /\ g.op # "complete"
                          /\ g.op \in {"dequeue", "start", "stop"} => OfElement(n, g) = e
                          /\ g.op = "start" => g.left = {}
                          /\ g.op = "stop" => Settled(g)
    BY DEF TopTakes
  <2>1. l - 1 \in Depth(n) /\ (l - 1) + 1 = l
    <3>1. Len(n.frames) # 0 /\ Len(n.frames) \in Nat
      BY <1>1, FramesAre, StateFields, EmptySeq
    <3> QED BY <1>1, <3>1 DEF Depth
  <2>2. n.frames[l - 1] = m.frames[l - 1] /\ Above(m, m.frames[l - 1], f)
    BY <1>1, <1>7, <2>1
  <2>3. OfElement(m, f) = e
    BY DEF OfElement
  <2>4. OfElement(n, n.frames[l - 1]) = OfElement(m, m.frames[l - 1])
    BY <1>1, <2>2 DEF OfElement, OnlyStack
  <2> QED BY <1>1, <2>2, <2>3, <2>4 DEF Above, OfElement
<1>12. Beside(n, e) \subseteq Beside(m, e) \ {i}
  <2>1. ASSUME NEW j \in Beside(n, e) PROVE j \in Beside(m, e) \ {i}
    <3>1. j \in ItemIds(m) /\ m.items[j].on = e /\ m.items[j].kind = "unqueued" /\ Moving(n, j)
      BY <1>1 DEF Beside, ItemIds, OnlyStack
    <3>2. FramesFrom(m, n, j)
      BY <1>2, <3>1, RestackedShares
    <3>3. TimersFrom(m, n, j)
      BY <1>0, <1>1, SameTimers DEF OnlyStack
    <3>4. ItemEases(m, n, j)
      BY <1>0, <1>1, <3>1, <3>2, <3>3, Eased DEF OnlyStack
    <3>5. Moving(m, j)
      BY <3>1, <3>4 DEF ItemEases
    <3> QED BY <1>10, <3>1, <3>5 DEF Beside
  <2> QED BY <2>1
<1> QED BY <1>1, <1>2, <1>4, <1>5, <1>6, <1>10, <1>11, <1>12 DEF n

\* The rest of the complete function of an unqueued animation.
LEMMA UnqueuedCompletes ==
  ASSUME NEW m, Sound(m), m.frames # <<>>, Last(m.frames).op = "complete",
         m.items[Last(m.frames).item].kind = "unqueued"
  PROVE  Keeps(m, Unmarked(Pop(m), m.items[Last(m.frames).item].on, FALSE))
<1> DEFINE b == Pop(m)
           i == Last(m.frames).item
           e == m.items[i].on
           n == Unmarked(b, e, FALSE)
           l == Len(m.frames)
<1>0. m \in StateType
  BY DEF Sound
<1>1. /\ Keeps(m, b) /\ OnlyStack(m, b) /\ Restacked(m, b, l - 1)
      /\ i \in ItemIds(m) /\ e \in FxElements /\ Moving(m, i)
      /\ Beside(b, e) \subseteq Beside(m, e) \ {i}
  BY CompletePopped
<1> HIDE DEF b
<1>2. Sound(b) /\ b \in StateType
  BY <1>1 DEF Keeps, Sound
<1>3. /\ Remarked(b, n, e) /\ b.marks[e] \in Nat
      /\ n.marks[e] = IF b.marks[e] <= 1 THEN 0 ELSE b.marks[e] - 1
  BY <1>1, <1>2, UnmarkedFields
<1> HIDE DEF n
<1>4. /\ Sound(n) /\ Len(n.items) = Len(b.items)
      /\ \A x \in FxElements : Orderly(b, x) /\ (x = e => Marked(n, x)) => Orderly(n, x)
  BY <1>2, <1>3, RemarkedGood
<1>5. ASSUME Marked(m, e) PROVE Marked(n, e)
  <2>1. CASE Cardinality(Beside(m, e)) <= m.marks[e]
    <3>1. i \in Beside(m, e)
      BY <1>1 DEF Beside
    <3>2. IsFiniteSet(Beside(m, e)) /\ Cardinality(Beside(m, e)) \in Nat
      BY <1>0, BesideFinite
    <3>3. /\ IsFiniteSet(Beside(m, e) \ {i})
          /\ Cardinality(Beside(m, e) \ {i}) = Cardinality(Beside(m, e)) - 1
      BY <3>1, <3>2, FS_RemoveElement, SMTT(30)
    <3>4. Beside(n, e) = Beside(b, e)
      BY <1>3, SameMoves
    <3>5. Cardinality(Beside(n, e)) <= Cardinality(Beside(m, e) \ {i})
      BY <1>1, <3>3, <3>4, FS_Subset
    <3>6. Cardinality(Beside(n, e)) \in Nat
      BY <1>2, <3>4, BesideFinite
    <3>7. b.marks[e] = m.marks[e]
      BY <1>1 DEF OnlyStack
    <3>8. Cardinality(Beside(n, e)) <= n.marks[e]
      <4> DEFINE c == Cardinality(Beside(m, e))
                 d == Cardinality(Beside(n, e))
                 k == m.marks[e]
      <4>1. c \in Nat /\ d \in Nat /\ k \in Nat /\ c <= k /\ d <= c - 1
        BY <1>3, <2>1, <3>2, <3>3, <3>5, <3>6, <3>7
      <4>2. n.marks[e] = IF k <= 1 THEN 0 ELSE k - 1
        BY <1>3, <3>7
      <4> HIDE DEF c, d, k
      <4>3. d <= n.marks[e]
        BY <4>1, <4>2
      <4> QED BY <4>3 DEF d
    <3> QED BY <3>8 DEF Marked
  <2>2. CASE \E p \in StopsOf(m, e) : ~m.frames[p].gotoEnd
    <3>1. PICK p \in StopsOf(m, e) : ~m.frames[p].gotoEnd
      BY <2>2
    <3>2. Shared(m, b, e, l - 1)
      BY <1>1, RestackedShares
    <3>3. p \in StopsOf(b, e) /\ b.frames[p] = m.frames[p]
      BY <1>0, <1>2, <3>1, <3>2, StopsShared
    <3>4. StopsOf(n, e) = StopsOf(b, e)
      BY <1>3, SameMoves
    <3>5. p \in StopsOf(n, e) /\ n.frames = b.frames
      BY <1>3, <3>3, <3>4 DEF Remarked
    <3> QED BY <3>1, <3>3, <3>5 DEF Marked
  <2> QED BY <1>5, <2>1, <2>2 DEF Marked
<1>6. \A x \in FxElements : Orderly(m, x) => Orderly(n, x)
  BY <1>1, <1>4, <1>5 DEF Keeps, Orderly
<1> QED BY <1>1, <1>4, <1>6 DEF Keeps, n, b

\* The rest of the complete function of a queued animation.
LEMMA QueuedCompletes ==
  ASSUME NEW m, Sound(m), m.frames # <<>>, Last(m.frames).op = "complete",
         m.items[Last(m.frames).item].kind # "unqueued"
  PROVE  Keeps(m, Dequeue(Pop(m), m.items[Last(m.frames).item].on))
<1> DEFINE b == Pop(m)
           i == Last(m.frames).item
           e == m.items[i].on
           n == Dequeue(b, e)
<1>0. m \in StateType /\ ItemsOK(m)
  BY DEF Sound
<1>1. /\ Keeps(m, b) /\ OnlyStack(m, b)
      /\ i \in ItemIds(m) /\ m.items[i].kind \in Animated /\ e \in FxElements
      /\ Moving(m, i) /\ ~Moving(b, i) /\ TopTakes(b, e)
      /\ Orderly(m, e) => Begins(b, e) \subseteq Begins(m, e)
  BY CompletePopped
<1> HIDE DEF b
<1>2. Sound(b)
  BY <1>1 DEF Keeps
<1>3. /\ Sound(n) /\ Len(n.items) = Len(b.items)
      /\ \A x \in FxElements : Orderly(b, x) /\ (x = e => Begins(b, e) = {}) => Orderly(n, x)
  BY <1>1, <1>2, DequeueGood
<1>4. ASSUME Orderly(m, e) PROVE Begins(b, e) = {}
  <2>1. m.items[i].kind = "animation"
    BY <1>1 DEF Animated
  <2>2. i \in Begins(m, e)
    BY <1>1, <2>1 DEF Begins, Lives
  <2>3. ASSUME NEW j \in Begins(b, e) PROVE FALSE
    <3>1. j = i
      BY <1>1, <1>4, <2>2, <2>3 DEF Orderly, OneBegun
    <3>2. Lives(b, i)
      BY <2>3, <3>1 DEF Begins
    <3>3. i \notin b.delays
      BY <1>0, <1>1, <2>1 DEF ItemsOK, OnlyStack
    <3> QED BY <1>1, <2>1, <3>2, <3>3 DEF Lives, OnlyStack
  <2> QED BY <2>3
<1> HIDE DEF n
<1>5. \A x \in FxElements : Orderly(m, x) => Orderly(n, x)
  BY <1>1, <1>3, <1>4 DEF Keeps
<1> QED BY <1>1, <1>3, <1>5 DEF Keeps, n, b

\* A queued function calls next.
LEMMA NextGood ==
  ASSUME NEW m, Sound(m), m.frames # <<>> => m.frames[Len(m.frames)].op = "page",
         NEW i \in ItemIds(m), m.items[i].kind = "function", m.items[i].called = 1
  PROVE  Keeps(m, Dequeue([m EXCEPT !.items[i].called = 2], m.items[i].on))
<1> DEFINE c == [m.items[i] EXCEPT !.called = 2]
           r == [m.items EXCEPT ![i] = c]
           b == [m EXCEPT !.items = r]
           e == m.items[i].on
           n == Dequeue(b, e)
<1>0. m \in StateType /\ ItemsOK(m) /\ FramesOK(m)
  BY DEF Sound
<1>1. m.items \in Seq(ItemType) /\ m.items[i] \in ItemType /\ i \in 1..Len(m.items)
  BY <1>0, StateFields, ItemFields DEF ItemIds
<1>2. /\ c \in ItemType /\ c.kind = m.items[i].kind /\ c.on = e /\ c.called = 2
      /\ c.complete = m.items[i].complete /\ c.todo = m.items[i].todo
  BY <1>1 DEF ItemType
<1> HIDE DEF c
<1>3. /\ r \in Seq(ItemType) /\ Len(r) = Len(m.items)
      /\ \A j \in 1..Len(m.items) : r[j] = IF j = i THEN c ELSE m.items[j]
  BY <1>1, <1>2, Overwritten
<1> HIDE DEF r
<1>4. /\ b \in StateType /\ b.items = r /\ b.arrays = m.arrays /\ b.queue = m.queue
      /\ b.run = m.run /\ b.timers = m.timers /\ b.delays = m.delays /\ b.marks = m.marks
      /\ b.defer = m.defer /\ b.frames = m.frames
  BY <1>0, <1>3 DEF StateType
<1>5. b = [m EXCEPT !.items[i].called = 2]
  BY <1>0 DEF StateType, r, c
<1> HIDE DEF b
<1>6. ASSUME NEW j \in ItemIds(m)
      PROVE  /\ b.items[j].kind = m.items[j].kind /\ b.items[j].on = m.items[j].on
             /\ b.items[j].complete = m.items[j].complete /\ b.items[j].todo = m.items[j].todo
             /\ j # i => b.items[j] = m.items[j]
             /\ b.items[i].called = 2
  BY <1>1, <1>2, <1>3, <1>4 DEF ItemIds
<1>7. Sound(b) /\ KindsKept(m, b)
  <2>1. ASSUME NEW j \in ItemIds(m), b.items[j].kind # "function"
        PROVE  b.items[j].called <= 1 /\ (b.items[j].complete => b.items[j].called = 0)
    BY <1>0, <1>6, <2>1 DEF ItemsOK
  <2>2. \A j \in ItemIds(m) : ~b.items[j].complete => b.items[j].todo = {}
    BY <1>0, <1>6 DEF ItemsOK
  <2>3. b.delays \subseteq ItemIds(m) /\ \A j \in b.delays : j \in m.delays
    BY <1>0, <1>4 DEF ItemsOK
  <2>4. \A p \in Depth(m) : m.frames[p].op = "start" =>
          m.frames[p].left \subseteq b.items[m.frames[p].item].todo
    BY <1>0, <1>6 DEF FramesOK, FrameMade
  <2>5. Len(b.items) = Len(m.items)
    BY <1>3, <1>4
  <2> QED BY <1>4, <1>6, <2>1, <2>2, <2>3, <2>4, <2>5, ItemsSound
<1>8. ItemIds(b) = ItemIds(m)
  BY <1>3, <1>4 DEF ItemIds
<1>9. \A j \in ItemIds(b) : ItemEases(m, b, j)
  <2>1. ASSUME NEW j \in ItemIds(m) PROVE ItemEases(m, b, j)
    <3>1. FramesFrom(m, b, j)
      BY <1>4 DEF FramesFrom, Depth
    <3>2. TimersFrom(m, b, j)
      BY <1>0, <1>4, SameTimers
    <3>3. /\ b.items[j].complete => m.items[j].complete
          /\ b.items[j].kind = "function" /\ b.items[j].called = 1 => m.items[j].called = 1
      BY <1>6
    <3> QED BY <1>0, <1>4, <1>6, <3>1, <3>2, <3>3, Eased
  <2> QED BY <1>8, <2>1
<1> DEFINE l == Len(m.frames)
<1>10. l \in Nat
  BY <1>0, FramesAre
<1>11. ASSUME NEW x \in FxElements, Orderly(m, x)
       PROVE  Orderly(b, x) /\ Begins(b, x) \subseteq Begins(m, x)
  <2>1. Shared(m, b, x, l)
    BY <1>4, <1>10 DEF Shared, StopsOf, Depth
  <2>2. EmptiesKept(m, b, x, l)
    BY <1>4, <1>10 DEF EmptiesKept, Depth
  <2>3. Covered(b, x, l)
    BY <1>4 DEF Covered
  <2>4. b.marks[x] >= m.marks[x]
    BY <1>0, <1>4, StateFields
  <2> QED BY <1>0, <1>4, <1>7, <1>9, <1>11, <2>1, <2>2, <2>3, <2>4, EasedOrderly
<1>12. TopTakes(b, e)
  BY <1>4 DEF TopTakes
<1>13. e \in FxElements
  BY <1>0 DEF ItemsOK
<1>14. /\ Sound(n) /\ Len(n.items) = Len(b.items)
       /\ \A x \in FxElements : Orderly(b, x) /\ (x = e => Begins(b, e) = {}) => Orderly(n, x)
  BY <1>7, <1>12, <1>13, DequeueGood
<1>15. ASSUME Orderly(m, e) PROVE Begins(b, e) = {}
  <2>1. i \in Begins(m, e)
    BY DEF Begins, Lives
  <2>2. ASSUME NEW j \in Begins(b, e) PROVE FALSE
    <3>1. j = i
      BY <1>11, <1>13, <1>15, <2>1, <2>2 DEF Orderly, OneBegun
    <3>2. Lives(b, i)
      BY <2>2, <3>1 DEF Begins
    <3>3. i \notin b.delays
      BY <1>0, <1>4 DEF ItemsOK
    <3>4. b.items[i].kind = "function" /\ b.items[i].called = 2
      BY <1>6
    <3> QED BY <3>2, <3>3, <3>4 DEF Lives
  <2> QED BY <2>2
<1> HIDE DEF n
<1>16. \A x \in FxElements : Orderly(m, x) => Orderly(n, x)
  BY <1>11, <1>14, <1>15
<1>17. Len(b.items) = Len(m.items)
  BY <1>3, <1>4
<1>18. n = Dequeue([m EXCEPT !.items[i].called = 2], m.items[i].on)
  BY <1>5 DEF n
<1> QED BY <1>14, <1>16, <1>17, <1>18 DEF Keeps

\* doAnimation takes the next property.
LEMMA StartReplaced ==
  ASSUME NEW m, Sound(m), m.frames # <<>>, Last(m.frames).op = "start",
         NEW p \in Last(m.frames).left
  PROVE  LET f == Last(m.frames)
             n == Replaced(m, StartFrame(f.item, f.left \ {p}))
             l == Len(m.frames)
         IN  /\ Keeps(m, n) /\ OnlyStack(m, n) /\ Restacked(m, n, l - 1)
             /\ l \in Nat \ {0} /\ Len(n.frames) = l
             /\ n.frames[l].op = "start" /\ n.frames[l].item = f.item
             /\ n.frames[l].left = f.left \ {p}
             /\ l - 1 \notin {q \in Depth(n) : n.frames[q].op = "stop"}
             /\ \A q \in Depth(n) : n.frames[q].op = "start" => q = l \/ n.frames[q].left = {}
<1> DEFINE t == Last(m.frames)
           f == StartFrame(t.item, t.left \ {p})
           n == Replaced(m, f)
           l == Len(m.frames)
<1>0. m \in StateType /\ FramesOK(m)
  BY DEF Sound
<1>1. l \in Nat \ {0} /\ t = m.frames[l] /\ t \in FrameType
  BY <1>0, PopFields
<1>2. l \in Depth(m) /\ l \in Nat /\ l # 0
  BY <1>1 DEF Depth
<1>3. /\ t.item \in ItemIds(m) /\ m.items[t.item].kind \in Animated
      /\ t.left \subseteq m.items[t.item].todo
  BY <1>0, <1>1, <1>2 DEF FramesOK, FrameMade
<1>4. t.item \in Nat /\ t.left \ {p} \in SUBSET Nat
  BY <1>1, FrameIs
<1>5. f \in FrameType /\ f.op = "start" /\ f.item = t.item /\ f.left = t.left \ {p}
  BY <1>4, FramesMake DEF StartFrame
<1>6. ASSUME l > 1 PROVE Above(m, m.frames[l - 1], t)
  <2>1. l - 1 \in Depth(m) /\ l - 1 # l /\ (l - 1) + 1 = l
    BY <1>2, <1>6 DEF Depth
  <2> QED BY <1>0, <1>1, <2>1 DEF FramesOK
<1> HIDE DEF f
<1>7. FrameMade(m, f)
  BY <1>3, <1>5 DEF FrameMade
<1>8. OfElement(m, f) = OfElement(m, t)
  BY <1>5 DEF OfElement
<1>9. ASSUME l > 1 PROVE Above(m, m.frames[l - 1], f) /\ m.frames[l - 1].op # "stop"
  <2>1. Above(m, m.frames[l - 1], t)
    BY <1>6, <1>9
  <2>2. Above(m, m.frames[l - 1], f)
    BY <2>1, <1>5, <1>8, SameAbove
  <2> QED BY <2>1, <2>2 DEF Above
<1>10. /\ Sound(n) /\ OnlyStack(m, n) /\ Len(n.frames) = l
       /\ n.frames[l] = f /\ \A q \in 1..(l - 1) : n.frames[q] = m.frames[q]
  BY <1>1, <1>5, <1>7, <1>9, ReplacedFields
<1> HIDE DEF n
<1>11. n \in StateType /\ FramesOK(n)
  BY <1>10 DEF Sound
<1>12. \A q \in Depth(m) : q > l - 1 => q = l
  BY <1>2 DEF Depth
<1>13. \A q \in Depth(n) : q > l - 1 => q = l
  BY <1>2, <1>10 DEF Depth
<1>14. ASSUME l - 1 # 0 PROVE l > 1 /\ n.frames[l - 1] = m.frames[l - 1]
  <2>1. l \in Nat /\ l # 0 /\ l # 1
    BY <1>2, <1>14
  <2>2. l > 1 /\ l - 1 \in 1..(l - 1)
    BY <2>1, OneLess
  <2> QED BY <1>10, <2>2
<1>15. Starting(m, t.item)
  BY <1>1, <1>2 DEF Starting
<1>16. Restacked(m, n, l - 1)
  BY <1>1, <1>2, <1>5, <1>9, <1>10, <1>11, <1>12, <1>13, <1>14, <1>15 DEF Restacked
<1>17. l - 1 \notin {q \in Depth(n) : n.frames[q].op = "stop"}
  <2> SUFFICES ASSUME l - 1 \in Depth(n) PROVE n.frames[l - 1].op # "stop"
    OBVIOUS
  <2>1. l - 1 # 0
    BY <1>2, <1>10 DEF Depth
  <2> QED BY <1>9, <1>14, <2>1
<1>18. ASSUME NEW q \in Depth(n), n.frames[q].op = "start", q # l PROVE n.frames[q].left = {}
  BY <1>10, <1>11, <1>18 DEF FramesOK, Above
<1>19. \A x \in FxElements : Orderly(m, x) => Orderly(n, x)
  BY <1>16, RestackedOrderly
<1>20. Keeps(m, n)
  BY <1>10, <1>19 DEF Keeps, OnlyStack
<1>21. n.frames[l].op = "start" /\ n.frames[l].item = t.item /\ n.frames[l].left = t.left \ {p}
  BY <1>5, <1>10
<1> QED BY <1>1, <1>10, <1>16, <1>17, <1>18, <1>20, <1>21 DEF n, f

\* A property that has nothing to do ends at once.
LEMMA StartFinishes ==
  ASSUME NEW m, Sound(m), m.frames # <<>>, Last(m.frames).op = "start",
         NEW timer, timer.item = Last(m.frames).item, timer.property \in Last(m.frames).left
  PROVE  LET f == Last(m.frames)
         IN  Keeps(m, Finished(Replaced(m, StartFrame(f.item, f.left \ {timer.property})), timer))
<1> DEFINE f == Last(m.frames)
           i == timer.item
           p == timer.property
           b == Replaced(m, StartFrame(f.item, f.left \ {p}))
           l == Len(m.frames)
           n == Finished(b, timer)
<1>0. m \in StateType /\ FramesOK(m)
  BY DEF Sound
<1>1. l \in Nat \ {0} /\ f = m.frames[l] /\ f \in FrameType
  BY <1>0, PopFields
<1>2. l \in Depth(m)
  BY <1>1 DEF Depth
<1>3. /\ i \in ItemIds(m) /\ m.items[i].kind \in Animated /\ f.left \subseteq m.items[i].todo
  BY <1>0, <1>1, <1>2 DEF FramesOK, FrameMade
<1>4. /\ Keeps(m, b) /\ OnlyStack(m, b) /\ Restacked(m, b, l - 1)
      /\ Len(b.frames) = l
      /\ b.frames[l].op = "start" /\ b.frames[l].item = i
      /\ b.frames[l].left = f.left \ {p}
      /\ l - 1 \notin {q \in Depth(b) : b.frames[q].op = "stop"}
      /\ \A q \in Depth(b) : b.frames[q].op = "start" => q = l \/ b.frames[q].left = {}
  BY StartReplaced
<1> HIDE DEF b
<1>5. Sound(b) /\ ItemIds(b) = ItemIds(m)
  BY <1>4 DEF Keeps, ItemIds
<1>6. ASSUME m.items[i].todo \ {p} = {}
      PROVE  Above(b, b.frames[Len(b.frames)], CompleteFrame(i))
  <2>1. b.frames[l].left = {}
    BY <1>3, <1>4, <1>6
  <2>2. CompleteFrame(i).op = "complete" /\ CompleteFrame(i).item = i
    BY DEF CompleteFrame
  <2> QED BY <1>4, <2>1, <2>2 DEF Above, OfElement
<1>7. \A q \in Depth(b) : b.frames[q].op = "start" /\ b.frames[q].item = i =>
        p \notin b.frames[q].left
  BY <1>4
<1>8. Finishes(b, timer)
  BY <1>3, <1>4, <1>5, <1>6, <1>7 DEF Finishes, OnlyStack
<1>9. Moving(m, i)
  BY <1>1, <1>2 DEF Moving, Starting
<1>10. /\ \A x : Shared(m, b, x, l - 1) /\ EmptiesKept(m, b, x, l - 1)
       /\ \A j \in ItemIds(m) : FramesFrom(m, b, j)
  BY <1>4, RestackedShares
<1>11. FinishesAfter(m, b, timer)
  BY <1>4, <1>8, <1>9, <1>10 DEF FinishesAfter
<1>12. ASSUME NEW x PROVE FinishesFor(m, b, timer, x, l - 1)
  BY <1>4, <1>10 DEF FinishesFor, StopsOf
<1>13. FinishedTo(b, timer, n)
  BY <1>5, <1>8, FinishedFields
<1> HIDE DEF n
<1>14. Sound(n) /\ Len(n.items) = Len(m.items)
  BY <1>4, <1>13 DEF FinishedTo, OnlyStack
<1>15. \A x \in FxElements : Orderly(m, x) => Orderly(n, x)
  BY <1>5, <1>11, <1>12, FinishedOrderly DEF n
<1> QED BY <1>14, <1>15 DEF Keeps, n, b

\* A property gets a timer while its item is starting.
LEMMA TimerAdded ==
  ASSUME NEW m, Sound(m), m.frames # <<>>, Last(m.frames).op = "start",
         Last(m.frames).left # {}, NEW timer \in TimerType, timer.item = Last(m.frames).item
  PROVE  LET n == [m EXCEPT !.timers = Append(m.timers, timer), !.interval = TRUE]
         IN  Keeps(m, n) /\ n \in StateType /\ n.frames = m.frames /\ n.items = m.items
<1> DEFINE f == Last(m.frames)
           i == timer.item
           l == Len(m.frames)
           r == Append(m.timers, timer)
           n == [m EXCEPT !.timers = r, !.interval = TRUE]
           t == Len(m.timers)
<1>0. m \in StateType /\ ItemsOK(m) /\ QueuesOK(m) /\ FramesOK(m) /\ m.timers \in Seq(TimerType)
  BY StateFields DEF Sound
<1>1. l \in Nat \ {0} /\ f = m.frames[l] /\ f \in FrameType
  BY <1>0, PopFields
<1>2. l \in Depth(m)
  BY <1>1 DEF Depth
<1>3. i \in ItemIds(m) /\ m.items[i].kind \in Animated
  BY <1>0, <1>1, <1>2 DEF FramesOK, FrameMade
<1>4. /\ r \in Seq(TimerType) /\ t \in Nat /\ Len(r) = t + 1 /\ r[t + 1] = timer
      /\ \A k \in 1..t : r[k] = m.timers[k]
  BY <1>0, ItemOf, Pushed
<1> HIDE DEF r
<1>5. /\ n \in StateType /\ n.timers = r /\ n.items = m.items /\ n.frames = m.frames
      /\ n.arrays = m.arrays /\ n.queue = m.queue /\ n.run = m.run /\ n.delays = m.delays
      /\ n.marks = m.marks /\ n.defer = m.defer
  BY <1>0, <1>4 DEF StateType
<1> HIDE DEF n
<1>6. ItemIds(n) = ItemIds(m) /\ Depth(n) = Depth(m)
  BY <1>5 DEF ItemIds, Depth
<1>7. ASSUME NEW k \in Places(n)
      PROVE  (k \in Places(m) /\ n.timers[k] = m.timers[k]) \/ n.timers[k].item = i
  <2>1. k \in 1..t \/ k = t + 1
    BY <1>4, <1>5 DEF Places
  <2> QED BY <1>4, <1>5, <2>1 DEF Places
<1>8. ASSUME NEW k \in Places(m) PROVE k \in Places(n) /\ n.timers[k] = m.timers[k]
  BY <1>4, <1>5 DEF Places
<1>9. ItemsOK(n)
  <2>1. \A k \in Places(n) :
          n.timers[k].item \in ItemIds(n) /\ n.items[n.timers[k].item].kind \in Animated
    BY <1>0, <1>3, <1>5, <1>6, <1>7 DEF ItemsOK
  <2> QED BY <1>0, <1>5, <1>6, <2>1 DEF ItemsOK
<1>10. KindsKept(m, n)
  <2>1. Len(m.items) \in Nat
    BY <1>0, StateFields, ItemOf
  <2> QED BY <1>5, <2>1 DEF KindsKept
<1>11. QueuesOK(n)
  BY <1>0, <1>5, <1>10, QueuesSame
<1>12. FramesOK(n)
  <2>1. StackOnly(m, n)
    BY <1>5 DEF StackOnly
  <2>2. Len(n.frames) <= Len(m.frames) /\ \A p \in Depth(n) : n.frames[p] = m.frames[p]
    BY <1>1, <1>5
  <2> QED BY <1>0, <1>5, <2>1, <2>2, FramesCut
<1>13. Sound(n)
  BY <1>5, <1>9, <1>11, <1>12 DEF Sound
<1>14. \A j : Starting(n, j) = Starting(m, j) /\ Completing(n, j) = Completing(m, j)
  BY <1>5, <1>6 DEF Starting, Completing
<1>15. Starting(m, i)
  BY <1>1, <1>2 DEF Starting
<1>16. ASSUME NEW j, j # i PROVE HasTimer(n, j) = HasTimer(m, j)
  BY <1>7, <1>8, <1>16 DEF HasTimer
<1>17. ASSUME NEW j PROVE Moving(n, j) = Moving(m, j)
  BY <1>5, <1>14, <1>15, <1>16 DEF Moving
<1>18. ASSUME NEW j PROVE Lives(n, j) = Lives(m, j)
  BY <1>5, <1>17 DEF Lives
<1>19. ASSUME NEW x PROVE Begins(n, x) = Begins(m, x) /\ Beside(n, x) = Beside(m, x)
  BY <1>5, <1>6, <1>17, <1>18 DEF Begins, Beside
<1>20. ASSUME NEW x PROVE StopsOf(n, x) = StopsOf(m, x)
  BY <1>5, <1>6 DEF StopsOf
<1>21. ASSUME NEW x \in FxElements, Orderly(m, x) PROVE Orderly(n, x)
  <2>1. /\ Begins(n, x) = Begins(m, x) /\ Beside(n, x) = Beside(m, x)
        /\ StopsOf(n, x) = StopsOf(m, x)
    BY <1>19, <1>20
  <2>2. \A g : OfElement(n, g) = OfElement(m, g)
    BY <1>5 DEF OfElement
  <2>3. OneBegun(n, x) /\ DelayRuns(n, x)
    BY <1>5, <1>21, <2>1 DEF Orderly, OneBegun, DelayRuns
  <2>4. Unqueued(n, x)
    BY <1>5, <1>21, <2>1, <2>2 DEF Orderly, Unqueued
  <2>5. StartsQueued(n, x)
    BY <1>5, <1>14, <1>21, <2>1 DEF Orderly, StartsQueued
  <2>6. EmptyOnes(n, x)
    BY <1>5, <1>6, <1>21, <2>1 DEF Orderly, EmptyOnes
  <2>7. Marked(n, x)
    BY <1>5, <1>21, <2>1 DEF Orderly, Marked
  <2>8. ASSUME NEW p \in StopsOf(n, x) PROVE StopOK(n, x, p)
    <3>1. StopOK(m, x, p)
      BY <1>21, <2>1, <2>8 DEF Orderly
    <3>2. p # l
      BY <1>1, <2>1, <2>8 DEF StopsOf
    <3>3. Settled(m.frames[p])
      BY <3>1, <3>2 DEF StopOK
    <3>4. ASSUME n.queue[x] = 0, NEW j \in Begins(n, x) PROVE ToCome(n, j, n.frames[p].at)
      <4>1. j # i
        BY <1>5, <1>15, <1>21, <2>1, <3>4 DEF Orderly, StartsQueued
      <4>2. ToCome(m, j, m.frames[p].at)
        BY <1>5, <2>1, <3>1, <3>4 DEF StopOK
      <4> QED BY <1>5, <1>7, <4>1, <4>2 DEF ToCome
    <3>5. n.frames[p].gotoEnd
      BY <1>5, <3>3 DEF Settled
    <3> QED BY <1>5, <2>2, <3>1, <3>3, <3>4, <3>5 DEF StopOK
  <2> QED BY <2>3, <2>4, <2>5, <2>6, <2>7, <2>8 DEF Orderly
<1> QED BY <1>5, <1>13, <1>21 DEF Keeps, n, r

\* A property gets a timer.
LEMMA StartTimed ==
  ASSUME NEW m, Sound(m), m.frames # <<>>, Last(m.frames).op = "start",
         NEW timer \in TimerType, timer.item = Last(m.frames).item,
         timer.property \in Last(m.frames).left
  PROVE  LET f == Last(m.frames)
         IN  Keeps(m, [Replaced(m, StartFrame(f.item, f.left \ {timer.property}))
                         EXCEPT !.timers = Append(@, timer), !.interval = TRUE])
<1> DEFINE f == Last(m.frames)
           g == StartFrame(f.item, f.left \ {timer.property})
           o == [m EXCEPT !.timers = Append(m.timers, timer), !.interval = TRUE]
           n == Replaced(o, g)
<1>0. m \in StateType
  BY DEF Sound
<1>1. Keeps(m, o) /\ o \in StateType /\ o.frames = m.frames /\ o.items = m.items
  BY TimerAdded
<1>2. n = [Replaced(m, g) EXCEPT !.timers = Append(@, timer), !.interval = TRUE]
  <2> HIDE DEF g
  <2> QED BY <1>0 DEF Replaced, Push, Pop, StateType
<1> HIDE DEF o
<1>3. Sound(o)
  BY <1>1 DEF Keeps
<1>4. Keeps(o, n)
  <2> DEFINE h == Last(o.frames)
  <2>1. h = f
    BY <1>1
  <2>2. o.frames # <<>> /\ h.op = "start" /\ timer.property \in h.left
    BY <1>1, <2>1
  <2>3. Keeps(o, Replaced(o, StartFrame(h.item, h.left \ {timer.property})))
    BY <1>3, <2>2, StartReplaced
  <2> HIDE DEF h
  <2> QED BY <2>1, <2>3
<1> HIDE DEF n
<1> QED BY <1>1, <1>2, <1>4, KeepsKeeps

\* The timeout of a delay.
LEMMA DelayGood ==
  ASSUME NEW m, Sound(m), m.frames = <<>>, NEW i \in m.delays
  PROVE  Keeps(m, Dequeue([m EXCEPT !.delays = @ \ {i}], m.items[i].on))
<1> DEFINE b == [m EXCEPT !.delays = @ \ {i}]
           e == m.items[i].on
           n == Dequeue(b, e)
<1>0. m \in StateType /\ ItemsOK(m) /\ m.delays \in SUBSET Nat
  BY StateFields DEF Sound
<1>1. i \in ItemIds(m) /\ m.items[i].kind = "delay" /\ e \in FxElements
  BY <1>0 DEF ItemsOK
<1>2. /\ b \in StateType /\ b.items = m.items /\ b.frames = m.frames /\ b.arrays = m.arrays
      /\ b.queue = m.queue /\ b.run = m.run /\ b.delays = m.delays \ {i}
      /\ b.timers = m.timers /\ b.marks = m.marks /\ b.defer = m.defer
  BY <1>0 DEF StateType
<1> HIDE DEF b
<1>3. \A x \in FxElements : b.defer[x] \in 0..Len(m.items)
  BY <1>0, <1>2 DEF ItemsOK
<1>4. Sound(b)
  <2>1. \A k \in Places(b) : \E l \in Places(m) : b.timers[k].item = m.timers[l].item
    BY <1>2 DEF Places
  <2> QED BY <1>2, <1>3, <2>1, QuietSound
<1>5. ASSUME NEW x \in FxElements, Orderly(m, x) PROVE Orderly(b, x)
  <2>1. \A j \in ItemIds(m) : TimersFrom(m, b, j)
    BY <1>0, <1>2, SameTimers
  <2>2. b.marks[x] >= m.marks[x] /\ b.delays \subseteq m.delays
    BY <1>0, <1>2, StateFields
  <2> QED BY <1>2, <1>5, <2>1, <2>2, StillOrderly
<1>6. ASSUME Orderly(m, e) PROVE Begins(b, e) = {}
  <2>1. i \in Begins(m, e)
    BY <1>1 DEF Begins, Lives
  <2>2. ASSUME NEW j \in Begins(b, e) PROVE FALSE
    <3>1. /\ j \in ItemIds(m) /\ m.items[j].on = e /\ Lives(b, j)
      BY <1>2, <2>2 DEF Begins, ItemIds
    <3>2. Moving(b, j) = Moving(m, j)
      BY <1>2 DEF Moving, HasTimer, Starting, Completing, Places, Depth
    <3>3. Lives(m, j) /\ j # i
      BY <1>1, <1>2, <3>1, <3>2 DEF Lives
    <3>4. j \in Begins(m, e)
      BY <3>1, <3>3 DEF Begins
    <3> QED BY <1>6, <2>1, <3>3, <3>4 DEF Orderly, OneBegun
  <2> QED BY <2>2
<1>7. TopTakes(b, e)
  BY <1>2 DEF TopTakes
<1>8. /\ Sound(n) /\ Len(n.items) = Len(b.items)
      /\ \A x \in FxElements : Orderly(b, x) /\ (x = e => Begins(b, e) = {}) => Orderly(n, x)
  BY <1>1, <1>4, <1>7, DequeueGood
<1> HIDE DEF n
<1>9. \A x \in FxElements : Orderly(m, x) => Orderly(n, x)
  BY <1>5, <1>6, <1>8
<1> QED BY <1>2, <1>8, <1>9 DEF Keeps, n, b

\* Only deferrals.
Deferred(m, n) ==
  /\ n \in StateType /\ n.items = m.items /\ n.frames = m.frames /\ n.arrays = m.arrays
  /\ n.queue = m.queue /\ n.run = m.run /\ n.delays = m.delays /\ n.timers = m.timers
  /\ n.marks = m.marks /\ \A x \in FxElements : n.defer[x] \in 0..Len(m.items)

LEMMA DeferredGood ==
  ASSUME NEW m, Sound(m), NEW n, Deferred(m, n)
  PROVE  Keeps(m, n)
<1>0. m \in StateType
  BY DEF Sound
<1>1. Sound(n)
  <2>1. \A k \in Places(n) : \E l \in Places(m) : n.timers[k].item = m.timers[l].item
    BY DEF Places, Deferred
  <2> QED BY <2>1, QuietSound DEF Deferred
<1>2. ASSUME NEW x \in FxElements, Orderly(m, x) PROVE Orderly(n, x)
  <2>1. \A j \in ItemIds(m) : TimersFrom(m, n, j)
    BY <1>0, SameTimers DEF Deferred
  <2>2. n.marks[x] >= m.marks[x]
    BY <1>0, StateFields DEF Deferred
  <2> QED BY <1>2, <2>1, <2>2, StillOrderly DEF Deferred
<1> QED BY <1>1, <1>2 DEF Keeps, Deferred

\* The timeout of a deferral.
LEMMA DeferralGood ==
  ASSUME NEW m, Sound(m), m.deferrals # <<>>
  PROVE  LET d == Head(m.deferrals)
             n == [m EXCEPT !.deferrals = Tail(@)]
         IN  Keeps(m, n) /\ Keeps(m, [n EXCEPT !.defer[d[1]] = 0])
<1> DEFINE d == Head(m.deferrals)
           n == [m EXCEPT !.deferrals = Tail(@)]
           z == [m.defer EXCEPT ![d[1]] = 0]
           o == [n EXCEPT !.defer = z]
<1>0. /\ m \in StateType /\ m.deferrals \in Seq(FxElements \X Nat)
      /\ m.defer \in [FxElements -> Nat] /\ ItemsOK(m) /\ Len(m.items) \in Nat
  BY StateFields, ItemOf DEF Sound
<1>1. d \in FxElements \X Nat /\ Tail(m.deferrals) \in Seq(FxElements \X Nat)
  BY <1>0
<1>2. d[1] \in FxElements
  BY <1>1
<1> HIDE DEF d
<1>3. /\ z \in [FxElements -> Nat]
      /\ \A x \in FxElements : z[x] \in 0..Len(m.items) /\ m.defer[x] \in 0..Len(m.items)
  BY <1>0, <1>2 DEF ItemsOK
<1> HIDE DEF z
<1>4. Deferred(m, n)
  <2>1. n \in StateType /\ n.defer = m.defer
    BY <1>0, <1>1 DEF StateType
  <2>2. /\ n.items = m.items /\ n.frames = m.frames /\ n.arrays = m.arrays
        /\ n.queue = m.queue /\ n.run = m.run /\ n.delays = m.delays /\ n.timers = m.timers
        /\ n.marks = m.marks
    BY <1>0 DEF StateType
  <2> QED BY <1>3, <2>1, <2>2 DEF Deferred
<1>5. n.defer = m.defer
  BY <1>0 DEF StateType
<1>6. o = [n EXCEPT !.defer[d[1]] = 0]
  BY <1>5 DEF z
<1> HIDE DEF n
<1>7. Deferred(m, o)
  <2>1. n \in StateType
    BY <1>4 DEF Deferred
  <2>2. o \in StateType /\ o.defer = z
    BY <1>3, <2>1 DEF StateType
  <2>3. /\ o.items = n.items /\ o.frames = n.frames /\ o.arrays = n.arrays
        /\ o.queue = n.queue /\ o.run = n.run /\ o.delays = n.delays /\ o.timers = n.timers
        /\ o.marks = n.marks
    BY <2>1 DEF StateType
  <2> HIDE DEF o
  <2> QED BY <1>3, <1>4, <2>2, <2>3 DEF Deferred
<1> HIDE DEF o
<1>8. Keeps(m, n) /\ Keeps(m, o)
  BY <1>4, <1>7, DeferredGood
<1> QED BY <1>6, <1>8 DEF n, d

\* Page code that queues nothing: the item says only that it called.
LEMMA CalledGood ==
  ASSUME NEW m, Sound(m)
  PROVE  LET n == Added(m, NoItem)
         IN  /\ Sound(n) /\ Len(n.items) = Len(m.items) + 1
             /\ \A x \in FxElements : Orderly(m, x) =>
                  Orderly(n, x) /\ Begins(n, x) \subseteq Begins(m, x)
<1>1. /\ NoItem.kind = "none" /\ NoItem.complete = FALSE /\ NoItem.called = 0
      /\ NoItem.todo = {}
  BY DEF NoItem
<1>2. NoItem \in ItemType
  BY DEF ItemType, NoItem
<1>3. Fresh(NoItem)
  BY <1>1, <1>2 DEF Fresh
<1>4. m \in StateType
  BY DEF Sound
<1> QED BY <1>2, <1>3, <1>4, AddedGood, AddedFields

\* promise gives elements deferrals of its own.
LEMMA PromiseGood ==
  ASSUME NEW m, Sound(m), NEW d, d = [x \in FxElements |-> d[x]],
         \A x \in FxElements : d[x] \in {Len(m.items) + 1, m.defer[x]}
  PROVE  LET n == [Added(m, NoItem) EXCEPT !.defer = d]
         IN  /\ Sound(n) /\ Len(n.items) = Len(m.items) + 1
             /\ \A x \in FxElements : Orderly(m, x) => Orderly(n, x)
<1> DEFINE b == Added(m, NoItem)
           n == [b EXCEPT !.defer = d]
<1>0. m \in StateType /\ Len(m.items) \in Nat /\ m.defer \in [FxElements -> Nat] /\ ItemsOK(m)
  BY StateFields, ItemOf DEF Sound
<1>1. /\ Sound(b) /\ Len(b.items) = Len(m.items) + 1
      /\ \A x \in FxElements : Orderly(m, x) => Orderly(b, x)
  BY CalledGood
<1> HIDE DEF b
<1>4. b \in StateType
  BY <1>1 DEF Sound
<1>5. d \in [FxElements -> Nat] /\ \A x \in FxElements : d[x] \in 0..Len(b.items)
  BY <1>0, <1>1 DEF ItemsOK
<1>6. n \in StateType /\ n.defer = d
  BY <1>4, <1>5 DEF StateType
<1>7. /\ n.items = b.items /\ n.frames = b.frames /\ n.arrays = b.arrays
      /\ n.queue = b.queue /\ n.run = b.run /\ n.delays = b.delays /\ n.timers = b.timers
      /\ n.marks = b.marks
  BY <1>4 DEF StateType
<1>8. Deferred(b, n)
  BY <1>5, <1>6, <1>7 DEF Deferred
<1> HIDE DEF n
<1>9. Keeps(b, n)
  BY <1>1, <1>8, DeferredGood
<1>10. /\ Sound(n) /\ Len(n.items) = Len(m.items) + 1
       /\ \A x \in FxElements : Orderly(m, x) => Orderly(n, x)
  BY <1>1, <1>9 DEF Keeps
<1> QED BY <1>10 DEF b, n

\* The stop on top of the stack goes on: timers may be cut, and its frame is now g.
StopMoves(m, c, g) ==
  /\ m.frames # <<>> /\ Last(m.frames).op = "stop" /\ Retimed(m, c)
  /\ g \in FrameType /\ g.op = "stop" /\ g.on = Last(m.frames).on
  /\ g.gotoEnd = Last(m.frames).gotoEnd /\ (Last(m.frames).had => g.had)
  /\ g.timer # NoTimer => g.at # 0
  /\ \A i \in ItemIds(m) :
       m.items[i].on = g.on /\ ToCome(m, i, Last(m.frames).at) => ToCome(c, i, g.at)

LEMMA StopMoved ==
  ASSUME NEW m, Sound(m), NEW c, NEW g, StopMoves(m, c, g)
  PROVE  LET n == Replaced(c, g)
             l == Len(m.frames)
         IN  /\ Keeps(m, n) /\ OnlyStack(c, n) /\ l \in Nat \ {0} /\ Len(n.frames) = l
             /\ n.frames[l] = g /\ g.on \in FxElements
             /\ \A q \in Depth(n) : n.frames[q].op = "start" => n.frames[q].left = {}
<1> DEFINE f == Last(m.frames)
           e == g.on
           n == Replaced(c, g)
           l == Len(m.frames)
<1> /\ m.frames # <<>> /\ f.op = "stop" /\ Retimed(m, c)
    /\ g \in FrameType /\ g.op = "stop" /\ g.on = f.on
    /\ g.gotoEnd = f.gotoEnd /\ (f.had => g.had) /\ (g.timer # NoTimer => g.at # 0)
  BY DEF StopMoves
<1>0. m \in StateType /\ FramesOK(m) /\ ItemsOK(m)
  BY DEF Sound
<1>1. l \in Nat \ {0} /\ f = m.frames[l] /\ f \in FrameType
  BY <1>0, PopFields
<1>2. l \in Depth(m) /\ l \in Nat /\ l # 0 /\ e \in FxElements
  BY <1>1, FrameIs DEF Depth
<1>3. Keeps(m, c) /\ c.frames = m.frames /\ c.items = m.items
  BY RetimedGood DEF Retimed
<1>4. Sound(c) /\ c \in StateType /\ FramesOK(c) /\ ItemIds(c) = ItemIds(m) /\ ItemsOK(c)
  BY <1>3 DEF Keeps, Sound, ItemIds
<1>5. FrameMade(c, g)
  BY DEF FrameMade
<1>6. ASSUME l > 1 PROVE Above(c, m.frames[l - 1], g) /\ m.frames[l - 1].op # "stop"
  <2>1. l - 1 \in Depth(c) /\ l - 1 # Len(c.frames) /\ (l - 1) + 1 = l
    BY <1>2, <1>3, <1>6 DEF Depth
  <2>2. Above(c, m.frames[l - 1], f)
    BY <1>1, <1>3, <1>4, <2>1 DEF FramesOK
  <2>3. OfElement(c, g) = OfElement(c, f)
    BY DEF OfElement
  <2> HIDE DEF f
  <2>4. Above(c, m.frames[l - 1], g)
    BY <2>2, <2>3, SameAbove
  <2> QED BY <2>2, <2>4 DEF Above
<1>7. /\ Sound(n) /\ OnlyStack(c, n) /\ Len(n.frames) = l
      /\ n.frames[l] = g /\ \A p \in 1..(l - 1) : n.frames[p] = m.frames[p]
      /\ ItemIds(n) = ItemIds(m) /\ KindsKept(c, n)
  BY <1>3, <1>4, <1>5, <1>6, ReplacedFields
<1> HIDE DEF n
<1>8. /\ n \in StateType /\ FramesOK(n) /\ n.items = m.items /\ n.arrays = m.arrays
      /\ n.queue = m.queue /\ n.run = m.run /\ n.delays = m.delays /\ n.marks = m.marks
      /\ n.timers = c.timers
  BY <1>7 DEF Sound, OnlyStack, Retimed
<1>9. Depth(n) = Depth(m) /\ Places(n) = Places(c)
  BY <1>7, <1>8 DEF Depth, Places
<1>10. ASSUME NEW p \in Depth(m), p # l
       PROVE  p \in 1..(l - 1) /\ n.frames[p] = m.frames[p]
  BY <1>2, <1>7, <1>10 DEF Depth
<1>11. ASSUME NEW i \in ItemIds(m) PROVE ItemEases(m, n, i)
  <2>1. FramesFrom(m, n, i)
    BY <1>7, <1>9, <1>10 DEF FramesFrom
  <2>2. TimersFrom(m, n, i)
    <3>1. TimersFrom(m, c, i)
      BY RetimedGood
    <3> QED BY <1>8, <1>9, <3>1 DEF TimersFrom
  <2> QED BY <1>0, <1>8, <2>1, <2>2, Eased
<1>12. KindsKept(m, n)
  BY <1>3, <1>4, <1>7 DEF KindsKept
<1>13. ASSUME NEW x PROVE StopsOf(n, x) = StopsOf(m, x)
  BY <1>1, <1>7, <1>9, <1>10 DEF StopsOf
<1>14. ASSUME NEW x \in FxElements, x # e, Orderly(m, x) PROVE Orderly(n, x)
  <2>1. ASSUME NEW p \in StopsOf(m, x) PROVE p \in 1..(l - 1)
    <3>1. p # l /\ p \in Depth(m)
      BY <1>1, <1>14, <2>1 DEF StopsOf
    <3> QED BY <1>10, <3>1
  <2>2. Shared(m, n, x, l - 1)
    <3>1. l - 1 \in 0..l /\ l - 1 <= l
      BY <1>2
    <3>2. \A p \in StopsOf(m, x) \cup StopsOf(n, x) : p <= l - 1
      BY <1>2, <1>13, <2>1
    <3> QED BY <1>7, <3>1, <3>2 DEF Shared
  <2>3. EmptiesKept(m, n, x, l - 1)
    <3> SUFFICES ASSUME NEW p \in Depth(n), n.frames[p].op = "dequeue",
                        n.arrays[n.frames[p].array] = <<>>
                 PROVE  p <= l - 1 /\ m.arrays[n.frames[p].array] = <<>>
      BY DEF EmptiesKept
    <3>1. p # l /\ p \in Depth(m)
      BY <1>7, <1>9
    <3>2. p \in 1..(l - 1)
      BY <1>10, <3>1
    <3> QED BY <1>2, <1>8, <3>2
  <2>4. Covered(n, x, l - 1)
    <3> SUFFICES ASSUME l - 1 \in StopsOf(n, x) PROVE FALSE
      BY DEF Covered
    <3>1. l - 1 \in StopsOf(m, x)
      BY <1>13
    <3>2. l - 1 \in 1..(l - 1) /\ m.frames[l - 1].op = "stop"
      BY <2>1, <3>1 DEF StopsOf
    <3> QED BY <1>2, <1>6, <3>2
  <2>5. \A i \in ItemIds(n) : n.items[i].on = x => ItemEases(m, n, i)
    BY <1>7, <1>11
  <2>6. n.marks[x] >= m.marks[x]
    BY <1>0, <1>8, StateFields
  <2> QED BY <1>0, <1>8, <1>12, <1>14, <2>2, <2>3, <2>4, <2>5, <2>6, EasedOrderly
<1>15. ASSUME Orderly(m, e) PROVE Orderly(n, e)
  <2>1. Calmer(m, n, e)
    BY <1>0, <1>7, <1>8, <1>11, <1>12, CalmerThen
  <2>2. /\ Begins(n, e) \subseteq Begins(m, e) /\ Beside(n, e) \subseteq Beside(m, e)
        /\ \A i \in Begins(n, e) : Starting(n, i) => Starting(m, i)
    BY <2>1 DEF Calmer
  <2>3. \A h : OfElement(n, h) = OfElement(m, h)
    BY <1>8 DEF OfElement
  <2>4. l \in StopsOf(m, e) /\ l \in StopsOf(n, e) /\ StopOK(m, e, l)
    <3>1. l \in StopsOf(m, e)
      BY <1>1, <1>2 DEF StopsOf
    <3> QED BY <1>13, <1>15, <3>1 DEF Orderly
  <2>5. ASSUME NEW p \in StopsOf(n, e) PROVE p = l
    <3>1. p \in Depth(m) /\ m.frames[p].op = "stop" /\ OfElement(m, m.frames[p]) = e
      BY <1>13, <2>5 DEF StopsOf, OfElement
    <3>2. ASSUME p # l PROVE FALSE
      <4>1. p \in 1..(l - 1)
        BY <1>10, <3>1, <3>2
      <4> QED BY <2>4, <3>1, <4>1 DEF StopOK
    <3> QED BY <3>2
  <2>6. OneBegun(n, e) /\ DelayRuns(n, e) /\ StartsQueued(n, e)
    BY <1>8, <1>15, <2>2 DEF Orderly, OneBegun, DelayRuns, StartsQueued
  <2>7. Unqueued(n, e)
    <3>1. ASSUME n.queue[e] = 0, NEW i \in Begins(n, e) PROVE n.items[i].kind = "animation"
      BY <1>8, <1>15, <2>2, <3>1 DEF Orderly, Unqueued
    <3> QED BY <1>7, <2>4, <3>1 DEF Unqueued
  <2>8. EmptyOnes(n, e)
    <3> SUFFICES ASSUME NEW p \in Depth(n), n.frames[p].op = "dequeue", n.frames[p].on = e,
                        n.arrays[n.frames[p].array] = <<>>
                 PROVE  n.queue[e] = 0 /\ Begins(n, e) = {}
      BY DEF EmptyOnes
    <3>1. p # l /\ p \in Depth(m)
      BY <1>7, <1>9
    <3>2. n.frames[p] = m.frames[p]
      BY <1>10, <3>1
    <3>3. m.queue[e] = 0 /\ Begins(m, e) = {}
      BY <1>8, <1>15, <3>1, <3>2 DEF Orderly, EmptyOnes
    <3> QED BY <1>8, <2>2, <3>3
  <2>9. Marked(n, e)
    <3>1. CASE Cardinality(Beside(m, e)) <= m.marks[e]
      <4>1. IsFiniteSet(Beside(m, e)) /\ Cardinality(Beside(m, e)) \in Nat
        BY <1>0, BesideFinite
      <4>2. Cardinality(Beside(n, e)) <= Cardinality(Beside(m, e))
        BY <2>2, <4>1, FS_Subset
      <4>3. Cardinality(Beside(n, e)) \in Nat /\ m.marks[e] \in Nat
        BY <1>0, <1>2, <1>8, BesideFinite, StateFields
      <4> QED BY <1>8, <3>1, <4>1, <4>2, <4>3 DEF Marked
    <3>2. CASE \E p \in StopsOf(m, e) : ~m.frames[p].gotoEnd
      <4>1. ~g.gotoEnd
        BY <1>1, <1>13, <2>5, <3>2
      <4> QED BY <1>7, <2>4, <4>1 DEF Marked
    <3> QED BY <1>15, <3>1, <3>2 DEF Orderly, Marked
  <2>10. StopOK(n, e, l)
    <3>1. \A q \in 1..(l - 1) :
            n.frames[q].op \in {"page", "complete", "stop"} => OfElement(n, n.frames[q]) # e
      BY <1>7, <2>3, <2>4 DEF StopOK
    <3>2. ~Settled(g) => ~Settled(f)
      BY DEF Settled
    <3>3. ~Settled(g) => \A i \in Begins(n, e) : n.items[i].kind = "animation"
      BY <1>1, <1>8, <2>2, <2>4, <3>2 DEF StopOK
    <3>4. ASSUME NEW i \in ItemIds(m), m.items[i].on = e, ToCome(m, i, f.at)
          PROVE  ToCome(n, i, g.at)
      <4>1. ToCome(c, i, g.at)
        BY <3>4 DEF StopMoves
      <4> QED BY <1>8, <1>9, <4>1 DEF ToCome
    <3>5. \A i \in Begins(m, e) \cup Beside(m, e) : i \in ItemIds(m) /\ m.items[i].on = e
      BY DEF Begins, Beside
    <3>6. ASSUME ~Settled(g) \/ n.queue[e] = 0, NEW i \in Begins(n, e) PROVE ToCome(n, i, g.at)
      BY <1>1, <1>8, <2>2, <2>4, <3>2, <3>4, <3>5, <3>6 DEF StopOK
    <3>7. ASSUME ~g.gotoEnd, NEW i \in Beside(n, e) PROVE ToCome(n, i, g.at)
      BY <1>1, <2>2, <2>4, <3>4, <3>5, <3>7 DEF StopOK
    <3> QED BY <1>7, <3>1, <3>3, <3>6, <3>7 DEF StopOK
  <2> QED BY <2>5, <2>6, <2>7, <2>8, <2>9, <2>10 DEF Orderly
<1>16. ASSUME NEW q \in Depth(n), n.frames[q].op = "start" PROVE n.frames[q].left = {}
  <2>1. q # Len(n.frames)
    BY <1>7, <1>16
  <2> QED BY <1>8, <1>16, <2>1 DEF FramesOK, Above
<1>17. Keeps(m, n)
  BY <1>7, <1>8, <1>14, <1>15 DEF Keeps
<1> QED BY <1>1, <1>2, <1>7, <1>16, <1>17 DEF n

\* A stop that has come to the front of the timers.
LEMMA StopPopped ==
  ASSUME NEW m, Sound(m), m.frames # <<>>, Last(m.frames).op = "stop", Last(m.frames).at = 0
  PROVE  LET n == Pop(m)
             e == Last(m.frames).on
         IN  /\ Keeps(m, n) /\ e \in FxElements /\ TopTakes(n, e)
             /\ Orderly(m, e) /\ ~Settled(Last(m.frames)) => Begins(n, e) = {}
<1> DEFINE f == Last(m.frames)
           e == f.on
           n == Pop(m)
           l == Len(m.frames)
<1>0. m \in StateType /\ FramesOK(m) /\ ItemsOK(m) /\ Len(m.timers) \in Nat
  BY StateFields, ItemOf DEF Sound
<1>1. /\ n \in StateType /\ OnlyStack(m, n) /\ l \in Nat \ {0} /\ Len(n.frames) = l - 1
      /\ \A p \in 1..(l - 1) : n.frames[p] = m.frames[p]
      /\ f = m.frames[l] /\ f \in FrameType
  BY <1>0, PopFields
<1>2. Sound(n)
  BY PopSound
<1> HIDE DEF n
<1>3. l \in Depth(m) /\ e \in FxElements
  BY <1>1, FrameIs DEF Depth
<1>4. /\ n.items = m.items /\ n.arrays = m.arrays /\ n.queue = m.queue /\ n.run = m.run
      /\ n.delays = m.delays /\ n.marks = m.marks /\ n.timers = m.timers
      /\ ItemIds(n) = ItemIds(m) /\ Places(n) = Places(m)
  BY <1>1 DEF OnlyStack, ItemIds, Places
<1>5. KindsKept(m, n)
  <2>1. Len(m.items) \in Nat
    BY <1>0, StateFields, ItemOf
  <2> QED BY <1>4, <2>1 DEF KindsKept
<1>6. ASSUME NEW p \in Depth(n)
      PROVE  /\ p \in Depth(m) /\ p # l /\ p \in 1..(l - 1) /\ n.frames[p] = m.frames[p]
             /\ Above(m, m.frames[p], m.frames[p + 1])
  <2>1. p \in 1..(l - 1) /\ p \in Depth(m) /\ p # l
    BY <1>1 DEF Depth
  <2> QED BY <1>0, <1>1, <2>1 DEF FramesOK
<1>7. ASSUME NEW p \in Depth(m), p # l
      PROVE  p \in Depth(n) /\ n.frames[p] = m.frames[p]
  <2>1. p \in 1..(l - 1)
    BY <1>1, <1>7 DEF Depth
  <2> QED BY <1>1, <2>1 DEF Depth
<1>8. ASSUME NEW i \in ItemIds(m) PROVE ItemEases(m, n, i)
  <2>1. FramesFrom(m, n, i)
    BY <1>6 DEF FramesFrom
  <2>2. TimersFrom(m, n, i)
    BY <1>0, <1>4, SameTimers
  <2> QED BY <1>0, <1>1, <1>4, <2>1, <2>2, Eased
<1>9. \A h : OfElement(n, h) = OfElement(m, h)
  BY <1>4 DEF OfElement
<1>10. ASSUME NEW p \in Depth(n), p = l - 1
       PROVE  m.frames[p].op \notin {"stop", "dequeue", "start", "complete"}
  <2>1. p + 1 = l
    BY <1>1, <1>10
  <2> QED BY <1>1, <1>6, <2>1 DEF Above
<1>11. TopTakes(n, e)
  <2>1. ASSUME n.frames # <<>> PROVE l - 1 \in Depth(n)
    <3>1. Len(n.frames) # 0 /\ Len(n.frames) \in Nat
      BY <1>1, <2>1, FramesAre, StateFields, EmptySeq
    <3>2. Len(n.frames) = l - 1
      BY <1>1
    <3>3. Len(n.frames) \in Depth(n)
      BY <3>1 DEF Depth
    <3> QED BY <3>2, <3>3
  <2> QED BY <1>1, <1>6, <1>10, <2>1 DEF TopTakes
<1>12. ASSUME NEW x \in FxElements, x # e, Orderly(m, x) PROVE Orderly(n, x)
  <2>1. Shared(m, n, x, l - 1)
    <3>1. ASSUME NEW p \in StopsOf(m, x) PROVE p <= l - 1
      <4>1. p # l /\ p \in Depth(m)
        BY <1>1, <1>12, <3>1 DEF StopsOf
      <4> QED BY <1>1, <4>1 DEF Depth
    <3>2. ASSUME NEW p \in StopsOf(n, x) PROVE p <= l - 1
      BY <1>1, <3>2 DEF StopsOf, Depth
    <3> QED BY <1>1, <3>1, <3>2 DEF Shared
  <2>2. EmptiesKept(m, n, x, l - 1)
    BY <1>1, <1>4 DEF EmptiesKept, Depth
  <2>3. Covered(n, x, l - 1)
    BY <1>1 DEF Covered
  <2>4. n.marks[x] >= m.marks[x]
    BY <1>0, <1>4, StateFields
  <2>5. \A i \in ItemIds(n) : n.items[i].on = x => ItemEases(m, n, i)
    BY <1>4, <1>8
  <2> QED BY <1>0, <1>1, <1>4, <1>5, <1>12, <2>1, <2>2, <2>3, <2>4, <2>5, EasedOrderly
<1>13. ASSUME Orderly(m, e)
       PROVE  Orderly(n, e) /\ (~Settled(f) => Begins(n, e) = {})
  <2>1. Calmer(m, n, e)
    BY <1>0, <1>1, <1>4, <1>5, <1>8, CalmerThen
  <2>2. /\ Begins(n, e) \subseteq Begins(m, e) /\ Beside(n, e) \subseteq Beside(m, e)
        /\ \A i \in Begins(n, e) : Starting(n, i) => Starting(m, i)
    BY <2>1 DEF Calmer
  <2>3. l \in StopsOf(m, e) /\ StopOK(m, e, l)
    <3>1. l \in StopsOf(m, e)
      BY <1>1, <1>3 DEF StopsOf
    <3> QED BY <1>13, <3>1 DEF Orderly
  <2>4. \A q \in 1..(l - 1) :
          m.frames[q].op \in {"page", "complete", "stop"} => OfElement(m, m.frames[q]) # e
    BY <2>3 DEF StopOK
  <2>5. StopsOf(n, e) = {}
    <3>1. ASSUME NEW p \in StopsOf(n, e) PROVE FALSE
      <4>1. /\ p \in 1..(l - 1) /\ m.frames[p].op = "stop" /\ OfElement(m, m.frames[p]) = e
        BY <1>6, <3>1 DEF StopsOf, OfElement
      <4> QED BY <2>4, <4>1
    <3> QED BY <3>1
  <2>6. \A p \in StopsOf(m, e) : p = l
    <3>1. ASSUME NEW p \in StopsOf(m, e), p # l PROVE FALSE
      BY <1>7, <2>5, <3>1 DEF StopsOf
    <3> QED BY <3>1
  <2>7. ASSUME NEW i \in ItemIds(m), m.items[i].on = e, m.items[i].kind \in Animated,
               ToCome(m, i, 0)
        PROVE  ~Moving(n, i)
    <3>1. ~HasTimer(n, i)
      BY <1>0, <1>4, <2>7 DEF ToCome, HasTimer, Places
    <3>2. ~Starting(n, i)
      <4>1. ASSUME NEW p \in Depth(n), n.frames[p].op = "start" PROVE n.frames[p].left = {}
        BY <1>6, <4>1 DEF Above
      <4> QED BY <4>1 DEF Starting
    <3>3. ~Completing(n, i)
      <4>1. ASSUME NEW p \in Depth(n), n.frames[p].op = "complete", n.frames[p].item = i
            PROVE  FALSE
        <5>1. /\ p \in 1..(l - 1) /\ m.frames[p].op = "complete"
              /\ OfElement(m, m.frames[p]) = e
          BY <1>6, <2>7, <4>1 DEF OfElement
        <5> QED BY <2>4, <5>1
      <4> QED BY <4>1 DEF Completing
    <3> QED BY <3>1, <3>2, <3>3 DEF Moving
  <2>8. \A i \in Begins(m, e) : i \in ItemIds(m) /\ m.items[i].on = e
    BY DEF Begins
  <2>9. ASSUME ~Settled(f) \/ m.queue[e] = 0 PROVE Begins(n, e) = {}
    <3>1. ASSUME NEW i \in Begins(n, e) PROVE FALSE
      <4>1. i \in Begins(m, e) /\ i \in ItemIds(m) /\ m.items[i].on = e
        BY <2>2, <2>8, <3>1
      <4>2. m.items[i].kind = "animation"
        BY <1>1, <1>13, <2>3, <2>9, <4>1 DEF StopOK, Orderly, Unqueued
      <4>3. ToCome(m, i, 0)
        BY <1>1, <2>3, <2>9, <4>1 DEF StopOK
      <4>4. ~Moving(n, i)
        BY <2>7, <4>1, <4>2, <4>3 DEF Animated
      <4>5. i \notin n.delays
        BY <1>0, <1>4, <4>2 DEF ItemsOK
      <4>6. Lives(n, i)
        BY <3>1 DEF Begins
      <4> QED BY <1>4, <4>2, <4>4, <4>5, <4>6 DEF Lives
    <3> QED BY <3>1
  <2>10. ASSUME ~f.gotoEnd PROVE Beside(n, e) = {}
    <3>1. ASSUME NEW i \in Beside(n, e) PROVE FALSE
      <4>1. i \in Beside(m, e) /\ i \in ItemIds(m) /\ m.items[i].on = e
              /\ m.items[i].kind = "unqueued" /\ Moving(n, i)
        BY <1>4, <2>2, <3>1 DEF Beside
      <4>2. ToCome(m, i, 0)
        BY <1>1, <2>3, <2>10, <4>1 DEF StopOK
      <4> QED BY <2>7, <4>1, <4>2 DEF Animated
    <3> QED BY <3>1
  <2>11. OneBegun(n, e) /\ DelayRuns(n, e) /\ StartsQueued(n, e)
    BY <1>4, <1>13, <2>2 DEF Orderly, OneBegun, DelayRuns, StartsQueued
  <2>12. Unqueued(n, e)
    BY <1>4, <2>9 DEF Unqueued
  <2>13. EmptyOnes(n, e)
    BY <1>4, <1>6, <1>13, <2>2 DEF Orderly, EmptyOnes
  <2>14. Marked(n, e)
    <3>1. n.marks[e] \in Nat
      BY <1>1, <1>3, StateFields
    <3>2. CASE ~f.gotoEnd
      <4>1. Cardinality(Beside(n, e)) = 0
        BY <2>10, <3>2, FS_EmptySet
      <4>2. Cardinality(Beside(n, e)) <= n.marks[e]
        BY <3>1, <4>1
      <4> QED BY <4>2 DEF Marked
    <3>3. CASE f.gotoEnd
      <4>1. Cardinality(Beside(m, e)) <= m.marks[e]
        BY <1>1, <1>13, <2>6, <3>3 DEF Orderly, Marked
      <4>2. IsFiniteSet(Beside(m, e)) /\ Cardinality(Beside(m, e)) \in Nat
        BY <1>0, BesideFinite
      <4>3. Cardinality(Beside(n, e)) <= Cardinality(Beside(m, e))
        BY <2>2, <4>2, FS_Subset
      <4>4. Cardinality(Beside(n, e)) \in Nat
        BY <1>1, BesideFinite
      <4> QED BY <1>4, <3>1, <4>1, <4>2, <4>3, <4>4 DEF Marked
    <3> QED BY <3>2, <3>3
  <2> QED BY <2>5, <2>9, <2>11, <2>12, <2>13, <2>14 DEF Orderly
<1>14. Keeps(m, n)
  BY <1>2, <1>4, <1>12, <1>13 DEF Keeps
<1> QED BY <1>3, <1>11, <1>13, <1>14 DEF n

\* The queue goes on, unless the timers that were made to end have dequeued.
LEMMA StopEnds ==
  ASSUME NEW m, Sound(m), m.frames # <<>>, Last(m.frames).op = "stop", Last(m.frames).at = 0
  PROVE  Keeps(m, IF StopDequeues(Last(m.frames)) THEN Dequeue(Pop(m), Last(m.frames).on)
                  ELSE Pop(m))
<1> DEFINE b == Pop(m)
           e == Last(m.frames).on
           n == Dequeue(b, e)
<1>1. /\ Keeps(m, b) /\ e \in FxElements /\ TopTakes(b, e)
      /\ Orderly(m, e) /\ ~Settled(Last(m.frames)) => Begins(b, e) = {}
  BY StopPopped
<1> HIDE DEF b
<1>2. Sound(b)
  BY <1>1 DEF Keeps
<1>3. /\ Sound(n) /\ Len(n.items) = Len(b.items)
      /\ \A x \in FxElements : Orderly(b, x) /\ (x = e => Begins(b, e) = {}) => Orderly(n, x)
  BY <1>1, <1>2, DequeueGood
<1> HIDE DEF n
<1>4. StopDequeues(Last(m.frames)) = ~Settled(Last(m.frames))
  BY DEF StopDequeues, Settled
<1>5. ASSUME ~Settled(Last(m.frames)) PROVE Keeps(m, n)
  BY <1>1, <1>3, <1>5 DEF Keeps
<1> QED BY <1>1, <1>4, <1>5 DEF b, n

\* A timer that is only passed, or only taken away.
LEMMA StopPasses ==
  ASSUME NEW m, Sound(m), m.frames # <<>>, Last(m.frames).op = "stop",
         NEW at \in Places(m), Last(m.frames).at = at, NEW h \in BOOLEAN, Last(m.frames).had => h
  PROVE  LET f == Last(m.frames)
             g == StopFrame(f.on, at - 1, f.gotoEnd, h, NoTimer)
         IN  /\ m.items[m.timers[at].item].on # f.on => Keeps(m, Replaced(m, g))
             /\ Keeps(m, Replaced([m EXCEPT !.timers = RemoveAt(m.timers, at)], g))
<1> DEFINE f == Last(m.frames)
           g == StopFrame(f.on, at - 1, f.gotoEnd, h, NoTimer)
           c == [m EXCEPT !.timers = RemoveAt(m.timers, at)]
<1>0. m \in StateType /\ Len(m.timers) \in Nat
  BY StateFields, ItemOf DEF Sound
<1>1. f \in FrameType
  BY <1>0, PopFields
<1>2. f.on \in FxElements /\ f.gotoEnd \in BOOLEAN /\ at \in Nat \ {0} /\ at - 1 \in Nat
  BY <1>0, <1>1, FrameIs DEF Places
<1>3. NoTimer \in TimerType
  BY DEF NoTimer, TimerType
<1>4. /\ g \in FrameType /\ g.op = "stop" /\ g.on = f.on /\ g.gotoEnd = f.gotoEnd
      /\ g.had = h /\ g.at = at - 1 /\ g.timer = NoTimer
  BY <1>2, <1>3, FramesMake DEF StopFrame
<1> HIDE DEF g
<1>5. ASSUME m.items[m.timers[at].item].on # f.on PROVE StopMoves(m, m, g)
  <2>1. Retimed(m, m)
    BY <1>0, SameRetimed
  <2>2. ASSUME NEW i \in ItemIds(m), m.items[i].on = g.on, ToCome(m, i, at)
        PROVE  ToCome(m, i, at - 1)
    <3>1. ASSUME NEW k \in Places(m), m.timers[k].item = i PROVE k <= at - 1
      <4>1. k <= at /\ k # at /\ k \in Nat
        BY <1>0, <1>4, <1>5, <2>2, <3>1 DEF ToCome, Places
      <4> QED BY <1>2, <4>1
    <3> QED BY <3>1 DEF ToCome
  <2> QED BY <1>4, <2>1, <2>2 DEF StopMoves
<1>6. StopMoves(m, c, g)
  <2>1. Retimed(m, c) /\ \A i : ToCome(m, i, at) => ToCome(c, i, at - 1)
    BY CutRetimed
  <2> HIDE DEF c
  <2> QED BY <1>4, <2>1 DEF StopMoves
<1> HIDE DEF c
<1>7. /\ StopMoves(m, m, g) => Keeps(m, Replaced(m, g))
      /\ StopMoves(m, c, g) => Keeps(m, Replaced(c, g))
  BY StopMoved
<1> QED BY <1>5, <1>6, <1>7 DEF g, c

\* A timer that is called for the last time.
LEMMA StopFinishes ==
  ASSUME NEW m, Sound(m), m.frames # <<>>, Last(m.frames).op = "stop", Last(m.frames).gotoEnd,
         NEW at \in Places(m), Last(m.frames).at = at,
         m.items[m.timers[at].item].on = Last(m.frames).on
  PROVE  Keeps(m, Finished(Replaced(m, [Last(m.frames) EXCEPT !.had = TRUE,
                                                              !.timer = m.timers[at]]),
                           m.timers[at]))
<1> DEFINE f == Last(m.frames)
           t == m.timers[at]
           i == t.item
           g == [f EXCEPT !.had = TRUE, !.timer = t]
           b == Replaced(m, g)
           n == Finished(b, t)
           l == Len(m.frames)
<1>0. m \in StateType /\ ItemsOK(m) /\ m.timers \in Seq(TimerType) /\ at \in 1..Len(m.timers)
  BY StateFields DEF Sound, Places
<1>1. f \in FrameType /\ t \in TimerType
  BY <1>0, PopFields, ItemOf
<1>2. f \in [op : {"stop"}, on : FxElements, at : Nat, gotoEnd : BOOLEAN, had : BOOLEAN,
             timer : TimerType]
  BY <1>1 DEF FrameType
<1>3. /\ g \in [op : {"stop"}, on : FxElements, at : Nat, gotoEnd : BOOLEAN, had : BOOLEAN,
                timer : TimerType]
      /\ g.op = "stop" /\ g.on = f.on /\ g.gotoEnd = f.gotoEnd /\ g.had = TRUE /\ g.at = f.at
  <2> HIDE DEF f, t
  <2> QED BY <1>1, <1>2
<1> HIDE DEF g
<1>4. g \in FrameType
  BY <1>3 DEF FrameType
<1>5. StopMoves(m, m, g)
  <2>1. Retimed(m, m)
    BY <1>0, SameRetimed
  <2> QED BY <1>0, <1>3, <1>4, <2>1 DEF StopMoves
<1>6. /\ Keeps(m, b) /\ OnlyStack(m, b) /\ l \in Nat \ {0} /\ Len(b.frames) = l
      /\ b.frames[l] = g /\ g.on \in FxElements
      /\ \A q \in Depth(b) : b.frames[q].op = "start" => b.frames[q].left = {}
  BY <1>5, StopMoved
<1> HIDE DEF b
<1>7. /\ Sound(b) /\ b \in StateType /\ b.timers = m.timers /\ b.items = m.items
      /\ ItemIds(b) = ItemIds(m) /\ at \in Places(b) /\ Len(b.items) \in Nat
  BY <1>0, <1>6, StateFields, ItemOf DEF Keeps, Sound, OnlyStack, ItemIds, Places
<1>8. i \in ItemIds(b) /\ b.items[i].kind \in Animated /\ b.items[i].on = g.on
  BY <1>0, <1>3, <1>7 DEF ItemsOK
<1>9. Above(b, b.frames[Len(b.frames)], CompleteFrame(i))
  <2>1. CompleteFrame(i).op = "complete" /\ CompleteFrame(i).item = i
    BY DEF CompleteFrame
  <2>2. Settled(g)
    BY <1>3 DEF Settled
  <2> QED BY <1>3, <1>6, <1>8, <2>1, <2>2 DEF Above, OfElement
<1>10. Finishes(b, t)
  BY <1>6, <1>8, <1>9 DEF Finishes
<1>11. b.items[i].complete => Moving(b, i)
  BY <1>7 DEF Moving, HasTimer
<1>12. \A j \in ItemIds(b) : FramesFrom(b, b, j)
  BY DEF FramesFrom
<1>13. FinishesAfter(b, b, t)
  BY <1>10, <1>11, <1>12 DEF FinishesAfter, OnlyStack
<1>14. ASSUME NEW x PROVE FinishesFor(b, b, t, x, l)
  <2>1. \A p \in StopsOf(b, x) : p <= l
    BY <1>6 DEF StopsOf, Depth
  <2>2. Shared(b, b, x, l)
    BY <1>6, <2>1 DEF Shared
  <2>3. EmptiesKept(b, b, x, l)
    BY <1>6 DEF EmptiesKept, Depth
  <2>4. l \in StopsOf(b, x) => Settled(b.frames[l]) /\ b.items[i].on = x
    BY <1>3, <1>6, <1>8 DEF StopsOf, Settled
  <2> QED BY <1>6, <2>2, <2>3, <2>4 DEF FinishesFor
<1>15. FinishedTo(b, t, n)
  BY <1>7, <1>10, FinishedFields
<1> HIDE DEF n, t
<1>16. Sound(n) /\ Len(n.items) = Len(m.items)
  BY <1>7, <1>15 DEF FinishedTo
<1>17. \A x \in FxElements : Orderly(b, x) => Orderly(n, x)
  BY <1>7, <1>13, <1>14, FinishedOrderly DEF n
<1>18. Keeps(m, n)
  BY <1>6, <1>16, <1>17 DEF Keeps
<1> QED BY <1>18 DEF n, b, g, t

\* No code of the page runs for e, and no stop of it.
Outside(m, e) ==
  \A p \in Depth(m) : m.frames[p].op \in {"page", "complete", "stop"} =>
    OfElement(m, m.frames[p]) # e

\* What stop has done to the queue, the marks and the delay of e before it looks for timers.
Halted(m, u, e, clear, goto) ==
  /\ u \in StateType /\ u.items = m.items /\ u.arrays = m.arrays /\ u.frames = m.frames
  /\ u.timers = m.timers /\ u.defer = m.defer
  /\ \A x \in FxElements \ {e} :
       u.queue[x] = m.queue[x] /\ u.run[x] = m.run[x] /\ u.marks[x] = m.marks[x]
  /\ u.queue[e] = IF clear THEN 0 ELSE m.queue[e]
  /\ u.delays \subseteq m.delays /\ (~clear => m.run[e] \notin u.delays)
  /\ goto => u.marks[e] = m.marks[e]

LEMMA HaltedSound ==
  ASSUME NEW m, Sound(m), NEW u, NEW e \in FxElements, NEW clear, NEW goto,
         Halted(m, u, e, clear, goto)
  PROVE  /\ Sound(u) /\ \A x \in FxElements \ {e} : Orderly(m, x) => Orderly(u, x)
<1>0. m \in StateType /\ ItemsOK(m)
  BY DEF Sound
<1>1. Sound(u)
  <2>1. \A x \in FxElements : u.queue[x] \in {0, m.queue[x]}
    BY DEF Halted
  <2>2. \A x \in FxElements : u.defer[x] \in 0..Len(m.items)
    BY <1>0 DEF Halted, ItemsOK
  <2>3. \A k \in Places(u) : \E l \in Places(m) : u.timers[k].item = m.timers[l].item
    BY DEF Halted, Places
  <2> QED BY <2>1, <2>2, <2>3, QuietSound DEF Halted
<1>2. ASSUME NEW x \in FxElements \ {e}, Orderly(m, x) PROVE Orderly(u, x)
  <2>1. \A j \in ItemIds(m) : TimersFrom(m, u, j)
    BY <1>0, SameTimers DEF Halted
  <2>2. u.queue[x] = m.queue[x] /\ u.run[x] = m.run[x] /\ u.marks[x] >= m.marks[x]
    BY <1>0, StateFields DEF Halted
  <2> QED BY <1>2, <2>1, <2>2, StillOrderly DEF Halted
<1> QED BY <1>1, <1>2

\* A stop of e has begun, which keeps e in order if the page stops it in its turn.
StopsFor(m, n, e, clear, goto) ==
  /\ Sound(n) /\ Len(n.items) = Len(m.items)
  /\ \A x \in FxElements \ {e} : Orderly(m, x) => Orderly(n, x)
  /\ Orderly(m, e) /\ Outside(m, e)
       /\ (\A i \in Begins(m, e) : m.items[i].kind # "function" /\
                                   (clear \/ goto => i \notin m.delays))
       => Orderly(n, e)

LEMMA StopBegun ==
  ASSUME NEW m, Sound(m), m.frames # <<>> => m.frames[Len(m.frames)].op = "page",
         NEW e \in FxElements, NEW clear \in BOOLEAN, NEW goto \in BOOLEAN,
         NEW u, Halted(m, u, e, clear, goto)
  PROVE  StopsFor(m, Push(u, StopFrame(e, Len(m.timers), goto, FALSE, NoTimer)), e, clear, goto)
<1> DEFINE g == StopFrame(e, Len(m.timers), goto, FALSE, NoTimer)
           n == Push(u, g)
           l == Len(m.frames)
<1>0. /\ m \in StateType /\ ItemsOK(m) /\ Len(m.timers) \in Nat /\ Len(m.items) \in Nat
      /\ l \in Nat /\ FramesOK(m) /\ QueuesOK(m)
  BY StateFields, ItemOf DEF Sound
<1>1. /\ Sound(u) /\ \A x \in FxElements \ {e} : Orderly(m, x) => Orderly(u, x)
  BY HaltedSound
<1>2. NoTimer \in TimerType
  BY DEF NoTimer, TimerType
<1>3. /\ g \in FrameType /\ g.op = "stop" /\ g.on = e /\ g.gotoEnd = goto
      /\ g.had = FALSE /\ g.at = Len(m.timers) /\ g.timer = NoTimer
  BY <1>0, <1>2, FramesMake DEF StopFrame
<1> HIDE DEF g
<1>4. FrameMade(u, g)
  BY <1>3 DEF FrameMade
<1>5. u.frames # <<>> => Above(u, u.frames[Len(u.frames)], g)
  BY DEF Halted, Above
<1>6. Sound(n)
  BY <1>1, <1>3, <1>4, <1>5, PushSound
<1>7. /\ n \in StateType /\ OnlyStack(u, n) /\ Len(n.frames) = l + 1
      /\ n.frames[l + 1] = g /\ \A p \in 1..l : n.frames[p] = m.frames[p]
  BY <1>3, PushFields DEF Halted
<1> HIDE DEF n
<1>8. /\ n.items = m.items /\ n.arrays = m.arrays /\ n.timers = m.timers
      /\ n.queue = u.queue /\ n.run = u.run /\ n.delays = u.delays /\ n.marks = u.marks
      /\ ItemIds(n) = ItemIds(m) /\ Places(n) = Places(m)
  BY <1>7 DEF OnlyStack, Halted, ItemIds, Places
<1>9. KindsKept(m, n) /\ KindsKept(u, n) /\ ItemIds(u) = ItemIds(m)
  BY <1>0, <1>7, <1>8 DEF KindsKept, OnlyStack, Halted, ItemIds
<1>10. ASSUME NEW p \in Depth(n)
       PROVE  \/ p = l + 1 /\ n.frames[p] = g
              \/ p \in 1..l /\ p \in Depth(m) /\ n.frames[p] = m.frames[p]
  BY <1>0, <1>7 DEF Depth
<1>11. ASSUME NEW i \in ItemIds(m) PROVE ItemEases(m, n, i) /\ ItemEases(u, n, i)
  <2>1. FramesFrom(m, n, i) /\ FramesFrom(u, n, i)
    <3>1. Depth(u) = Depth(m) /\ u.frames = m.frames
      BY DEF Depth, Halted
    <3> QED BY <1>3, <1>10, <3>1 DEF FramesFrom
  <2>2. TimersFrom(m, n, i)
    BY <1>0, <1>8, SameTimers
  <2>3. u \in StateType /\ TimersFrom(u, n, i)
    BY <1>8, SameTimers DEF Halted
  <2>4. i \in n.delays => i \in m.delays
    BY <1>8 DEF Halted
  <2>5. ItemEases(m, n, i)
    BY <1>0, <1>7, <1>8, <2>1, <2>2, <2>4, Eased
  <2>6. ItemEases(u, n, i)
    BY <1>7, <1>8, <1>9, <2>1, <2>3, Eased DEF OnlyStack
  <2> QED BY <2>5, <2>6
<1>12. \A h : OfElement(n, h) = OfElement(m, h)
  BY <1>8 DEF OfElement
<1>13. ASSUME NEW x \in FxElements \ {e}, Orderly(m, x) PROVE Orderly(n, x)
  <2>1. Orderly(u, x) /\ u \in StateType /\ ItemsOK(u) /\ FramesOK(u) /\ u.frames = m.frames
    BY <1>1, <1>13 DEF Sound, Halted
  <2>2. Shared(u, n, x, l)
    <3>1. ASSUME NEW p \in StopsOf(n, x) PROVE p <= l
      <4>1. p \in Depth(n) /\ p # l + 1
        BY <1>3, <1>7, <1>13, <3>1 DEF StopsOf
      <4> QED BY <1>0, <1>10, <4>1
    <3>2. \A p \in StopsOf(u, x) : p <= l
      BY <2>1, <1>0 DEF StopsOf, Depth
    <3> QED BY <1>0, <1>7, <2>1, <3>1, <3>2 DEF Shared
  <2>3. EmptiesKept(u, n, x, l)
    <3> SUFFICES ASSUME NEW p \in Depth(n), n.frames[p].op = "dequeue",
                        n.arrays[n.frames[p].array] = <<>>
                 PROVE  p <= l /\ u.arrays[n.frames[p].array] = <<>>
      BY DEF EmptiesKept
    <3>1. p \in 1..l
      BY <1>3, <1>10
    <3> QED BY <1>0, <1>8, <3>1 DEF Halted
  <2>4. Covered(n, x, l)
    <3> SUFFICES ASSUME l \in StopsOf(n, x) PROVE FALSE
      BY DEF Covered
    <3>1. l \in Depth(n) /\ n.frames[l].op = "stop"
      BY DEF StopsOf
    <3>2. l \in Depth(m) /\ m.frames[l].op = "stop"
      BY <1>0, <1>10, <3>1
    <3>3. m.frames # <<>>
      BY <1>0, <3>2, FramesAre, StateFields, EmptySeq DEF Depth
    <3> QED BY <3>2, <3>3
  <2>5. n.queue[x] = u.queue[x] /\ n.run[x] = u.run[x] /\ n.marks[x] >= u.marks[x]
    BY <1>8, <2>1, StateFields
  <2>6. \A i \in ItemIds(n) : n.items[i].on = x => ItemEases(u, n, i)
    BY <1>8, <1>11
  <2> QED BY <1>7, <1>9, <2>1, <2>2, <2>3, <2>4, <2>5, <2>6, EasedOrderly
<1>14. ASSUME Orderly(m, e), Outside(m, e),
              \A i \in Begins(m, e) : m.items[i].kind # "function" /\
                                      (clear \/ goto => i \notin m.delays)
       PROVE  Orderly(n, e)
  <2>1. /\ Begins(n, e) \subseteq Begins(m, e) /\ Beside(n, e) \subseteq Beside(m, e)
        /\ \A i \in Begins(n, e) : Starting(n, i) => Starting(m, i)
    <3>1. Calmer(m, n, e)
      BY <1>0, <1>7, <1>8, <1>9, <1>11, CalmerThen
    <3> QED BY <3>1 DEF Calmer
  <2>2. ASSUME NEW i \in Begins(n, e) PROVE n.items[i].kind = "animation" /\ i \notin n.delays
    <3>1. i \in Begins(m, e) /\ Lives(n, i) /\ i \in ItemIds(m)
      BY <1>8, <2>1, <2>2 DEF Begins
    <3>2. m.items[i].kind # "function"
      BY <1>14, <3>1
    <3>3. i \notin n.delays
      <4>1. CASE clear \/ goto
        BY <1>8, <1>14, <3>1, <4>1 DEF Halted
      <4>2. CASE ~clear
        <5>1. ASSUME i \in n.delays PROVE FALSE
          <6>1. i \in m.delays /\ i \in u.delays
            BY <1>8, <5>1 DEF Halted
          <6>2. m.run[e] = i
            BY <1>14, <3>1, <6>1 DEF Orderly, DelayRuns
          <6> QED BY <4>2, <6>1, <6>2 DEF Halted
        <5> QED BY <5>1
      <4> QED BY <4>1, <4>2
    <3> QED BY <1>8, <3>1, <3>2, <3>3 DEF Lives
  <2>3. StopsOf(n, e) = {l + 1}
    <3>1. l + 1 \in StopsOf(n, e)
      BY <1>0, <1>3, <1>7 DEF StopsOf, Depth
    <3>2. ASSUME NEW p \in StopsOf(n, e) PROVE p = l + 1
      <4>1. p \in Depth(n) /\ n.frames[p].op = "stop" /\ n.frames[p].on = e
        BY <3>2 DEF StopsOf
      <4> QED BY <1>10, <1>14, <4>1 DEF Outside, OfElement
    <3> QED BY <3>1, <3>2
  <2>4. StopOK(n, e, l + 1)
    <3>1. ASSUME NEW q \in 1..((l + 1) - 1), n.frames[q].op \in {"page", "complete", "stop"}
          PROVE  OfElement(n, n.frames[q]) # e
      <4>1. q \in Depth(m) /\ n.frames[q] = m.frames[q]
        BY <1>0, <1>7, <3>1 DEF Depth
      <4> QED BY <1>12, <1>14, <3>1, <4>1 DEF Outside
    <3>2. \A i : ToCome(n, i, Len(m.timers))
      BY <1>0, <1>8 DEF ToCome, Places
    <3> QED BY <1>3, <1>7, <2>2, <3>1, <3>2 DEF StopOK
  <2>5. OneBegun(n, e)
    BY <1>14, <2>1 DEF Orderly, OneBegun
  <2>6. Unqueued(n, e)
    BY <1>7, <2>2, <2>3 DEF Unqueued
  <2>7. DelayRuns(n, e)
    BY <2>2 DEF DelayRuns
  <2>8. StartsQueued(n, e)
    <3>1. ASSUME NEW i PROVE ~Starting(m, i)
      <4>1. ASSUME NEW p \in Depth(m), m.frames[p].op = "start" PROVE m.frames[p].left = {}
        <5>1. m.frames # <<>>
          BY <1>0, <4>1, EmptySeq DEF Depth
        <5>2. p # l
          BY <4>1, <5>1
        <5> QED BY <1>0, <4>1, <5>2 DEF FramesOK, Above
      <4> QED BY <4>1 DEF Starting
    <3> QED BY <2>1, <3>1 DEF StartsQueued
  <2>9. EmptyOnes(n, e)
    <3> SUFFICES ASSUME NEW p \in Depth(n), n.frames[p].op = "dequeue", n.frames[p].on = e,
                        n.arrays[n.frames[p].array] = <<>>
                 PROVE  n.queue[e] = 0 /\ Begins(n, e) = {}
      BY DEF EmptyOnes
    <3>1. p \in Depth(m) /\ n.frames[p] = m.frames[p]
      BY <1>3, <1>10
    <3>2. m.queue[e] = 0 /\ Begins(m, e) = {}
      BY <1>8, <1>14, <3>1 DEF Orderly, EmptyOnes
    <3> QED BY <1>8, <2>1, <3>2 DEF Halted
  <2>10. Marked(n, e)
    <3>1. CASE ~goto
      BY <1>3, <1>7, <2>3, <3>1 DEF Marked
    <3>2. CASE goto
      <4>1. StopsOf(m, e) = {}
        BY <1>14 DEF StopsOf, Outside, OfElement
      <4>2. Cardinality(Beside(m, e)) <= m.marks[e]
        BY <1>14, <4>1 DEF Orderly, Marked
      <4>3. IsFiniteSet(Beside(m, e)) /\ Cardinality(Beside(m, e)) \in Nat
        BY <1>0, BesideFinite
      <4>4. Cardinality(Beside(n, e)) <= Cardinality(Beside(m, e))
        BY <2>1, <4>3, FS_Subset
      <4>5. Cardinality(Beside(n, e)) \in Nat /\ m.marks[e] \in Nat
        BY <1>0, <1>7, BesideFinite, StateFields
      <4>6. n.marks[e] = m.marks[e]
        BY <1>8, <3>2 DEF Halted
      <4> QED BY <4>2, <4>3, <4>4, <4>5, <4>6 DEF Marked
    <3> QED BY <3>1, <3>2
  <2> QED BY <2>3, <2>4, <2>5, <2>6, <2>7, <2>8, <2>9, <2>10 DEF Orderly
<1>15. Len(n.items) = Len(m.items)
  BY <1>8
<1> QED BY <1>6, <1>13, <1>14, <1>15 DEF n, g, StopsFor

\* What stop does before it looks for timers.
HaltedState(m, e, clear, goto) ==
  LET cleared  == IF clear THEN EmptiedQueue(m, e) ELSE m
      unmarked == IF goto THEN cleared ELSE Unmarked(cleared, e, TRUE)
  IN  [unmarked EXCEPT !.delays = @ \ {unmarked.run[e]}, !.run[e] = 0]

LEMMA HaltedFields ==
  ASSUME NEW m, Sound(m), NEW e \in FxElements, NEW clear \in BOOLEAN, NEW goto \in BOOLEAN
  PROVE  Halted(m, HaltedState(m, e, clear, goto), e, clear, goto)
<1> DEFINE c == IF clear THEN EmptiedQueue(m, e) ELSE m
           k == IF goto THEN c ELSE Unmarked(c, e, TRUE)
           r == [k.run EXCEPT ![e] = 0]
           d == k.delays \ {k.run[e]}
           u == [k EXCEPT !.delays = d, !.run = r]
<1>0. m \in StateType
  BY DEF Sound
<1>1. /\ c \in StateType /\ c.arrays = m.arrays /\ c.items = m.items /\ c.timers = m.timers
      /\ c.delays = m.delays /\ c.marks = m.marks /\ c.defer = m.defer /\ c.frames = m.frames
      /\ \A x \in FxElements \ {e} : c.queue[x] = m.queue[x] /\ c.run[x] = m.run[x]
      /\ c.queue[e] = IF clear THEN 0 ELSE m.queue[e]
      /\ ~clear => c.run = m.run
  <2>1. CASE clear
    BY <1>0, <2>1, EmptiedFields
  <2>2. CASE ~clear
    BY <1>0, <2>2
  <2> QED BY <2>1, <2>2
<1> HIDE DEF c
<1>2. /\ k \in StateType /\ k.arrays = c.arrays /\ k.items = c.items /\ k.timers = c.timers
      /\ k.delays = c.delays /\ k.defer = c.defer /\ k.frames = c.frames
      /\ k.queue = c.queue /\ k.run = c.run
      /\ \A x \in FxElements \ {e} : k.marks[x] = c.marks[x]
      /\ goto => k.marks[e] = c.marks[e]
  <2>1. CASE goto
    BY <1>1, <2>1
  <2>2. CASE ~goto
    <3>1. Remarked(c, Unmarked(c, e, TRUE), e)
      BY <1>1, UnmarkedFields
    <3> QED BY <2>2, <3>1 DEF Remarked
  <2> QED BY <2>1, <2>2
<1>3. u = HaltedState(m, e, clear, goto)
  BY DEF HaltedState, c, k
<1> HIDE DEF k
<1>4. /\ k.run \in [FxElements -> Nat] /\ k.delays \in SUBSET Nat
  BY <1>2, StateFields
<1>5. /\ r \in [FxElements -> Nat] /\ d \in SUBSET Nat
      /\ \A x \in FxElements \ {e} : r[x] = k.run[x]
  BY <1>4
<1>6. d \subseteq k.delays /\ k.run[e] \notin d
  OBVIOUS
<1> HIDE DEF r, d
<1>7. u \in StateType
  BY <1>2, <1>5 DEF StateType
<1>8. /\ u.items = k.items /\ u.arrays = k.arrays /\ u.frames = k.frames
      /\ u.timers = k.timers /\ u.defer = k.defer /\ u.queue = k.queue /\ u.marks = k.marks
      /\ u.delays = d /\ u.run = r
  BY <1>2 DEF StateType
<1> HIDE DEF u
<1>9. Halted(m, u, e, clear, goto)
  BY <1>1, <1>2, <1>5, <1>6, <1>7, <1>8 DEF Halted
<1> QED BY <1>3, <1>9

\* A queue is cleared by the page while nothing of it is in progress.
LEMMA ClearGood ==
  ASSUME NEW m, Sound(m), NEW e \in FxElements
  PROVE  LET n == EmptiedQueue(Added(m, NoItem), e)
         IN  /\ Sound(n) /\ Len(n.items) = Len(m.items) + 1
             /\ \A x \in FxElements :
                  Orderly(m, x) /\ (x = e => Begins(m, e) = {}) => Orderly(n, x)
<1> DEFINE b == Added(m, NoItem)
           n == EmptiedQueue(b, e)
<1>1. /\ Sound(b) /\ Len(b.items) = Len(m.items) + 1
      /\ \A x \in FxElements : Orderly(m, x) =>
           Orderly(b, x) /\ Begins(b, x) \subseteq Begins(m, x)
  BY CalledGood
<1> HIDE DEF b
<1>2. b \in StateType
  BY <1>1 DEF Sound
<1>3. /\ Sound(n)
      /\ \A x \in FxElements : Orderly(b, x) /\ (x = e => Begins(b, e) = {}) => Orderly(n, x)
  BY <1>1, EmptiedOrderly
<1>4. n.items = b.items
  BY <1>2, EmptiedFields
<1> HIDE DEF n
<1>5. Len(n.items) = Len(m.items) + 1
  BY <1>1, <1>4
<1>6. ASSUME NEW x \in FxElements, Orderly(m, x), x = e => Begins(m, e) = {}
      PROVE  Orderly(n, x)
  <2>1. Orderly(b, x) /\ Begins(b, x) \subseteq Begins(m, x)
    BY <1>1, <1>6
  <2> QED BY <1>3, <1>6, <2>1
<1> QED BY <1>3, <1>5, <1>6 DEF n, b

\* The page queues something: e is not emptying.
LEMMA EnqueueGood ==
  ASSUME NEW m, Sound(m), m.frames # <<>> => m.frames[Len(m.frames)].op = "page",
         NEW item, Fresh(item), item.kind \in Queueable
  PROVE  LET e == item.on
             n == Queued(Added(m, item), e, Len(m.items) + 1)
         IN  /\ Sound(n) /\ Len(n.items) = Len(m.items) + 1
             /\ \A x \in FxElements :
                  /\ Orderly(m, x)
                  /\ x = e /\ m.queue[e] = 0 => Begins(m, e) = {} /\ NoEmpties(m, e)
                  => Orderly(n, x)
<1> DEFINE b == Added(m, item)
           i == Len(m.items) + 1
           e == item.on
           n == Queued(b, e, i)
<1>0. m \in StateType /\ item \in ItemType /\ e \in FxElements
  BY DEF Sound, Fresh, Queueable
<1>1. /\ Sound(b)
      /\ \A x \in FxElements : Orderly(m, x) =>
           Orderly(b, x) /\ Begins(b, x) \subseteq Begins(m, x)
  BY AddedGood
<1>2. /\ b \in StateType /\ Len(b.items) = i /\ b.items[i] = item
      /\ b.arrays = m.arrays /\ b.queue = m.queue /\ b.frames = m.frames
      /\ ItemIds(b) = ItemIds(m) \cup {i}
  BY <1>0, AddedFields
<1> HIDE DEF b
<1>3. TopTakes(b, e)
  BY <1>2 DEF TopTakes
<1>4. i \in ItemIds(b) /\ b.items[i].on = e /\ b.items[i].kind \in Queueable
  BY <1>2
<1> HIDE DEF i
<1>5. /\ Sound(n) /\ Len(n.items) = Len(b.items)
      /\ \A x \in FxElements :
           /\ Orderly(b, x)
           /\ x = e /\ b.queue[e] = 0 => Begins(b, e) = {} /\ NoEmpties(b, e)
           => Orderly(n, x)
  BY <1>0, <1>1, <1>3, <1>4, QueuedGood
<1> HIDE DEF n
<1>6. ASSUME NEW x \in FxElements, Orderly(m, x),
             x = e /\ m.queue[e] = 0 => Begins(m, e) = {} /\ NoEmpties(m, e)
      PROVE  Orderly(n, x)
  <2>1. Orderly(b, x) /\ Begins(b, x) \subseteq Begins(m, x)
    BY <1>1, <1>6
  <2>2. NoEmpties(m, e) => NoEmpties(b, e)
    BY <1>2 DEF NoEmpties, Depth
  <2> QED BY <1>2, <1>5, <1>6, <2>1, <2>2
<1> QED BY <1>2, <1>5, <1>6 DEF n, b, i

\* An animation that starts beside the queue.
LEMMA BesideGood ==
  ASSUME NEW m, Sound(m), m.frames # <<>> => m.frames[Len(m.frames)].op = "page",
         NEW item, Fresh(item), item.kind = "unqueued", item.todo = {1}
  PROVE  LET e == item.on
             b == Added(m, item)
             n == Push([b EXCEPT !.marks[e] = @ + 1], StartFrame(Len(m.items) + 1, {1}))
         IN  /\ Sound(n) /\ Len(n.items) = Len(m.items) + 1
             /\ \A x \in FxElements : Orderly(m, x) => Orderly(n, x)
<1> DEFINE i == Len(m.items) + 1
           e == item.on
           b == Added(m, item)
           z == [b.marks EXCEPT ![e] = @ + 1]
           c == [b EXCEPT !.marks = z]
           g == StartFrame(i, {1})
           n == Push(c, g)
           l == Len(m.frames)
<1>0. /\ m \in StateType /\ item \in ItemType /\ e \in FxElements /\ Len(m.items) \in Nat
      /\ l \in Nat
  BY StateFields, ItemOf DEF Sound, Fresh
<1>1. /\ Sound(b)
      /\ \A x \in FxElements : Orderly(m, x) => Orderly(b, x)
  BY AddedGood
<1>2. /\ b \in StateType /\ Len(b.items) = i /\ b.items[i] = item
      /\ b.frames = m.frames /\ ItemIds(b) = ItemIds(m) \cup {i}
  BY <1>0, AddedFields
<1> HIDE DEF b
<1>3. /\ b.marks \in [FxElements -> Nat] /\ b.marks[e] \in Nat
      /\ z \in [FxElements -> Nat] /\ z[e] = b.marks[e] + 1
      /\ \A x \in FxElements \ {e} : z[x] = b.marks[x]
  BY <1>0, <1>2, StateFields
<1>4. c = [b EXCEPT !.marks[e] = @ + 1]
  BY DEF z
<1> HIDE DEF z
<1>5. Remarked(b, c, e) /\ c.marks = z
  <2>1. c \in StateType /\ c.marks = z
    BY <1>2, <1>3 DEF StateType
  <2>2. /\ c.items = b.items /\ c.frames = b.frames /\ c.arrays = b.arrays
        /\ c.queue = b.queue /\ c.run = b.run /\ c.timers = b.timers /\ c.delays = b.delays
        /\ c.defer = b.defer
    BY <1>2 DEF StateType
  <2> HIDE DEF c
  <2> QED BY <1>3, <2>1, <2>2 DEF Remarked
<1> HIDE DEF c
<1>6. Beside(c, e) = Beside(b, e) /\ StopsOf(c, e) = StopsOf(b, e)
  BY <1>5, SameMoves
<1>7. ASSUME Marked(b, e)
      PROVE  \/ Cardinality(Beside(c, e)) + 1 <= c.marks[e]
             \/ \E p \in StopsOf(c, e) : ~c.frames[p].gotoEnd
  <2>1. CASE Cardinality(Beside(b, e)) <= b.marks[e]
    <3>1. Cardinality(Beside(b, e)) \in Nat
      BY <1>2, BesideFinite
    <3> QED BY <1>3, <1>5, <1>6, <2>1, <3>1
  <2>2. CASE \E p \in StopsOf(b, e) : ~b.frames[p].gotoEnd
    BY <1>5, <1>6, <2>2 DEF Remarked
  <2> QED BY <1>7, <2>1, <2>2 DEF Marked
<1>8. /\ Sound(c) /\ Len(c.items) = Len(b.items)
      /\ \A x \in FxElements : Orderly(b, x) => Orderly(c, x)
  <2>1. Marked(b, e) => Marked(c, e)
    <3>1. Cardinality(Beside(c, e)) \in Nat /\ c.marks[e] \in Nat
      BY <1>0, <1>5, BesideFinite, StateFields DEF Remarked
    <3> QED BY <1>7, <3>1 DEF Marked
  <2> QED BY <1>1, <1>5, <2>1, RemarkedGood DEF Orderly
<1>9. /\ c \in StateType /\ c.items = b.items /\ c.frames = m.frames /\ ItemsOK(c) /\ FramesOK(c)
      /\ ItemIds(c) = ItemIds(b)
  BY <1>2, <1>5, <1>8 DEF Remarked, Sound, ItemIds
<1>10. i \in ItemIds(c) /\ c.items[i] = item /\ i \in Nat
  BY <1>0, <1>2, <1>9
<1>11. g \in FrameType /\ g.op = "start" /\ g.item = i /\ g.left = {1}
  BY <1>10, FramesMake DEF StartFrame
<1> HIDE DEF g
<1>12. FrameMade(c, g)
  BY <1>10, <1>11 DEF FrameMade, Animated
<1>13. c.frames # <<>> => Above(c, c.frames[Len(c.frames)], g)
  BY <1>9 DEF Above
<1>14. Sound(n)
  BY <1>8, <1>11, <1>12, <1>13, PushSound
<1>15. /\ n \in StateType /\ OnlyStack(c, n) /\ Len(n.frames) = l + 1
       /\ n.frames[l + 1] = g /\ \A p \in 1..l : n.frames[p] = c.frames[p]
  BY <1>9, <1>11, PushFields, SMTT(30)
<1> HIDE DEF n
<1>16. /\ n.items = c.items /\ n.arrays = c.arrays /\ n.timers = c.timers
       /\ n.queue = c.queue /\ n.run = c.run /\ n.delays = c.delays /\ n.marks = c.marks
       /\ ItemIds(n) = ItemIds(c) /\ Places(n) = Places(c)
  BY <1>15 DEF OnlyStack, ItemIds, Places
<1>17. KindsKept(c, n)
  BY <1>2, <1>9, <1>10, <1>16 DEF KindsKept
<1>18. ASSUME NEW p \in Depth(n)
       PROVE  \/ p = l + 1 /\ n.frames[p] = g
              \/ p \in 1..l /\ p \in Depth(c) /\ n.frames[p] = c.frames[p]
  BY <1>0, <1>9, <1>15 DEF Depth
<1>19. ASSUME NEW p \in Depth(c) PROVE p \in 1..l /\ p \in Depth(n) /\ n.frames[p] = c.frames[p]
  BY <1>0, <1>9, <1>15 DEF Depth
<1>20. ASSUME NEW x PROVE StopsOf(n, x) = StopsOf(c, x) /\ \A p \in StopsOf(c, x) : p < l
  <2>1. StopsOf(n, x) = StopsOf(c, x)
    BY <1>11, <1>18, <1>19 DEF StopsOf
  <2>2. ASSUME NEW p \in StopsOf(c, x) PROVE p < l
    <3>1. p \in Depth(c) /\ c.frames[p].op = "stop"
      BY <2>2 DEF StopsOf
    <3>2. m.frames # <<>>
      BY <1>9, <3>1, EmptySeq DEF Depth
    <3>3. p # l
      BY <1>9, <3>1, <3>2
    <3> QED BY <1>0, <1>19, <3>1, <3>3
  <2> QED BY <2>1, <2>2
<1>21. ASSUME NEW j \in ItemIds(n), j # i PROVE ItemEases(c, n, j)
  <2>1. FramesFrom(c, n, j)
    BY <1>11, <1>18, <1>21 DEF FramesFrom
  <2>2. TimersFrom(c, n, j)
    BY <1>9, <1>16, SameTimers
  <2> QED BY <1>9, <1>15, <1>16, <2>1, <2>2, Eased
<1>22. ASSUME NEW x PROVE EmptiesKept(c, n, x, l)
  <2> SUFFICES ASSUME NEW p \in Depth(n), n.frames[p].op = "dequeue",
                      n.arrays[n.frames[p].array] = <<>>
               PROVE  p <= l /\ c.arrays[n.frames[p].array] = <<>>
    BY DEF EmptiesKept
  <2>1. p \in 1..l
    BY <1>11, <1>18
  <2> QED BY <1>0, <1>16, <2>1
<1>23. ASSUME NEW x \in FxElements, x # e, Orderly(c, x) PROVE Orderly(n, x)
  <2>1. Shared(c, n, x, l)
    <3>1. \A p \in StopsOf(c, x) \cup StopsOf(n, x) : p <= l
      BY <1>0, <1>19, <1>20 DEF StopsOf
    <3> QED BY <1>0, <1>9, <1>15, <3>1 DEF Shared
  <2>2. Covered(n, x, l)
    BY <1>0, <1>20 DEF Covered
  <2>3. n.marks[x] >= c.marks[x]
    BY <1>9, <1>16, StateFields
  <2>4. \A j \in ItemIds(n) : n.items[j].on = x => ItemEases(c, n, j)
    BY <1>10, <1>16, <1>21, <1>23
  <2> QED BY <1>9, <1>15, <1>16, <1>17, <1>22, <1>23, <2>1, <2>2, <2>3, <2>4, EasedOrderly
<1>24. ASSUME Orderly(b, e) PROVE Orderly(n, e)
  <2>0. Orderly(c, e)
    BY <1>0, <1>8, <1>24
  <2>1. i \notin Begins(n, e)
    <3>1. n.items[i].kind = "unqueued" /\ i \notin n.delays
      BY <1>9, <1>10, <1>16 DEF ItemsOK
    <3> QED BY <3>1 DEF Begins, Lives
  <2>2. ASSUME NEW j \in Begins(n, e)
        PROVE  j \in Begins(c, e) /\ (Starting(n, j) => Starting(c, j))
    <3>1. j # i /\ j \in ItemIds(n) /\ n.items[j].on = e /\ Lives(n, j)
      BY <2>1, <2>2 DEF Begins
    <3>2. ItemEases(c, n, j)
      BY <1>21, <3>1
    <3>3. Lives(c, j)
      BY <1>16, <3>1, <3>2 DEF ItemEases, Lives
    <3> QED BY <1>16, <3>1, <3>2, <3>3 DEF Begins, ItemEases
  <2>3. Beside(n, e) \subseteq Beside(c, e) \cup {i}
    <3>1. ASSUME NEW j \in Beside(n, e), j # i PROVE j \in Beside(c, e)
      <4>1. ItemEases(c, n, j)
        BY <1>21, <3>1 DEF Beside
      <4> QED BY <1>16, <3>1, <4>1 DEF Beside, ItemEases
    <3> QED BY <3>1
  <2>4. \A h : OfElement(n, h) = OfElement(c, h)
    BY <1>16 DEF OfElement
  <2>5. OneBegun(n, e) /\ DelayRuns(n, e) /\ StartsQueued(n, e)
    BY <1>16, <2>0, <2>2 DEF Orderly, OneBegun, DelayRuns, StartsQueued
  <2>6. Unqueued(n, e)
    <3> SUFFICES ASSUME n.queue[e] = 0, NEW j \in Begins(n, e)
                 PROVE  /\ n.items[j].kind = "animation"
                        /\ \E p \in StopsOf(n, e) :
                             p # Len(n.frames) => /\ n.frames[p + 1].op = "complete"
                                                  /\ OfElement(n, n.frames[p + 1]) = e
      BY DEF Unqueued
    <3>1. PICK p \in StopsOf(c, e) : p # Len(c.frames) =>
            c.frames[p + 1].op = "complete" /\ OfElement(c, c.frames[p + 1]) = e
      BY <1>16, <2>0, <2>2 DEF Orderly, Unqueued
    <3>2. p \in Depth(c) /\ p < l /\ p + 1 \in 1..l /\ p # l
      BY <1>0, <1>19, <1>20, <3>1 DEF StopsOf
    <3>3. n.frames[p + 1] = c.frames[p + 1]
      BY <1>15, <3>2
    <3>4. n.items[j].kind = "animation"
      BY <1>16, <2>0, <2>2 DEF Orderly, Unqueued
    <3>5. c.frames[p + 1].op = "complete" /\ OfElement(c, c.frames[p + 1]) = e
      BY <1>9, <3>1, <3>2
    <3>6. p \in StopsOf(n, e)
      BY <1>20, <3>1
    <3> QED BY <2>4, <3>3, <3>4, <3>5, <3>6
  <2>7. ASSUME NEW p \in StopsOf(n, e) PROVE StopOK(n, e, p)
    <3>1. p \in StopsOf(c, e) /\ p \in Depth(c) /\ p < l /\ n.frames[p] = c.frames[p]
      BY <1>19, <1>20, <2>7 DEF StopsOf
    <3>2. StopOK(c, e, p)
      BY <2>0, <3>1 DEF Orderly
    <3>3. p # Len(c.frames)
      BY <1>0, <1>9, <1>19, <3>1
    <3>4. Settled(c.frames[p]) /\ c.frames[p].gotoEnd
      BY <3>2, <3>3 DEF StopOK, Settled
    <3>5. ASSUME NEW q \in 1..(p - 1), n.frames[q].op \in {"page", "complete", "stop"}
          PROVE  OfElement(n, n.frames[q]) # e
      <4>1. q \in 1..l
        BY <1>0, <1>19, <3>1
      <4>2. n.frames[q] = c.frames[q]
        BY <1>15, <4>1
      <4> QED BY <2>4, <3>2, <3>5, <4>2 DEF StopOK
    <3>6. ASSUME n.queue[e] = 0, NEW j \in Begins(n, e) PROVE ToCome(n, j, n.frames[p].at)
      <4>1. ToCome(c, j, c.frames[p].at)
        BY <1>16, <2>2, <3>2, <3>6 DEF StopOK
      <4> QED BY <1>16, <3>1, <4>1 DEF ToCome
    <3> QED BY <3>1, <3>4, <3>5, <3>6 DEF StopOK
  <2>8. EmptyOnes(n, e)
    <3> SUFFICES ASSUME NEW p \in Depth(n), n.frames[p].op = "dequeue", n.frames[p].on = e,
                        n.arrays[n.frames[p].array] = <<>>
                 PROVE  n.queue[e] = 0 /\ Begins(n, e) = {}
      BY DEF EmptyOnes
    <3>1. p \in Depth(c) /\ n.frames[p] = c.frames[p]
      BY <1>11, <1>18
    <3>2. c.queue[e] = 0 /\ Begins(c, e) = {}
      BY <1>16, <2>0, <3>1 DEF Orderly, EmptyOnes
    <3> QED BY <1>16, <2>2, <3>2
  <2>9. Marked(n, e)
    <3>1. CASE Cardinality(Beside(c, e)) + 1 <= c.marks[e]
      <4>1. IsFiniteSet(Beside(c, e)) /\ Cardinality(Beside(c, e)) \in Nat
        BY <1>9, BesideFinite
      <4>2. /\ IsFiniteSet(Beside(c, e) \cup {i})
            /\ Cardinality(Beside(c, e) \cup {i}) <= Cardinality(Beside(c, e)) + 1
        <5>1. /\ IsFiniteSet(Beside(c, e) \cup {i})
              /\ Cardinality(Beside(c, e) \cup {i}) =
                   IF i \in Beside(c, e) THEN Cardinality(Beside(c, e))
                                         ELSE Cardinality(Beside(c, e)) + 1
          BY <4>1, FS_AddElement
        <5> QED BY <4>1, <5>1
      <4>3. Cardinality(Beside(n, e)) <= Cardinality(Beside(c, e) \cup {i})
        BY <2>3, <4>2, FS_Subset
      <4>4. /\ Cardinality(Beside(n, e)) \in Nat /\ c.marks[e] \in Nat
            /\ Cardinality(Beside(c, e) \cup {i}) \in Nat
        BY <1>0, <1>9, <1>15, <4>2, BesideFinite, StateFields, FS_CardinalityType
      <4>5. Cardinality(Beside(n, e)) <= n.marks[e]
        BY <1>16, <3>1, <4>1, <4>2, <4>3, <4>4
      <4> QED BY <4>5 DEF Marked
    <3>2. CASE \E p \in StopsOf(c, e) : ~c.frames[p].gotoEnd
      <4>1. PICK p \in StopsOf(c, e) : ~c.frames[p].gotoEnd
        BY <3>2
      <4>2. p \in StopsOf(n, e) /\ n.frames[p] = c.frames[p]
        BY <1>19, <1>20, <4>1 DEF StopsOf
      <4> QED BY <4>1, <4>2 DEF Marked
    <3> QED BY <1>7, <1>24, <3>1, <3>2 DEF Orderly
  <2> QED BY <2>5, <2>6, <2>7, <2>8, <2>9 DEF Orderly
<1>25. \A x \in FxElements : Orderly(m, x) => Orderly(n, x)
  BY <1>1, <1>8, <1>23, <1>24
<1>26. Len(n.items) = Len(m.items) + 1
  BY <1>2, <1>9, <1>16
<1>27. n = Push([b EXCEPT !.marks[e] = @ + 1], g)
  BY <1>4 DEF n
<1> HIDE DEF e, i
<1> QED BY <1>14, <1>25, <1>26, <1>27 DEF b, g, e, i

LEMMA FxWent ==
  ASSUME NEW n \in StateType, FxGoto(n)
  PROVE  FxNow' = n
<1>1. n = [arrays |-> n.arrays, queue |-> n.queue, run |-> n.run, items |-> n.items,
           timers |-> n.timers, interval |-> n.interval, delays |-> n.delays,
           marks |-> n.marks, defer |-> n.defer, deferrals |-> n.deferrals,
           frames |-> n.frames]
  BY DEF StateType
<1>2. FxNow' = [arrays |-> n.arrays, queue |-> n.queue, run |-> n.run, items |-> n.items,
                timers |-> n.timers, interval |-> n.interval, delays |-> n.delays,
                marks |-> n.marks, defer |-> n.defer, deferrals |-> n.deferrals,
                frames |-> n.frames]
  BY DEF FxGoto, FxNow
<1> QED BY <1>1, <1>2

LEMMA FxFields ==
  /\ FxNow.arrays = arrays /\ FxNow.queue = queue /\ FxNow.run = run /\ FxNow.items = items
  /\ FxNow.timers = fxTimers /\ FxNow.interval = interval /\ FxNow.delays = delays
  /\ FxNow.marks = marks /\ FxNow.defer = defer /\ FxNow.deferrals = deferrals
  /\ FxNow.frames = fxFrames
BY DEF FxNow

\* A step to a sound state.
LEMMA StepsTo ==
  ASSUME EffectsInv, NEW n, Sound(n), FxGoto(n), fxScript' = fxScript, fxCalls' = Len(n.items),
         \A x \in Regular' : Orderly(n, x)
  PROVE  EffectsInv'
<1>1. n \in StateType
  BY DEF Sound
<1>2. FxNow' = n
  BY <1>1, FxWent
<1>3. items' = n.items
  BY DEF FxGoto
<1> QED BY <1>2, <1>3 DEF EffectsInv

LEMMA KeptStep ==
  ASSUME EffectsInv, NEW n, Keeps(FxNow, n), FxGoto(n),
         UNCHANGED <<fxScript, fxCalls, loose, spoiled>>
  PROVE  EffectsInv'
<1>1. /\ Sound(n) /\ Len(n.items) = Len(items)
      /\ \A x \in FxElements : Orderly(FxNow, x) => Orderly(n, x)
  BY FxFields DEF Keeps
<1>2. fxCalls' = Len(n.items)
  BY <1>1 DEF EffectsInv
<1>3. Regular' = Regular /\ Regular \subseteq FxElements
  BY DEF Regular
<1>4. \A x \in Regular' : Orderly(n, x)
  BY <1>1, <1>3 DEF EffectsInv
<1> QED BY <1>1, <1>2, <1>4, StepsTo

\* A call of the page.
LEMMA CalledStep ==
  ASSUME EffectsInv, NEW n, Sound(n), Len(n.items) = Len(items) + 1, FxGoto(n),
         fxCalls' = fxCalls + 1, UNCHANGED fxScript,
         \A x \in Regular' : x \in Regular /\ (Orderly(FxNow, x) => Orderly(n, x))
  PROVE  EffectsInv'
<1>1. fxCalls' = Len(n.items)
  BY DEF EffectsInv
<1>2. \A x \in Regular' : Orderly(n, x)
  BY DEF EffectsInv
<1> QED BY <1>1, <1>2, StepsTo

\* A step after an exception.
LEMMA SpoiledStep ==
  ASSUME EffectsInv, NEW n, Sound(n), n.items = items, FxGoto(n),
         UNCHANGED <<fxScript, fxCalls>>, spoiled'
  PROVE  EffectsInv'
<1>1. Regular' = {}
  BY DEF Regular
<1>2. fxCalls' = Len(n.items)
  BY DEF EffectsInv
<1> QED BY <1>1, <1>2, StepsTo

LEMMA GivenUpStep ==
  ASSUME EffectsInv, fxFrames # <<>>, GivenUp, UNCHANGED <<fxScript, fxCalls>>
  PROVE  EffectsInv'
<1> DEFINE m == FxNow
<1>0. Sound(m) /\ m \in StateType /\ m.frames \in Seq(FrameType) /\ m.frames = fxFrames
  BY StateFields, FxFields DEF EffectsInv, Sound
<1>1. PICK n \in 0..(Len(fxFrames) - 1) : FxGoto([FxNow EXCEPT !.frames = SubSeq(@, 1, n)])
  BY DEF GivenUp
<1> DEFINE r == SubSeq(fxFrames, 1, n)
           b == [m EXCEPT !.frames = r]
<1>2. Len(fxFrames) \in Nat /\ \A i \in 1..Len(fxFrames) : fxFrames[i] \in FrameType
  BY <1>0, ItemOf
<1>3. n \in Nat /\ n <= Len(fxFrames)
  BY <1>2
<1>4. /\ r \in Seq(FrameType) /\ Len(r) = IF 1 <= n THEN n - 1 + 1 ELSE 0
      /\ \A p \in 1..(n - 1 + 1) : r[p] = fxFrames[1 + p - 1]
  <2>1. 1 \in Int /\ n \in Int /\ \A p \in 1..n : fxFrames[p] \in FrameType
    BY <1>2, <1>3
  <2> QED BY <2>1, SubSeqProperties
<1>5. b = [FxNow EXCEPT !.frames = SubSeq(@, 1, n)]
  BY <1>0
<1> HIDE DEF r
<1>6. Len(r) = n
  BY <1>3, <1>4
<1>7. ASSUME NEW p \in 1..n PROVE r[p] = fxFrames[p]
  <2>1. p \in 1..(n - 1 + 1) /\ 1 + p - 1 = p
    BY <1>3
  <2> QED BY <1>4, <2>1
<1> HIDE DEF m
<1>8. /\ b \in StateType /\ b.frames = r /\ OnlyStack(m, b)
  BY <1>0, <1>4 DEF StateType, OnlyStack
<1>9. Sound(b)
  <2>1. Len(b.frames) <= Len(m.frames) /\ \A p \in Depth(b) : b.frames[p] = m.frames[p]
    BY <1>0, <1>3, <1>6, <1>7, <1>8 DEF Depth
  <2> QED BY <1>0, <1>8, <2>1, CutSound
<1>10. b.items = items
  BY <1>8, FxFields DEF OnlyStack, m
<1>11. FxGoto(b)
  BY <1>1, <1>5
<1>12. spoiled'
  BY DEF GivenUp
<1> HIDE DEF b
<1> QED BY <1>9, <1>10, <1>11, <1>12, SpoiledStep

LEMMA PageRuns ==
  ASSUME EffectsInv, FunctionRuns
  PROVE  FxNow.frames # <<>> => FxNow.frames[Len(FxNow.frames)].op = "page"
<1>1. FxNow \in StateType /\ FxNow.frames = fxFrames
  BY FxFields DEF EffectsInv, Sound
<1>2. fxFrames # <<>> => Last(fxFrames) = fxFrames[Len(fxFrames)]
  BY <1>1, PopFields
<1> QED BY <1>1, <1>2 DEF FunctionRuns, FxTop

\* While page code runs, nothing starts.
LEMMA NothingStarts ==
  ASSUME NEW m, Sound(m), m.frames # <<>> => m.frames[Len(m.frames)].op = "page", NEW i
  PROVE  ~Starting(m, i)
<1>0. m \in StateType /\ FramesOK(m)
  BY DEF Sound
<1>1. ASSUME NEW p \in Depth(m), m.frames[p].op = "start" PROVE m.frames[p].left = {}
  <2>1. m.frames # <<>>
    BY <1>0, <1>1, EmptySeq DEF Depth
  <2>2. p # Len(m.frames)
    BY <1>1, <2>1
  <2> QED BY <1>0, <1>1, <2>2 DEF FramesOK, Above
<1> QED BY <1>1 DEF Starting

LEMMA ScriptOn ==
  ASSUME EffectsInv, EffectsAssumption
  PROVE  fxScript.on \subseteq FxElements /\ fxCalls = Len(items) /\ fxCalls \in Nat
<1>1. FxNow \in StateType
  BY DEF EffectsInv, Sound
<1>2. Len(items) \in Nat
  BY <1>1, StateFields, ItemOf, FxFields
<1> QED BY <1>2 DEF EffectsInv, EffectsAssumption

\* A queue that waits for nothing and is not emptying has nothing in progress.
LEMMA NotEmptying ==
  ASSUME EffectsInv, FunctionRuns, NEW e \in FxElements, Orderly(FxNow, e), queue[e] = 0,
         ~Emptying(e)
  PROVE  Begins(FxNow, e) = {} /\ NoEmpties(FxNow, e)
<1> DEFINE m == FxNow
<1>0. /\ m.frames = fxFrames /\ m.items = items /\ m.arrays = arrays /\ m.queue = queue
      /\ m \in StateType
  BY FxFields DEF EffectsInv, Sound
<1>1. DOMAIN fxFrames = Depth(m) /\ Len(m.frames) \in Nat
  BY <1>0, FramesAre
<1>2. m.frames # <<>> => m.frames[Len(m.frames)].op = "page"
  BY PageRuns
<1> HIDE DEF m
<1>3. NoEmpties(m, e)
  BY <1>0, <1>1 DEF NoEmpties, Emptying
<1>4. ASSUME NEW i \in Begins(m, e) PROVE FALSE
  <2>1. PICK p \in StopsOf(m, e) :
          p # Len(m.frames) => /\ m.frames[p + 1].op = "complete"
                               /\ OfElement(m, m.frames[p + 1]) = e
    BY <1>0, <1>4 DEF Orderly, Unqueued, m
  <2>2. p \in Depth(m) /\ m.frames[p].op = "stop"
    BY DEF StopsOf
  <2>3. p # Len(m.frames) /\ p + 1 \in Depth(m)
    <3>1. m.frames # <<>>
      BY <2>2, EmptySeq DEF Depth
    <3>2. p # Len(m.frames)
      BY <1>2, <2>2, <3>1
    <3> QED BY <1>1, <2>2, <3>2 DEF Depth
  <2>4. fxFrames[p + 1].op = "complete" /\ items[fxFrames[p + 1].item].on = e
    BY <1>0, <2>1, <2>3 DEF OfElement
  <2> QED BY <1>1, <2>3, <2>4 DEF Emptying
<1> QED BY <1>3, <1>4 DEF m

LEMMA EnqueueStep ==
  ASSUME EffectsInv, EffectsAssumption, NEW e \in fxScript.on, NEW kind \in Queueable,
         NEW duration \in Nat, NEW properties \in Nat, Enqueue(e, kind, duration, properties)
  PROVE  EffectsInv'
<1> DEFINE item == NewItem(kind, e, duration, properties)
           m == FxNow
           n == Queued(Added(m, item), e, Len(m.items) + 1)
<1>0. Sound(m) /\ fxScript.on \subseteq FxElements /\ m.items = items /\ m.queue = queue
  BY ScriptOn, FxFields DEF EffectsInv
<1>1. FunctionRuns /\ fxCalls' = fxCalls + 1 /\ UNCHANGED fxScript
  BY DEF Enqueue, FxCall
<1>2. m.frames # <<>> => m.frames[Len(m.frames)].op = "page"
  BY <1>1, PageRuns
<1>3. item = [kind |-> kind, on |-> e, duration |-> duration, todo |-> 1..properties,
              complete |-> TRUE, called |-> 0]
  BY DEF NewItem
<1>4. 1..properties \in SUBSET Nat
  OBVIOUS
<1> HIDE DEF item
<1>5. Fresh(item) /\ item.kind \in Queueable /\ item.on = e
  BY <1>0, <1>3, <1>4 DEF Fresh, ItemType
<1>6. FxGoto(n)
  BY <1>0 DEF Enqueue, WithItem, Added, item, EffectsInv
<1> HIDE DEF m
<1>7. /\ Sound(n) /\ Len(n.items) = Len(m.items) + 1
      /\ \A x \in FxElements :
           /\ Orderly(m, x)
           /\ x = e /\ m.queue[e] = 0 => Begins(m, e) = {} /\ NoEmpties(m, e)
           => Orderly(n, x)
  BY <1>0, <1>2, <1>5, EnqueueGood
<1> HIDE DEF n
<1>8. ASSUME NEW x \in Regular' PROVE x \in Regular /\ (Orderly(FxNow, x) => Orderly(n, x))
  <2>1. x \in Regular /\ x \in FxElements /\ x \notin loose'
    BY <1>8 DEF Regular, Enqueue
  <2>2. ASSUME x = e, queue[e] = 0, Orderly(FxNow, x)
        PROVE  Begins(FxNow, e) = {} /\ NoEmpties(FxNow, e)
    <3>1. ~Emptying(e)
      BY <2>1, <2>2 DEF Enqueue
    <3> QED BY <1>1, <2>1, <2>2, <3>1, NotEmptying
  <2> QED BY <1>0, <1>7, <2>1, <2>2 DEF m
<1> QED BY <1>0, <1>1, <1>6, <1>7, <1>8, CalledStep

LEMMA AnimateNowStep ==
  ASSUME EffectsInv, EffectsAssumption, NEW e \in fxScript.on, NEW duration \in Nat,
         AnimateNow(e, duration)
  PROVE  EffectsInv'
<1> DEFINE item == NewItem("unqueued", e, duration, 1)
           m == FxNow
           b == Added(m, item)
           n == Push([b EXCEPT !.marks[e] = @ + 1], StartFrame(Len(m.items) + 1, {1}))
<1>0. Sound(m) /\ fxScript.on \subseteq FxElements /\ m.items = items
  BY ScriptOn, FxFields DEF EffectsInv
<1>1. FunctionRuns /\ fxCalls' = fxCalls + 1 /\ UNCHANGED fxScript
  BY DEF AnimateNow, FxCall
<1>2. m.frames # <<>> => m.frames[Len(m.frames)].op = "page"
  BY <1>1, PageRuns
<1>3. item = [kind |-> "unqueued", on |-> e, duration |-> duration, todo |-> 1..1,
              complete |-> TRUE, called |-> 0]
  BY DEF NewItem
<1> HIDE DEF item
<1>4. Fresh(item) /\ item.kind = "unqueued" /\ item.todo = {1} /\ item.on = e
  BY <1>0, <1>3, 1..1 = {1}, 1..1 \in SUBSET Nat DEF Fresh, ItemType, Animated
<1>5. FxGoto(n)
  BY <1>0 DEF AnimateNow, WithItem, Added, item, EffectsInv
<1> HIDE DEF m, b
<1>6. /\ Sound(n) /\ Len(n.items) = Len(m.items) + 1
      /\ \A x \in FxElements : Orderly(m, x) => Orderly(n, x)
  BY <1>0, <1>2, <1>4, BesideGood DEF b
<1> HIDE DEF n
<1>7. ASSUME NEW x \in Regular' PROVE x \in Regular /\ (Orderly(FxNow, x) => Orderly(n, x))
  BY <1>6, <1>7 DEF Regular, AnimateNow, m
<1> QED BY <1>0, <1>1, <1>5, <1>6, <1>7, CalledStep

\* Where page code runs that was not called for e, what began and did not end is in progress.
LEMMA BegunIsInProgress ==
  ASSUME EffectsInv, FunctionRuns, NEW e, ~Inside(e)
  PROVE  Outside(FxNow, e) /\ \A i \in Begins(FxNow, e) : i \in InProgress(e)
<1> DEFINE m == FxNow
<1>0. /\ Sound(m) /\ m \in StateType /\ m.items = items
      /\ m.frames = fxFrames /\ m.timers = fxTimers /\ m.delays = delays
  BY FxFields DEF EffectsInv, Sound
<1>1. m.frames # <<>> => m.frames[Len(m.frames)].op = "page"
  BY PageRuns
<1>2. DOMAIN fxFrames = Depth(m) /\ DOMAIN fxTimers = Places(m) /\ DOMAIN items = ItemIds(m)
  BY <1>0, StateFields, ItemOf DEF Depth, Places, ItemIds
<1> HIDE DEF m
<1>3. Outside(m, e)
  BY <1>0, <1>2 DEF Outside, Inside, OfElement
<1>4. ASSUME NEW i \in Begins(m, e) PROVE i \in InProgress(e)
  <2>1. i \in ItemIds(m) /\ items[i].on = e /\ Lives(m, i)
    BY <1>0, <1>4 DEF Begins
  <2>2. ~Starting(m, i)
    BY <1>0, <1>1, NothingStarts
  <2>3. ~Completing(m, i)
    BY <1>0, <1>2, <2>1 DEF Inside, Completing
  <2>4. Moving(m, i) => items[i].complete /\ \E k \in DOMAIN fxTimers : fxTimers[k].item = i
    BY <1>0, <1>2, <2>2, <2>3 DEF Moving, HasTimer
  <2> QED BY <1>0, <1>2, <2>1, <2>4 DEF InProgress, Lives
<1> QED BY <1>3, <1>4 DEF m

LEMMA ClearQueueStep ==
  ASSUME EffectsInv, EffectsAssumption, NEW e \in fxScript.on, ClearQueue(e)
  PROVE  EffectsInv'
<1> DEFINE m == FxNow
           n == EmptiedQueue(Added(m, NoItem), e)
<1>0. Sound(m) /\ fxScript.on \subseteq FxElements /\ m.items = items
  BY ScriptOn, FxFields DEF EffectsInv
<1>1. FunctionRuns /\ fxCalls' = fxCalls + 1 /\ UNCHANGED fxScript
  BY DEF ClearQueue, FxCall
<1>3. FxGoto(n)
  BY DEF ClearQueue, WithItem, Added
<1> HIDE DEF m
<1>5. /\ Sound(n) /\ Len(n.items) = Len(m.items) + 1
      /\ \A x \in FxElements :
           Orderly(m, x) /\ (x = e => Begins(m, e) = {}) => Orderly(n, x)
  BY <1>0, ClearGood
<1> HIDE DEF n
<1>6. ASSUME ~Inside(e), InProgress(e) = {}, NEW i \in Begins(m, e) PROVE FALSE
  BY <1>1, <1>6, BegunIsInProgress DEF m
<1>7. ASSUME NEW x \in Regular' PROVE x \in Regular /\ (Orderly(FxNow, x) => Orderly(n, x))
  <2>1. x \in Regular /\ x \in FxElements /\ x \notin loose'
    BY <1>7 DEF Regular, ClearQueue
  <2>2. ASSUME x = e PROVE Begins(m, e) = {}
    <3>1. ~Inside(e) /\ InProgress(e) = {}
      BY <2>1, <2>2 DEF ClearQueue
    <3> QED BY <1>6, <3>1
  <2> QED BY <1>5, <2>1, <2>2 DEF m
<1> QED BY <1>0, <1>1, <1>3, <1>5, <1>7, CalledStep

\* The state that stop leaves before it looks for timers.
LEMMA StopBegins ==
  ASSUME NEW m, Sound(m), m.frames # <<>> => m.frames[Len(m.frames)].op = "page",
         NEW e \in FxElements, NEW clear \in BOOLEAN, NEW goto \in BOOLEAN
  PROVE  LET b == Added(m, NoItem)
             n == Push(HaltedState(b, e, clear, goto),
                       StopFrame(e, Len(m.timers), goto, FALSE, NoTimer))
         IN  /\ Sound(n) /\ Len(n.items) = Len(m.items) + 1
             /\ \A x \in FxElements \ {e} : Orderly(m, x) => Orderly(n, x)
             /\ Orderly(m, e) /\ Outside(m, e)
                  /\ (\A i \in Begins(m, e) : m.items[i].kind # "function" /\
                                              (clear \/ goto => i \notin m.delays))
                  => Orderly(n, e)
<1> DEFINE b == Added(m, NoItem)
           u == HaltedState(b, e, clear, goto)
           n == Push(u, StopFrame(e, Len(m.timers), goto, FALSE, NoTimer))
<1>0. m \in StateType /\ FramesOK(m)
  BY DEF Sound
<1>1. /\ Sound(b) /\ Len(b.items) = Len(m.items) + 1
      /\ \A x \in FxElements : Orderly(m, x) =>
           Orderly(b, x) /\ Begins(b, x) \subseteq Begins(m, x)
  BY CalledGood
<1>2. NoItem \in ItemType
  BY DEF ItemType, NoItem
<1>3. /\ b.timers = m.timers /\ b.delays = m.delays /\ b.frames = m.frames
      /\ \A i \in ItemIds(m) : b.items[i] = m.items[i]
  BY <1>0, <1>2, AddedFields
<1> HIDE DEF b
<1>4. Halted(b, u, e, clear, goto)
  BY <1>1, HaltedFields
<1> HIDE DEF u
<1> DEFINE o == Push(u, StopFrame(e, Len(b.timers), goto, FALSE, NoTimer))
<1>5. n = o
  BY <1>3
<1>6. b.frames # <<>> => b.frames[Len(b.frames)].op = "page"
  BY <1>3
<1>7. StopsFor(b, o, e, clear, goto)
  BY <1>1, <1>4, <1>6, StopBegun
<1> HIDE DEF o
<1> HIDE DEF n
<1>8. ASSUME Orderly(m, e), Outside(m, e),
             \A i \in Begins(m, e) : m.items[i].kind # "function" /\
                                     (clear \/ goto => i \notin m.delays)
      PROVE  Orderly(n, e)
  <2>1. Orderly(b, e) /\ Begins(b, e) \subseteq Begins(m, e)
    BY <1>1, <1>8
  <2>2. \A i \in Begins(m, e) : i \in ItemIds(m)
    BY DEF Begins
  <2>3. ASSUME NEW p \in Depth(b), b.frames[p].op \in {"page", "complete", "stop"}
        PROVE  OfElement(b, b.frames[p]) # e
    <3>1. p \in Depth(m) /\ b.frames[p] = m.frames[p]
      BY <1>3 DEF Depth
    <3>2. OfElement(m, m.frames[p]) # e
      BY <1>8, <2>3, <3>1 DEF Outside
    <3>3. FrameMade(m, m.frames[p])
      BY <1>0, <3>1 DEF FramesOK
    <3> QED BY <1>3, <2>3, <3>1, <3>2, <3>3 DEF OfElement, FrameMade
  <2>4. Outside(b, e)
    BY <2>3 DEF Outside
  <2> QED BY <1>3, <1>5, <1>7, <1>8, <2>1, <2>2, <2>4 DEF StopsFor
<1>9. \A x \in FxElements \ {e} : Orderly(m, x) => Orderly(n, x)
  BY <1>1, <1>5, <1>7 DEF StopsFor
<1>10. Len(n.items) = Len(m.items) + 1 /\ Sound(n)
  BY <1>1, <1>5, <1>7 DEF StopsFor
<1> QED BY <1>8, <1>9, <1>10 DEF n, u, b

LEMMA StopEffectsStep ==
  ASSUME EffectsInv, EffectsAssumption, NEW e \in fxScript.on,
         NEW clear \in BOOLEAN, NEW goto \in BOOLEAN, StopEffects(e, clear, goto)
  PROVE  EffectsInv'
<1> DEFINE m == FxNow
           n == Push(HaltedState(Added(m, NoItem), e, clear, goto),
                     StopFrame(e, Len(m.timers), goto, FALSE, NoTimer))
<1>0. /\ Sound(m) /\ fxScript.on \subseteq FxElements /\ m.items = items
      /\ m.timers = fxTimers /\ m.delays = delays
  BY ScriptOn, FxFields DEF EffectsInv
<1>1. FunctionRuns /\ fxCalls' = fxCalls + 1 /\ UNCHANGED fxScript
  BY DEF StopEffects, FxCall
<1>2. m.frames # <<>> => m.frames[Len(m.frames)].op = "page"
  BY <1>1, PageRuns
<1>3. WithItem(NoItem) = Added(m, NoItem)
  BY DEF WithItem, Added
<1>4. FxGoto(n)
  BY <1>0, <1>3 DEF StopEffects, HaltedState
<1> HIDE DEF m
<1>5. /\ Sound(n) /\ Len(n.items) = Len(m.items) + 1
      /\ \A x \in FxElements \ {e} : Orderly(m, x) => Orderly(n, x)
      /\ Orderly(m, e) /\ Outside(m, e)
           /\ (\A i \in Begins(m, e) : m.items[i].kind # "function" /\
                                       (clear \/ goto => i \notin m.delays))
           => Orderly(n, e)
  BY <1>0, <1>2, StopBegins
<1> HIDE DEF n
<1>6. ASSUME NEW x \in Regular' PROVE x \in Regular /\ (Orderly(FxNow, x) => Orderly(n, x))
  <2>1. x \in Regular /\ x \in FxElements /\ x \notin loose'
    BY <1>6 DEF Regular, StopEffects
  <2>2. CASE x # e
    BY <1>5, <2>1, <2>2 DEF m
  <2>3. CASE x = e
    <3>1. /\ ~Inside(e) /\ (clear \/ goto => InProgress(e) \cap delays = {})
          /\ \A i \in InProgress(e) : items[i].kind # "function"
      BY <2>1, <2>3 DEF StopEffects
    <3>2. Outside(m, e) /\ \A i \in Begins(m, e) : i \in InProgress(e)
      BY <1>1, <3>1, BegunIsInProgress DEF m
    <3> QED BY <1>0, <1>5, <2>1, <2>3, <3>1, <3>2 DEF m
  <2> QED BY <2>2, <2>3
<1> QED BY <1>0, <1>1, <1>4, <1>5, <1>6, CalledStep

LEMMA PromiseStep ==
  ASSUME EffectsInv, EffectsAssumption, NEW es \in SUBSET fxScript.on, Promise(es)
  PROVE  EffectsInv'
<1> DEFINE m == FxNow
           busy == {e \in es : defer[e] # 0 \/ queue[e] # 0 \/ marks[e] # 0}
           held(e) == IF e \in busy /\ defer[e] = 0 THEN fxCalls + 1 ELSE defer[e]
           d == [x \in FxElements |-> IF x \in es THEN held(x) ELSE defer[x]]
           n == [Added(m, NoItem) EXCEPT !.defer = d]
<1>0. /\ Sound(m) /\ m \in StateType /\ m.items = items /\ m.defer = defer
      /\ fxCalls = Len(items)
  BY FxFields DEF EffectsInv, Sound
<1>1. FxCall("promise") /\ fxCalls' = fxCalls + 1 /\ UNCHANGED fxScript
  BY DEF Promise, FxCall
<1>2. WithItem(NoItem) = Added(m, NoItem)
  BY DEF WithItem, Added
<1>3. FxGoto(n)
  <2>1. Added(m, NoItem).defer = defer
    BY <1>0 DEF Added, StateType
  <2> QED BY <1>2, <2>1 DEF Promise
<1>4. d = [x \in FxElements |-> d[x]] /\ \A x \in FxElements : d[x] \in {Len(m.items) + 1, m.defer[x]}
  BY <1>0
<1> HIDE DEF m, d
<1>5. /\ Sound(n) /\ Len(n.items) = Len(m.items) + 1
      /\ \A x \in FxElements : Orderly(m, x) => Orderly(n, x)
  BY <1>0, <1>4, PromiseGood
<1> HIDE DEF n
<1>6. ASSUME NEW x \in Regular' PROVE x \in Regular /\ (Orderly(FxNow, x) => Orderly(n, x))
  BY <1>5, <1>6 DEF Regular, Promise, m
<1> QED BY <1>0, <1>1, <1>3, <1>5, <1>6, CalledStep

LEMMA NextStep ==
  ASSUME EffectsInv, NEW i, Next_(i)
  PROVE  EffectsInv'
<1> DEFINE m == FxNow
           n == Dequeue([m EXCEPT !.items[i].called = 2], m.items[i].on)
<1>0. Sound(m) /\ m \in StateType /\ m.items = items
  BY FxFields DEF EffectsInv, Sound
<1>1. FxGoto(n) /\ FunctionRuns /\ UNCHANGED <<fxScript, fxCalls, loose, spoiled>>
  BY <1>0 DEF Next_
<1>2. i \in ItemIds(m) /\ m.items[i].kind = "function" /\ m.items[i].called = 1
  BY <1>0, StateFields, ItemOf DEF Next_, ItemIds
<1>3. m.frames # <<>> => m.frames[Len(m.frames)].op = "page"
  BY <1>1, PageRuns
<1> HIDE DEF m
<1>4. Keeps(m, n)
  BY <1>0, <1>2, <1>3, NextGood
<1> HIDE DEF n
<1> QED BY <1>1, <1>4, KeptStep DEF m

LEMMA ReturnsStep ==
  ASSUME EffectsInv, FunctionReturns
  PROVE  EffectsInv'
<1> DEFINE m == FxNow
<1>0. Sound(m) /\ m.frames = fxFrames
  BY FxFields DEF EffectsInv
<1>1. FxGoto(Pop(m)) /\ UNCHANGED <<fxScript, fxCalls, loose, spoiled>>
  BY DEF FunctionReturns
<1>2. m.frames # <<>> /\ Last(m.frames).op # "stop"
  BY <1>0 DEF FunctionReturns, FxTop
<1> HIDE DEF m
<1>3. Keeps(m, Pop(m))
  BY <1>0, <1>2, PopGood
<1> QED BY <1>1, <1>3, KeptStep DEF m

LEMMA CompletesStep ==
  ASSUME EffectsInv, Completes
  PROVE  EffectsInv'
<1> DEFINE m == FxNow
           e == m.items[Last(m.frames).item].on
           n == IF m.items[Last(m.frames).item].kind = "unqueued"
                THEN Unmarked(Pop(m), e, FALSE) ELSE Dequeue(Pop(m), e)
<1>0. Sound(m) /\ m.frames = fxFrames /\ m.items = items
  BY FxFields DEF EffectsInv
<1>1. FxGoto(n) /\ UNCHANGED <<fxScript, fxCalls, loose, spoiled>>
  BY <1>0 DEF Completes, FxTop
<1>2. m.frames # <<>> /\ Last(m.frames).op = "complete"
  BY <1>0 DEF Completes, FxTop
<1> HIDE DEF m
<1>3. Keeps(m, n)
  <2>1. CASE m.items[Last(m.frames).item].kind = "unqueued"
    BY <1>0, <1>2, <2>1, UnqueuedCompletes
  <2>2. CASE m.items[Last(m.frames).item].kind # "unqueued"
    BY <1>0, <1>2, <2>2, QueuedCompletes
  <2> QED BY <2>1, <2>2
<1> HIDE DEF n
<1> QED BY <1>1, <1>3, KeptStep DEF m

LEMMA DequeueEndsStep ==
  ASSUME EffectsInv, DequeueEnds
  PROVE  EffectsInv'
<1> DEFINE m == FxNow
           n == IF m.arrays[Last(m.frames).array] = <<>>
                THEN EmptiedQueue(Pop(m), Last(m.frames).on) ELSE Pop(m)
<1>0. Sound(m) /\ m.frames = fxFrames /\ m.arrays = arrays
  BY FxFields DEF EffectsInv
<1>1. FxGoto(n) /\ UNCHANGED <<fxScript, fxCalls, loose, spoiled>>
  BY <1>0 DEF DequeueEnds, FxTop
<1>2. m.frames # <<>> /\ Last(m.frames).op = "dequeue"
  BY <1>0 DEF DequeueEnds, FxTop
<1> HIDE DEF m
<1>3. Keeps(m, n)
  BY <1>0, <1>2, DequeueEndsGood
<1> HIDE DEF n
<1> QED BY <1>1, <1>3, KeptStep DEF m

LEMMA StartPropertyStep ==
  ASSUME EffectsInv, StartProperty
  PROVE  EffectsInv'
<1> DEFINE m == FxNow
           f == Last(m.frames)
           p == CHOOSE p \in f.left : \A q \in f.left : p <= q
           d == m.items[f.item].duration
           timer == [item |-> f.item, property |-> p, left |-> IF Ticks THEN d ELSE d - 1]
           next == Replaced(m, StartFrame(f.item, f.left \ {p}))
           timed == [next EXCEPT !.timers = Append(@, timer), !.interval = TRUE]
<1>0. Sound(m) /\ m \in StateType /\ FramesOK(m) /\ m.frames = fxFrames /\ m.items = items
  BY FxFields DEF EffectsInv, Sound
<1>1. UNCHANGED <<fxScript, fxCalls, loose, spoiled>>
  BY DEF StartProperty
<1>2. m.frames # <<>> /\ f.op = "start"
  BY <1>0 DEF StartProperty, FxTop
<1>3. CASE f.left = {}
  <2>1. FxGoto(Pop(m))
    BY <1>0, <1>3 DEF StartProperty, FxTop
  <2> HIDE DEF m
  <2>2. Keeps(m, Pop(m))
    BY <1>0, <1>2, PopGood
  <2> QED BY <1>1, <2>1, <2>2, KeptStep DEF m
<1>4. CASE f.left # {}
  <2>1. FxGoto(IF d = 0 THEN Finished(next, timer) ELSE timed)
    BY <1>0, <1>4 DEF StartProperty, FxTop
  <2> HIDE DEF m
  <2>2. /\ Len(m.frames) \in Nat \ {0} /\ f = m.frames[Len(m.frames)] /\ f \in FrameType
    BY <1>0, <1>2, PopFields
  <2>3. f.item \in Nat /\ f.left \in SUBSET Nat
    BY <1>2, <2>2, FrameIs
  <2>4. p \in f.left
    <3>1. \E i \in f.left : \A j \in f.left : i <= j
      BY <1>4, <2>3, Least
    <3> QED BY <3>1
  <2>5. d \in Nat
    <3>1. f.item \in ItemIds(m)
      BY <1>0, <1>2, <2>2 DEF FramesOK, FrameMade, Depth
    <3> QED BY <1>0, <3>1, ItemFields
  <2>6. timer.item = f.item /\ timer.property = p
    OBVIOUS
  <2>7. d # 0 => timer \in TimerType
    BY <2>3, <2>4, <2>5 DEF TimerType
  <2> HIDE DEF timer, d, p, f
  <2>8. CASE d = 0
    <3>1. Keeps(m, Finished(Replaced(m, StartFrame(f.item, f.left \ {timer.property})), timer))
      BY <1>0, <1>2, <2>4, <2>6, StartFinishes DEF f
    <3>2. Keeps(m, Finished(next, timer))
      BY <2>6, <3>1
    <3> HIDE DEF next
    <3> QED BY <1>1, <2>1, <2>8, <3>2, KeptStep DEF m
  <2>9. CASE d # 0
    <3>1. Keeps(m, [Replaced(m, StartFrame(f.item, f.left \ {timer.property}))
                      EXCEPT !.timers = Append(@, timer), !.interval = TRUE])
      BY <1>0, <1>2, <2>4, <2>6, <2>7, <2>9, StartTimed DEF f
    <3>2. Keeps(m, timed)
      BY <2>6, <3>1
    <3> HIDE DEF timed
    <3> QED BY <1>1, <2>1, <2>9, <3>2, KeptStep DEF m
  <2> QED BY <2>8, <2>9
<1> QED BY <1>3, <1>4

LEMMA TickStep ==
  ASSUME EffectsInv, Tick
  PROVE  EffectsInv'
<1> DEFINE m == FxNow
           n == Push(m, TickFrame(1, NoTimer))
<1>0. Sound(m) /\ m.frames = <<>>
  BY FxFields DEF EffectsInv, Tick
<1>1. FxGoto(n) /\ UNCHANGED <<fxScript, fxCalls, loose, spoiled>>
  BY DEF Tick
<1>2. NoTimer \in TimerType /\ 1 \in Nat \ {0}
  BY DEF NoTimer, TimerType
<1> HIDE DEF m
<1>3. Keeps(m, n)
  BY <1>0, <1>2, TickPushed
<1> HIDE DEF n
<1> QED BY <1>1, <1>3, KeptStep DEF m

LEMMA TickTimerStep ==
  ASSUME EffectsInv, TickTimer
  PROVE  EffectsInv'
<1> DEFINE m == FxNow
           f == Last(m.frames)
           rest == Spliced(m.timers, f.at, f.timer)
           c == [m EXCEPT !.timers = rest]
           g == IF Len(rest) < Len(m.timers) THEN f.at ELSE f.at + 1
<1>0. /\ Sound(m) /\ m \in StateType /\ FramesOK(m) /\ m.frames = fxFrames
      /\ m.timers = fxTimers
  BY FxFields DEF EffectsInv, Sound
<1>1. UNCHANGED <<fxScript, fxCalls, loose, spoiled>>
  BY DEF TickTimer
<1>2. m.frames # <<>> /\ f.op = "tick"
  BY <1>0 DEF TickTimer, FxTop
<1>3. f.at \in Nat \ {0}
  <2> HIDE DEF m
  <2>1. /\ Len(m.frames) \in Nat \ {0} /\ f = m.frames[Len(m.frames)] /\ f \in FrameType
    BY <1>0, <1>2, PopFields
  <2>2. f.at \in Nat
    BY <1>2, <2>1, FrameIs
  <2>3. FrameMade(m, f)
    BY <1>0, <2>1 DEF FramesOK, Depth
  <2> QED BY <1>2, <2>2, <2>3 DEF FrameMade
<1>4. NoTimer \in TimerType /\ Len(m.timers) \in Nat
  BY <1>0, StateFields, ItemOf DEF NoTimer, TimerType
<1>5. CASE f.timer # NoTimer
  <2> DEFINE n == Replaced(c, TickFrame(g, NoTimer))
  <2>1. FxGoto(n)
    BY <1>0, <1>5 DEF TickTimer, FxTop
  <2>2. g \in Nat \ {0}
    BY <1>3
  <2> HIDE DEF m, g
  <2>3. Keeps(m, c) /\ c.frames = m.frames
    BY <1>0, SplicedGood
  <2> HIDE DEF c
  <2>4. Sound(c)
    BY <2>3 DEF Keeps
  <2>5. Keeps(c, n)
    BY <1>2, <1>4, <2>2, <2>3, <2>4, TickReplaced
  <2> HIDE DEF n
  <2>6. Keeps(m, n)
    BY <2>3, <2>5, KeepsKeeps
  <2> QED BY <1>1, <2>1, <2>6, KeptStep DEF m
<1>6. CASE f.timer = NoTimer /\ f.at > Len(m.timers)
  <2> DEFINE b == (m.timers # <<>>)
             i == [m EXCEPT !.interval = b]
             n == Pop(i)
  <2>0. /\ ~(FxTop.timer # NoTimer) /\ FxTop.timer = NoTimer
        /\ FxTop.at > Len(fxTimers) /\ ~(FxTop.at <= Len(fxTimers))
    BY <1>0, <1>3, <1>4, <1>6 DEF FxTop
  <2>1. FxGoto(n)
    <3>1. FxGoto(Pop([FxNow EXCEPT !.interval = fxTimers # <<>>]))
      BY <2>0, Zenon DEF TickTimer
    <3> QED BY <1>0, <3>1
  <2>2. b \in BOOLEAN
    OBVIOUS
  <2> HIDE DEF m, b
  <2>3. Keeps(m, i)
    BY <1>0, <2>2, IntervalGood
  <2>4. i.frames = m.frames
    BY <1>0 DEF StateType
  <2> HIDE DEF i
  <2>5. Sound(i)
    BY <2>3 DEF Keeps
  <2>6. Keeps(i, n)
    BY <1>2, <2>4, <2>5, PopGood
  <2> HIDE DEF n
  <2>7. Keeps(m, n)
    BY <2>3, <2>6, KeepsKeeps
  <2> QED BY <1>1, <2>1, <2>7, KeptStep DEF m
<1>7. CASE f.timer = NoTimer /\ f.at <= Len(m.timers)
  <2>1. f.at \in Places(m)
    BY <1>3, <1>4, <1>7 DEF Places
  <2> DEFINE t == m.timers[f.at]
             s == [m EXCEPT !.timers[f.at].left = @ - 1]
             n1 == Finished(Replaced(m, TickFrame(f.at, t)), t)
             n2 == Replaced(s, TickFrame(f.at + 1, NoTimer))
  <2>2. FxGoto(IF t.left = 0 THEN n1 ELSE n2)
    <3>1. /\ ~(FxTop.timer # NoTimer) /\ FxTop.timer = NoTimer
          /\ FxTop.at <= Len(fxTimers) /\ ~(FxTop.at > Len(fxTimers))
      BY <1>0, <1>3, <1>4, <1>7 DEF FxTop
    <3>2. FxGoto(IF fxTimers[FxTop.at].left = 0
                 THEN Finished(Replaced(FxNow, TickFrame(FxTop.at, fxTimers[FxTop.at])),
                               fxTimers[FxTop.at])
                 ELSE Replaced([FxNow EXCEPT !.timers[FxTop.at].left = @ - 1],
                               TickFrame(FxTop.at + 1, NoTimer)))
      BY <3>1, Zenon DEF TickTimer
    <3> QED BY <1>0, <3>2 DEF FxTop
  <2> HIDE DEF m
  <2>3. CASE t.left = 0
    <3>1. Keeps(m, n1)
      BY <1>0, <1>2, <2>1, TickFinishes
    <3> HIDE DEF n1
    <3> QED BY <1>1, <2>2, <2>3, <3>1, KeptStep DEF m
  <2>4. CASE t.left # 0
    <3>1. Keeps(m, s) /\ s.frames = m.frames
      BY <1>0, <2>1, <2>4, TimerStepped
    <3> HIDE DEF s
    <3>2. Sound(s) /\ f.at + 1 \in Nat \ {0}
      BY <1>3, <3>1 DEF Keeps
    <3>3. Keeps(s, n2)
      BY <1>2, <1>4, <3>1, <3>2, TickReplaced
    <3> HIDE DEF n2, t
    <3>4. Keeps(m, n2)
      BY <3>1, <3>3, KeepsKeeps
    <3> QED BY <1>1, <2>2, <2>4, <3>4, KeptStep DEF m
  <2> QED BY <2>3, <2>4
<1> QED BY <1>3, <1>4, <1>5, <1>6, <1>7

LEMMA DelayEndsStep ==
  ASSUME EffectsInv, NEW i, DelayEnds(i)
  PROVE  EffectsInv'
<1> DEFINE m == FxNow
           n == Dequeue([m EXCEPT !.delays = @ \ {i}], m.items[i].on)
<1>0. Sound(m) /\ m.frames = <<>> /\ i \in m.delays /\ m.items = items
  BY FxFields DEF EffectsInv, DelayEnds
<1>1. FxGoto(n) /\ UNCHANGED <<fxScript, fxCalls, loose, spoiled>>
  BY <1>0 DEF DelayEnds
<1> HIDE DEF m
<1>2. Keeps(m, n)
  BY <1>0, DelayGood
<1> HIDE DEF n
<1> QED BY <1>1, <1>2, KeptStep DEF m

LEMMA DeferralEndsStep ==
  ASSUME EffectsInv, DeferralEnds
  PROVE  EffectsInv'
<1> DEFINE m == FxNow
           d == Head(m.deferrals)
           n == [m EXCEPT !.deferrals = Tail(@)]
           o == [n EXCEPT !.defer[d[1]] = 0]
<1>0. Sound(m) /\ m.deferrals # <<>> /\ m.deferrals = deferrals
  BY FxFields DEF EffectsInv, DeferralEnds
<1>1. FxGoto(n) \/ FxGoto(o)
  BY <1>0 DEF DeferralEnds
<1>2. UNCHANGED <<fxScript, fxCalls, loose, spoiled>>
  BY DEF DeferralEnds
<1> HIDE DEF m
<1>3. Keeps(m, n) /\ Keeps(m, o)
  BY <1>0, DeferralGood
<1> HIDE DEF n, o
<1> QED BY <1>1, <1>2, <1>3, KeptStep DEF m

LEMMA ThrowsStep ==
  ASSUME EffectsInv, FunctionThrows
  PROVE  EffectsInv'
BY GivenUpStep DEF FunctionThrows

\* A step of jQuery after which no more elements are in order.
LEMMA KeptAtMost ==
  ASSUME EffectsInv, NEW n, Keeps(FxNow, n), FxGoto(n),
         UNCHANGED <<fxScript, fxCalls, loose>>, spoiled => spoiled'
  PROVE  EffectsInv'
<1>1. /\ Sound(n) /\ Len(n.items) = Len(items)
      /\ \A x \in FxElements : Orderly(FxNow, x) => Orderly(n, x)
  BY FxFields DEF Keeps
<1>2. fxCalls' = Len(n.items)
  BY <1>1 DEF EffectsInv
<1>3. Regular' \subseteq Regular /\ Regular \subseteq FxElements
  BY DEF Regular
<1>4. \A x \in Regular' : Orderly(n, x)
  BY <1>1, <1>3 DEF EffectsInv
<1> QED BY <1>1, <1>2, <1>4, StepsTo

\* A stop that looks at a place behind the timers passes it.
LEMMA StopPassesNone ==
  ASSUME NEW m, Sound(m), m.frames # <<>>, Last(m.frames).op = "stop",
         Last(m.frames).at > Len(m.timers)
  PROVE  LET f == Last(m.frames)
             g == StopFrame(f.on, f.at - 1, f.gotoEnd, f.had, NoTimer)
         IN  Keeps(m, Replaced(m, g))
<1> DEFINE f == Last(m.frames)
           g == StopFrame(f.on, f.at - 1, f.gotoEnd, f.had, NoTimer)
<1>0. m \in StateType /\ Len(m.timers) \in Nat
  BY StateFields, ItemOf DEF Sound
<1>1. f \in FrameType
  BY <1>0, PopFields
<1>2. /\ f.on \in FxElements /\ f.gotoEnd \in BOOLEAN /\ f.had \in BOOLEAN /\ f.at \in Nat
      /\ f.at - 1 \in Nat
  <2>1. f.on \in FxElements /\ f.gotoEnd \in BOOLEAN /\ f.had \in BOOLEAN /\ f.at \in Nat
    BY <1>1, FrameIs
  <2> QED BY <1>0, <2>1
<1>3. NoTimer \in TimerType
  BY DEF NoTimer, TimerType
<1>4. /\ g \in FrameType /\ g.op = "stop" /\ g.on = f.on /\ g.gotoEnd = f.gotoEnd
      /\ g.had = f.had /\ g.at = f.at - 1 /\ g.timer = NoTimer
  BY <1>2, <1>3, FramesMake DEF StopFrame
<1> HIDE DEF g
<1>5. Retimed(m, m)
  BY <1>0, SameRetimed
<1>6. \A i : ToCome(m, i, g.at)
  BY <1>0, <1>2, <1>4 DEF ToCome, Places
<1>7. StopMoves(m, m, g)
  BY <1>4, <1>5, <1>6 DEF StopMoves
<1>8. Keeps(m, Replaced(m, g))
  BY <1>7, StopMoved
<1> QED BY <1>8 DEF g

\* A stop that has found a timer of its element.
WithHad(f) == [f EXCEPT !.had = TRUE]

LEMMA HadSet ==
  ASSUME NEW e, NEW at \in Int, NEW goto \in BOOLEAN, NEW h \in BOOLEAN
  PROVE  WithHad(StopFrame(e, at, goto, h, NoTimer)) = StopFrame(e, at, goto, TRUE, NoTimer)
<1> DEFINE f == StopFrame(e, at, goto, h, NoTimer)
           R == [op : {"stop"}, on : {e}, at : Int, gotoEnd : BOOLEAN, had : BOOLEAN,
                 timer : {NoTimer}]
           n == [f EXCEPT !.had = TRUE]
<1>1. f \in R /\ f.at = at /\ f.gotoEnd = goto
  BY DEF StopFrame
<1> HIDE DEF f
<1>2. /\ n \in R /\ n.had = TRUE /\ n.at = at /\ n.gotoEnd = goto
  BY <1>1
<1> HIDE DEF n
<1>3. n = [op |-> "stop", on |-> e, at |-> at, gotoEnd |-> goto, had |-> TRUE, timer |-> NoTimer]
  BY <1>2
<1> QED BY <1>3 DEF n, f, StopFrame, WithHad

LEMMA StopTimerStep ==
  ASSUME EffectsInv, StopTimer
  PROVE  EffectsInv'
<1> DEFINE m == FxNow
           f == Last(m.frames)
           g(h) == StopFrame(f.on, f.at - 1, f.gotoEnd, h, NoTimer)
           next == StopFrame(FxTop.on, FxTop.at - 1, FxTop.gotoEnd, FxTop.had, NoTimer)
           c == [m EXCEPT !.timers = RemoveAt(m.timers, f.at)]
           cut == [FxNow EXCEPT !.timers =
                     IF FxTop.at \in DOMAIN @ THEN RemoveAt(@, FxTop.at) ELSE @]
<1>0. /\ Sound(m) /\ m \in StateType /\ FramesOK(m) /\ m.frames = fxFrames
      /\ m.timers = fxTimers /\ m.items = items /\ f = FxTop
  BY FxFields DEF EffectsInv, Sound, FxTop
<1>1. UNCHANGED <<fxScript, fxCalls, loose>>
  BY DEF StopTimer
<1>2. m.frames # <<>> /\ f.op = "stop"
  BY <1>0 DEF StopTimer
<1>3. f.at \in Nat /\ f.had \in BOOLEAN /\ f.gotoEnd \in BOOLEAN /\ (f.timer # NoTimer => f.at # 0)
  <2> HIDE DEF m
  <2>1. Len(m.frames) \in Nat \ {0} /\ f = m.frames[Len(m.frames)] /\ f \in FrameType
    BY <1>0, <1>2, PopFields
  <2>2. f.at \in Nat /\ f.had \in BOOLEAN /\ f.gotoEnd \in BOOLEAN
    BY <1>2, <2>1, FrameIs
  <2>3. FrameMade(m, f)
    BY <1>0, <2>1 DEF FramesOK, Depth
  <2> QED BY <1>2, <2>2, <2>3 DEF FrameMade
<1>4. Len(m.timers) \in Nat /\ DOMAIN m.timers = Places(m)
  BY <1>0, StateFields, ItemOf DEF Places
<1>5. next = g(f.had) /\ [next EXCEPT !.had = TRUE] = g(TRUE)
  <2>1. FxTop.at - 1 \in Int /\ FxTop.had \in BOOLEAN /\ FxTop.gotoEnd \in BOOLEAN
    BY <1>0, <1>3
  <2>2. [next EXCEPT !.had = TRUE]
          = StopFrame(FxTop.on, FxTop.at - 1, FxTop.gotoEnd, TRUE, NoTimer)
    <3>1. WithHad(next) = StopFrame(FxTop.on, FxTop.at - 1, FxTop.gotoEnd, TRUE, NoTimer)
      BY <2>1, HadSet
    <3> HIDE DEF next
    <3> QED BY <3>1 DEF WithHad
  <2>3. f = FxTop
    BY <1>0
  <2> HIDE DEF f
  <2>4. next = g(f.had)
    BY <2>3
  <2>5. g(TRUE) = StopFrame(FxTop.on, FxTop.at - 1, FxTop.gotoEnd, TRUE, NoTimer)
    BY <2>3
  <2> QED BY <2>2, <2>4, <2>5, Zenon
<1>6. cut = IF f.at \in Places(m) THEN c ELSE m
  <2>1. ASSUME f.at \in Places(m) PROVE cut = c
    BY <1>0, <1>4, <2>1
  <2>2. ASSUME f.at \notin Places(m) PROVE cut = m
    <3>1. m = [m EXCEPT !.timers = m.timers]
      BY <1>0 DEF StateType
    <3> QED BY <1>0, <1>4, <2>2, <3>1
  <2> QED BY <2>1, <2>2
<1>7. CASE f.timer # NoTimer
  <2>1. /\ FxGoto(Replaced(cut, next))
        /\ spoiled' = (spoiled \/ ~(FxTop.at \in DOMAIN fxTimers /\ fxTimers[FxTop.at] = FxTop.timer))
    <3>1. FxTop.timer # NoTimer
      BY <1>0, <1>7
    <3> QED BY <3>1, <1>0, <1>3, <1>7 DEF StopTimer
  <2>2. spoiled => spoiled'
    BY <2>1
  <2> HIDE DEF m, cut, next
  <2>3. Keeps(m, Replaced(cut, next))
    <3>1. CASE f.at \in Places(m)
      <4>1. Keeps(m, Replaced(c, g(f.had)))
        BY <1>0, <1>2, <1>3, <3>1, StopPasses
      <4> QED BY <1>5, <1>6, <3>1, <4>1
    <3>2. CASE f.at \notin Places(m)
      <4>1. f.at > Len(m.timers)
        BY <1>3, <1>4, <1>7, <3>2 DEF Places
      <4>2. Keeps(m, Replaced(m, g(f.had)))
        BY <1>0, <1>2, <4>1, StopPassesNone
      <4> QED BY <1>5, <1>6, <3>2, <4>2
    <3> QED BY <3>1, <3>2
  <2> DEFINE n == Replaced(cut, next)
  <2> HIDE DEF n
  <2> QED BY <1>1, <2>1, <2>2, <2>3, KeptAtMost DEF n, m
<1>8. CASE f.timer = NoTimer /\ f.at = 0
  <2> DEFINE n == IF StopDequeues(f) THEN Dequeue(Pop(m), f.on) ELSE Pop(m)
  <2>1. FxGoto(n) /\ UNCHANGED spoiled
    <3>1. /\ FxTop.timer = NoTimer /\ FxTop.at = 0 /\ ~(FxTop.timer # NoTimer)
          /\ ~(FxTop.at > Len(fxTimers)) /\ ~(FxTop.at \in 1..Len(fxTimers))
      BY <1>0, <1>4, <1>8
    <3>2. /\ FxGoto(IF StopDequeues(FxTop) THEN Dequeue(Pop(FxNow), FxTop.on) ELSE Pop(FxNow))
          /\ UNCHANGED spoiled
      BY <3>1, Zenon DEF StopTimer
    <3> QED BY <1>0, <3>2
  <2> HIDE DEF m
  <2>2. Keeps(m, n)
    BY <1>0, <1>2, <1>8, StopEnds
  <2> HIDE DEF n
  <2> QED BY <1>1, <2>1, <2>2, KeptAtMost DEF m
<1>9. CASE f.timer = NoTimer /\ f.at > Len(m.timers)
  <2>1. GivenUp
    <3>1. /\ FxTop.timer = NoTimer /\ FxTop.at > Len(fxTimers) /\ ~(FxTop.timer # NoTimer)
          /\ ~(FxTop.at = 0) /\ ~(FxTop.at \in 1..Len(fxTimers))
      BY <1>0, <1>3, <1>4, <1>9
    <3> QED BY <3>1, Zenon DEF StopTimer
  <2>2. fxFrames # <<>>
    BY DEF StopTimer
  <2> QED BY <1>1, <2>1, <2>2, GivenUpStep
<1>10. CASE f.timer = NoTimer /\ f.at \in Places(m)
  <2> DEFINE t == m.timers[f.at]
             last == [f EXCEPT !.had = TRUE, !.timer = t]
             fin == Finished(Replaced(m, last), t)
  <2> DEFINE on == items[fxTimers[FxTop.at].item].on
             finished == Finished(Replaced(FxNow, [FxTop EXCEPT !.had = TRUE,
                                                                !.timer = fxTimers[FxTop.at]]),
                                  fxTimers[FxTop.at])
  <2>0. /\ FxGoto(CASE on # FxTop.on -> Replaced(FxNow, next)
                   [] on = FxTop.on /\ ~FxTop.gotoEnd ->
                        Replaced(cut, [next EXCEPT !.had = TRUE])
                   [] OTHER -> finished)
        /\ UNCHANGED spoiled
    <3>1. /\ FxTop.timer = NoTimer /\ FxTop.at \in 1..Len(fxTimers) /\ ~(FxTop.timer # NoTimer)
          /\ ~(FxTop.at = 0) /\ ~(FxTop.at > Len(fxTimers))
      BY <1>0, <1>3, <1>4, <1>10 DEF Places
    <3> QED BY <3>1, Zenon DEF StopTimer
  <2>1. UNCHANGED spoiled
    BY <2>0
  <2>2. /\ m.items[t.item].on # f.on => FxGoto(Replaced(m, g(f.had)))
        /\ m.items[t.item].on = f.on /\ ~f.gotoEnd => FxGoto(Replaced(c, g(TRUE)))
        /\ m.items[t.item].on = f.on /\ f.gotoEnd => FxGoto(fin)
    <3>1. on = m.items[t.item].on /\ finished = fin
      BY <1>0
    <3>2. cut = c
      BY <1>6, <1>10
    <3>3. FxTop.on = f.on /\ FxTop.gotoEnd = f.gotoEnd
      BY <1>0
    <3> HIDE DEF m, on, finished, fin, cut, next, c, g
    <3> DEFINE n1 == Replaced(FxNow, next)
               n2 == Replaced(cut, [next EXCEPT !.had = TRUE])
    <3>4. n1 = Replaced(m, g(f.had)) /\ n2 = Replaced(c, g(TRUE))
      BY <1>5, <3>2 DEF m
    <3>5. FxGoto(CASE on # FxTop.on -> n1 [] on = FxTop.on /\ ~FxTop.gotoEnd -> n2
                 [] OTHER -> finished)
      BY <2>0
    <3> HIDE DEF n1, n2
    <3> QED BY <3>1, <3>3, <3>4, <3>5
  <2> HIDE DEF m
  <2>3. CASE m.items[t.item].on # f.on
    <3> DEFINE n == Replaced(m, g(f.had))
    <3>1. Keeps(m, n)
      BY <1>0, <1>2, <1>3, <1>10, <2>3, StopPasses
    <3> HIDE DEF n
    <3> QED BY <1>1, <2>1, <2>2, <2>3, <3>1, KeptAtMost DEF n, m
  <2>4. CASE m.items[t.item].on = f.on /\ ~f.gotoEnd
    <3> DEFINE n == Replaced(c, g(TRUE))
    <3>1. Keeps(m, n)
      BY <1>0, <1>2, <1>3, <1>10, StopPasses
    <3> HIDE DEF n
    <3> QED BY <1>1, <2>1, <2>2, <2>4, <3>1, KeptAtMost DEF n, m
  <2>5. CASE m.items[t.item].on = f.on /\ f.gotoEnd
    <3>1. Keeps(m, fin)
      BY <1>0, <1>2, <1>10, <2>5, StopFinishes
    <3> HIDE DEF fin
    <3> QED BY <1>1, <2>1, <2>2, <2>5, <3>1, KeptAtMost DEF m
  <2> QED BY <2>3, <2>4, <2>5
<1>11. f.at = 0 \/ f.at > Len(m.timers) \/ f.at \in Places(m)
  BY <1>3, <1>4 DEF Places
<1> QED BY <1>7, <1>8, <1>9, <1>10, <1>11

LEMMA ScriptStep ==
  ASSUME EffectsInv, EffectsAssumption, Script
  PROVE  EffectsInv'
<1>0. Durations \subseteq Nat /\ Properties \subseteq Nat
  BY DEF EffectsAssumption
<1>1. CASE \E e \in fxScript.on, d \in Durations :
             AnimateNow(e, d) \/ \E n \in Properties : AnimateQueued(e, d, n)
  <2>1. PICK e \in fxScript.on, d \in Durations :
          AnimateNow(e, d) \/ \E n \in Properties : AnimateQueued(e, d, n)
    BY <1>1
  <2>2. d \in Nat
    BY <1>0
  <2>3. CASE AnimateNow(e, d)
    BY <2>2, <2>3, AnimateNowStep
  <2>4. CASE \E n \in Properties : AnimateQueued(e, d, n)
    <3>1. PICK n \in Properties : AnimateQueued(e, d, n)
      BY <2>4
    <3>2. n \in Nat /\ "animation" \in Queueable /\ Enqueue(e, "animation", d, n)
      BY <1>0, <3>1 DEF AnimateQueued, Queueable
    <3> QED BY <2>2, <3>2, EnqueueStep
  <2> QED BY <2>1, <2>3, <2>4
<1>2. CASE \E e \in fxScript.on : QueueFunction(e) \/ Delay(e) \/ ClearQueue(e)
  <2>1. PICK e \in fxScript.on : QueueFunction(e) \/ Delay(e) \/ ClearQueue(e)
    BY <1>2
  <2>2. 0 \in Nat /\ 1 \in Nat /\ "function" \in Queueable /\ "delay" \in Queueable
    BY DEF Queueable
  <2>3. CASE QueueFunction(e)
    BY <2>2, <2>3, EnqueueStep DEF QueueFunction
  <2>4. CASE Delay(e)
    BY <2>2, <2>4, EnqueueStep DEF Delay
  <2>5. CASE ClearQueue(e)
    BY <2>5, ClearQueueStep
  <2> QED BY <2>1, <2>3, <2>4, <2>5
<1>3. CASE \E e \in fxScript.on, clearQueue, gotoEnd \in BOOLEAN :
             StopEffects(e, clearQueue, gotoEnd)
  BY <1>3, StopEffectsStep
<1>4. CASE \E es \in SUBSET fxScript.on \ {{}} : Promise(es)
  BY <1>4, PromiseStep
<1> QED BY <1>1, <1>2, <1>3, <1>4 DEF Script

\* Nothing has begun.
LEMMA NothingBegun ==
  ASSUME NEW m \in StateType, Len(m.items) = 0, Len(m.timers) = 0, Len(m.frames) = 0,
         Len(m.arrays) = 0, m.delays = {}, \A e \in FxElements : m.queue[e] = 0 /\ m.defer[e] = 0
  PROVE  Sound(m) /\ \A e \in FxElements : Orderly(m, e)
<1>1. ItemIds(m) = {} /\ Depth(m) = {} /\ Places(m) = {} /\ 1..Len(m.arrays) = {}
  BY DEF ItemIds, Depth, Places
<1>2. ItemsOK(m)
  BY <1>1 DEF ItemsOK
<1>3. QueuesOK(m)
  BY <1>1 DEF QueuesOK
<1>4. FramesOK(m)
  BY <1>1 DEF FramesOK
<1>5. ASSUME NEW e \in FxElements PROVE Orderly(m, e)
  <2>1. Begins(m, e) = {} /\ Beside(m, e) = {} /\ StopsOf(m, e) = {}
    BY <1>1 DEF Begins, Beside, StopsOf
  <2>2. Cardinality(Beside(m, e)) <= m.marks[e]
    BY <2>1, FS_EmptySet, StateFields
  <2> QED BY <1>1, <2>1, <2>2
      DEF Orderly, OneBegun, Unqueued, EmptyOnes, DelayRuns, StartsQueued, Marked
<1> QED BY <1>2, <1>3, <1>4, <1>5 DEF Sound

LEMMA EffectsInitial ==
  ASSUME EffectsInit
  PROVE  EffectsInv
<1> DEFINE m == FxNow
<1>0. /\ arrays \in Seq(Seq(Nat)) /\ items \in Seq(ItemType) /\ fxTimers \in Seq(TimerType)
      /\ deferrals \in Seq(FxElements \X Nat) /\ fxFrames \in Seq(FrameType)
  <2>1. \A S : <<>> \in Seq(S)
    OBVIOUS
  <2> QED BY <2>1 DEF EffectsInit
<1>1. m \in StateType
  <2>1. /\ queue \in [FxElements -> Nat] /\ run \in [FxElements -> Nat]
        /\ marks \in [FxElements -> Nat] /\ defer \in [FxElements -> Nat]
        /\ interval \in BOOLEAN /\ delays \in SUBSET Nat
    BY DEF EffectsInit
  <2> QED BY <1>0, <2>1 DEF FxNow, StateType
<1>2. /\ m.items = items /\ m.timers = fxTimers /\ m.frames = fxFrames /\ m.arrays = arrays
      /\ m.delays = delays /\ m.queue = queue /\ m.defer = defer
  BY FxFields
<1> HIDE DEF m
<1>3. /\ Len(m.items) = 0 /\ Len(m.timers) = 0 /\ Len(m.frames) = 0 /\ Len(m.arrays) = 0
      /\ m.delays = {} /\ \A e \in FxElements : m.queue[e] = 0 /\ m.defer[e] = 0
  BY <1>2 DEF EffectsInit
<1>4. Sound(m) /\ \A e \in FxElements : Orderly(m, e)
  BY <1>1, <1>3, NothingBegun
<1>5. Regular \subseteq FxElements /\ fxScript \in Scripts /\ fxCalls = Len(items)
  BY DEF Regular, EffectsInit
<1> QED BY <1>4, <1>5 DEF EffectsInv, m

LEMMA EffectsKept ==
  ASSUME EffectsInv, EffectsAssumption, [EffectsNext]_effectVars
  PROVE  EffectsInv'
<1>1. CASE UNCHANGED effectVars
  <2>1. FxNow' = FxNow /\ Regular' = Regular
    BY <1>1 DEF effectVars, store, FxNow, Regular
  <2>2. UNCHANGED <<fxScript, fxCalls, items>>
    BY <1>1 DEF effectVars, store
  <2> QED BY <2>1, <2>2 DEF EffectsInv
<1>2. CASE Script
  BY <1>2, ScriptStep
<1>3. CASE EffectsRun
  BY <1>3, ReturnsStep, CompletesStep, DequeueEndsStep, StartPropertyStep, TickTimerStep,
     StopTimerStep, DeferralEndsStep, NextStep, DelayEndsStep DEF EffectsRun
<1>4. CASE Tick
  BY <1>4, TickStep
<1>5. CASE FunctionThrows
  BY <1>5, ThrowsStep
<1> QED BY <1>1, <1>2, <1>3, <1>4, <1>5 DEF EffectsNext

\* The invariant of queues and effects: what lies on the stack, and of each element whose queue
\* the page took in order what has begun, what stops it and what is marked (see EffectsInv).
THEOREM EffectsInvariant ==
  ASSUME EffectsAssumption
  PROVE  EffectsSpec => []EffectsInv
<1>1. EffectsInit => EffectsInv
  BY EffectsInitial
<1>2. EffectsInv /\ [EffectsNext]_effectVars => EffectsInv'
  BY EffectsKept
<1> QED BY <1>1, <1>2, PTL DEF EffectsSpec

LEMMA InProgressBegan ==
  ASSUME EffectsInv, NEW e
  PROVE  InProgress(e) \subseteq Begins(FxNow, e)
<1> DEFINE m == FxNow
<1>0. /\ m \in StateType /\ m.items = items /\ m.timers = fxTimers /\ m.delays = delays
  BY FxFields DEF EffectsInv, Sound
<1>1. DOMAIN items = ItemIds(m) /\ DOMAIN fxTimers = Places(m)
  BY <1>0, StateFields, ItemOf DEF ItemIds, Places
<1> HIDE DEF m
<1>2. ASSUME NEW i \in InProgress(e) PROVE i \in Begins(m, e)
  <2>1. i \in ItemIds(m) /\ m.items[i].on = e
    BY <1>0, <1>1 DEF InProgress
  <2>2. Lives(m, i)
    BY <1>0, <1>1 DEF InProgress, Lives, Moving, HasTimer
  <2> QED BY <2>1, <2>2 DEF Begins
<1> QED BY <1>2 DEF m

LEMMA InvInTurn == EffectsInv => EffectsInTurn
<1> SUFFICES ASSUME EffectsInv PROVE EffectsInTurn
  OBVIOUS
<1> DEFINE m == FxNow
<1>0. /\ Sound(m) /\ m \in StateType /\ ItemsOK(m) /\ m.items = items /\ m.timers = fxTimers
      /\ m.delays = delays /\ m.frames = fxFrames /\ m.queue = queue /\ m.marks = marks
      /\ \A e \in Regular : Orderly(m, e)
  BY FxFields DEF EffectsInv, Sound
<1>1. /\ DOMAIN items = ItemIds(m) /\ DOMAIN fxTimers = Places(m)
      /\ DOMAIN fxFrames = Depth(m)
  BY <1>0, StateFields, ItemOf DEF ItemIds, Places, Depth
<1>2. \A e : InProgress(e) \subseteq Begins(m, e)
  BY InProgressBegan
<1> HIDE DEF m
<1>3. CompleteOnce
  BY <1>0, <1>1 DEF CompleteOnce, ItemsOK
<1>4. OneAtATime
  <2> SUFFICES ASSUME NEW e \in FxElements \ loose, ~spoiled
               PROVE  Cardinality(InProgress(e)) <= 1
    BY DEF OneAtATime
  <2>1. Orderly(m, e)
    BY <1>0 DEF Regular
  <2>2. \A i, j \in InProgress(e) : i = j
    BY <1>2, <2>1 DEF Orderly, OneBegun
  <2>3. CASE InProgress(e) = {}
    BY <2>3, FS_EmptySet
  <2>4. CASE InProgress(e) # {}
    <3>1. PICK i \in InProgress(e) : InProgress(e) = {i}
      BY <2>2, <2>4
    <3>2. Cardinality({i}) = 1
      BY FS_Singleton
    <3> QED BY <3>1, <3>2
  <2> QED BY <2>3, <2>4
<1>5. RestIsQuiet
  <2> SUFFICES ASSUME NEW e \in FxElements \ loose, queue[e] = 0, marks[e] = 0, ~spoiled,
                      fxFrames = <<>>
               PROVE  /\ InProgress(e) = {}
                      /\ \A k \in DOMAIN fxTimers :
                           items[fxTimers[k].item].on = e =>
                             fxTimers[k].property \notin items[fxTimers[k].item].todo
    BY DEF RestIsQuiet
  <2>1. Orderly(m, e)
    BY <1>0 DEF Regular
  <2>2. StopsOf(m, e) = {}
    BY <1>0, <1>1 DEF StopsOf
  <2>3. Begins(m, e) = {}
    BY <1>0, <2>1, <2>2 DEF Orderly, Unqueued
  <2>4. Beside(m, e) = {}
    <3>1. Cardinality(Beside(m, e)) <= 0
      BY <1>0, <2>1, <2>2 DEF Orderly, Marked
    <3>2. IsFiniteSet(Beside(m, e)) /\ Cardinality(Beside(m, e)) \in Nat
      BY <1>0, BesideFinite
    <3> QED BY <3>1, <3>2, FS_EmptySet
  <2>5. ASSUME NEW k \in DOMAIN fxTimers, items[fxTimers[k].item].on = e,
               fxTimers[k].property \in items[fxTimers[k].item].todo
        PROVE  FALSE
    <3> DEFINE i == fxTimers[k].item
    <3>1. i \in ItemIds(m) /\ m.items[i].kind \in Animated
      BY <1>0, <1>1 DEF ItemsOK
    <3>2. m.items[i].complete
      BY <1>0, <2>5, <3>1 DEF ItemsOK
    <3>3. Moving(m, i)
      BY <1>0, <1>1, <3>2 DEF Moving, HasTimer
    <3>4. i \in Begins(m, e) \/ i \in Beside(m, e)
      BY <1>0, <2>5, <3>1, <3>3 DEF Begins, Beside, Lives, Animated
    <3> QED BY <2>3, <2>4, <3>4
  <2> QED BY <1>2, <2>3, <2>5
<1> QED BY <1>3, <1>4, <1>5 DEF EffectsInTurn

LEMMA InvTyped == EffectsInv => EffectsTypeOK
<1> SUFFICES ASSUME EffectsInv PROVE EffectsTypeOK
  OBVIOUS
<1> DEFINE m == FxNow
<1>0. /\ m \in StateType /\ ItemsOK(m) /\ QueuesOK(m) /\ m.items = items /\ m.timers = fxTimers
      /\ m.delays = delays /\ m.queue = queue /\ m.marks = marks /\ m.defer = defer
      /\ m.arrays = arrays /\ m.interval = interval /\ fxCalls = Len(items)
  BY FxFields DEF EffectsInv, Sound
<1> HIDE DEF m
<1>1. /\ m.arrays \in Seq(Seq(Nat)) /\ m.marks \in [FxElements -> Nat]
      /\ m.queue \in [FxElements -> Nat] /\ interval \in BOOLEAN
      /\ Len(m.items) \in Nat /\ m.timers \in Seq(TimerType)
      /\ DOMAIN m.arrays = 1..Len(m.arrays) /\ DOMAIN fxTimers = Places(m)
      /\ Len(m.arrays) \in Nat
  BY <1>0, StateFields, ItemOf DEF Places
<1>2. ASSUME NEW e \in FxElements
      PROVE  queue[e] \in 0..Len(arrays) /\ marks[e] \in Nat /\ defer[e] \in 0..fxCalls
  BY <1>0, <1>1 DEF QueuesOK, ItemsOK
<1>3. ASSUME NEW i \in DOMAIN arrays PROVE arrays[i] \in Seq(0..fxCalls)
  <2> DEFINE s == m.arrays[i]
  <2>1. s \in Seq(Nat) /\ ArrayOK(m, s)
    BY <1>0, <1>1 DEF QueuesOK
  <2> HIDE DEF s
  <2>2. Len(s) \in Nat
    BY <2>1
  <2>3. ASSUME NEW j \in 1..Len(s) PROVE s[j] \in 0..fxCalls
    <3>1. s # <<>>
      BY <2>2, EmptySeq, <2>1
    <3>2. CASE j = 1
      BY <1>0, <1>1, <2>1, <3>1, <3>2 DEF ArrayOK
    <3>3. CASE j # 1
      <4>1. j \in 2..Len(s)
        BY <2>2, <3>3
      <4> QED BY <1>0, <1>1, <2>1, <3>1, <4>1 DEF ArrayOK, ItemIds
    <3> QED BY <3>2, <3>3
  <2>4. s \in Seq(0..fxCalls)
    <3>1. s = [j \in 1..Len(s) |-> s[j]]
      BY <2>1
    <3>2. s \in [1..Len(s) -> 0..fxCalls]
      BY <2>3, <3>1
    <3> QED BY <2>2, <3>2, SeqDef
  <2> QED BY <1>0, <2>4 DEF s
<1>4. ASSUME NEW i \in DOMAIN fxTimers
      PROVE  fxTimers[i].item \in 1..fxCalls /\ fxTimers[i].left \in Nat
  <2>1. fxTimers[i] \in TimerType
    BY <1>0, <1>1, ItemOf
  <2>2. fxTimers[i].item \in 1..fxCalls
    BY <1>0, <1>1 DEF ItemsOK, ItemIds
  <2> QED BY <2>1, <2>2 DEF TimerType
<1>5. delays \subseteq 1..fxCalls
  BY <1>0 DEF ItemsOK, ItemIds
<1> QED BY <1>0, <1>1, <1>2, <1>3, <1>4, <1>5 DEF EffectsTypeOK

\* What is queued, runs, waits and is marked is well typed, whatever the page calls, from
\* callbacks too, and whichever of its functions throw.
THEOREM EffectsTypeCorrect ==
  ASSUME EffectsAssumption
  PROVE  EffectsSpec => []EffectsTypeOK
BY EffectsInvariant, InvTyped, PTL

\* For any elements, durations, numbers of properties and scripts: the items of a queue that
\* the page uses in order run one after the other, complete is called at most once (also
\* when a stop to the end, a tick and the callbacks they call come to the same animation),
\* and an element that looks at rest to a promise has nothing that still runs.
THEOREM EffectsInTurnHolds ==
  ASSUME EffectsAssumption
  PROVE  EffectsSpec => []EffectsInTurn
BY EffectsInvariant, InvInTurn, PTL
=============================================================================
