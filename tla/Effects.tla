------------------------------ MODULE Effects ------------------------------
(***************************************************************************)
(* Queues and animations of jQuery 1.7: queue, dequeue, delay, animate,    *)
(* stop, promise and the timers that step the animations.  One interval    *)
(* ticks for all animations; complete callbacks, queued functions and done *)
(* callbacks are page code, which queues, stops and clears before it       *)
(* returns, or throws.  What has begun and not ended is a stack of frames, *)
(* the last one runs.  Time is counted in ticks; styles are left out.      *)
(***************************************************************************)
EXTENDS Integers, FiniteSets, SequencesExt

CONSTANTS
  FxElements,  \* elements that are animated
  Durations,   \* of the animations, in ticks; 0 also for one that has nothing to do
  Properties,  \* numbers of properties that animations have
  Scripts,     \* what a page does: [calls: kinds of calls, on: elements, max: how many]
  EffectCalls  \* calls of the longest script

VARIABLES
  arrays,      \* the arrays that were made for queues: sequences of items
  queue,       \* the array of each element's queue, 0 for none
  run,         \* the delay whose hook is in the fx.run of the element, 0 for none
  items,       \* what the page has animated or queued, by the call that did
  fxTimers,    \* jQuery.timers: [item, property, left]
  interval,    \* the interval of tick is set
  delays,      \* timeouts of delays
  marks,       \* fxmark of each element
  defer,       \* the deferral of each element that promises wait for, 0 for none
  deferrals,   \* timeouts of handleQueueMarkDefer, the oldest first: <<element, deferral>>
  promises,    \* deferrals that each promise waits for, by the call that made it
  fxFrames,    \* what has begun: see below
  fxScript,    \* the script of this page
  fxCalls,     \* calls it has made
  loose,       \* history: elements whose queue the page took out of order
  robbed,      \* history: deferrals that the timeout of an older one removed
  spoiled      \* history: an exception passed, or stop hit a timer it did not mean

store == <<arrays, queue, run, items, fxTimers, interval, delays, marks, defer, deferrals>>
effectVars == <<store, promises, fxFrames, fxScript, fxCalls, loose, robbed, spoiled>>

\* The state that the functions of jQuery pass on.
FxNow ==
  [arrays |-> arrays, queue |-> queue, run |-> run, items |-> items, timers |-> fxTimers,
   interval |-> interval, delays |-> delays, marks |-> marks, defer |-> defer,
   deferrals |-> deferrals, frames |-> fxFrames]

FxGoto(m) ==
  /\ arrays' = m.arrays /\ queue' = m.queue /\ run' = m.run /\ items' = m.items
  /\ fxTimers' = m.timers /\ interval' = m.interval /\ delays' = m.delays /\ marks' = m.marks
  /\ defer' = m.defer /\ deferrals' = m.deferrals /\ fxFrames' = m.frames

EffectsInit ==
  /\ arrays = <<>> /\ queue = [e \in FxElements |-> 0] /\ run = [e \in FxElements |-> 0]
  /\ items = <<>> /\ fxTimers = <<>> /\ interval = FALSE /\ delays = {}
  /\ marks = [e \in FxElements |-> 0] /\ defer = [e \in FxElements |-> 0] /\ deferrals = <<>>
  /\ promises = <<>> /\ fxFrames = <<>> /\ fxScript \in Scripts /\ fxCalls = 0
  /\ loose = {} /\ robbed = {} /\ spoiled = FALSE

EffectsAssumption ==
  /\ \A s \in Scripts : s.on \subseteq FxElements
  /\ Durations \subseteq Nat /\ Properties \subseteq Nat \ {0}

\* An item: an animation of the fx queue or of none, a function of the page, or a delay.
\* todo: properties that have not ended; complete: its callback is still to be called;
\* called: how often it was; for a function 1 when it has run and 2 when it has called next.
NoItem == [kind |-> "none", on |-> CHOOSE e \in FxElements : TRUE, duration |-> 0, todo |-> {},
           complete |-> FALSE, called |-> 0]
NewItem(kind, e, duration, properties) ==
  [kind |-> kind, on |-> e, duration |-> duration, todo |-> 1..properties, complete |-> TRUE,
   called |-> 0]
Sentinel == 0       \* "inprogress"

EffectsTypeOK ==
  /\ \A e \in FxElements :
       queue[e] \in 0..Len(arrays) /\ marks[e] \in Nat /\ defer[e] \in 0..fxCalls
  /\ \A i \in DOMAIN arrays : arrays[i] \in Seq(0..fxCalls)
  /\ \A i \in DOMAIN fxTimers : fxTimers[i].item \in 1..fxCalls /\ fxTimers[i].left \in Nat
  /\ Len(items) = fxCalls /\ delays \subseteq 1..fxCalls /\ interval \in BOOLEAN
-----------------------------------------------------------------------------
Push(m, f) == [m EXCEPT !.frames = Append(@, f)]
Pop(m)     == [m EXCEPT !.frames = Front(@)]
Replaced(m, f) == Push(Pop(m), f)

\* Page code that was called for an item: a complete callback or a queued function.
PageFrame(i) == [op |-> "page", item |-> i]
\* What jQuery does when what it called has returned.
CompleteFrame(i) == [op |-> "complete", item |-> i]
DequeueFrame(e, array) == [op |-> "dequeue", on |-> e, array |-> array]
StartFrame(i, left) == [op |-> "start", item |-> i, left |-> left]
TickFrame(at, timer) == [op |-> "tick", at |-> at, timer |-> timer]
StopFrame(e, at, gotoEnd, had, timer) ==
  [op |-> "stop", on |-> e, at |-> at, gotoEnd |-> gotoEnd, had |-> had, timer |-> timer]

NoTimer == [item |-> 0, property |-> 0, left |-> 0]

\* handleQueueMarkDefer, which looks again after a timeout.
QueueMarkDefer(m, e, src) ==
  IF m.defer[e] # 0 /\ (src = "queue" \/ m.queue[e] = 0) /\ (src = "mark" \/ m.marks[e] = 0)
  THEN [m EXCEPT !.deferrals = Append(@, <<e, m.defer[e]>>)] ELSE m

\* Mutant: the mark that is not there is taken off too.
UnmarkedBlindly(m, e, force) ==
  IF force \/ m.marks[e] = 1 THEN QueueMarkDefer([m EXCEPT !.marks[e] = 0], e, "mark")
                             ELSE [m EXCEPT !.marks[e] = @ - 1]

\* Mutant: the first animation that ends takes the marks of the others with it.
UnmarkedAll(m, e, force) == QueueMarkDefer([m EXCEPT !.marks[e] = 0], e, "mark")

Unmarked(m, e, force) ==
  IF force \/ m.marks[e] <= 1 THEN QueueMarkDefer([m EXCEPT !.marks[e] = 0], e, "mark")
                              ELSE [m EXCEPT !.marks[e] = @ - 1]

\* Mutant: promises do not hear of it.
EmptiedSilently(m, e) == [m EXCEPT !.queue[e] = 0, !.run[e] = 0]

\* The data of an empty queue is removed, with the hook of what it ran.
EmptiedQueue(m, e) == QueueMarkDefer([m EXCEPT !.queue[e] = 0, !.run[e] = 0], e, "queue")

\* The first item of a queue runs.
BegunItem(m, i) ==
  LET e == m.items[i].on
  IN  CASE m.items[i].kind = "animation" -> Push(m, StartFrame(i, m.items[i].todo))
        [] m.items[i].kind = "function"  -> Push([m EXCEPT !.items[i].called = 1], PageFrame(i))
        [] m.items[i].kind = "delay"     -> [m EXCEPT !.delays = @ \cup {i}, !.run[e] = i]

\* dequeue: the sentinel goes in front of the items that wait for the first one.
Dequeue(m, e) ==
  LET array == m.queue[e]
      all   == IF array = 0 THEN <<>> ELSE m.arrays[array]
      rest  == IF all # <<>> /\ Head(all) = Sentinel THEN Tail(all) ELSE all
  IN  IF rest # <<>>
      THEN BegunItem(Push([m EXCEPT !.arrays[array] = <<Sentinel>> \o Tail(rest), !.run[e] = 0],
                      DequeueFrame(e, array)), Head(rest))
      ELSE EmptiedQueue(IF array = 0 THEN m ELSE [m EXCEPT !.arrays[array] = <<>>], e)

\* queue: nothing waits when nothing is in progress.
Queued(m, e, i) ==
  LET new == IF m.queue[e] = 0
             THEN [m EXCEPT !.arrays = Append(@, <<i>>), !.queue[e] = Len(m.arrays) + 1]
             ELSE [m EXCEPT !.arrays[m.queue[e]] = Append(@, i)]
  IN  IF Head(new.arrays[new.queue[e]]) = Sentinel THEN new ELSE Dequeue(new, e)

\* Mutant: the complete function stays.
FinishedLate(m, timer) ==
  LET i    == timer.item
      left == m.items[i].todo \ {timer.property}
      done == [m EXCEPT !.items[i].todo = left]
  IN  IF left # {} \/ ~m.items[i].complete THEN done
      ELSE Push(Push([done EXCEPT !.items[i].called = @ + 1], CompleteFrame(i)), PageFrame(i))

\* A finished property; with the last one the complete function is called, once.
Finished(m, timer) ==
  LET i    == timer.item
      left == m.items[i].todo \ {timer.property}
      done == [m EXCEPT !.items[i].todo = left]
  IN  IF left # {} \/ ~m.items[i].complete THEN done
      ELSE Push(Push([done EXCEPT !.items[i].complete = FALSE, !.items[i].called = @ + 1],
                     CompleteFrame(i)), PageFrame(i))
-----------------------------------------------------------------------------
FxTop == Last(fxFrames)

\* Page code runs: a script, or what jQuery has called.
FunctionRuns == fxFrames # <<>> => FxTop.op = "page"

\* A callback or a stop of e has not returned.
Inside(e) == \E i \in DOMAIN fxFrames :
  \/ fxFrames[i].op = "stop" /\ fxFrames[i].on = e
  \/ fxFrames[i].op \in {"page", "complete"} /\ items[fxFrames[i].item].on = e

\* The queue of e ran empty or was cleared, and a dequeue of it is still to return or to come.
Emptying(e) == \E i \in DOMAIN fxFrames :
  \/ fxFrames[i].op = "dequeue" /\ fxFrames[i].on = e /\ arrays[fxFrames[i].array] = <<>>
  \/ fxFrames[i].op = "complete" /\ items[fxFrames[i].item].on = e /\ queue[e] = 0

\* Items of the queue of e that have begun and not ended.
InProgress(e) ==
  {i \in DOMAIN items : items[i].on = e /\
     \/ /\ items[i].kind = "animation" /\ items[i].complete
        /\ \E k \in DOMAIN fxTimers : fxTimers[k].item = i
     \/ items[i].kind = "function" /\ items[i].called = 1
     \/ i \in delays}

FxCall(kind) ==
  /\ FunctionRuns /\ kind \in fxScript.calls /\ fxCalls < fxScript.max
  /\ fxCalls' = fxCalls + 1 /\ UNCHANGED fxScript

WithItem(item) == [FxNow EXCEPT !.items = Append(@, item)]

Enqueue(e, kind, duration, properties) ==
  /\ FxCall(kind)
  /\ FxGoto(Queued(WithItem(NewItem(kind, e, duration, properties)), e, fxCalls + 1))
  /\ loose' = IF Emptying(e) THEN loose \cup {e} ELSE loose
  /\ UNCHANGED <<promises, robbed, spoiled>>

\* animate with at least one property, and all that calls it, in the fx queue.
AnimateQueued(e, duration, properties) == Enqueue(e, "animation", duration, properties)

\* queue of a function; delay.
QueueFunction(e) == Enqueue(e, "function", 0, 1)
Delay(e)         == Enqueue(e, "delay", 1, 1)

\* animate with queue: false starts at once and marks the element.
AnimateNow(e, duration) ==
  LET m == WithItem(NewItem("unqueued", e, duration, 1))
  IN  /\ FxCall("unqueued")
      /\ FxGoto(Push([m EXCEPT !.marks[e] = @ + 1], StartFrame(fxCalls + 1, {1})))
      /\ UNCHANGED <<promises, loose, robbed, spoiled>>

\* A queued function calls next, before it returns or later.
Next_(i) ==
  /\ FunctionRuns /\ i \in DOMAIN items /\ items[i].kind = "function" /\ items[i].called = 1
  /\ FxGoto(Dequeue([FxNow EXCEPT !.items[i].called = 2], items[i].on))
  /\ UNCHANGED <<promises, fxScript, fxCalls, loose, robbed, spoiled>>

\* clearQueue: the queue is an empty array, which is dequeued.
ClearQueue(e) ==
  /\ FxCall("clearQueue") /\ FxGoto(EmptiedQueue(WithItem(NoItem), e))
  /\ loose' = IF Inside(e) \/ InProgress(e) # {} THEN loose \cup {e} ELSE loose
  /\ UNCHANGED <<promises, robbed, spoiled>>

\* stop: the queue is cleared, the marks are, the hook of a delay stops it, and then the
\* timers of the element are looked for from the last one on.
StopEffects(e, clearQueue, gotoEnd) ==
  LET cleared  == IF clearQueue THEN EmptiedQueue(WithItem(NoItem), e) ELSE WithItem(NoItem)
      unmarked == IF gotoEnd THEN cleared ELSE Unmarked(cleared, e, TRUE)
      unhooked == [unmarked EXCEPT !.delays = @ \ {unmarked.run[e]}, !.run[e] = 0]
  IN  /\ FxCall("stop")
      /\ FxGoto(Push(unhooked, StopFrame(e, Len(fxTimers), gotoEnd, FALSE, NoTimer)))
      /\ loose' = IF \/ Inside(e)
                     \/ (clearQueue \/ gotoEnd) /\ InProgress(e) \cap delays # {}
                     \/ \E i \in InProgress(e) : items[i].kind = "function"
                  THEN loose \cup {e} ELSE loose
      /\ UNCHANGED <<promises, robbed, spoiled>>

\* promise: a deferral for each element that has a queue or a mark.
Promise(es) ==
  LET busy    == {e \in es : defer[e] # 0 \/ queue[e] # 0 \/ marks[e] # 0}
      held(e) == IF e \in busy /\ defer[e] = 0 THEN fxCalls + 1 ELSE defer[e]
  IN  /\ FxCall("promise")
      /\ FxGoto([WithItem(NoItem) EXCEPT
                   !.defer = [e \in FxElements |-> IF e \in es THEN held(e) ELSE @[e]]])
      /\ promises' = Append(promises, [on |-> es, waits |-> {<<e, held(e)>> : e \in busy}])
      /\ UNCHANGED <<loose, robbed, spoiled>>
-----------------------------------------------------------------------------
\* The page's code returns to jQuery.
FunctionReturns ==
  /\ fxFrames # <<>> /\ FxTop.op = "page" /\ FxGoto(Pop(FxNow))
  /\ UNCHANGED <<promises, fxScript, fxCalls, loose, robbed, spoiled>>

\* After an exception what has begun is given up, up to the page code that catches it.
GivenUp ==
  /\ spoiled' = TRUE
  /\ \E n \in 0..(Len(fxFrames) - 1) :
       (n > 0 => fxFrames[n].op = "page") /\ FxGoto([FxNow EXCEPT !.frames = SubSeq(@, 1, n)])

FunctionThrows ==
  /\ fxFrames # <<>> /\ FxTop.op = "page" /\ GivenUp
  /\ UNCHANGED <<promises, fxScript, fxCalls, loose, robbed>>

\* The rest of the complete function.
Completes ==
  /\ fxFrames # <<>> /\ FxTop.op = "complete"
  /\ LET e == items[FxTop.item].on
     IN  FxGoto(IF items[FxTop.item].kind = "unqueued" THEN Unmarked(Pop(FxNow), e, FALSE)
                ELSE Dequeue(Pop(FxNow), e))
  /\ UNCHANGED <<promises, fxScript, fxCalls, loose, robbed, spoiled>>

\* The rest of dequeue, which looks at the array it took the item from.
DequeueEnds ==
  /\ fxFrames # <<>> /\ FxTop.op = "dequeue"
  /\ FxGoto(IF arrays[FxTop.array] = <<>> THEN EmptiedQueue(Pop(FxNow), FxTop.on)
            ELSE Pop(FxNow))
  /\ UNCHANGED <<promises, fxScript, fxCalls, loose, robbed, spoiled>>

Ticks == \E i \in DOMAIN fxFrames : fxFrames[i].op = "tick"

\* doAnimation: the next property gets a timer, or ends at once; the interval is set.
StartProperty ==
  /\ fxFrames # <<>> /\ FxTop.op = "start"
  /\ IF FxTop.left = {} THEN FxGoto(Pop(FxNow))
     ELSE LET p     == CHOOSE p \in FxTop.left : \A q \in FxTop.left : p <= q
              d     == items[FxTop.item].duration
              timer == [item |-> FxTop.item, property |-> p,
                        left |-> IF Ticks THEN d ELSE d - 1]
              next  == Replaced(FxNow, StartFrame(FxTop.item, FxTop.left \ {p}))
          IN  FxGoto(IF d = 0 THEN Finished(next, timer)
                     ELSE [next EXCEPT !.timers = Append(@, timer), !.interval = TRUE])
  /\ UNCHANGED <<promises, fxScript, fxCalls, loose, robbed, spoiled>>

\* Mutant: tick takes the timer away that is now in the place of the one it called.
SplicedBlindly(ts, at, timer) == IF at \in DOMAIN ts THEN RemoveAt(ts, at) ELSE ts

\* A timer that ended is taken away, if it is still in its place.
Spliced(ts, at, timer) == IF at \in DOMAIN ts /\ ts[at] = timer THEN RemoveAt(ts, at) ELSE ts

Tick ==
  /\ fxFrames = <<>> /\ interval /\ FxGoto(Push(FxNow, TickFrame(1, NoTimer)))
  /\ UNCHANGED <<promises, fxScript, fxCalls, loose, robbed, spoiled>>

\* tick: the next timer is called; one that has ended is taken away when it returns.
TickTimer ==
  /\ fxFrames # <<>> /\ FxTop.op = "tick"
  /\ LET at   == FxTop.at
         rest == Spliced(fxTimers, at, FxTop.timer)
     IN  CASE FxTop.timer # NoTimer ->
                FxGoto(Replaced([FxNow EXCEPT !.timers = rest],
                                TickFrame(IF Len(rest) < Len(fxTimers) THEN at ELSE at + 1,
                                          NoTimer)))
           [] FxTop.timer = NoTimer /\ at > Len(fxTimers) ->
                FxGoto(Pop([FxNow EXCEPT !.interval = fxTimers # <<>>]))
           [] FxTop.timer = NoTimer /\ at <= Len(fxTimers) ->
                FxGoto(IF fxTimers[at].left = 0
                       THEN Finished(Replaced(FxNow, TickFrame(at, fxTimers[at])), fxTimers[at])
                       ELSE Replaced([FxNow EXCEPT !.timers[at].left = @ - 1],
                                     TickFrame(at + 1, NoTimer)))
  /\ UNCHANGED <<promises, fxScript, fxCalls, loose, robbed, spoiled>>

\* Mutant: a stop that went to the end dequeues too.
StopDone(f) == TRUE

\* Timers that were made to end have dequeued already.
StopDequeues(f) == ~(f.gotoEnd /\ f.had)

\* stop: the next timer of the element is called for the last time, or only taken away;
\* the place that is spliced when it returns is the place it had.
StopTimer ==
  /\ fxFrames # <<>> /\ FxTop.op = "stop"
  /\ UNCHANGED <<promises, fxScript, fxCalls, loose, robbed>>
  /\ LET at   == FxTop.at
         next == StopFrame(FxTop.on, at - 1, FxTop.gotoEnd, FxTop.had, NoTimer)
         cut  == [FxNow EXCEPT !.timers = IF at \in DOMAIN @ THEN RemoveAt(@, at) ELSE @]
     IN  CASE FxTop.timer # NoTimer ->
                /\ FxGoto(Replaced(cut, next))
                /\ spoiled' = (spoiled \/ ~(at \in DOMAIN fxTimers /\ fxTimers[at] = FxTop.timer))
           [] FxTop.timer = NoTimer /\ at = 0 ->
                /\ FxGoto(IF StopDequeues(FxTop) THEN Dequeue(Pop(FxNow), FxTop.on)
                          ELSE Pop(FxNow))
                /\ UNCHANGED spoiled
           [] FxTop.timer = NoTimer /\ at > Len(fxTimers) ->   \* undefined has no elem
                GivenUp
           [] FxTop.timer = NoTimer /\ at \in 1..Len(fxTimers) ->
                /\ FxGoto(CASE items[fxTimers[at].item].on # FxTop.on -> Replaced(FxNow, next)
                          [] items[fxTimers[at].item].on = FxTop.on /\ ~FxTop.gotoEnd ->
                               Replaced(cut, [next EXCEPT !.had = TRUE])
                          [] OTHER ->
                               Finished(Replaced(FxNow, [FxTop EXCEPT !.had = TRUE,
                                                                      !.timer = fxTimers[at]]),
                                        fxTimers[at]))
                /\ UNCHANGED spoiled

\* The timeout of a delay calls next.
DelayEnds(i) ==
  /\ fxFrames = <<>> /\ i \in delays
  /\ FxGoto(Dequeue([FxNow EXCEPT !.delays = @ \ {i}], items[i].on))
  /\ UNCHANGED <<promises, fxScript, fxCalls, loose, robbed, spoiled>>

\* The timeout of a deferral: if the element is still at rest its deferral is forgotten,
\* and the one that the timeout was set for is resolved.
DeferralEnds ==
  /\ fxFrames = <<>> /\ deferrals # <<>>
  /\ LET d == Head(deferrals)
         m == [FxNow EXCEPT !.deferrals = Tail(@)]
     IN  IF queue[d[1]] = 0 /\ marks[d[1]] = 0
         THEN /\ FxGoto([m EXCEPT !.defer[d[1]] = 0])
              /\ promises' = [i \in DOMAIN promises |-> [promises[i] EXCEPT !.waits = @ \ {d}]]
              /\ robbed' = robbed \cup ({<<d[1], defer[d[1]]>>} \ {d, <<d[1], 0>>})
         ELSE FxGoto(m) /\ UNCHANGED <<promises, robbed>>
  /\ UNCHANGED <<fxScript, fxCalls, loose, spoiled>>

Script ==
  \/ \E e \in fxScript.on, d \in Durations :
       AnimateNow(e, d) \/ \E n \in Properties : AnimateQueued(e, d, n)
  \/ \E e \in fxScript.on : QueueFunction(e) \/ Delay(e) \/ ClearQueue(e)
  \/ \E e \in fxScript.on, clearQueue, gotoEnd \in BOOLEAN : StopEffects(e, clearQueue, gotoEnd)
  \/ \E es \in SUBSET fxScript.on \ {{}} : Promise(es)

EffectsRun ==
  \/ FunctionReturns \/ Completes \/ DequeueEnds \/ StartProperty \/ TickTimer \/ StopTimer
  \/ DeferralEnds \/ \E i \in 1..EffectCalls : Next_(i) \/ DelayEnds(i)

EffectsNext == Script \/ EffectsRun \/ Tick \/ FunctionThrows

\* What has begun goes on: page code returns, queued functions call next, timeouts end, and
\* the interval ticks.
EffectsSpec ==
  EffectsInit /\ [][EffectsNext]_effectVars /\ WF_effectVars(EffectsRun) /\ WF_effectVars(Tick)
-----------------------------------------------------------------------------
\* The complete function of an animation is called at most once, also if it throws or if
\* it stops the animation to its end, be it from a tick or from another stop (#5684).
CompleteOnce ==
  \A i \in DOMAIN items : items[i].kind # "function" => items[i].called <= 1

\* The items of a queue run one after the other, unless the page stopped or cleared the
\* queue out of turn, whatever is queued, stopped and completed from callbacks.
OneAtATime ==
  \A e \in FxElements \ loose : ~spoiled => Cardinality(InProgress(e)) <= 1

\* An element that looks at rest to a promise, without a queue and without a mark, has no
\* timer that still has something to do and no delay.  A timer that has ended may be left:
\* when the complete function that a tick calls stops what is in front of it, it has moved,
\* is not taken away and is called once more.
RestIsQuiet ==
  \A e \in FxElements \ loose :
    queue[e] = 0 /\ marks[e] = 0 /\ ~spoiled /\ fxFrames = <<>> =>
      /\ InProgress(e) = {}
      /\ \A k \in DOMAIN fxTimers :
           LET i == fxTimers[k].item
           IN  items[i].on = e => fxTimers[k].property \notin items[i].todo

\* However animations are stopped and functions of the page come in between: the items of a
\* queue run one after the other, complete is called at most once, and an element that looks
\* at rest to a promise has nothing that still runs.
EffectsInTurn == CompleteOnce /\ OneAtATime /\ RestIsQuiet

\* Every queue runs empty in the end.
QueuesDrain ==
  \A e \in FxElements : queue[e] # 0 ~> (queue[e] = 0 \/ spoiled \/ e \in loose)

\* Every promise is resolved in the end, whatever was stopped, cleared or queued meanwhile.
PromisesResolve ==
  \A i \in 1..EffectCalls : i \in DOMAIN promises ~>
    /\ i \in DOMAIN promises
    /\ promises[i].waits \subseteq robbed \/ spoiled \/ promises[i].on \cap loose # {}
=============================================================================
