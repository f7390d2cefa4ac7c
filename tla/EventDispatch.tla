--------------------------- MODULE EventDispatch ---------------------------
(***************************************************************************)
(* Events of jQuery 1.7: the handlers that a page binds to elements, the   *)
(* listeners that jQuery attaches to the browser for them, and what runs   *)
(* when the browser sends an event or the page triggers one.  Everything   *)
(* runs on one stack, but handlers and on-attributes are page code: they   *)
(* bind, unbind, remove elements and trigger events before they return, or *)
(* they throw.  The browser is external; selectors and namespaces are      *)
(* names, data and the fields of an event object are left out.             *)
(***************************************************************************)
EXTENDS Integers, FiniteSets, SequencesExt

CONSTANTS
  Targets, EventTypes,         \* elements and the types of their events
  Fns, Selectors, Namespaces,  \* of handlers
  Path,        \* Path[e]: e, its parent, ... up to the document
  Bindable,    \* what a call binds: sequences of [id, at, type, fn, sel, ns, one]
  Removable,   \* what it unbinds: [at, type, fn, sel, ns], each field Every or not
  Triggerable, \* <<element, type, ns>> it triggers, or the user's action sends
  Matches,     \* <<selector, element>>
  Inline,      \* <<element, type>> with an on-attribute
  Sends,       \* Sends[<<e, t>>]: events the browser sends when the method t of e is called
  NoName, Every, \* no selector, namespace or type; a criterion that is not given
  EventCalls   \* calls of the page and events of the user

VARIABLES
  lists,       \* events of each element: the handlers of each type, delegates in front
  delegates,   \* their delegateCount
  listens,     \* <<element, type>> whose handle the browser calls
  attaches,    \* elements that want focusin, focusout: the document captures focus, blur for them
  cleaned,     \* elements that the page has removed
  triggered,   \* jQuery.event.triggered
  muted,       \* <<element, type>> whose on-attribute is set to null
  stack,       \* events that are being sent or triggered
  eventCalls,  \* calls made
  spent,       \* history: bindings of one that have run, each with its element and type
  reset        \* history: a default action has ended inside one that goes on

bindings  == <<lists, delegates, listens, attaches, cleaned>>
eventVars == <<bindings, triggered, muted, stack, eventCalls, spent, reset>>

DelegateType(t) ==
  CASE t = "focus" -> "focusin" [] t = "blur" -> "focusout" [] OTHER -> t
NoBubble == {"focus", "blur"}
Captured == {"focusin", "focusout"}   \* the browser sends focus and blur, which do not bubble
Special  == {"ready", "beforeunload", "mouseenter", "mouseleave"}
EventKeys == Targets \X EventTypes

\* A binding, as jQuery keeps it; id is the call that made it.
HandleObj ==
  [id : Nat, at : Targets, type : EventTypes, fn : Fns, sel : Selectors \cup {NoName},
   ns : Namespaces \cup {NoName}, one : BOOLEAN]

\* The path of an element starts with it; a page that has focus has focusin, and focusout
\* with blur.  The types that jQuery binds in ways of their own are not among these.
EventsAssumption ==
  /\ IsFiniteSet(Targets) /\ IsFiniteSet(EventTypes) /\ NoName \notin EventTypes
  /\ \A t \in EventTypes : t \notin Special /\ DelegateType(t) \in EventTypes
  /\ Path \in [Targets -> Seq(Targets)]
  /\ \A e \in Targets : Path[e] # <<>> /\ Path[e][1] = e
  /\ Bindable \subseteq Seq(HandleObj)
  /\ \A c \in Removable : c.at \in Targets /\ c.type \in EventTypes \cup {Every}
  /\ \A k \in Triggerable : k[1] \in Targets /\ k[2] \in EventTypes
  /\ Inline \subseteq EventKeys /\ Sends \in [EventKeys -> Seq(EventKeys)]
  /\ EventCalls \in Nat

EventsInit ==
  /\ lists = [k \in EventKeys |-> <<>>] /\ delegates = [k \in EventKeys |-> 0]
  /\ listens = {} /\ attaches = [t \in Captured |-> 0] /\ cleaned = {} /\ triggered = NoName /\ muted = {}
  /\ stack = <<>> /\ eventCalls = 0 /\ spent = {} /\ reset = FALSE

EventsTypeOK ==
  /\ \A k \in EventKeys : \A i \in DOMAIN lists[k] : lists[k][i].id \in 1..eventCalls
  /\ delegates \in [EventKeys -> Nat] /\ listens \subseteq EventKeys /\ attaches \in [Captured -> Nat]
  /\ cleaned \subseteq Targets /\ muted \subseteq Inline
  /\ triggered \in EventTypes \cup {NoName}
  /\ eventCalls \in 0..EventCalls
-----------------------------------------------------------------------------
\* The lists and the listeners together.
AllBound ==
  [lists |-> lists, delegates |-> delegates, listens |-> listens, attaches |-> attaches]
BoundAs(m) ==
  /\ lists' = m.lists /\ delegates' = m.delegates
  /\ listens' = m.listens /\ attaches' = m.attaches

\* Mutant: the capturing handler is attached but not counted.
SetupUncounted(m, k) == IF k[2] \in Captured THEN m ELSE [m EXCEPT !.listens = @ \cup {k}]

\* The first handler of a list attaches the handle of the element, or for focusin and
\* focusout the one handler of the document for each.
Setup(m, k) ==
  IF k[2] \in Captured THEN [m EXCEPT !.attaches[k[2]] = @ + 1]
  ELSE [m EXCEPT !.listens = @ \cup {k}]

\* The last handlers of these have gone.
Teardown(m, ks) ==
  [m EXCEPT !.listens = @ \ ks,
            !.attaches = [t \in Captured |-> @[t] - Cardinality({k \in ks : k[2] = t})]]

KeyOf(b) == <<b.at, IF b.sel \in {NoName, Every} THEN b.type ELSE DelegateType(b.type)>>

\* Mutant: a delegate goes behind the handlers of the element.
AddLast(m, b) ==
  LET k   == KeyOf(b)
      new == IF m.lists[k] = <<>> THEN Setup(m, k) ELSE m
  IN  IF b.sel = NoName THEN [new EXCEPT !.lists[k] = Append(@, b)]
      ELSE [new EXCEPT !.lists[k] = Append(@, b), !.delegates[k] = @ + 1]

\* Delegates in front.
AddHandler(m, b) ==
  LET k   == KeyOf(b)
      new == IF m.lists[k] = <<>> THEN Setup(m, k) ELSE m
  IN  IF b.sel = NoName THEN [new EXCEPT !.lists[k] = Append(@, b)]
      ELSE [new EXCEPT !.lists[k] = InsertAt(@, m.delegates[k] + 1, b), !.delegates[k] = @ + 1]

MeantBy(c, b) ==
  /\ c.fn \in {Every, b.fn} /\ c.ns \in {Every, b.ns}
  /\ c.sel \in {Every, NoName, b.sel} \/ (c.sel = "**" /\ b.sel # NoName)

\* The loop of remove: of the first handlers of a list those that are not meant, and what
\* is left of delegateCount.
Staying(list, count, c) ==
  LET left[i \in 0..Len(list)] ==
        IF i = 0 THEN [list |-> <<>>, count |-> count]
        ELSE IF ~MeantBy(c, list[i]) THEN [left[i - 1] EXCEPT !.list = Append(@, list[i])]
        ELSE IF list[i].sel # NoName THEN [left[i - 1] EXCEPT !.count = @ - 1]
        ELSE left[i - 1]
  IN  left

Left(m, k, c) == Staying(m.lists[k], m.delegates[k], c)[Len(m.lists[k])]

TakenOff(m, ks, c) ==
  [m EXCEPT !.lists = [k \in EventKeys |-> IF k \in ks THEN Left(m, k, c).list ELSE @[k]],
            !.delegates = [k \in EventKeys |-> IF k \in ks THEN Left(m, k, c).count ELSE @[k]]]

\* Mutant: the listener stays when the last handler goes.
RemoveUnder(m, ks, c) == TakenOff(m, ks, c)

\* The handlers of these lists that are meant; an emptied list is deleted.
RemoveFrom(m, ks, c) ==
  LET less == TakenOff(m, ks, c)
  IN  Teardown(less, {k \in ks : m.lists[k] # <<>> /\ less.lists[k] = <<>>})

\* Without a type, every type that the element has handlers for.
RemoveHandlers(m, c) ==
  RemoveFrom(m, IF c.type = Every THEN {c.at} \X EventTypes ELSE {KeyOf(c)}, c)

Everything(e) == [at |-> e, type |-> Every, fn |-> Every, sel |-> Every, ns |-> Every]
-----------------------------------------------------------------------------
Current == Last(stack)

\* Page code runs: no event, or a handler or an on-attribute that an event has called.
PageCodeRuns == stack # <<>> => Current.in # "jQuery"
Calls    == PageCodeRuns /\ eventCalls < EventCalls /\ eventCalls' = eventCalls + 1

\* One after the other.
AddedBy(m, bs, id) ==
  LET added[i \in 0..Len(bs)] ==
        IF i = 0 THEN m ELSE AddHandler(added[i - 1], [bs[i] EXCEPT !.id = id])
  IN  added

\* on, one, bind, live and delegate, for one type or several; page code binds the same
\* thing again only after it has unbound it.
Bind(bs) ==
  /\ Calls
  /\ \A b \in ToSet(bs) : b.at \notin cleaned
       /\ \A i \in DOMAIN lists[KeyOf(b)] : [lists[KeyOf(b)][i] EXCEPT !.id = 0] # b
  /\ BoundAs(AddedBy(AllBound, bs, eventCalls + 1)[Len(bs)])
  /\ UNCHANGED <<cleaned, triggered, muted, stack, spent, reset>>

\* off, unbind, die and undelegate.
Unbind(c) ==
  /\ Calls /\ c.at \notin cleaned /\ BoundAs(RemoveHandlers(AllBound, c))
  /\ UNCHANGED <<cleaned, triggered, muted, stack, spent, reset>>

\* remove: an element leaves the document with its handlers.
RemoveElement(e) ==
  /\ Calls /\ e \notin cleaned /\ Len(Path[e]) > 1
  /\ cleaned' = cleaned \cup {e} /\ BoundAs(RemoveHandlers(AllBound, Everything(e)))
  /\ UNCHANGED <<triggered, muted, stack, spent, reset>>
-----------------------------------------------------------------------------
\* An event on its way.  trigger: by jQuery, or by the browser; at: the step it takes at
\* the first element of its path; queue: handlers that the dispatch there has still to
\* run; in: what runs, jQuery, a handler of the page or an on-attribute; sends: events of
\* its default action to come; stopped: the place in its path of the handler that stopped
\* it, 0 for none.
Event(trigger, e, t, ns, action) ==
  [trigger |-> trigger, target |-> e, type |-> t, ns |-> ns, action |-> action,
   path |-> IF t \in NoBubble THEN <<e>> ELSE Path[e], at |-> "capture",
   queue |-> <<>>, in |-> "jQuery", on |-> e, stopped |-> 0, prevented |-> ~action,
   sends |-> <<>>, old |-> FALSE]

PutEvent(f)  == stack' = [stack EXCEPT ![Len(stack)] = f]
PushEvent(f) == stack' = Append(stack, f)

\* The user or the browser sends an event, if nothing runs.
Native(e, t) ==
  /\ stack = <<>> /\ Calls /\ e \notin cleaned /\ t \notin Captured
  /\ PushEvent(Event(FALSE, e, t, NoName, TRUE))
  /\ UNCHANGED <<bindings, triggered, muted, spent, reset>>

\* trigger, and triggerHandler, which neither bubbles nor has a default action.
Trigger(e, t, ns, onlyHandlers) ==
  /\ Calls /\ e \notin cleaned
  /\ LET f == Event(TRUE, e, t, ns, ~onlyHandlers)
     IN  PushEvent(IF onlyHandlers THEN [f EXCEPT !.path = <<e>>] ELSE f)
  /\ UNCHANGED <<bindings, triggered, muted, spent, reset>>

\* A focus of the browser is first made a focusin that bubbles, a blur a focusout.
Capture ==
  /\ stack # <<>> /\ Current.in = "jQuery" /\ Current.at = "capture"
  /\ LET f == [Current EXCEPT !.at = "handle"]
         t == DelegateType(Current.type)
     IN  IF ~Current.trigger /\ Current.type \in NoBubble /\ attaches[t] > 0
         THEN stack' = Append([stack EXCEPT ![Len(stack)] = f],
                              Event(TRUE, Current.target, t, NoName, TRUE))
         ELSE PutEvent(f)
  /\ UNCHANGED <<bindings, triggered, muted, eventCalls, spent, reset>>

PlaceIn(e, x) == CHOOSE i \in DOMAIN Path[e] : Path[e][i] = x

\* The elements below cur on the way from the target.
Below(e, cur) == SubSeq(Path[e], 1, PlaceIn(e, cur) - 1)

Entries(list, e) == [i \in DOMAIN list |-> [on |-> e, b |-> list[i]]]

\* What is at these places of a sequence, in its order.
Those(s, places) == FlattenSeq([i \in DOMAIN s |-> IF i \in places THEN <<s[i]>> ELSE <<>>])

\* The handlers that a dispatch finds: the delegates of the deepest element first, then
\* the handlers of the element itself.
HandlerQueue(k, e) ==
  LET list      == lists[k]
      below     == Below(e, k[1])
      Hits(cur) == {i \in 1..delegates[k] : <<list[i].sel, cur>> \in Matches}
  IN  FlattenSeq([i \in DOMAIN below |-> Entries(Those(list, Hits(below[i])), below[i])])
        \o Entries(SubSeq(list, delegates[k] + 1, Len(list)), k[1])

\* Those that run under the namespace of the event; an exclusive one, "!", is for those
\* without a namespace.
Selected(queue, ns) ==
  Those(queue, {i \in DOMAIN queue : ns \in {NoName, queue[i].b.ns} \/
                                     (ns = "!" /\ queue[i].b.ns = NoName)})

\* Mutant: a handle does not look at triggered.
AlwaysHandles(k) == TRUE

\* Discard the second event of a trigger.
Handles(k) == triggered # k[2]

\* The handle of the next element of the path.
Handle ==
  /\ stack # <<>> /\ Current.in = "jQuery" /\ Current.at = "handle"
  /\ Current.queue = <<>> /\ Current.path # <<>>
  /\ LET k == <<Head(Current.path), Current.type>>
         runs == (IF Current.trigger THEN lists[k] # <<>> ELSE k \in listens) /\ Handles(k)
         found == Selected(HandlerQueue(k, Current.target), Current.ns)
     IN  PutEvent([Current EXCEPT !.at = "inline", !.on = k[1],
                                  !.queue = IF runs THEN found ELSE <<>>])
  /\ UNCHANGED <<bindings, triggered, muted, eventCalls, spent, reset>>

\* Mutant: off takes every selector for one that was not given, as die does.
SpentAsDie(b) == [fn |-> b.fn, sel |-> IF b.sel = NoName THEN "**" ELSE b.sel,
                  ns |-> IF b.ns = NoName THEN Every ELSE b.ns]

\* What off removes when it is called with an event.
SpentBy(b) == [fn |-> b.fn, sel |-> b.sel, ns |-> IF b.ns = NoName THEN Every ELSE b.ns]

\* A handler of the queue is called; one that was bound with one is unbound before, and
\* the function with it wherever it is bound to this element under the same selector, or
\* under any if it has none.
RunHandler ==
  /\ stack # <<>> /\ Current.in = "jQuery" /\ Current.queue # <<>>
  /\ LET q == Head(Current.queue)
         k == <<Head(Current.path), Current.type>>
     IN  /\ PutEvent([Current EXCEPT !.in = "handler", !.on = q.on, !.queue = Tail(@)])
         /\ IF q.b.one THEN /\ BoundAs(RemoveFrom(AllBound, {k}, SpentBy(q.b)))
                            /\ spent' = spent \cup {<<q.b, k>>}
                       ELSE UNCHANGED <<lists, delegates, listens, attaches, spent>>
  /\ UNCHANGED <<cleaned, triggered, muted, eventCalls, reset>>

\* The on-attribute of the element, after its handle; then the next element, unless the
\* event was stopped.
InlineHandler ==
  /\ stack # <<>> /\ Current.in = "jQuery" /\ Current.at = "inline" /\ Current.queue = <<>>
  /\ LET k == <<Head(Current.path), Current.type>>
     IN  PutEvent([Current EXCEPT !.at = "handle", !.on = k[1],
                                  !.path = IF Current.stopped # 0 THEN <<>> ELSE Tail(@),
                                  !.in = IF k \in Inline \ muted THEN "inline" ELSE "jQuery"])
  /\ UNCHANGED <<bindings, triggered, muted, eventCalls, spent, reset>>

PlaceOf(f) == PlaceIn(f.target, f.on)

\* Mutant: a handler that stops the event stops only the elements after this one.
QueueWhole(f, stops, now) == IF now THEN <<>> ELSE f.queue

\* The handlers of the queue that still run after one has returned.
QueueLeft(f, stops, now) ==
  CASE now            -> <<>>
    [] stops /\ ~now  -> Those(f.queue, {i \in DOMAIN f.queue : f.queue[i].on = f.on})
    [] OTHER          -> f.queue

\* preventDefault, stopPropagation and stopImmediatePropagation; false is the first two.
Return(prevents, stops, now) ==
  /\ stack # <<>> /\ Current.in = "handler" /\ (now => stops)
  /\ PutEvent([Current EXCEPT !.in = "jQuery", !.prevented = @ \/ prevents,
                              !.stopped = IF stops /\ @ = 0 THEN PlaceOf(Current) ELSE @,
                              !.queue = QueueLeft(Current, stops \/ Current.stopped # 0, now)])
  /\ UNCHANGED <<bindings, triggered, muted, eventCalls, spent, reset>>

\* What an on-attribute returns counts for the browser; jQuery does not look at it.
ReturnInline(false, stops) ==
  /\ stack # <<>> /\ Current.in = "inline"
  /\ PutEvent([Current EXCEPT !.in = "jQuery", !.prevented = @ \/ (false /\ ~Current.trigger),
                              !.stopped = IF stops /\ @ = 0 THEN PlaceOf(Current) ELSE @,
                              !.path = IF stops THEN <<>> ELSE @])
  /\ UNCHANGED <<bindings, triggered, muted, eventCalls, spent, reset>>

\* An exception ends the dispatch of the browser's listener that it leaves; a trigger
\* passes it on to the page code that called it, which may catch it.
HandlerThrows ==
  /\ stack # <<>> /\ Current.in # "jQuery"
  /\ IF Current.trigger THEN stack' = Front(stack)
                    ELSE PutEvent([Current EXCEPT !.in = "jQuery", !.queue = <<>>])
  /\ UNCHANGED <<bindings, triggered, muted, eventCalls, spent, reset>>

Arrived == stack # <<>> /\ Current.in = "jQuery" /\ Current.at = "handle" /\ Current.path = <<>>

Acting(f) == f.at = "action"

\* The default action of a trigger calls the method of the target, if it has one, with
\* triggered set and without its on-attribute, unless a handler prevented it.
DefaultAction ==
  /\ Arrived /\ Current.trigger /\ ~Current.prevented
  /\ Sends[<<Current.target, Current.type>>] # <<>>
  /\ LET k == <<Current.target, Current.type>>
         sent == IF Current.target \in cleaned THEN <<>> ELSE Sends[k]
     IN  /\ PutEvent([Current EXCEPT !.at = "action", !.old = k \in Inline \ muted,
                                     !.sends = sent])
         /\ muted' = muted \cup ({k} \cap Inline)
  /\ triggered' = Current.type
  /\ UNCHANGED <<bindings, eventCalls, spent, reset>>

\* The browser sends the events of the method one after the other.
ActionSends ==
  /\ stack # <<>> /\ Acting(Current) /\ Current.sends # <<>>
  /\ LET s == Head(Current.sends)
     IN  stack' = Append([stack EXCEPT ![Len(stack)].sends = Tail(@)],
                         Event(FALSE, s[1], s[2], NoName, TRUE))
  /\ UNCHANGED <<bindings, triggered, muted, eventCalls, spent, reset>>

\* The method has returned.
ActionDone ==
  /\ stack # <<>> /\ Acting(Current) /\ Current.sends = <<>>
  /\ stack' = Front(stack) /\ triggered' = NoName
  /\ muted' = IF Current.old THEN muted \ {<<Current.target, Current.type>>} ELSE muted
  /\ reset' = \E i \in 1..(Len(stack) - 1) : Acting(stack[i])
  /\ UNCHANGED <<bindings, eventCalls, spent>>

\* Nothing is left to do; a focusin that was prevented prevents the focus it was made
\* from, and so does a focusout the blur.
EventEnds ==
  /\ Arrived
  /\ ~Current.trigger \/ Current.prevented \/ Sends[<<Current.target, Current.type>>] = <<>>
  /\ stack' = LET rest == Front(stack)
              IN  IF /\ Current.trigger /\ Current.prevented
                     /\ rest # <<>> /\ Last(rest).in = "jQuery"
                  THEN [rest EXCEPT ![Len(rest)].prevented = TRUE] ELSE rest
  /\ UNCHANGED <<bindings, triggered, muted, eventCalls, spent, reset>>

EventsNext ==
  \/ \E bs \in Bindable : Bind(bs)
  \/ \E c \in Removable : Unbind(c)
  \/ \E e \in Targets : RemoveElement(e)
  \/ \E k \in Triggerable : Native(k[1], k[2])
  \/ \E k \in Triggerable, only \in BOOLEAN : Trigger(k[1], k[2], k[3], only)
  \/ Capture \/ Handle \/ RunHandler \/ InlineHandler \/ HandlerThrows
  \/ \E prevents, stops, now \in BOOLEAN : Return(prevents, stops, now)
  \/ \E false, stops \in BOOLEAN : ReturnInline(false, stops)
  \/ DefaultAction \/ ActionSends \/ ActionDone \/ EventEnds

EventsSpec == EventsInit /\ [][EventsNext]_eventVars
-----------------------------------------------------------------------------
\* However handlers bind, unbind and remove elements while events run, the browser calls
\* jQuery for exactly the elements and types that have handlers, and the document
\* captures focus, or blur, exactly while some element has a handler for focusin, or focusout.
ListensIffHandled ==
  /\ \A k \in EventKeys : k[2] \notin Captured => (k \in listens <=> lists[k] # <<>>)
  /\ \A t \in Captured :
       attaches[t] = Cardinality({k \in EventKeys : k[2] = t /\ lists[k] # <<>>})

\* The delegates of a list are the ones in front, as many as delegateCount says: a dispatch
\* takes them for delegates and the rest for handlers of the element.
DelegatesInFront ==
  \A k \in EventKeys : \A i \in DOMAIN lists[k] : i <= delegates[k] <=> lists[k][i].sel # NoName

\* A handler bound with one is unbound when it runs, delegated or not, under focusin too:
\* no event that comes to the element afterwards finds it, one that the handler itself
\* triggers included.
OneIsSpent == \A k \in EventKeys : \A i \in DOMAIN lists[k] : <<lists[k][i], k>> \notin spent

\* Handlers of an element above the one whose handler stopped the event do not run, were
\* they delegated or bound there.
StopsAbove ==
  stack # <<>> /\ Current.in = "handler" /\ Current.stopped # 0 =>
    PlaceOf(Current) <= Current.stopped

\* The event that the browser sends in the default action of a trigger does not run the
\* handlers of the target and of the elements above it again, unless the default action
\* of another trigger ended inside it or one of another type goes on inside it.
TriggersOnce ==
  \A i, j \in DOMAIN stack :
    i < j /\ Acting(stack[i]) /\ ~stack[j].trigger /\ stack[j].target = stack[i].target
      /\ stack[j].type = stack[i].type /\ ~reset
      /\ (\A n \in (i + 1)..(j - 1) : Acting(stack[n]) => stack[n].type = stack[i].type)
      => stack[j].queue = <<>>

\* What jQuery.event keeps beside the handlers agrees with them: the browser calls it for
\* exactly the elements and types that have handlers, and a list has its delegates in front,
\* as many as delegateCount says.
HandlersAgree == ListensIffHandled /\ DelegatesInFront

\* While handlers bind, unbind and trigger: a handler bound with one is unbound for every
\* event after its own, none above the element that stopped an event runs, and the event of
\* a trigger's default action does not run the same handlers again.
EventsReachOnce == OneIsSpent /\ StopsAbove /\ TriggersOnce
=============================================================================
