--------------------------- MODULE DocumentReady ---------------------------
(***************************************************************************)
(* When the functions that a page gives to $(document).ready run: ready,   *)
(* bindReady, holdReady and the ways in which jQuery 1.7 learns from the   *)
(* browser that the document is there.  readyList is a list of             *)
(* CallbackLists with the flags once and memory; here it is the handlers   *)
(* that wait.  The browser is external.                                    *)
(***************************************************************************)
EXTENDS Integers, Sequences

CONSTANTS
  Handlers,   \* functions a page gives to ready and binds to the event, each at most once
  MaxHolds    \* holds that a page has at a time

VARIABLES
  browser,    \* w3c: addEventListener; ie: attachEvent; frame: ie inside a frame
  dom,        \* readyState: loading, interactive, complete
  body,       \* document.body is there
  due,        \* events of the browser that are still to come
  listening,  \* events that jQuery listens to
  polls,      \* doScrollCheck is to be called again
  timers,     \* calls of ready that setTimeout has pending
  bound,      \* readyList is there
  isReady, readyWait,
  held,       \* history: holds of the page without their release
  fired,      \* readyList was fired
  broken,     \* a handler threw: readyList stays firing and calls nothing more
  waiting,    \* handlers of readyList that have not run
  ran,        \* history: those that ran
  events,     \* handlers bound to the event ready
  owed,       \* the event ready is to be triggered when readyList is done
  todo        \* handlers of the event that is being triggered

page    == <<browser, dom, body, due>>
sources == <<listening, polls, bound>>
flags   == <<isReady, readyWait, fired, owed, timers>>
lists   == <<waiting, ran, broken>>
ready   == <<events, todo>>
vars    == <<page, sources, flags, held, lists, ready>>

Events == {"DOMContentLoaded", "readystatechange", "load"}

TypeOK ==
  /\ browser \in {"w3c", "ie", "frame"} /\ dom \in {"loading", "interactive", "complete"}
  /\ body \in BOOLEAN /\ due \subseteq Events /\ listening \subseteq Events
  /\ polls \in BOOLEAN /\ timers \in Nat /\ bound \in BOOLEAN
  /\ isReady \in BOOLEAN /\ readyWait \in Nat /\ held \in Nat /\ fired \in BOOLEAN
  /\ broken \in BOOLEAN /\ owed \in BOOLEAN
  /\ waiting \in Seq(Handlers) /\ ran \in Seq(Handlers)
  /\ events \in Seq(Handlers) /\ todo \in Seq(Handlers)

Init ==
  /\ browser \in {"w3c", "ie", "frame"} /\ dom = "loading" /\ body = FALSE
  /\ due = Events /\ listening = {} /\ polls = FALSE /\ timers = 0 /\ bound = FALSE
  /\ isReady = FALSE /\ readyWait = 1 /\ held = 0 /\ fired = FALSE
  /\ broken = FALSE /\ owed = FALSE
  /\ waiting = <<>> /\ ran = <<>> /\ events = <<>> /\ todo = <<>>
-----------------------------------------------------------------------------
\* A released hold, or a ready event when the document was not ready yet.
Passes(wait) == IF wait THEN readyWait = 1 ELSE ~isReady

\* The first fire of readyList comes before the event; a later one does nothing.
FireReady ==
  IF fired THEN todo' = events /\ UNCHANGED <<fired, owed>>
           ELSE fired' = TRUE /\ owed' = TRUE /\ UNCHANGED todo

\* Mutant: a ready event does not look for holds.
ReadyUnheld(wait, pending) ==
  IF Passes(wait) /\ body
  THEN /\ isReady' = TRUE /\ readyWait' = readyWait - 1 /\ timers' = pending /\ FireReady
  ELSE /\ readyWait' = (IF wait THEN readyWait - 1 ELSE readyWait)
       /\ timers' = (IF Passes(wait) THEN pending + 1 ELSE pending)
       /\ UNCHANGED <<isReady, fired, owed, todo>>

\* Mutant: the body is not looked for.
ReadyBodiless(wait, pending) ==
  IF Passes(wait)
  THEN /\ isReady' = TRUE /\ readyWait' = readyWait - 1 /\ timers' = pending
       /\ IF readyWait = 1 THEN FireReady ELSE UNCHANGED <<fired, owed, todo>>
  ELSE /\ readyWait' = (IF wait THEN readyWait - 1 ELSE readyWait) /\ timers' = pending
       /\ UNCHANGED <<isReady, fired, owed, todo>>

\* Mutant: the wait for the body is not begun again.
ReadyOnce(wait, pending) ==
  IF Passes(wait) /\ body
  THEN /\ isReady' = TRUE /\ readyWait' = readyWait - 1 /\ timers' = pending
       /\ IF readyWait = 1 THEN FireReady ELSE UNCHANGED <<fired, owed, todo>>
  ELSE /\ readyWait' = (IF wait \/ Passes(wait) THEN readyWait - 1 ELSE readyWait)
       /\ timers' = pending
       /\ UNCHANGED <<isReady, fired, owed, todo>>

\* jQuery.ready; pending are the timers without the one that calls it.  A release
\* decrements readyWait, and so does the event when it finds a body; without a body the
\* function calls itself later, as a ready event.
Ready(wait, pending) ==
  IF Passes(wait) /\ body
  THEN /\ isReady' = TRUE /\ readyWait' = readyWait - 1 /\ timers' = pending
       /\ IF readyWait = 1 THEN FireReady ELSE UNCHANGED <<fired, owed, todo>>
  ELSE /\ readyWait' = (IF wait THEN readyWait - 1 ELSE readyWait)
       /\ timers' = (IF Passes(wait) THEN pending + 1 ELSE pending)
       /\ UNCHANGED <<isReady, fired, owed, todo>>

\* Handlers that a fire or an event has still to call, before the browser goes on.
Running == (fired /\ ~broken /\ waiting # <<>>) \/ owed \/ todo # <<>>

Natives == {"load", IF browser = "w3c" THEN "DOMContentLoaded" ELSE "readystatechange"}

\* Listeners that bindReady attaches, once; a document that is complete is ready soon.
\* In ie the first doScrollCheck is the first poll.
BindReady ==
  /\ bound' = TRUE
  /\ IF bound THEN UNCHANGED <<listening, polls, timers>>
     ELSE IF dom = "complete" THEN timers' = timers + 1 /\ UNCHANGED <<listening, polls>>
     ELSE listening' = Natives /\ polls' = (browser = "ie") /\ UNCHANGED timers

AddReady(h) ==
  /\ todo = <<>>
  /\ \A i \in DOMAIN waiting : waiting[i] # h
  /\ \A i \in DOMAIN ran : ran[i] # h
  /\ BindReady /\ waiting' = Append(waiting, h)
  /\ UNCHANGED <<page, isReady, readyWait, fired, owed, held, ran, broken, ready>>

\* bind("ready"): the setup of the special event binds ready.
BindEvent(h) ==
  /\ \A i \in DOMAIN events : events[i] # h
  /\ BindReady /\ events' = Append(events, h)
  /\ UNCHANGED <<page, isReady, readyWait, fired, owed, held, lists, todo>>

\* holdReady(true) and holdReady(false), which scripts pair.  Handlers of the event
\* ready call neither, nor ready.
Hold ==
  /\ held < MaxHolds /\ todo = <<>>
  /\ held' = held + 1 /\ readyWait' = readyWait + 1
  /\ UNCHANGED <<page, sources, isReady, fired, owed, timers, lists, ready>>

Release ==
  /\ held > 0 /\ todo = <<>>
  /\ held' = held - 1 /\ Ready(TRUE, timers)
  /\ UNCHANGED <<page, sources, lists, events>>
-----------------------------------------------------------------------------
\* The browser, which does nothing while handlers run.
ParseBody ==
  /\ ~Running /\ ~body /\ body' = TRUE
  /\ UNCHANGED <<browser, dom, due, sources, flags, held, lists, ready>>

Interactive ==
  /\ ~Running /\ body /\ dom = "loading" /\ dom' = "interactive"
  /\ UNCHANGED <<browser, body, due, sources, flags, held, lists, ready>>

Complete ==
  /\ ~Running /\ dom = "interactive" /\ "DOMContentLoaded" \notin due
  /\ dom' = "complete"
  /\ UNCHANGED <<browser, body, due, sources, flags, held, lists, ready>>

\* An event comes once the document is far enough; jQuery may have a handler for it.
Comes(event, state) ==
  /\ ~Running /\ event \in due /\ dom \in state /\ due' = due \ {event}
  /\ UNCHANGED <<browser, dom, body, held, lists, events>>

Handled(handled) ==
  IF handled THEN Ready(FALSE, timers) ELSE UNCHANGED <<flags, todo>>

DOMContentLoaded ==
  /\ Comes("DOMContentLoaded", {"interactive"})
  /\ listening' = listening \ {"DOMContentLoaded"}
  /\ Handled("DOMContentLoaded" \in listening)
  /\ UNCHANGED <<polls, bound>>

\* Earlier changes of readyState find the document incomplete.
ReadyStateChange ==
  /\ Comes("readystatechange", {"complete"})
  /\ listening' = listening \ {"readystatechange"}
  /\ Handled("readystatechange" \in listening)
  /\ UNCHANGED <<polls, bound>>

Load ==
  /\ Comes("load", {"complete"}) /\ Handled("load" \in listening)
  /\ UNCHANGED sources

Timer ==
  /\ ~Running /\ timers > 0 /\ Ready(FALSE, timers - 1)
  /\ UNCHANGED <<page, sources, held, lists, events>>

\* doScroll throws until ie can scroll, which it can when the document is parsed, or
\* sometimes before the body is there.
DoScrollCheck ==
  /\ ~Running /\ polls /\ UNCHANGED <<page, listening, bound, held, lists, events>>
  /\ \/ isReady /\ polls' = FALSE /\ UNCHANGED <<flags, todo>>
     \/ ~isReady /\ dom = "loading" /\ UNCHANGED <<polls, flags, todo>>
     \/ ~isReady /\ polls' = FALSE /\ Ready(FALSE, timers)
-----------------------------------------------------------------------------
\* A handler of readyList runs; one that throws leaves the list firing and the event
\* untriggered.
RunHandler ==
  /\ fired /\ ~broken /\ waiting # <<>> /\ todo = <<>>
  /\ ran' = Append(ran, Head(waiting)) /\ waiting' = Tail(waiting)
  /\ \/ UNCHANGED <<broken, owed>>
     \/ broken' = TRUE /\ owed' = FALSE
  /\ UNCHANGED <<page, sources, isReady, readyWait, fired, timers, held, ready>>

TriggerReady ==
  /\ owed /\ waiting = <<>> /\ todo = <<>> /\ owed' = FALSE /\ todo' = events
  /\ UNCHANGED <<page, sources, isReady, readyWait, fired, timers, held, lists, events>>

\* The handlers of the event are unbound when the last one has run; one that throws
\* leaves them bound.
RunEvent ==
  /\ todo # <<>>
  /\ \/ todo' = Tail(todo) /\ events' = IF Len(todo) = 1 THEN <<>> ELSE events
     \/ todo' = <<>> /\ UNCHANGED events
  /\ UNCHANGED <<page, sources, flags, held, lists>>

Scripts == Hold \/ Release \/ \E h \in Handlers : AddReady(h) \/ BindEvent(h)
Browser == ParseBody \/ Interactive \/ Complete \/ DOMContentLoaded \/ ReadyStateChange
             \/ Load \/ Timer \/ DoScrollCheck
Calls   == RunHandler \/ TriggerReady \/ RunEvent

Next == Scripts \/ Browser \/ Calls

\* The browser parses the document, sends its events and runs the timers, and the handlers
\* that are called return.
Fairness ==
  /\ WF_vars(ParseBody) /\ WF_vars(Interactive) /\ WF_vars(Complete)
  /\ WF_vars(DOMContentLoaded) /\ WF_vars(ReadyStateChange) /\ WF_vars(Load)
  /\ WF_vars(Timer) /\ WF_vars(Calls)

Spec == Init /\ [][Next]_vars /\ Fairness
-----------------------------------------------------------------------------
\* No handler runs before the document has a body, and where the browser tells when it
\* is parsed none runs before that, whichever event, timer or poll came first.
ReadySafe ==
  fired => isReady /\ body /\ (browser = "w3c" => dom # "loading")

\* readyList is fired, and the event ready triggered, only when every hold was released.
FiresReleased ==
  [][(~fired /\ fired') \/ (~owed /\ todo = <<>> /\ todo' # <<>>) => held' = 0]_vars

\* Every function given to ready runs in the end, in every browser, whenever it was given
\* and whatever was held, if the page releases its holds and no handler throws.
AllRun ==
  <>[](held = 0) =>
    \A h \in Handlers :
      (\E i \in DOMAIN waiting : waiting[i] = h)
        ~> (broken \/ \E i \in DOMAIN ran : ran[i] = h)
=============================================================================
