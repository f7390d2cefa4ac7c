--------------------------- MODULE ElementDisplay ---------------------------
(***************************************************************************)
(* show, hide and toggle of jQuery 1.7, at once or as animations of one    *)
(* property: the inline display of an element, what jQuery keeps to give   *)
(* display and property back ("olddisplay", "fxshow" and "toggle" of its   *)
(* private data), the default display of an element, and stop.  The fx     *)
(* queue is a sequence of what waits; Effects has queues, timers and the   *)
(* functions of the page that run in between.                              *)
(***************************************************************************)
EXTENDS Integers, Sequences

CONSTANTS
  Boxes,          \* elements
  Displays,       \* displays that show something: block, inline and inline-block
  SizedOnes,      \* elements of which the animated property is a width or a height
  Full,           \* the property's own value, e.g. opacity 1
  BrowserDisplay, \* the display that the browser gives an element of this name
  Absent,         \* undefined
  DisplayCalls    \* calls of the page

VARIABLES
  node,         \* each element: see NodeType
  bare,         \* the display that the style sheets give a new element of this name
  look,         \* history: the display of each element before jQuery first changed it
  touched,      \* history: elements whose display the page changed after that
  asked,        \* history: what the last call for each element asks for
  crossed,      \* history: elements of which calls crossed
  lost,         \* history: elements of which a show that began at nothing was stopped
  displayCalls

displayVars == <<node, bare, look, touched, asked, crossed, lost, displayCalls>>

\* Every name of a display shows something but none, what is animated has a value above
\* zero, and undefined is no value.
DisplayAssumption ==
  /\ BrowserDisplay \in Displays /\ {"", "none", Absent} \cap Displays = {}
  /\ "inline" \in Displays => "inline-block" \in Displays
  /\ Full \in Nat \ {0} /\ Absent \notin 0..Full /\ Absent \notin {"show", "hide"}
  /\ DisplayCalls \in Nat

Ways == {"show", "hide", "toggle"}
NoRun == [way |-> "none", orig |-> 0, start |-> 0, end |-> 0]

\* style, sheet: the inline display and what the style sheets say; sized: see SizedOnes; old, fxshow, toggle:
\* private data; size: the property; run: the animation; waiting: those queued behind it;
\* shows: a show that is called when what it began has returned.
NodeType ==
  [style : Displays \cup {"", "none"}, sheet : Displays \cup {"none"}, sized : BOOLEAN,
   old : Displays \cup {Absent}, size : 0..Full, fxshow : 0..Full \cup {Absent},
   toggle : {"show", "hide", Absent}, waiting : Seq([way : Ways, instant : BOOLEAN]),
   run : [way : {"show", "hide", "none"}, orig : 0..Full, start : 0..Full, end : 0..Full],
   shows : {FALSE}]

DisplayTypeOK ==
  /\ node \in [Boxes -> NodeType] /\ bare \in Displays \cup {"none"}
  /\ look \in [Boxes -> Displays] /\ asked \in [Boxes -> {"show", "hide"}]
  /\ displayCalls \in 0..DisplayCalls
-----------------------------------------------------------------------------
\* css("display"): inline style before style sheets.
Display(n) == IF n.style # "" THEN n.style ELSE n.sheet

Hidden(n) == Display(n) = "none"

\* defaultDisplay: of a new element in the body, or else in a document without style sheets.
\* It is looked up once; what bare elements get does not change.
DefaultDisplay == IF bare = "none" THEN BrowserDisplay ELSE bare

\* How an element looks that is shown.
Look(n) == CASE ~Hidden(n)                        -> Display(n)
             [] Hidden(n) /\ n.sheet # "none"     -> n.sheet
             [] Hidden(n) /\ n.sheet = "none"     -> DefaultDisplay

DisplayInit ==
  /\ bare \in {BrowserDisplay, "none"}
  /\ \E sheet \in [Boxes -> Displays \cup {"none"}] :
       /\ node = [e \in Boxes |->
                    [style |-> "", sheet |-> sheet[e], sized |-> e \in SizedOnes,
                     old |-> Absent, size |-> Full, fxshow |-> Absent, toggle |-> Absent,
                     waiting |-> <<>>, run |-> NoRun, shows |-> FALSE]]
       /\ look = [e \in Boxes |-> Look(node[e])]
       /\ asked = [e \in Boxes |-> IF sheet[e] = "none" THEN "hide" ELSE "show"]
  /\ touched = {} /\ crossed = {} /\ lost = {} /\ displayCalls = 0

\* The first loop of show: an inline none goes, unless it is jQuery's, and an element that
\* the style sheets hide is to get the default display.
Unhidden(n) == IF n.old = Absent /\ n.style = "none" THEN [n EXCEPT !.style = ""] ELSE n
AsksDefault(n) == Unhidden(n).style = "" /\ Hidden(Unhidden(n))

\* Mutant: an element that was hidden gets the default display.
ShownByDefault(n) ==
  IF n.style \in {"", "none"} THEN [n EXCEPT !.style = DefaultDisplay] ELSE n

ShownBy(n) ==
  LET first == IF AsksDefault(n) THEN [Unhidden(n) EXCEPT !.old = DefaultDisplay] ELSE Unhidden(n)
  IN  IF first.style \in {"", "none"}
      THEN [first EXCEPT !.style = IF first.old = Absent THEN "" ELSE first.old] ELSE first

\* Mutant: the display of an element that is hidden already is kept as its old one.
HiddenTwice(n) ==
  [n EXCEPT !.style = "none", !.old = IF n.old = Absent THEN Display(n) ELSE @]

\* hide: the display is kept, once.
HiddenBy(n) ==
  [n EXCEPT !.style = "none",
            !.old = IF ~Hidden(n) /\ n.old = Absent THEN Display(n) ELSE @]
-----------------------------------------------------------------------------
Or(x, y) == IF x \in {Absent, 0} THEN y ELSE x

\* fx.prototype.show and hide: where the animation begins and ends, and what it gives back.
Shows(n) ==
  [way |-> "show", orig |-> Or(n.fxshow, n.size),
   start |-> CASE n.fxshow # Absent           -> n.size
               [] n.fxshow = Absent /\ n.sized  -> 1
               [] n.fxshow = Absent /\ ~n.sized -> 0,
   end |-> IF n.fxshow # Absent THEN n.fxshow ELSE n.size]
Hides(n) == [way |-> "hide", orig |-> Or(n.fxshow, n.size), start |-> n.size, end |-> 0]

\* Mutant: what tells a toggle where it was going stays.
EndedToggled(n) ==
  LET hid == IF n.run.way = "hide" THEN HiddenBy(n) ELSE n
  IN  [hid EXCEPT !.size = n.run.orig, !.fxshow = Absent, !.run = NoRun]

\* The last step: hide, then the property gets its value back and the data goes.
Ended(n) ==
  LET hid == IF n.run.way = "hide" THEN HiddenBy(n) ELSE n
  IN  [hid EXCEPT !.size = n.run.orig, !.fxshow = Absent, !.toggle = Absent, !.run = NoRun]

\* doAnimation, on an element that nothing is animating.  An animation that takes no time
\* ends in custom, before the show that shows the element.
Begun(n, item) ==
  LET hidden   == Hidden(n)
      inline   == IF n.sized /\ Display(n) = "inline" THEN [n EXCEPT !.style = "inline-block"] ELSE n
      tracked  == n.toggle # Absent \/ item.way = "toggle"
      way      == CASE n.toggle # Absent -> n.toggle
                    [] n.toggle = Absent /\ item.way # "toggle" -> item.way
                    [] n.toggle = Absent /\ item.way = "toggle" -> IF hidden THEN "show" ELSE "hide"
      other    == IF way = "show" THEN "hide" ELSE "show"
      begun    == [inline EXCEPT !.toggle = IF tracked THEN other ELSE @,
                                 !.run = IF way = "show" THEN Shows(inline) ELSE Hides(inline)]
      sized    == [begun EXCEPT !.size = begun.run.start]
  IN  CASE (item.way = "hide" /\ hidden) \/ (item.way = "show" /\ ~hidden) -> n
        [] OTHER -> CASE way = "hide" /\ item.instant  -> Ended(begun)
                      [] way = "hide" /\ ~item.instant -> begun
                      [] way = "show" /\ item.instant  -> [Ended(begun) EXCEPT !.shows = TRUE]
                      [] way = "show" /\ ~item.instant -> ShownBy(sized)

\* dequeue: one after the other begins, until one takes time.
Began(n) ==
  LET began[i \in 0..Len(n.waiting)] ==
        IF i = 0 THEN [n EXCEPT !.waiting = <<>>]
        ELSE IF began[i - 1].run # NoRun
             THEN [began[i - 1] EXCEPT !.waiting = Append(@, n.waiting[i])]
             ELSE Begun(began[i - 1], n.waiting[i])
  IN  began

\* Shows are called last.
Dequeued(n) ==
  LET last == Began(n)[Len(n.waiting)]
  IN  IF last.shows THEN ShownBy([last EXCEPT !.shows = FALSE]) ELSE last

\* Mutant: what was kept of an earlier stop is written over.
SavedAgain(n) == IF n.run.way = "hide" THEN [n EXCEPT !.fxshow = n.run.start] ELSE n

\* saveState, of a timer that stop takes away: only a hide keeps where it began.
SaveState(n) ==
  IF n.run.way = "hide" /\ n.fxshow = Absent THEN [n EXCEPT !.fxshow = n.run.start] ELSE n
-----------------------------------------------------------------------------
Flip(way)        == IF way = "show" THEN "hide" ELSE "show"
After(way, item) == IF item.way = "toggle" THEN Flip(way) ELSE item.way

\* What is asked for after each of those that wait.
AskedBy(way, items) ==
  LET after[i \in 0..Len(items)] == IF i = 0 THEN way ELSE After(after[i - 1], items[i])
  IN  after
AskedLast(way, items) == AskedBy(way, items)[Len(items)]

\* A show that takes no time comes after what waits behind it.
ShowsLate(n) ==
  \E i \in 1..(Len(n.waiting) - 1) : n.waiting[i].instant /\ n.waiting[i].way # "hide"

\* The element becomes n; w is what is asked of it now.
Become(e, n, w, cross) ==
  /\ node' = [node EXCEPT ![e] = n] /\ asked' = [asked EXCEPT ![e] = w]
  /\ crossed' = IF cross THEN crossed \cup {e} ELSE crossed
  /\ UNCHANGED <<bare, look, touched>>

DisplayCall == displayCalls < DisplayCalls /\ displayCalls' = displayCalls + 1

AtRest(e) == node[e].run = NoRun /\ node[e].waiting = <<>>

\* show() and hide().
Show(e) ==
  /\ DisplayCall /\ Become(e, ShownBy(node[e]), "show", ~AtRest(e)) /\ UNCHANGED lost

Hide(e) ==
  /\ DisplayCall /\ Become(e, HiddenBy(node[e]), "hide", ~AtRest(e)) /\ UNCHANGED lost

\* toggle() looks first.
Toggle(e) == IF Hidden(node[e]) THEN Show(e) ELSE Hide(e)

\* show, hide and toggle with a duration, fadeIn, slideUp and so on: a function of the queue.
Animate(e, item) ==
  LET n == [node[e] EXCEPT !.waiting = Append(@, item)]
  IN  /\ DisplayCall /\ UNCHANGED lost
      /\ Become(e, IF node[e].run = NoRun THEN Dequeued(n) ELSE n, After(asked[e], item), FALSE)

\* A tick: the property changes, or has reached its end.
DisplayStep(e) ==
  LET n == node[e]
  IN  /\ n.run # NoRun /\ n.size # n.run.end
      /\ node' = [node EXCEPT ![e].size = IF @ < n.run.end THEN @ + 1 ELSE @ - 1]
      /\ UNCHANGED <<bare, look, touched, asked, crossed, lost, displayCalls>>

End(e) ==
  /\ node[e].run # NoRun
  /\ Become(e, Dequeued(Ended(node[e])), asked[e], ShowsLate(node[e]))
  /\ UNCHANGED <<lost, displayCalls>>

\* stop, without or with the jump to the end; then the next one begins.
Stop(e, clearQueue, gotoEnd) ==
  LET n       == IF clearQueue THEN [node[e] EXCEPT !.waiting = <<>>] ELSE node[e]
      stopped == IF gotoEnd THEN Ended(n) ELSE [SaveState(n) EXCEPT !.run = NoRun]
      left    == IF gotoEnd THEN n.run.way ELSE "show"
  IN  /\ DisplayCall /\ n.run # NoRun
      /\ Become(e, Dequeued(stopped), AskedLast(left, n.waiting),
                ShowsLate(n) \/ (~gotoEnd /\ n.toggle # Absent))
      /\ lost' = IF ~gotoEnd /\ n.run.way = "show" /\ n.fxshow = Absent THEN lost \cup {e} ELSE lost

\* The page sets the display itself, or the style sheets change it.
Restyle(e, n) ==
  /\ DisplayCall /\ node' = [node EXCEPT ![e] = n]
  /\ IF node[e].old = Absent /\ AtRest(e)
     THEN look' = [look EXCEPT ![e] = Look(n)] /\ UNCHANGED touched
     ELSE touched' = touched \cup {e} /\ UNCHANGED look
  /\ asked' = [asked EXCEPT ![e] = IF Hidden(n) THEN "hide" ELSE "show"]
  /\ crossed' = IF AtRest(e) THEN crossed ELSE crossed \cup {e}
  /\ UNCHANGED <<bare, lost>>

SetDisplay(e, d) == Restyle(e, [node[e] EXCEPT !.style = d])
SetSheet(e, d)   == Restyle(e, [node[e] EXCEPT !.sheet = d])

DisplayNext == \E e \in Boxes :
  \/ Show(e) \/ Hide(e) \/ Toggle(e) \/ DisplayStep(e) \/ End(e)
  \/ \E way \in Ways, instant \in BOOLEAN : Animate(e, [way |-> way, instant |-> instant])
  \/ \E clearQueue, gotoEnd \in BOOLEAN : Stop(e, clearQueue, gotoEnd)
  \/ \E d \in {"", "none", BrowserDisplay} : SetDisplay(e, d)
  \/ \E d \in Displays \cup {"none"} : SetSheet(e, d)

DisplaySpec == DisplayInit /\ [][DisplayNext]_displayVars
-----------------------------------------------------------------------------
\* An element that the page shows and hides only through jQuery has, whenever it is shown,
\* the display it had before, or inline-block when its inline size was animated: neither
\* the display kept by hide nor an inline none gets lost.  What the page sets after jQuery
\* has kept a display is overruled by it.
LooksAsBefore == \A e \in Boxes \ touched :
  Hidden(node[e]) \/ Display(node[e]) \in {look[e]} \cup
                       (IF node[e].sized /\ look[e] = "inline" THEN {"inline-block"} ELSE {})

\* However animations are queued, stopped and picked up again, the property has its own value
\* when none is running or has been stopped, and they know it while one is.  A show that
\* began at nothing and was stopped has lost it.
SizeKept == \A e \in Boxes \ lost :
  LET n == node[e]
  IN  IF n.run = NoRun THEN n.fxshow = Full \/ (n.fxshow = Absent /\ n.size = Full)
                      ELSE n.run.orig = Full

\* When all that was queued has ended an element is shown or hidden as the last call asked.
\* Left out: calls at once while animations run, the direction that a stopped toggle leaves
\* for the next animation, and a show without duration, which comes after what waits.
EndsAsAsked == \A e \in Boxes \ crossed :
  AtRest(e) => (Hidden(node[e]) <=> asked[e] = "hide")

\* A shown element looks as it did before jQuery hid it, the animated property gets its own
\* value back, and when all has ended the element is as the last call asked.
DisplayRestored == LooksAsBefore /\ SizeKept /\ EndsAsAsked
=============================================================================
