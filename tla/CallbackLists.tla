--------------------------- MODULE CallbackLists ---------------------------
(***************************************************************************)
(* jQuery.Callbacks of the jQuery 1.7 that the pages of midipascher load:  *)
(* lists of callbacks that are fired with a value.  JavaScript runs one    *)
(* call at a time, but the callbacks that a fire calls are page code: they *)
(* add, remove and fire on the same lists and on others before they        *)
(* return, or they throw.  A fire that has begun is a frame, the last      *)
(* frame is the one that runs, and its loop goes on when the callback it   *)
(* called has returned.                                                    *)
(***************************************************************************)
EXTENDS Integers, FiniteSets, SequencesExt

CONSTANTS
  Lists,
  Flags,       \* the flags of each list: once, memory, unique, stopOnFalse
  NoValue,     \* undefined
  NoCallback,
  Plain        \* the value true of the variable memory: nothing to remember, or halted

VARIABLES
  cb,      \* the variables of each list
  fires    \* the fires that have begun and not ended

\* "on" and "open" tell whether the variables list and stack are defined.
NewList(callbacks) ==
  [list |-> callbacks, on |-> TRUE, stack |-> <<>>, open |-> TRUE, memory |-> NoValue,
   firing |-> FALSE, index |-> 0, length |-> 0]

Remembers(c) == c.memory \notin {NoValue, Plain}

\* Mutant: disable forgets the list.
DisabledFull(c) == [c EXCEPT !.on = FALSE, !.stack = <<>>, !.open = FALSE, !.memory = NoValue]

\* Mutant: disable only stops the fires to come.
DisabledLater(c) == [c EXCEPT !.stack = <<>>, !.open = FALSE, !.memory = NoValue]

Disabled(c) == [c EXCEPT !.list = <<>>, !.on = FALSE, !.stack = <<>>, !.open = FALSE,
                         !.memory = NoValue]

Locked(c) == IF Remembers(c) THEN [c EXCEPT !.stack = <<>>, !.open = FALSE] ELSE Disabled(c)

\* The loop of a fire that runs looks at the new list with its old bounds.
Emptied(c) == [c EXCEPT !.list = <<>>, !.on = TRUE]

\* Mutant: a fire that runs does not move back with the callbacks after the removed one.
RemovedInPlace(c, f) ==
  LET places == {i \in DOMAIN c.list : c.list[i] = f}
      rest   == [c EXCEPT !.list = SelectSeq(@, LAMBDA g : g # f)]
  IN  IF c.firing THEN [rest EXCEPT !.length = @ - Cardinality(places)] ELSE rest

\* remove goes through the list and splices every place of f; a fire that runs keeps its place
\* among those that stay.  The callbacks that stayed before the next one tell its index.
Removed(c, f) ==
  LET moved(m) == IF m.firing /\ Len(m.list) <= m.length
                  THEN [m EXCEPT !.length = @ - 1,
                                 !.index = IF Len(m.list) <= @ THEN @ - 1 ELSE @]
                  ELSE m
      past[i \in 0..Len(c.list)] ==
        IF i = 0 THEN [c EXCEPT !.list = <<>>]
        ELSE IF c.list[i] = f THEN moved(past[i - 1])
        ELSE [past[i - 1] EXCEPT !.list = Append(@, c.list[i])]
  IN  past[Len(c.list)]
-----------------------------------------------------------------------------
Has(l, flag) == flag \in Flags[l]

FireOf(l, v) == [list |-> l, value |-> v, in |-> NoCallback]

\* The variables that fire sets before its loop; from is firingStart.
Started(l, c, v, from) ==
  [c EXCEPT !.memory = IF Has(l, "memory") THEN v ELSE Plain,
            !.firing = TRUE, !.index = from, !.length = Len(c.list)]

\* Page code runs: no fire, or the callback that the last one called.
PageRuns == fires # <<>> => Last(fires).in # NoCallback

\* The lists and the fires together, and what a call makes of them.
Now     == [cb |-> cb, fires |-> fires]
Goto(m) == cb' = m.cb /\ fires' = m.fires

Fires(m, l, c, v, from) ==
  [cb |-> [m.cb EXCEPT ![l] = Started(l, c, v, from)], fires |-> Append(m.fires, FireOf(l, v))]

Pushed(list, l, f) ==
  IF Has(l, "unique") /\ Contains(list, f) THEN list ELSE Append(list, f)

\* Mutant: a callback added to a list that fires waits for the next fire.
AddToNextBatch(m, l, f) ==
  LET c == [m.cb[l] EXCEPT !.list = Pushed(@, l, f)]
  IN  IF m.cb[l].on /\ ~c.firing /\ Remembers(c)
      THEN Fires(m, l, c, c.memory, Len(m.cb[l].list))
      ELSE [m EXCEPT !.cb[l] = IF m.cb[l].on THEN c ELSE @]

\* Mutant: the memorized value goes to every callback of the list.
AddFromStart(m, l, f) ==
  LET c == [m.cb[l] EXCEPT !.list = Pushed(@, l, f)]
  IN  CASE ~m.cb[l].on -> m
        [] m.cb[l].on /\ c.firing -> [m EXCEPT !.cb[l] = [c EXCEPT !.length = Len(c.list)]]
        [] m.cb[l].on /\ ~c.firing /\ Remembers(c) -> Fires(m, l, c, c.memory, 0)
        [] OTHER -> [m EXCEPT !.cb[l] = c]

\* A list that fires takes the callback into its batch; one that has fired and remembers
\* calls it with the memorized value, from firingStart on.
Add(m, l, f) ==
  LET c == [m.cb[l] EXCEPT !.list = Pushed(@, l, f)]
  IN  CASE ~m.cb[l].on -> m
        [] m.cb[l].on /\ c.firing -> [m EXCEPT !.cb[l] = [c EXCEPT !.length = Len(c.list)]]
        [] m.cb[l].on /\ ~c.firing /\ Remembers(c) ->
             Fires(m, l, c, c.memory, Len(m.cb[l].list))
        [] OTHER -> [m EXCEPT !.cb[l] = c]

\* Mutant: a list with the flag once fires again.
FireAgain(m, l, v) ==
  LET c == m.cb[l]
  IN  CASE c.open /\ c.firing /\ ~Has(l, "once") -> [m EXCEPT !.cb[l].stack = Append(@, v)]
        [] c.open /\ ~c.firing -> Fires(m, l, c, v, 0)
        [] OTHER -> m

\* A fire of a list that fires waits in its stack.
FireWith(m, l, v) ==
  LET c == m.cb[l]
  IN  CASE c.open /\ c.firing /\ ~Has(l, "once") -> [m EXCEPT !.cb[l].stack = Append(@, v)]
        [] c.open /\ ~c.firing /\ ~(Has(l, "once") /\ c.memory # NoValue) -> Fires(m, l, c, v, 0)
        [] OTHER -> m
-----------------------------------------------------------------------------
TopFire  == Last(fires)
TopC == cb[TopFire.list]

\* The loop of the last fire has a callback to call.
Looping == fires # <<>> /\ TopFire.in = NoCallback /\ TopC.on /\ TopC.index < TopC.length

\* The list was emptied under the loop: undefined is called, which throws.
CallsUndefined == Looping /\ TopC.index >= Len(TopC.list)

NextCallback == TopC.list[TopC.index + 1]

\* A callback of the page is called.
Call == Looping /\ ~CallsUndefined
        /\ fires' = [fires EXCEPT ![Len(fires)].in = NextCallback]
        /\ UNCHANGED cb

\* The loop of the last fire goes to the callback after the one it called.
Stepped == [cb     |-> [cb EXCEPT ![TopFire.list].index = @ + 1],
            fires |-> [fires EXCEPT ![Len(fires)].in = NoCallback]]

\* The callback of the page returned false to a list with stopOnFalse.
Halted == [Stepped EXCEPT !.cb[TopFire.list].memory = Plain,
                          !.cb[TopFire.list].index  = Stepped.cb[TopFire.list].length]

Returns(false) ==
  /\ fires # <<>> /\ TopFire.in # NoCallback
  /\ Goto(IF false /\ Has(TopFire.list, "stopOnFalse") THEN Halted ELSE Stepped)

\* The loop is over.  The next value of the stack is fired, a list that fires once
\* drops its callbacks.
EndFire ==
  LET l == TopFire.list
      c == [TopC EXCEPT !.firing = FALSE]
  IN  /\ fires # <<>> /\ TopFire.in = NoCallback /\ ~Looping
      /\ IF c.on /\ ~Has(l, "once") /\ c.stack # <<>>
         THEN /\ cb' = [cb EXCEPT ![l] =
                          Started(l, [c EXCEPT !.stack = Tail(@)], Head(c.stack), 0)]
              /\ fires' = [fires EXCEPT ![Len(fires)] = FireOf(l, Head(c.stack))]
         ELSE /\ cb' = [cb EXCEPT ![l] = CASE ~c.on \/ ~Has(l, "once") -> c
                                           [] c.memory = Plain         -> Disabled(c)
                                           [] OTHER                    -> [c EXCEPT !.list = <<>>]]
              /\ fires' = Front(fires)

\* A callback throws, or an emptied list is called: the exception leaves every fire up
\* to the page code that catches it, and leaves their lists firing.
Throw ==
  /\ fires # <<>> /\ (TopFire.in # NoCallback \/ CallsUndefined)
  /\ \E n \in 0..(Len(fires) - 1) : fires' = SubSeq(fires, 1, n)
  /\ UNCHANGED cb
=============================================================================
