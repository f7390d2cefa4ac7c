--------------------------- MODULE DeferredProofs ---------------------------
(***************************************************************************)
(* Theorems of DeferredObjects, for any number of deferreds and of calls   *)
(* of the page.  C and F stand for the variables of the lists and the      *)
(* fires, so that a call made of several operations is followed through    *)
(* the states between them.                                                *)
(***************************************************************************)
EXTENDS DeferredObjects, FiniteSetTheorems, TLAPS

States == {"pending", "resolved", "rejected"}

PageTasks == [do : {"page"}, id : Nat]
JoinTasks == {Fire(<<Joined, kind>>) : kind \in Kinds} \cup
             {Piped(<<Joined, kind>>) : kind \in Kinds} \cup [do : {"count"}, arg : Nat]

\* The callbacks of a list that are not its own.
Guests(l) == PageTasks \cup IF l[1] = Joined THEN {} ELSE JoinTasks

OwnState(l)   == SetState(l[1], Outcome(l[2]))
OwnDisable(l) == Disable(<<l[1], Other(l[2])>>)
OwnLock(l)    == Lock(<<l[1], "progress">>)
OwnTasks      == {OwnState(l) : l \in Lists} \cup {OwnDisable(l) : l \in Lists} \cup
                 {OwnLock(l) : l \in Lists}

Tasks == PageTasks \cup JoinTasks \cup OwnTasks

Outcomes  == {l \in Lists : l[2] # "progress"}
Rival(l)  == <<l[1], Other(l[2])>>

\* A list with its own callbacks in front, as it was created.
Prefixed(l, c) ==
  /\ l[2] # "progress" /\ Len(c.list) >= 3
  /\ c.list[1] = OwnState(l) /\ c.list[2] = OwnDisable(l) /\ c.list[3] = OwnLock(l)

Elements(l, c) ==
  \/ Prefixed(l, c) /\ \A j \in 4..Len(c.list) : c.list[j] \in Guests(l)
  \/ \A j \in 1..Len(c.list) : c.list[j] \in Guests(l)

Cells == [list : Seq(Tasks), on : BOOLEAN, stack : Seq(Nat), open : BOOLEAN,
          memory : Nat \cup {NoValue}, firing : BOOLEAN, index : Nat, length : Nat]

\* What a list is like, whatever is done to others.
CellOK(l, c) ==
  /\ Elements(l, c)
  /\ c.firing => c.on /\ c.length = Len(c.list) /\ c.index <= c.length /\ c.memory # NoValue
  /\ ~c.on => c.list = <<>> /\ ~c.open /\ c.memory = NoValue
  /\ c.stack # <<>> => c.firing /\ l[2] = "progress"
  /\ l[2] # "progress" /\ c.on /\ c.memory = NoValue => Prefixed(l, c)
  /\ l[2] # "progress" /\ c.on /\ c.memory # NoValue /\ ~c.firing => c.list = <<>>

Frames == [list : Lists, value : Nat, in : PageTasks \cup JoinTasks \cup {NoCallback}]

\* A frame is the fire of a list that fires, with the value the list remembers; the
\* callback that it has called is the one at its index.
FrameOK(C, f) ==
  LET c == C[f.list]
  IN  /\ c.firing /\ f.value = c.memory
      /\ f.in # NoCallback => c.index < c.length /\ f.in = c.list[c.index + 1]

Struct(C, F) ==
  /\ C \in [Lists -> Cells] /\ F \in Seq(Frames)
  /\ \A l \in Lists : CellOK(l, C[l])
  /\ \A i \in 1..Len(F) : FrameOK(C, F[i])
  /\ \A i, j \in 1..Len(F) : F[i].list = F[j].list => i = j

Typed ==
  /\ state \in [Deferreds -> States]
  /\ script \in Seq((Raw \X Kinds) \X JoinTasks) /\ depth \in Nat /\ ops \in Nat
  /\ added \in [Lists -> Seq(Nat)] /\ called \in [Lists -> Seq(Nat \X Nat)]
  /\ thrown \in BOOLEAN
-----------------------------------------------------------------------------
\* A list settles its deferred: its own callbacks have begun to run, the other outcome is
\* not disabled yet.
Settling(C, F, st, l) ==
  /\ F # <<>> /\ F[Len(F)].list = l /\ F[Len(F)].in = NoCallback
  /\ Prefixed(l, C[l]) /\ C[l].firing
  /\ C[Rival(l)].on /\ C[Rival(l)].memory = NoValue
  /\ C[l].index = 0 \/ (C[l].index = 1 /\ st[l[1]] = Outcome(l[2]))

HasSettled(C, st, l) ==
  /\ ~C[Rival(l)].on /\ st[l[1]] = Outcome(l[2])
  /\ Prefixed(l, C[l]) /\ C[l].firing => C[l].index >= 2

Fired(C, l) == C[l].on /\ C[l].memory # NoValue

\* The lists that are disabled and the states agree with the lists that have fired.
Agree(C, st) ==
  \A l \in Outcomes : /\ ~C[l].on => Fired(C, Rival(l))
                      /\ st[l[1]] = Outcome(l[2]) => Fired(C, l)

Calm(C, st) == \A l \in Outcomes : Fired(C, l) => HasSettled(C, st, l)

\* Every deferred has settled whose list has fired, or one settles and nothing of a when or
\* pipe runs (done).
SettlesOrHas(C, F, st, done) ==
  \A l \in Outcomes : Fired(C, l) => HasSettled(C, st, l) \/ (done /\ Settling(C, F, st, l))

CalledOnce(C, ca) ==
  \A l \in Outcomes : \A i \in 1..Len(ca[l]) :
    Fired(C, l) /\ ~C[Rival(l)].on /\ ca[l][i][2] = C[l].memory
-----------------------------------------------------------------------------
\* Whether a fire of the list has begun, and has called a callback that has not returned.
Mode(F, l) ==
  IF \E i \in 1..Len(F) : F[i].list = l /\ F[i].in = NoCallback THEN "loops"
  ELSE IF \E i \in 1..Len(F) : F[i].list = l THEN "calls" ELSE "none"

\* The page's callback at j is still to be called by a fire that has begun, or by the first.
Due(c, mode, j) ==
  /\ j \in 1..Len(c.list) /\ c.list[j].do = "page"
  /\ IF c.firing THEN (mode = "loops" /\ j > c.index) \/ (mode = "calls" /\ j > c.index + 1)
     ELSE c.memory = NoValue

Live(c, mode) == c.on /\ (c.firing => mode # "none")

\* Page callbacks are in a list, and in its history, in the order of the calls that added
\* them; the next call is n.
PagesInOrder(c, n) ==
  \A i \in 1..Len(c.list) : c.list[i].do = "page" =>
    /\ c.list[i].id < n
    /\ \A j \in 1..(i - 1) : c.list[j].do = "page" => c.list[j].id < c.list[i].id

AddedInOrder(ad, n) ==
  \A i \in 1..Len(ad) : ad[i] < n /\ \A j \in 1..(i - 1) : ad[j] < ad[i]

\* The callbacks that were called are the first that were added, the others are due.
Matches(c, mode, ad, ca) ==
  /\ Len(ca) <= Len(ad) /\ \A i \in 1..Len(ca) : ca[i][1] = ad[i]
  /\ Live(c, mode) =>
       /\ \A j \in 1..Len(c.list) : Due(c, mode, j) =>
            \E i \in (Len(ca) + 1)..Len(ad) : ad[i] = c.list[j].id
       /\ \A i \in (Len(ca) + 1)..Len(ad) :
            \E j \in 1..Len(c.list) : Due(c, mode, j) /\ c.list[j].id = ad[i]

\* Notifications that wait came after the one that is made, in their order.
Waiting(c, n) ==
  /\ c.memory # NoValue => c.memory < n
  /\ \A i \in 1..Len(c.stack) :
       /\ c.memory # NoValue /\ c.memory < c.stack[i] /\ c.stack[i] < n
       /\ \A j \in 1..(i - 1) : c.stack[j] < c.stack[i]

\* A callback that is due has not had the notification that is made.
Notified(c, mode, ca, n) ==
  \A i \in 1..Len(ca) :
    /\ ca[i][1] < n /\ c.memory # NoValue /\ ca[i][2] <= c.memory
    /\ ca[i][2] = c.memory => \A j \in 1..Len(c.list) : Due(c, mode, j) => c.list[j].id # ca[i][1]
    /\ \A j \in 1..(i - 1) : ca[j][1] = ca[i][1] => ca[j][2] < ca[i][2]

ListInv(l, c, mode, ad, ca, n, th) ==
  /\ PagesInOrder(c, n) /\ AddedInOrder(ad, n)
  /\ l[2] # "progress" => Matches(c, mode, ad, ca)
  /\ l[2] = "progress" /\ l[1] # Joined => Waiting(c, n) /\ Notified(c, mode, ca, n)
  /\ ~th /\ c.firing => mode # "none"

Ordered(C, F, ad, ca, n, th) ==
  \A l \in Lists : ListInv(l, C[l], Mode(F, l), ad[l], ca[l], n, th)

\* The invariant of the lists and of their histories.
Holds(C, F, st, ad, ca, n, th, done) ==
  /\ Struct(C, F) /\ Agree(C, st) /\ SettlesOrHas(C, F, st, done) /\ CalledOnce(C, ca)
  /\ Ordered(C, F, ad, ca, n, th)

IInv == Typed /\ Holds(cb, fires, state, added, called, ops, thrown, ScriptDone)
-----------------------------------------------------------------------------
(* What the calls make of the lists and the fires *)

\* n is a cell with these variables.
IsCell(n, list, on, stack, open, memory, firing, index, length) ==
  /\ n \in Cells /\ n.list = list /\ n.on = on /\ n.stack = stack /\ n.open = open
  /\ n.memory = memory /\ n.firing = firing /\ n.index = index /\ n.length = length

Puts(C, C2, l, n) ==
  /\ C2 \in [Lists -> Cells] /\ C2[l] = n
  /\ \A x \in Lists : x # l => C2[x] = C[x]

Lengthens(c, n, f) ==
  /\ c.firing \/ c.memory = NoValue
  /\ IsCell(n, Append(c.list, f), c.on, c.stack, c.open, c.memory, c.firing, c.index,
            IF c.firing THEN Len(c.list) + 1 ELSE c.length)

Resumes(c, n, f) ==
  /\ ~c.firing /\ c.memory # NoValue
  /\ IsCell(n, Append(c.list, f), c.on, c.stack, c.open, c.memory, TRUE, Len(c.list),
            Len(c.list) + 1)

Begins(c, n, v) ==
  IsCell(n, c.list, c.on, c.stack, c.open, v, TRUE, 0, Len(c.list))

Stacks(c, n, v) ==
  IsCell(n, c.list, c.on, Append(c.stack, v), c.open, c.memory, c.firing, c.index, c.length)

\* add either does nothing, as the list is disabled, or lengthens the list; a list that has
\* fired begins a fire from the place of the callback on.
Adds(C, F, C2, F2, l, f) ==
  \/ ~C[l].on /\ C2 = C /\ F2 = F
  \/ C[l].on /\ F2 = F /\ \E n \in Cells : Lengthens(C[l], n, f) /\ Puts(C, C2, l, n)
  \/ /\ C[l].on /\ F2 = Append(F, FireOf(l, C[l].memory))
     /\ \E n \in Cells : Resumes(C[l], n, f) /\ Puts(C, C2, l, n)

\* A fire does nothing, begins, or waits in the stack of a list that fires.
FiresOn(C, F, C2, F2, l, v) ==
  \/ /\ C2 = C /\ F2 = F
     /\ C[l].open => l[2] # "progress" /\ (C[l].firing \/ C[l].memory # NoValue)
  \/ /\ C[l].open /\ ~C[l].firing /\ (l[2] # "progress" => C[l].memory = NoValue)
     /\ F2 = Append(F, FireOf(l, v))
     /\ \E n \in Cells : Begins(C[l], n, v) /\ Puts(C, C2, l, n)
  \/ /\ C[l].open /\ C[l].firing /\ l[2] = "progress" /\ F2 = F
     /\ \E n \in Cells : Stacks(C[l], n, v) /\ Puts(C, C2, l, n)

\* The lists are created with memory, those of the outcomes with once.
LEMMA FlagsAre ==
  ASSUME DeferredAssumption, NEW l \in Lists
  PROVE  Has(l, "memory") /\ ~Has(l, "unique") /\ (Has(l, "once") <=> l[2] # "progress")
  BY DEF DeferredAssumption, Has

\* A fire that begins on a list with memory.
LEMMA StartedIs ==
  ASSUME DeferredAssumption, NEW l \in Lists, NEW c \in Cells, NEW v \in Nat, NEW from \in Nat
  PROVE  IsCell(Started(l, c, v, from), c.list, c.on, c.stack, c.open, v, TRUE, from, Len(c.list))
<1> DEFINE n == Started(l, c, v, from)
<1>1. n = [c EXCEPT !.memory = v, !.firing = TRUE, !.index = from, !.length = Len(c.list)]
  BY FlagsAre DEF Started
<1>2. c.list \in Seq(Tasks) /\ Len(c.list) \in Nat
  BY DEF Cells
<1> HIDE DEF n
<1>3. n = [list |-> c.list, on |-> c.on, stack |-> c.stack, open |-> c.open, memory |-> v,
           firing |-> TRUE, index |-> from, length |-> Len(c.list)]
  BY <1>1 DEF Cells
<1>4. n \in Cells
  BY <1>2, <1>3 DEF Cells
<1>5. IsCell(n, c.list, c.on, c.stack, c.open, v, TRUE, from, Len(c.list))
  BY <1>3, <1>4 DEF IsCell
<1> QED BY <1>5 DEF n

\* The variables of a list, by name.
LEMMA CellFields ==
  ASSUME NEW c \in Cells
  PROVE  /\ c.list \in Seq(Tasks) /\ c.on \in BOOLEAN /\ c.stack \in Seq(Nat)
         /\ c.open \in BOOLEAN /\ c.memory \in Nat \cup {NoValue} /\ c.firing \in BOOLEAN
         /\ c.index \in Nat /\ c.length \in Nat
  BY DEF Cells

\* add, as what it makes of the list and the fires.
LEMMA AddIs ==
  ASSUME DeferredAssumption, NEW C \in [Lists -> Cells], NEW F, NEW l \in Lists,
         NEW f \in Tasks, NEW m, m = Add([cb |-> C, fires |-> F], l, f)
  PROVE  Adds(C, F, m.cb, m.fires, l, f)
<1>0. PICK c \in Cells : c = C[l]
  OBVIOUS
<1>1. PICK k : k = [c EXCEPT !.list = Append(c.list, f)]
  OBVIOUS
<1>2. c.list \in Seq(Tasks) /\ Append(c.list, f) \in Seq(Tasks) /\ Len(c.list) \in Nat
      /\ Len(Append(c.list, f)) = Len(c.list) + 1
  BY CellFields
<1>3. IsCell(k, Append(c.list, f), c.on, c.stack, c.open, c.memory, c.firing, c.index, c.length)
  BY <1>1, <1>2 DEF Cells, IsCell
<1>4. Remembers(k) <=> c.memory # NoValue
  BY <1>3 DEF DeferredAssumption, IsCell, Cells, Remembers
<1>5. Pushed(c.list, l, f) = Append(c.list, f)
  BY FlagsAre DEF Pushed
<1>6. [[cb |-> C, fires |-> F].cb[l] EXCEPT !.list = Pushed([cb |-> C, fires |-> F].cb[l].list, l, f)] = k
  BY <1>0, <1>1, <1>5
<1>7. CASE ~c.on
  BY <1>0, <1>7 DEF Add, Adds
<1>8. CASE c.on /\ c.firing
  <2>1. PICK n : n = [k EXCEPT !.length = Len(k.list)]
    OBVIOUS
  <2>a. k \in Cells /\ Len(k.list) \in Nat
    BY <1>2, <1>3 DEF IsCell
  <2>b. IsCell(n, k.list, k.on, k.stack, k.open, k.memory, k.firing, k.index, Len(k.list))
    BY <2>1, <2>a DEF IsCell, Cells
  <2>2. Lengthens(c, n, f) /\ n \in Cells
    BY <1>2, <1>3, <1>8, <2>b DEF Lengthens, IsCell
  <2>3. m = [cb |-> [C EXCEPT ![l] = n], fires |-> F]
    BY <1>0, <1>3, <1>6, <1>8, <2>1 DEF Add, IsCell
  <2>4. Puts(C, m.cb, l, n) /\ m.fires = F
    BY <2>2, <2>3 DEF Puts
  <2> QED BY <1>0, <1>8, <2>2, <2>4 DEF Adds
<1>9. CASE c.on /\ ~c.firing /\ c.memory # NoValue
  <2>1. PICK n : n = Started(l, k, c.memory, Len(c.list))
    OBVIOUS
  <2>2. c.memory \in Nat /\ k \in Cells
    BY <1>3, <1>9, CellFields DEF IsCell
  <2>3. IsCell(n, k.list, k.on, k.stack, k.open, c.memory, TRUE, Len(c.list), Len(k.list))
    BY <1>2, <2>1, <2>2, StartedIs
  <2>4. Resumes(c, n, f) /\ n \in Cells
    BY <1>2, <1>3, <1>9, <2>3 DEF Resumes, IsCell
  <2>5. m = [cb |-> [C EXCEPT ![l] = n], fires |-> Append(F, FireOf(l, c.memory))]
    BY <1>0, <1>3, <1>4, <1>6, <1>9, <2>1 DEF Add, Fires, IsCell
  <2>6. Puts(C, m.cb, l, n) /\ m.fires = Append(F, FireOf(l, c.memory))
    BY <2>4, <2>5 DEF Puts
  <2> QED BY <1>0, <1>9, <2>4, <2>6 DEF Adds
<1>10. CASE c.on /\ ~c.firing /\ c.memory = NoValue
  <2>1. m = [cb |-> [C EXCEPT ![l] = k], fires |-> F]
    BY <1>0, <1>3, <1>4, <1>6, <1>10 DEF Add, IsCell
  <2>2. Lengthens(c, k, f) /\ k \in Cells
    BY <1>2, <1>3, <1>10 DEF Lengthens, IsCell
  <2>3. Puts(C, m.cb, l, k) /\ m.fires = F
    BY <2>1, <2>2 DEF Puts
  <2> QED BY <1>0, <1>10, <2>2, <2>3 DEF Adds
<1> QED BY <1>7, <1>8, <1>9, <1>10

\* fireWith, as what it makes of the list and the fires.
LEMMA FireIs ==
  ASSUME DeferredAssumption, NEW C \in [Lists -> Cells], NEW F, NEW l \in Lists,
         NEW v \in Nat, NEW m, m = FireWith([cb |-> C, fires |-> F], l, v)
  PROVE  FiresOn(C, F, m.cb, m.fires, l, v)
<1>0. PICK c \in Cells : c = C[l]
  OBVIOUS
<1>1. c.stack \in Seq(Nat) /\ Append(c.stack, v) \in Seq(Nat)
  BY CellFields
<1>2. CASE c.open /\ c.firing /\ l[2] = "progress"
  <2>1. PICK n : n = [c EXCEPT !.stack = Append(c.stack, v)]
    OBVIOUS
  <2>2. m = [cb |-> [C EXCEPT ![l] = n], fires |-> F]
    BY <1>0, <1>2, <2>1, FlagsAre DEF FireWith
  <2>3. Stacks(c, n, v) /\ n \in Cells
    BY <1>1, <2>1 DEF Stacks, IsCell, Cells
  <2>4. Puts(C, m.cb, l, n) /\ m.fires = F
    BY <2>2, <2>3 DEF Puts
  <2> QED BY <1>0, <1>2, <2>3, <2>4 DEF FiresOn
<1>3. CASE c.open /\ ~c.firing /\ (l[2] # "progress" => c.memory = NoValue)
  <2>1. PICK n : n = Started(l, c, v, 0)
    OBVIOUS
  <2>2. Begins(c, n, v) /\ n \in Cells
    <3>1. IsCell(n, c.list, c.on, c.stack, c.open, v, TRUE, 0, Len(c.list))
      BY <2>1, StartedIs
    <3> QED BY <3>1 DEF Begins, IsCell
  <2>3. m = [cb |-> [C EXCEPT ![l] = n], fires |-> Append(F, FireOf(l, v))]
    BY <1>0, <1>3, <2>1, FlagsAre DEF FireWith, Fires
  <2>4. Puts(C, m.cb, l, n) /\ m.fires = Append(F, FireOf(l, v))
    BY <2>2, <2>3 DEF Puts
  <2> QED BY <1>0, <1>3, <2>2, <2>4 DEF FiresOn
<1>4. CASE ~(c.open /\ c.firing /\ l[2] = "progress") /\
           ~(c.open /\ ~c.firing /\ (l[2] # "progress" => c.memory = NoValue))
  <2>1. m = [cb |-> C, fires |-> F]
    BY <1>0, <1>4, FlagsAre DEF FireWith
  <2> QED BY <1>0, <1>4, <2>1 DEF FiresOn
<1> QED BY <1>2, <1>3, <1>4
-----------------------------------------------------------------------------
(* The structure of the lists and the fires *)

\* What tells the callbacks apart.
LEMMA OwnDo ==
  /\ \A l \in Lists : /\ OwnState(l).do = "state" /\ OwnDisable(l).do = "disable"
                      /\ OwnLock(l).do = "lock"
  /\ \A g \in OwnTasks : g.do \in {"state", "disable", "lock"}
  /\ \A g \in PageTasks : g.do = "page" /\ g.id \in Nat
  /\ \A g \in JoinTasks : g.do \in {"fire", "piped", "count"}
<1>1. \A l \in Lists : /\ OwnState(l).do = "state" /\ OwnDisable(l).do = "disable"
                       /\ OwnLock(l).do = "lock"
  BY DEF OwnState, OwnDisable, OwnLock, SetState, Disable, Lock
<1>2. \A g \in OwnTasks : g.do \in {"state", "disable", "lock"}
  BY <1>1 DEF OwnTasks
<1>3. \A g \in PageTasks : g.do = "page" /\ g.id \in Nat
  BY DEF PageTasks
<1>4. \A g \in JoinTasks : g.do \in {"fire", "piped", "count"}
  BY DEF JoinTasks, Fire, Piped
<1> QED BY <1>1, <1>2, <1>3, <1>4

\* A callback that is added is one.
LEMMA GuestsAreTasks ==
  ASSUME NEW l \in Lists
  PROVE  Guests(l) \subseteq Tasks
  BY DEF Guests, Tasks

\* A callback that is added comes after those that a list has.
LEMMA ElementsAppend ==
  ASSUME NEW l \in Lists, NEW c \in Cells, NEW n \in Cells, NEW f \in Guests(l),
         Elements(l, c), n.list = Append(c.list, f)
  PROVE  /\ Elements(l, n) /\ (Prefixed(l, c) => Prefixed(l, n))
         /\ (Prefixed(l, n) => Prefixed(l, c))
         /\ Len(n.list) = Len(c.list) + 1 /\ n.list[Len(n.list)] = f
         /\ \A j \in 1..Len(c.list) : n.list[j] = c.list[j]
<1>1. /\ c.list \in Seq(Tasks) /\ Len(c.list) \in Nat /\ Len(n.list) = Len(c.list) + 1
      /\ \A j \in 1..Len(c.list) : n.list[j] = c.list[j]
      /\ n.list[Len(c.list) + 1] = f
  BY CellFields
<1>2. Prefixed(l, c) => Prefixed(l, n)
  BY <1>1 DEF Prefixed
<1>3. ASSUME NEW j \in 1..Len(n.list)
      PROVE  j = Len(n.list) \/ j \in 1..Len(c.list)
  BY <1>1
<1>4. ASSUME Prefixed(l, c) /\ \A j \in 4..Len(c.list) : c.list[j] \in Guests(l)
      PROVE  Elements(l, n)
  BY <1>1, <1>2, <1>3, <1>4 DEF Elements
<1>5. ASSUME \A j \in 1..Len(c.list) : c.list[j] \in Guests(l)
      PROVE  Elements(l, n)
  <2>1. \A j \in 1..Len(n.list) : n.list[j] \in Guests(l)
    BY <1>1, <1>3, <1>5
  <2> QED BY <2>1 DEF Elements
<1>6. Elements(l, n)
  BY <1>4, <1>5 DEF Elements
<1>7. f \notin OwnTasks
  BY OwnDo DEF Guests
<1>8. ASSUME Prefixed(l, n)
      PROVE  Prefixed(l, c)
  <2>1. OwnState(l) \in OwnTasks /\ OwnDisable(l) \in OwnTasks /\ OwnLock(l) \in OwnTasks
    BY DEF OwnTasks
  <2>2. Len(c.list) # 0 /\ Len(c.list) # 1 /\ Len(c.list) # 2
    BY <1>1, <1>7, <1>8, <2>1 DEF Prefixed
  <2>3. Len(c.list) >= 3
    <3>1. PICK k \in Nat : k = Len(c.list)
      BY <1>1
    <3>2. k # 0 /\ k # 1 /\ k # 2
      BY <2>2, <3>1
    <3>3. k >= 3
      BY <3>2
    <3> QED BY <3>1, <3>3
  <2>4. 1 \in 1..Len(c.list) /\ 2 \in 1..Len(c.list) /\ 3 \in 1..Len(c.list)
    BY <1>1, <2>3
  <2>5. c.list[1] = n.list[1] /\ c.list[2] = n.list[2] /\ c.list[3] = n.list[3]
    BY <1>1, <2>4
  <2> QED BY <1>8, <2>3, <2>5 DEF Prefixed
<1> QED BY <1>1, <1>2, <1>6, <1>8

\* What a fire that runs sees of the list has not changed.
Extends(c, n) ==
  c.firing => /\ n.firing /\ n.memory = c.memory /\ n.index = c.index /\ c.length <= n.length
              /\ \A j \in 1..c.length : n.list[j] = c.list[j]

\* add lengthens a list.
LEMMA LengthensKeeps ==
  ASSUME NEW l \in Lists, NEW c \in Cells, NEW n \in Cells, NEW f \in Guests(l),
         CellOK(l, c), c.on, Lengthens(c, n, f), c.firing \/ l[2] = "progress" \/ c.memory = NoValue
  PROVE  CellOK(l, n) /\ Extends(c, n)
<1>1. /\ Elements(l, n) /\ (Prefixed(l, c) => Prefixed(l, n))
      /\ Len(n.list) = Len(c.list) + 1 /\ n.list[Len(n.list)] = f
      /\ \A j \in 1..Len(c.list) : n.list[j] = c.list[j]
  BY ElementsAppend DEF CellOK, Lengthens, IsCell
<1>2. Len(c.list) \in Nat /\ c.index \in Nat /\ c.length \in Nat
  BY CellFields
<1>3. Extends(c, n)
  BY <1>1, <1>2 DEF Extends, CellOK, Lengthens, IsCell
<1>4. CellOK(l, n)
  BY <1>1, <1>2 DEF CellOK, Lengthens, IsCell
<1> QED BY <1>3, <1>4

\* add begins a fire of a list that has fired.
LEMMA ResumesKeeps ==
  ASSUME NEW l \in Lists, NEW c \in Cells, NEW n \in Cells, NEW f \in Guests(l),
         CellOK(l, c), c.on, Resumes(c, n, f)
  PROVE  CellOK(l, n)
<1>1. /\ Elements(l, n) /\ (Prefixed(l, c) => Prefixed(l, n))
      /\ Len(n.list) = Len(c.list) + 1
  BY ElementsAppend DEF CellOK, Resumes, IsCell
<1>2. Len(c.list) \in Nat
  BY CellFields
<1> QED BY <1>1, <1>2 DEF CellOK, Resumes, IsCell

\* A fire begins.
LEMMA BeginsKeeps ==
  ASSUME NEW l \in Lists, NEW c \in Cells, NEW n \in Cells, NEW v \in Nat, NoValue \notin Nat,
         CellOK(l, c), c.on, Begins(c, n, v), ~c.firing
  PROVE  CellOK(l, n)
<1>1. Len(c.list) \in Nat
  BY CellFields
<1>2. Elements(l, n)
  BY DEF CellOK, Elements, Prefixed, Begins, IsCell
<1> QED BY <1>1, <1>2 DEF CellOK, Begins, IsCell

\* A notification waits in the stack.
LEMMA StacksKeeps ==
  ASSUME NEW l \in Lists, NEW c \in Cells, NEW n \in Cells, NEW v \in Nat,
         CellOK(l, c), c.firing, l[2] = "progress", Stacks(c, n, v)
  PROVE  CellOK(l, n) /\ Extends(c, n)
<1>1. Len(c.list) \in Nat /\ c.length \in Nat
  BY CellFields
<1>2. Elements(l, n)
  BY DEF CellOK, Elements, Prefixed, Stacks, IsCell
<1>3. Extends(c, n)
  BY <1>1 DEF Extends, CellOK, Stacks, IsCell
<1>4. CellOK(l, n)
  BY <1>1, <1>2 DEF CellOK, Stacks, IsCell
<1> QED BY <1>3, <1>4

\* disable of a list that has not fired, and lock.
Disables(c, n) ==
  IsCell(n, <<>>, FALSE, <<>>, FALSE, NoValue, c.firing, c.index, c.length)

Locks(c, n) ==
  IsCell(n, c.list, c.on, <<>>, FALSE, c.memory, c.firing, c.index, c.length)

\* disable, as what it makes of a list.
LEMMA DisabledIs ==
  ASSUME NEW c \in Cells
  PROVE  Disables(c, Disabled(c))
<1>1. PICK n : n = Disabled(c)
  OBVIOUS
<1>2. n = [c EXCEPT !.list = <<>>, !.on = FALSE, !.stack = <<>>, !.open = FALSE, !.memory = NoValue]
  BY <1>1 DEF Disabled
<1>3. n \in Cells
  <2>1. <<>> \in Seq(Tasks) /\ <<>> \in Seq(Nat)
    OBVIOUS
  <2> QED BY <1>2, <2>1 DEF Cells
<1>4. IsCell(n, <<>>, FALSE, <<>>, FALSE, NoValue, c.firing, c.index, c.length)
  BY <1>2, <1>3 DEF Cells, IsCell
<1> QED BY <1>1, <1>4 DEF Disables

\* lock disables a list that has not fired, and only drops the stack of another.
LEMMA LockedIs ==
  ASSUME DeferredAssumption, NEW c \in Cells
  PROVE  IF c.memory = NoValue THEN Disables(c, Locked(c)) ELSE Locks(c, Locked(c))
<1>1. Remembers(c) <=> c.memory # NoValue
  BY CellFields DEF DeferredAssumption, Remembers
<1>2. CASE c.memory = NoValue
  BY <1>1, <1>2, DisabledIs DEF Locked
<1>3. CASE c.memory # NoValue
  <2>1. PICK n : n = Locked(c)
    OBVIOUS
  <2>2. n = [c EXCEPT !.stack = <<>>, !.open = FALSE]
    BY <1>1, <1>3, <2>1 DEF Locked
  <2>3. n \in Cells
    <3>1. <<>> \in Seq(Nat)
      OBVIOUS
    <3> QED BY <2>2, <3>1 DEF Cells
  <2>4. IsCell(n, c.list, c.on, <<>>, FALSE, c.memory, c.firing, c.index, c.length)
    BY <2>2, <2>3 DEF Cells, IsCell
  <2> QED BY <1>3, <2>1, <2>4 DEF Locks
<1> QED BY <1>2, <1>3

\* disable of a list that has not fired.
LEMMA DisablesKeeps ==
  ASSUME NEW l \in Lists, NEW c \in Cells, NEW n \in Cells,
         CellOK(l, c), c.memory = NoValue, Disables(c, n)
  PROVE  CellOK(l, n) /\ Extends(c, n)
<1>1. ~c.firing
  BY DEF CellOK
<1>2. Elements(l, n)
  BY DEF Elements, Disables, IsCell
<1> QED BY <1>1, <1>2 DEF CellOK, Extends, Disables, IsCell

\* lock of a list that has fired.
LEMMA LocksKeeps ==
  ASSUME NEW l \in Lists, NEW c \in Cells, NEW n \in Cells,
         CellOK(l, c), c.memory # NoValue, Locks(c, n)
  PROVE  CellOK(l, n) /\ Extends(c, n)
<1>1. c.length \in Nat
  BY CellFields
<1>2. Elements(l, n)
  BY DEF CellOK, Elements, Prefixed, Locks, IsCell
<1>3. Extends(c, n)
  BY <1>1 DEF Extends, Locks, IsCell
<1>4. CellOK(l, n)
  BY <1>2 DEF CellOK, Locks, IsCell
<1> QED BY <1>3, <1>4

\* A fire that has begun.
LEMMA FramesAre ==
  ASSUME NEW C, NEW F, Struct(C, F), NEW i \in 1..Len(F)
  PROVE  F[i] \in Frames /\ F[i].list \in Lists /\ F[i].value \in Nat /\ FrameOK(C, F[i])
<1>1. F[i] \in Frames
  BY DEF Struct
<1> QED BY <1>1 DEF Frames, Struct

\* A call that changes one list, and does not disturb the fire that runs through it.
LEMMA PutKeeps ==
  ASSUME NEW C, NEW F, NEW C2, NEW l \in Lists, NEW n \in Cells, Struct(C, F),
         Puts(C, C2, l, n), CellOK(l, n), Extends(C[l], n)
  PROVE  Struct(C2, F)
<1>1. \A x \in Lists : CellOK(x, C2[x])
  BY DEF Puts, Struct
<1>2. ASSUME NEW i \in 1..Len(F)
      PROVE  FrameOK(C2, F[i])
  <2>1. F[i] \in Frames /\ FrameOK(C, F[i]) /\ F[i].list \in Lists
    BY FramesAre
  <2>2. CASE F[i].list # l
    BY <2>1, <2>2 DEF FrameOK, Puts
  <2>3. CASE F[i].list = l
    <3>1. C[l].index \in Nat /\ C[l].length \in Nat /\ n.length \in Nat /\ C2[l] = n
      BY CellFields DEF Struct, Puts
    <3>2. C[l].firing /\ F[i].value = C[l].memory
      BY <2>1, <2>3 DEF FrameOK
    <3>3. n.firing /\ F[i].value = n.memory
      BY <3>2 DEF Extends
    <3>4. ASSUME F[i].in # NoCallback
          PROVE  n.index < n.length /\ F[i].in = n.list[n.index + 1]
      <4>1. C[l].index < C[l].length /\ F[i].in = C[l].list[C[l].index + 1]
        BY <2>1, <2>3, <3>4 DEF FrameOK
      <4>2. C[l].index + 1 \in 1..C[l].length
        BY <3>1, <4>1
      <4> QED BY <3>1, <3>2, <4>1, <4>2 DEF Extends
    <3> QED BY <2>3, <3>1, <3>3, <3>4 DEF FrameOK
  <2> QED BY <2>2, <2>3
<1> QED BY <1>1, <1>2 DEF Struct, Puts

\* The fires after another has begun.
LEMMA PushIs ==
  ASSUME NEW F \in Seq(Frames), NEW f \in Frames
  PROVE  /\ Append(F, f) \in Seq(Frames) /\ Len(Append(F, f)) = Len(F) + 1
         /\ Append(F, f)[Len(F) + 1] = f /\ Len(F) \in Nat
         /\ \A i \in 1..Len(F) : Append(F, f)[i] = F[i]
         /\ \A i \in 1..(Len(F) + 1) : i \in 1..Len(F) \/ i = Len(F) + 1
  OBVIOUS

\* A fire that begins.
LEMMA PushKeeps ==
  ASSUME NEW C, NEW F, NEW C2, NEW F2, NEW l \in Lists, NEW n \in Cells, NEW v \in Nat,
         Struct(C, F), Puts(C, C2, l, n), CellOK(l, n), ~C[l].firing, n.firing, n.memory = v,
         F2 = Append(F, FireOf(l, v))
  PROVE  Struct(C2, F2)
<1>1. \A x \in Lists : CellOK(x, C2[x])
  BY DEF Puts, Struct
<1>2. PICK f \in Frames : f = FireOf(l, v)
  BY DEF Frames, FireOf
<1>3. /\ F2 \in Seq(Frames) /\ Len(F2) = Len(F) + 1 /\ F2[Len(F) + 1] = f /\ Len(F) \in Nat
      /\ \A i \in 1..Len(F) : F2[i] = F[i]
      /\ \A i \in 1..Len(F2) : i \in 1..Len(F) \/ i = Len(F) + 1
  BY <1>2, PushIs DEF Struct
<1>4. \A i \in 1..Len(F) : F[i].list \in Lists /\ F[i].list # l /\ FrameOK(C, F[i])
  BY FramesAre DEF FrameOK
<1>5. \A i \in 1..Len(F) : FrameOK(C2, F2[i])
  BY <1>3, <1>4 DEF FrameOK, Puts
<1>6. f.list = l /\ f.value = v /\ f.in = NoCallback
  BY <1>2 DEF FireOf
<1>7. FrameOK(C2, f)
  BY <1>6 DEF FrameOK, Puts
<1>8. \A i \in 1..Len(F2) : FrameOK(C2, F2[i])
  BY <1>3, <1>5, <1>7
<1>9. \A i, j \in 1..Len(F2) : F2[i].list = F2[j].list => i = j
  BY <1>3, <1>4, <1>6 DEF Struct
<1> QED BY <1>1, <1>3, <1>8, <1>9 DEF Struct, Puts

\* The loop of the last fire goes on.
Steps(C, F, C2, F2) ==
  LET t == F[Len(F)]
  IN  /\ F2 \in Seq(Frames) /\ Len(F2) = Len(F) /\ F2[Len(F)] = FireOf(t.list, t.value)
      /\ \A i \in 1..(Len(F) - 1) : F2[i] = F[i]
      /\ \E n \in Cells :
           /\ Puts(C, C2, t.list, n)
           /\ IsCell(n, C[t.list].list, C[t.list].on, C[t.list].stack, C[t.list].open,
                     C[t.list].memory, C[t.list].firing, C[t.list].index + 1, C[t.list].length)

\* The last fire and its list.
LEMMA TopIs ==
  ASSUME NEW C, NEW F, Struct(C, F), F # <<>>
  PROVE  /\ Len(F) \in Nat /\ Len(F) >= 1 /\ Len(F) \in 1..Len(F) /\ F[Len(F)] \in Frames
         /\ F[Len(F)].list \in Lists /\ F[Len(F)].value \in Nat
         /\ C[F[Len(F)].list] \in Cells /\ FrameOK(C, F[Len(F)])
         /\ CellOK(F[Len(F)].list, C[F[Len(F)].list])
<1>1. Len(F) \in Nat /\ Len(F) >= 1
  BY DEF Struct
<1>2. Len(F) \in 1..Len(F)
  BY <1>1
<1>3. F[Len(F)] \in Frames
  BY <1>2 DEF Struct
<1>4. F[Len(F)].list \in Lists /\ F[Len(F)].value \in Nat
  BY <1>3 DEF Frames
<1> QED BY <1>1, <1>2, <1>3, <1>4 DEF Struct

\* The loop goes on, as what it makes of the list and the fires.
LEMMA SteppedIs ==
  ASSUME Struct(cb, fires), fires # <<>>
  PROVE  Steps(cb, fires, Stepped.cb, Stepped.fires)
<1>1. PICK N \in Nat : N = Len(fires) /\ N >= 1 /\ N \in 1..Len(fires)
  BY TopIs
<1>2. PICK t \in Frames : t = fires[N] /\ t.list \in Lists /\ t.value \in Nat
  BY <1>1, TopIs
<1>3. PICK l \in Lists : l = t.list
  BY <1>2
<1>4. PICK c \in Cells : c = cb[l]
  BY DEF Struct
<1>5. PICK n : n = [c EXCEPT !.index = @ + 1]
  OBVIOUS
<1>6. IsCell(n, c.list, c.on, c.stack, c.open, c.memory, c.firing, c.index + 1, c.length)
  BY <1>5 DEF Cells, IsCell
<1>7. PICK C2 : C2 = [cb EXCEPT ![l] = n]
  OBVIOUS
<1>8. Puts(cb, C2, l, n)
  BY <1>6, <1>7 DEF Struct, Puts, IsCell
<1>9. Stepped.cb = C2
  BY <1>1, <1>2, <1>3, <1>4, <1>5, <1>7 DEF Stepped, TopFire, Last
<1>10. PICK u : u = [t EXCEPT !.in = NoCallback]
  OBVIOUS
<1>11. u = FireOf(t.list, t.value) /\ u \in Frames
  BY <1>10 DEF FireOf, Frames
<1>12. PICK F2 : F2 = [fires EXCEPT ![N] = u]
  OBVIOUS
<1>13. Stepped.fires = F2
  BY <1>1, <1>2, <1>10, <1>12 DEF Stepped
<1>14. /\ F2 \in Seq(Frames) /\ Len(F2) = N /\ F2[N] = u
       /\ \A i \in 1..(N - 1) : F2[i] = fires[i]
  BY <1>1, <1>11, <1>12 DEF Struct
<1>15. n \in Cells
  BY <1>6 DEF IsCell
<1>16. Steps(cb, fires, C2, F2)
  BY <1>1, <1>2, <1>3, <1>4, <1>6, <1>8, <1>11, <1>14, <1>15 DEF Steps
<1> QED BY <1>9, <1>13, <1>16

\* The loop goes on.
LEMMA StepKeeps ==
  ASSUME NEW C, NEW F, NEW C2, NEW F2, Struct(C, F), F # <<>>, Steps(C, F, C2, F2),
         C[F[Len(F)].list].index < C[F[Len(F)].list].length
  PROVE  Struct(C2, F2)
<1>1. PICK N \in Nat : N = Len(F) /\ N >= 1 /\ N \in 1..Len(F)
  BY TopIs
<1>2. PICK t \in Frames : t = F[N] /\ t.list \in Lists /\ t.value \in Nat /\ FrameOK(C, t)
  BY <1>1, TopIs
<1>3. PICK l \in Lists : l = t.list
  BY <1>2
<1>4. PICK c \in Cells : c = C[l] /\ CellOK(l, c) /\ c.index < c.length
  BY <1>1, <1>2, <1>3 DEF Struct
<1>5. PICK n \in Cells :
        /\ Puts(C, C2, l, n)
        /\ IsCell(n, c.list, c.on, c.stack, c.open, c.memory, c.firing, c.index + 1, c.length)
  BY <1>1, <1>2, <1>3, <1>4 DEF Steps
<1>6. /\ F2 \in Seq(Frames) /\ Len(F2) = N /\ F2[N] = FireOf(l, t.value)
      /\ \A i \in 1..(N - 1) : F2[i] = F[i]
  BY <1>1, <1>2, <1>3 DEF Steps
<1>7. c.index \in Nat /\ c.length \in Nat
  BY CellFields
<1>8. CellOK(l, n)
  <2>1. Elements(l, n)
    BY <1>4, <1>5 DEF CellOK, Elements, Prefixed, IsCell
  <2>2. n.index <= n.length
    BY <1>4, <1>5, <1>7 DEF IsCell
  <2> QED BY <1>2, <1>3, <1>4, <1>5, <2>1, <2>2 DEF CellOK, FrameOK, IsCell
<1>9. \A x \in Lists : CellOK(x, C2[x])
  BY <1>5, <1>8 DEF Puts, Struct
<1>10. \A i \in 1..(N - 1) : i \in 1..N /\ F[i].list \in Lists /\ F[i].list # l /\ FrameOK(C, F[i])
  <2>1. ASSUME NEW i \in 1..(N - 1)
        PROVE  i \in 1..N /\ F[i].list \in Lists /\ F[i].list # l /\ FrameOK(C, F[i])
    <3>1. i \in 1..N /\ N \in 1..N /\ i # N
      BY <1>1
    <3>2. F[i] \in Frames
      BY <1>1, <3>1 DEF Struct
    <3> QED BY <1>1, <1>2, <1>3, <3>1, <3>2 DEF Struct, Frames
  <2> QED BY <2>1
<1>11. \A i \in 1..(N - 1) : FrameOK(C2, F2[i])
  BY <1>5, <1>6, <1>10 DEF FrameOK, Puts
<1>a. PICK u : u = FireOf(l, t.value)
  OBVIOUS
<1>12. u.list = l /\ u.value = t.value /\ u.in = NoCallback
  BY <1>a DEF FireOf
<1>13. FrameOK(C2, u)
  BY <1>2, <1>3, <1>4, <1>5, <1>12 DEF FrameOK, Puts, IsCell
<1>14. \A i \in 1..N : i = N \/ i \in 1..(N - 1)
  OBVIOUS
<1>15. \A i \in 1..Len(F2) : FrameOK(C2, F2[i])
  BY <1>6, <1>11, <1>a, <1>13, <1>14
<1>16. \A i \in 1..N : F2[i].list = F[i].list
  BY <1>1, <1>a, <1>2, <1>3, <1>6, <1>12, <1>14
<1>17. \A i, j \in 1..Len(F2) : F2[i].list = F2[j].list => i = j
  BY <1>1, <1>6, <1>16 DEF Struct
<1> QED BY <1>5, <1>6, <1>9, <1>15, <1>17 DEF Struct, Puts

\* The callback g of the page is called.
Calls(F, F2, g) ==
  /\ F2 \in Seq(Frames) /\ Len(F2) = Len(F) /\ \A i \in 1..(Len(F) - 1) : F2[i] = F[i]
  /\ F2[Len(F)] = [list |-> F[Len(F)].list, value |-> F[Len(F)].value, in |-> g]

\* The last fire calls a callback of the page or of pipe.
LEMMA CallIs ==
  ASSUME DeferredAssumption, Struct(cb, fires), Call, NextCallback.do \in {"page", "piped"}
  PROVE  /\ fires # <<>> /\ TopFire.in = NoCallback /\ TopC.index < TopC.length /\ cb' = cb
         /\ NextCallback \in PageTasks \cup JoinTasks /\ Calls(fires, fires', NextCallback)
<1>1. fires # <<>> /\ TopFire.in = NoCallback /\ TopC.on /\ TopC.index < TopC.length /\ cb' = cb
  BY DEF Call, Looping
<1>2. PICK N \in Nat : N = Len(fires) /\ N >= 1 /\ N \in 1..Len(fires)
  BY <1>1, TopIs
<1>3. PICK t \in Frames : t = fires[N] /\ t.list \in Lists /\ t.value \in Nat /\ t = TopFire
  BY <1>1, <1>2, TopIs DEF TopFire, Last
<1>4. PICK l \in Lists : l = t.list
  BY <1>3
<1>5. PICK c \in Cells : c = cb[l] /\ CellOK(l, c) /\ c = TopC /\ c.firing
  BY <1>1, <1>2, <1>3, <1>4, TopIs DEF TopC, FrameOK
<1>6. PICK g : g = NextCallback /\ g = c.list[c.index + 1]
  BY <1>5 DEF NextCallback
<1>7. g \in Tasks
  <2>1. c.index \in Nat /\ c.length = Len(c.list) /\ c.index < c.length /\ c.list \in Seq(Tasks)
    BY <1>1, <1>5, CellFields DEF CellOK
  <2>2. c.index + 1 \in 1..Len(c.list)
    BY <2>1
  <2> QED BY <1>6, <2>1, <2>2
<1>8. g \in PageTasks \cup JoinTasks
  BY <1>6, <1>7, OwnDo DEF Tasks
<1>9. PICK u : u = [t EXCEPT !.in = g]
  OBVIOUS
<1>10. u = [list |-> t.list, value |-> t.value, in |-> g] /\ u \in Frames
  BY <1>8, <1>9 DEF Frames
<1>11. fires' = [fires EXCEPT ![N] = u]
  BY <1>2, <1>3, <1>6, <1>9 DEF Call
<1>12. Calls(fires, fires', g)
  BY <1>2, <1>3, <1>10, <1>11 DEF Calls, Struct
<1> QED BY <1>1, <1>6, <1>8, <1>12

\* Such a call only names the callback that runs.
LEMMA CallKeeps ==
  ASSUME NEW C, NEW F, NEW F2, NEW g \in PageTasks \cup JoinTasks, Struct(C, F), F # <<>>,
         Calls(F, F2, g), C[F[Len(F)].list].index < C[F[Len(F)].list].length,
         g = C[F[Len(F)].list].list[C[F[Len(F)].list].index + 1]
  PROVE  Struct(C, F2)
<1>1. PICK N \in Nat : N = Len(F) /\ N >= 1 /\ N \in 1..Len(F)
  BY TopIs
<1>2. PICK t \in Frames : t = F[N] /\ FrameOK(C, t)
  BY <1>1, TopIs
<1>3. PICK u : u = [list |-> t.list, value |-> t.value, in |-> g]
  OBVIOUS
<1>4. u.list = t.list /\ u.value = t.value /\ u.in = g
  BY <1>3
<1>5. F2 \in Seq(Frames) /\ Len(F2) = N /\ F2[N] = u /\ \A i \in 1..(N - 1) : F2[i] = F[i]
  BY <1>1, <1>2, <1>3 DEF Calls
<1>6. FrameOK(C, u)
  BY <1>1, <1>2, <1>4 DEF FrameOK
<1>7. \A i \in 1..N : i = N \/ (i \in 1..(N - 1) /\ F2[i] = F[i])
  BY <1>5
<1>8. \A i \in 1..N : FrameOK(C, F2[i])
  BY <1>1, <1>5, <1>6, <1>7, FramesAre
<1>9. \A i \in 1..N : F2[i].list = F[i].list
  BY <1>1, <1>2, <1>4, <1>5, <1>7
<1>10. \A i, j \in 1..N : F2[i].list = F2[j].list => i = j
  BY <1>1, <1>9 DEF Struct
<1> QED BY <1>5, <1>8, <1>10 DEF Struct

\* The end of a fire: the next notification of the stack is fired,
Restarts(C, F, C2, F2) ==
  LET l == F[Len(F)].list
  IN  /\ l[2] = "progress" /\ C[l].stack # <<>>
      /\ F2 \in Seq(Frames) /\ Len(F2) = Len(F) /\ \A i \in 1..(Len(F) - 1) : F2[i] = F[i]
      /\ F2[Len(F)] = FireOf(l, Head(C[l].stack))
      /\ \E n \in Cells :
           /\ Puts(C, C2, l, n)
           /\ IsCell(n, C[l].list, C[l].on, Tail(C[l].stack), C[l].open, Head(C[l].stack), TRUE, 0,
                     Len(C[l].list))

\* or the frame goes, and a list that fires once drops its callbacks.
Pops(C, F, C2, F2) ==
  LET l == F[Len(F)].list
  IN  /\ C[l].stack = <<>>
      /\ F2 \in Seq(Frames) /\ Len(F2) = Len(F) - 1 /\ \A i \in 1..(Len(F) - 1) : F2[i] = F[i]
      /\ \E n \in Cells :
           /\ Puts(C, C2, l, n)
           /\ IsCell(n, IF l[2] = "progress" THEN C[l].list ELSE <<>>, C[l].on, <<>>, C[l].open,
                     C[l].memory, FALSE, C[l].index, C[l].length)

\* The end of a fire, as what it makes of the list and the fires.
LEMMA EndIs ==
  ASSUME DeferredAssumption, Struct(cb, fires), EndFire
  PROVE  /\ fires # <<>> /\ TopFire.in = NoCallback /\ TopC.index = TopC.length
         /\ Restarts(cb, fires, cb', fires') \/ Pops(cb, fires, cb', fires')
<1>1. fires # <<>> /\ TopFire.in = NoCallback /\ ~Looping
  BY DEF EndFire
<1>2. PICK N \in Nat : N = Len(fires) /\ N >= 1 /\ N \in 1..Len(fires)
  BY <1>1, TopIs
<1>3. PICK t \in Frames : t = fires[N] /\ t.list \in Lists /\ t.value \in Nat /\ t = TopFire
  BY <1>1, <1>2, TopIs DEF TopFire, Last
<1>4. PICK l \in Lists : l = t.list
  BY <1>3
<1>5. PICK c \in Cells : c = cb[l] /\ CellOK(l, c) /\ c = TopC /\ c.firing
  BY <1>1, <1>2, <1>3, <1>4, TopIs DEF TopC, FrameOK
<1>6. /\ c.index \in Nat /\ c.length \in Nat /\ c.list \in Seq(Tasks) /\ c.stack \in Seq(Nat)
      /\ c.on \in BOOLEAN /\ c.open \in BOOLEAN /\ c.memory \in Nat \cup {NoValue}
  BY CellFields
<1>7. c.on /\ c.index = c.length /\ c.memory \in Nat
  BY <1>1, <1>5, <1>6 DEF CellOK, Looping
<1>8. PICK k : k = [c EXCEPT !.firing = FALSE]
  OBVIOUS
<1>9. IsCell(k, c.list, c.on, c.stack, c.open, c.memory, FALSE, c.index, c.length)
  BY <1>8 DEF Cells, IsCell
<1>10. Has(l, "once") <=> l[2] # "progress"
  BY FlagsAre
<1>11. /\ IF k.on /\ ~Has(l, "once") /\ k.stack # <<>>
          THEN /\ cb' = [cb EXCEPT ![l] = Started(l, [k EXCEPT !.stack = Tail(@)], Head(k.stack), 0)]
               /\ fires' = [fires EXCEPT ![N] = FireOf(l, Head(k.stack))]
          ELSE /\ cb' = [cb EXCEPT ![l] = CASE ~k.on \/ ~Has(l, "once") -> k
                                            [] k.memory = Plain         -> Disabled(k)
                                            [] OTHER                    -> [k EXCEPT !.list = <<>>]]
               /\ fires' = Front(fires)
  BY <1>2, <1>3, <1>4, <1>5, <1>8 DEF EndFire
<1>12. CASE l[2] = "progress" /\ c.stack # <<>>
  <2>1. PICK s : s = [k EXCEPT !.stack = Tail(@)]
    OBVIOUS
  <2>2. Tail(c.stack) \in Seq(Nat) /\ Head(c.stack) \in Nat
    BY <1>6, <1>12
  <2>3. IsCell(s, c.list, c.on, Tail(c.stack), c.open, c.memory, FALSE, c.index, c.length)
    BY <1>9, <2>1, <2>2 DEF Cells, IsCell
  <2>4. PICK v \in Nat : v = Head(c.stack)
    BY <2>2
  <2>5. PICK n : n = Started(l, s, v, 0)
    OBVIOUS
  <2>6. s \in Cells
    BY <2>3 DEF IsCell
  <2>7. IsCell(n, s.list, s.on, s.stack, s.open, v, TRUE, 0, Len(s.list))
    BY <2>5, <2>6, StartedIs
  <2>8. IsCell(n, c.list, c.on, Tail(c.stack), c.open, Head(c.stack), TRUE, 0, Len(c.list)) /\ n \in Cells
    BY <2>3, <2>4, <2>7 DEF IsCell
  <2>9. cb' = [cb EXCEPT ![l] = n]
    BY <1>7, <1>9, <1>10, <1>11, <1>12, <2>1, <2>4, <2>5 DEF IsCell
  <2>10. Puts(cb, cb', l, n)
    BY <2>8, <2>9 DEF Puts, Struct
  <2>11. PICK u \in Frames : u = FireOf(l, v)
    BY DEF FireOf, Frames
  <2>12. fires' = [fires EXCEPT ![N] = u]
    BY <1>7, <1>9, <1>10, <1>11, <1>12, <2>4, <2>11 DEF IsCell
  <2>13. /\ fires' \in Seq(Frames) /\ Len(fires') = N /\ fires'[N] = u
         /\ \A i \in 1..(N - 1) : fires'[i] = fires[i]
    BY <1>2, <2>11, <2>12 DEF Struct
  <2>14. Restarts(cb, fires, cb', fires')
    BY <1>2, <1>3, <1>4, <1>5, <1>12, <2>4, <2>8, <2>10, <2>11, <2>13 DEF Restarts
  <2> QED BY <1>1, <1>5, <1>7, <2>14
<1>13. CASE ~(l[2] = "progress" /\ c.stack # <<>>)
  <2>1. c.stack = <<>>
    BY <1>5, <1>13 DEF CellOK
  <2>2. PICK n : n = IF l[2] = "progress" THEN k ELSE [k EXCEPT !.list = <<>>]
    OBVIOUS
  <2>3. <<>> \in Seq(Tasks)
    OBVIOUS
  <2>4. IsCell(n, IF l[2] = "progress" THEN c.list ELSE <<>>, c.on, <<>>, c.open, c.memory, FALSE,
               c.index, c.length)
    <3>1. CASE l[2] = "progress"
      BY <1>9, <2>1, <2>2, <3>1 DEF IsCell
    <3>2. CASE l[2] # "progress"
      <4>1. n = [k EXCEPT !.list = <<>>]
        BY <2>2, <3>2
      <4>2. IsCell(n, <<>>, c.on, <<>>, c.open, c.memory, FALSE, c.index, c.length)
        BY <1>9, <2>1, <2>3, <4>1 DEF Cells, IsCell
      <4> QED BY <3>2, <4>2
    <3> QED BY <3>1, <3>2
  <2>5. k.memory # Plain
    BY <1>7, <1>9 DEF IsCell, DeferredAssumption
  <2>6. cb' = [cb EXCEPT ![l] = n] /\ fires' = Front(fires)
    BY <1>9, <1>10, <1>11, <1>13, <2>2, <2>5, <1>7 DEF IsCell
  <2>7. Puts(cb, cb', l, n) /\ n \in Cells
    BY <2>4, <2>6 DEF Puts, Struct, IsCell
  <2>8. /\ fires' \in Seq(Frames) /\ Len(fires') = N - 1
        /\ \A i \in 1..(N - 1) : fires'[i] = fires[i]
    BY <1>2, <2>6 DEF Struct, Front
  <2>9. Pops(cb, fires, cb', fires')
    BY <1>2, <1>3, <1>4, <1>5, <2>1, <2>4, <2>7, <2>8 DEF Pops
  <2> QED BY <1>1, <1>5, <1>7, <2>9
<1> QED BY <1>12, <1>13

\* The next notification of the stack is fired.
LEMMA RestartKeeps ==
  ASSUME NEW C, NEW F, NEW C2, NEW F2, NoValue \notin Nat, Struct(C, F), F # <<>>,
         Restarts(C, F, C2, F2)
  PROVE  Struct(C2, F2)
<1>1. PICK N \in Nat : N = Len(F) /\ N >= 1 /\ N \in 1..Len(F)
  BY TopIs
<1>2. PICK l \in Lists : l = F[N].list
  BY <1>1, TopIs
<1>3. PICK c \in Cells : c = C[l] /\ CellOK(l, c) /\ c.firing
  BY <1>1, <1>2, TopIs DEF FrameOK
<1>4. PICK n \in Cells :
        /\ Puts(C, C2, l, n)
        /\ IsCell(n, c.list, c.on, Tail(c.stack), c.open, Head(c.stack), TRUE, 0, Len(c.list))
  BY <1>1, <1>2, <1>3 DEF Restarts
<1>5. /\ l[2] = "progress" /\ F2 \in Seq(Frames) /\ Len(F2) = N
      /\ \A i \in 1..(N - 1) : F2[i] = F[i]
      /\ F2[N] = FireOf(l, Head(c.stack))
  BY <1>1, <1>2, <1>3 DEF Restarts
<1>6. Head(c.stack) \in Nat /\ Len(c.list) \in Nat
  <2>1. c.stack \in Seq(Nat) /\ c.stack # <<>> /\ c.list \in Seq(Tasks)
    BY <1>1, <1>2, <1>3, CellFields DEF Restarts
  <2> QED BY <2>1
<1>7. CellOK(l, n)
  <2>1. Elements(l, n)
    BY <1>3, <1>4 DEF CellOK, Elements, Prefixed, IsCell
  <2> QED BY <1>3, <1>4, <1>5, <1>6, <2>1 DEF CellOK, IsCell
<1>8. \A x \in Lists : CellOK(x, C2[x])
  BY <1>4, <1>7 DEF Puts, Struct
<1>9. PICK u : u = FireOf(l, Head(c.stack))
  OBVIOUS
<1>10. u.list = l /\ u.value = Head(c.stack) /\ u.in = NoCallback
  BY <1>9 DEF FireOf
<1>11. FrameOK(C2, u)
  BY <1>4, <1>10 DEF FrameOK, Puts, IsCell
<1>12. \A i \in 1..N : i = N \/ (i \in 1..(N - 1) /\ F2[i] = F[i])
  BY <1>5
<1>13. \A i \in 1..(N - 1) : F[i].list # l
  BY <1>1, <1>2 DEF Struct
<1>14. \A i \in 1..(N - 1) : i \in 1..Len(F) /\ F[i].list \in Lists /\ FrameOK(C, F[i])
  BY <1>1, FramesAre
<1>15. \A i \in 1..(N - 1) : FrameOK(C2, F2[i])
  BY <1>4, <1>5, <1>13, <1>14 DEF FrameOK, Puts
<1>16. \A i \in 1..N : FrameOK(C2, F2[i])
  BY <1>5, <1>9, <1>11, <1>12, <1>15
<1>17. \A i \in 1..N : F2[i].list = F[i].list
  BY <1>2, <1>5, <1>9, <1>10, <1>12
<1>18. \A i, j \in 1..N : F2[i].list = F2[j].list => i = j
  BY <1>1, <1>17 DEF Struct
<1> QED BY <1>4, <1>5, <1>8, <1>16, <1>18 DEF Struct, Puts

\* A fire ends and leaves its list.
LEMMA PopKeeps ==
  ASSUME NEW C, NEW F, NEW C2, NEW F2, Struct(C, F), F # <<>>, Pops(C, F, C2, F2)
  PROVE  Struct(C2, F2)
<1>1. PICK N \in Nat : N = Len(F) /\ N >= 1 /\ N \in 1..Len(F)
  BY TopIs
<1>2. PICK l \in Lists : l = F[N].list
  BY <1>1, TopIs
<1>3. PICK c \in Cells : c = C[l] /\ CellOK(l, c) /\ c.firing
  BY <1>1, <1>2, TopIs DEF FrameOK
<1>4. PICK n \in Cells :
        /\ Puts(C, C2, l, n)
        /\ IsCell(n, IF l[2] = "progress" THEN c.list ELSE <<>>, c.on, <<>>, c.open, c.memory,
                  FALSE, c.index, c.length)
  BY <1>1, <1>2, <1>3 DEF Pops
<1>5. /\ F2 \in Seq(Frames) /\ Len(F2) = N - 1 /\ \A i \in 1..(N - 1) : F2[i] = F[i]
  BY <1>1, <1>2, <1>3 DEF Pops
<1>6. CellOK(l, n)
  <2>1. Elements(l, n)
    BY <1>3, <1>4 DEF CellOK, Elements, Prefixed, IsCell
  <2> QED BY <1>3, <1>4, <2>1 DEF CellOK, IsCell
<1>7. \A x \in Lists : CellOK(x, C2[x])
  BY <1>4, <1>6 DEF Puts, Struct
<1>8. \A i \in 1..(N - 1) : F[i].list # l
  BY <1>1, <1>2 DEF Struct
<1>9. \A i \in 1..(N - 1) : i \in 1..Len(F) /\ F[i].list \in Lists /\ FrameOK(C, F[i])
  BY <1>1, FramesAre
<1>10. \A i \in 1..(N - 1) : FrameOK(C2, F2[i])
  BY <1>4, <1>5, <1>8, <1>9 DEF FrameOK, Puts
<1>11. \A i, j \in 1..(N - 1) : F2[i].list = F2[j].list => i = j
  BY <1>1, <1>5 DEF Struct
<1> QED BY <1>4, <1>5, <1>7, <1>10, <1>11 DEF Struct, Puts

\* The fires under the code that catches an exception.
LEMMA ThrowKeeps ==
  ASSUME NEW C, NEW F, NEW n \in 0..(Len(F) - 1), Struct(C, F)
  PROVE  Struct(C, SubSeq(F, 1, n))
<1>1. F \in Seq(Frames) /\ n <= Len(F) /\ n \in Nat /\ Len(F) \in Nat
  BY DEF Struct
<1>2. PICK F2 : F2 = SubSeq(F, 1, n)
  OBVIOUS
<1>3. F2 \in Seq(Frames) /\ Len(F2) = n
  BY <1>1, <1>2
<1>4. \A i \in 1..n : F2[i] = F[i] /\ i \in 1..Len(F)
  BY <1>1, <1>2
<1>5. \A i \in 1..n : FrameOK(C, F2[i])
  BY <1>4 DEF Struct
<1>6. \A i, j \in 1..n : F2[i].list = F2[j].list => i = j
  BY <1>4 DEF Struct
<1> QED BY <1>2, <1>3, <1>5, <1>6 DEF Struct

\* add, whatever the list is doing.
LEMMA AddsKeeps ==
  ASSUME DeferredAssumption, NEW C, NEW F, NEW C2, NEW F2, NEW l \in Lists, NEW f \in Guests(l),
         Struct(C, F), Adds(C, F, C2, F2, l, f)
  PROVE  Struct(C2, F2)
<1>1. PICK c \in Cells : c = C[l] /\ CellOK(l, c)
  BY DEF Struct
<1>2. CASE ~C[l].on /\ C2 = C /\ F2 = F
  BY <1>2
<1>3. CASE C[l].on /\ F2 = F /\ \E n \in Cells : Lengthens(C[l], n, f) /\ Puts(C, C2, l, n)
  <2>1. PICK n \in Cells : Lengthens(c, n, f) /\ Puts(C, C2, l, n)
    BY <1>1, <1>3
  <2>2. CellOK(l, n) /\ Extends(c, n)
    BY <1>1, <1>3, <2>1, LengthensKeeps DEF Lengthens
  <2> QED BY <1>1, <1>3, <2>1, <2>2, PutKeeps
<1>4. CASE /\ C[l].on /\ F2 = Append(F, FireOf(l, C[l].memory))
           /\ \E n \in Cells : Resumes(C[l], n, f) /\ Puts(C, C2, l, n)
  <2>1. PICK n \in Cells : Resumes(c, n, f) /\ Puts(C, C2, l, n)
    BY <1>1, <1>4
  <2>2. CellOK(l, n)
    BY <1>1, <1>4, <2>1, ResumesKeeps
  <2>3. c.memory \in Nat /\ ~c.firing /\ n.firing /\ n.memory = c.memory
    BY <2>1, CellFields DEF Resumes, IsCell
  <2> QED BY <1>1, <1>4, <2>1, <2>2, <2>3, PushKeeps
<1> QED BY <1>2, <1>3, <1>4 DEF Adds

\* A fire of a list that is open, begun or not.
LEMMA FiresOnKeeps ==
  ASSUME DeferredAssumption, NEW C, NEW F, NEW C2, NEW F2, NEW l \in Lists, NEW v \in Nat,
         Struct(C, F), FiresOn(C, F, C2, F2, l, v)
  PROVE  Struct(C2, F2)
<1>1. PICK c \in Cells : c = C[l] /\ CellOK(l, c)
  BY DEF Struct
<1>2. CASE C2 = C /\ F2 = F
  BY <1>2
<1>3. CASE /\ C[l].open /\ ~C[l].firing /\ F2 = Append(F, FireOf(l, v))
           /\ \E n \in Cells : Begins(C[l], n, v) /\ Puts(C, C2, l, n)
  <2>1. PICK n \in Cells : Begins(c, n, v) /\ Puts(C, C2, l, n)
    BY <1>1, <1>3
  <2>2. c.on /\ ~c.firing
    BY <1>1, <1>3 DEF CellOK
  <2>3. CellOK(l, n)
    BY <1>1, <2>1, <2>2, BeginsKeeps DEF DeferredAssumption
  <2>4. n.firing /\ n.memory = v
    BY <2>1 DEF Begins, IsCell
  <2> QED BY <1>1, <1>3, <2>1, <2>3, <2>4, PushKeeps
<1>4. CASE /\ C[l].firing /\ l[2] = "progress" /\ F2 = F
           /\ \E n \in Cells : Stacks(C[l], n, v) /\ Puts(C, C2, l, n)
  <2>1. PICK n \in Cells : Stacks(c, n, v) /\ Puts(C, C2, l, n)
    BY <1>1, <1>4
  <2>2. CellOK(l, n) /\ Extends(c, n)
    BY <1>1, <1>4, <2>1, StacksKeeps
  <2> QED BY <1>1, <1>4, <2>1, <2>2, PutKeeps
<1> QED BY <1>2, <1>3, <1>4 DEF FiresOn
-----------------------------------------------------------------------------
(* How deferreds settle *)

\* The lists of both outcomes of a deferred.
LEMMA RivalIs ==
  ASSUME DeferredAssumption, NEW l \in Outcomes
  PROVE  /\ l \in Lists /\ l[2] # "progress" /\ Rival(l) \in Outcomes /\ Rival(l) \in Lists
         /\ Rival(Rival(l)) = l /\ Rival(l) # l /\ Rival(l)[1] = l[1]
         /\ Outcome(Rival(l)[2]) # Outcome(l[2])
         /\ \A x \in Outcomes : x[1] = l[1] => x = l \/ x = Rival(l)
<1>1. l \in Deferreds \X Kinds /\ l[2] # "progress"
  BY DEF DeferredAssumption, Outcomes
<1>2. PICK d \in Deferreds, k \in {"done", "fail"} : l = <<d, k>>
  BY <1>1 DEF Kinds
<1>3. \A x \in Outcomes : \E e \in Deferreds, k2 \in {"done", "fail"} : x = <<e, k2>>
  BY DEF DeferredAssumption, Outcomes, Kinds
<1>4. Rival(l) = <<d, Other(k)>> /\ Other(k) \in {"done", "fail"} /\ Other(k) # k
      /\ Other(Other(k)) = k /\ Outcome(Other(k)) # Outcome(k)
  BY <1>2 DEF Rival, Other, Outcome
<1>5. <<d, Other(k)>> \in Lists
  BY <1>4 DEF DeferredAssumption, Kinds
<1>6. Rival(l) \in Outcomes
  BY <1>4, <1>5 DEF Outcomes
<1>7. Rival(Rival(l)) = l
  BY <1>2, <1>4 DEF Rival
<1>8. Rival(l) # l
  BY <1>2, <1>4
<1>9. \A x \in Outcomes : x[1] = l[1] => x = l \/ x = Rival(l)
  BY <1>2, <1>3, <1>4
<1> QED BY <1>2, <1>4, <1>5, <1>6, <1>7, <1>8, <1>9 DEF Outcomes

\* What the outcomes of deferreds depend on.
SteadyCell(l, c, n) ==
  /\ n.on = c.on /\ n.memory = c.memory
  /\ n.firing /\ Prefixed(l, n) => c.firing /\ Prefixed(l, c) /\ c.index <= n.index

Steady(C, C2) == \A x \in Outcomes : SteadyCell(x, C[x], C2[x])

\* A change of one list disturbs the outcomes no more than that list.
LEMMA PutSteady ==
  ASSUME NEW C \in [Lists -> Cells], NEW C2, NEW l \in Lists, NEW n \in Cells,
         Puts(C, C2, l, n), l[2] # "progress" => SteadyCell(l, C[l], n)
  PROVE  Steady(C, C2)
<1>1. ASSUME NEW x \in Outcomes
      PROVE  SteadyCell(x, C[x], C2[x])
  <2>1. x \in Lists /\ x[2] # "progress"
    BY DEF Outcomes
  <2>2. CASE x = l
    BY <2>1, <2>2 DEF Puts
  <2>3. CASE x # l
    <3>1. C2[x] = C[x] /\ C[x] \in Cells
      BY <2>1, <2>3 DEF Puts
    <3>2. C[x].index \in Nat
      BY <3>1, CellFields
    <3> QED BY <3>1, <3>2 DEF SteadyCell
  <2> QED BY <2>2, <2>3
<1> QED BY <1>1 DEF Steady

\* What is known of the outcomes stays when none fires and none is disabled.
LEMMA SteadyKeeps ==
  ASSUME DeferredAssumption, NEW C \in [Lists -> Cells], NEW C2 \in [Lists -> Cells],
         NEW st, NEW ca, Steady(C, C2)
  PROVE  /\ Agree(C, st) => Agree(C2, st)
         /\ Calm(C, st) => Calm(C2, st)
         /\ CalledOnce(C, ca) => CalledOnce(C2, ca)
<1>1. ASSUME NEW l \in Outcomes
      PROVE  /\ C2[l].on = C[l].on /\ C2[l].memory = C[l].memory
             /\ C2[Rival(l)].on = C[Rival(l)].on /\ C2[Rival(l)].memory = C[Rival(l)].memory
             /\ Fired(C2, l) = Fired(C, l) /\ Fired(C2, Rival(l)) = Fired(C, Rival(l))
  BY RivalIs DEF Steady, SteadyCell, Fired
<1>2. ASSUME NEW l \in Outcomes, HasSettled(C, st, l)
      PROVE  HasSettled(C2, st, l)
  <2>1. l \in Lists
    BY DEF Outcomes
  <2>2. C[l].index \in Nat /\ C2[l].index \in Nat
    BY <2>1, CellFields
  <2>3. ASSUME Prefixed(l, C2[l]), C2[l].firing
        PROVE  C2[l].index >= 2
    <3>1. C[l].index >= 2 /\ C[l].index <= C2[l].index
      BY <1>2, <2>3 DEF HasSettled, Steady, SteadyCell
    <3> QED BY <2>2, <3>1
  <2> QED BY <1>1, <1>2, <2>3 DEF HasSettled
<1>3. Agree(C, st) => Agree(C2, st)
  BY <1>1 DEF Agree
<1>4. Calm(C, st) => Calm(C2, st)
  BY <1>1, <1>2 DEF Calm
<1>5. CalledOnce(C, ca) => CalledOnce(C2, ca)
  BY <1>1 DEF CalledOnce
<1> QED BY <1>3, <1>4, <1>5

\* add fires no outcome that has not fired.
LEMMA AddsSteady ==
  ASSUME DeferredAssumption, NEW C, NEW F, NEW C2, NEW F2, NEW l \in Lists, NEW f \in Guests(l),
         Struct(C, F), Adds(C, F, C2, F2, l, f)
  PROVE  Steady(C, C2)
<1>1. PICK c \in Cells : c = C[l] /\ CellOK(l, c)
  BY DEF Struct
<1>2. CASE C2 = C
  <2>1. \A x \in Outcomes : C[x].index \in Nat
    BY CellFields DEF Struct, Outcomes
  <2> QED BY <1>2, <2>1 DEF Steady, SteadyCell
<1>3. CASE C[l].on /\ F2 = F /\ \E n \in Cells : Lengthens(C[l], n, f) /\ Puts(C, C2, l, n)
  <2>1. PICK n \in Cells : Lengthens(c, n, f) /\ Puts(C, C2, l, n)
    BY <1>1, <1>3
  <2>2. c.index \in Nat
    BY CellFields
  <2>3. Prefixed(l, n) => Prefixed(l, c)
    BY <1>1, <2>1, ElementsAppend DEF CellOK, Lengthens, IsCell
  <2>4. SteadyCell(l, c, n)
    BY <2>1, <2>2, <2>3 DEF SteadyCell, Lengthens, IsCell
  <2> QED BY <1>1, <2>1, <2>4, PutSteady DEF Struct
<1>4. CASE /\ C[l].on /\ F2 = Append(F, FireOf(l, C[l].memory))
           /\ \E n \in Cells : Resumes(C[l], n, f) /\ Puts(C, C2, l, n)
  <2>1. PICK n \in Cells : Resumes(c, n, f) /\ Puts(C, C2, l, n)
    BY <1>1, <1>4
  <2>2. Prefixed(l, n) => Prefixed(l, c)
    BY <1>1, <2>1, ElementsAppend DEF CellOK, Resumes, IsCell
  <2>3. l[2] # "progress" => c.list = <<>>
    BY <1>1, <1>4, <2>1 DEF CellOK, Resumes
  <2>4. l[2] # "progress" => ~Prefixed(l, c)
    BY <2>3 DEF Prefixed
  <2>5. l[2] # "progress" => SteadyCell(l, c, n)
    BY <2>1, <2>2, <2>4 DEF SteadyCell, Resumes, IsCell
  <2> QED BY <1>1, <2>1, <2>5, PutSteady DEF Struct
<1> QED BY <1>2, <1>3, <1>4 DEF Adds

\* The loop fires no outcome.
LEMMA StepsSteady ==
  ASSUME NEW C, NEW F, NEW C2, NEW F2, Struct(C, F), F # <<>>, Steps(C, F, C2, F2)
  PROVE  Steady(C, C2)
<1>1. PICK l \in Lists : l = F[Len(F)].list
  BY TopIs
<1>2. PICK c \in Cells : c = C[l]
  BY DEF Struct
<1>3. PICK n \in Cells :
        /\ Puts(C, C2, l, n)
        /\ IsCell(n, c.list, c.on, c.stack, c.open, c.memory, c.firing, c.index + 1, c.length)
  BY <1>1, <1>2 DEF Steps
<1>4. c.index \in Nat
  BY CellFields
<1>5. SteadyCell(l, c, n)
  BY <1>3, <1>4 DEF SteadyCell, IsCell, Prefixed
<1> QED BY <1>2, <1>3, <1>5, PutSteady DEF Struct

\* Only progress restarts.
LEMMA RestartsSteady ==
  ASSUME NEW C, NEW F, NEW C2, NEW F2, Struct(C, F), F # <<>>, Restarts(C, F, C2, F2)
  PROVE  Steady(C, C2)
<1>1. PICK l \in Lists : l = F[Len(F)].list
  BY TopIs
<1>2. l[2] = "progress" /\ \E n \in Cells : Puts(C, C2, l, n)
  BY <1>1 DEF Restarts
<1> QED BY <1>2, PutSteady DEF Struct

\* The end of a fire fires no outcome.
LEMMA PopsSteady ==
  ASSUME NEW C, NEW F, NEW C2, NEW F2, Struct(C, F), F # <<>>, Pops(C, F, C2, F2)
  PROVE  Steady(C, C2)
<1>1. PICK l \in Lists : l = F[Len(F)].list
  BY TopIs
<1>2. PICK c \in Cells : c = C[l]
  BY DEF Struct
<1>3. PICK n \in Cells :
        /\ Puts(C, C2, l, n)
        /\ IsCell(n, IF l[2] = "progress" THEN c.list ELSE <<>>, c.on, <<>>, c.open, c.memory,
                  FALSE, c.index, c.length)
  BY <1>1, <1>2 DEF Pops
<1>4. SteadyCell(l, c, n)
  BY <1>3 DEF SteadyCell, IsCell
<1> QED BY <1>2, <1>3, <1>4, PutSteady DEF Struct

\* The next callback of a fire is a guest, or an own callback of a list in its place.
LEMMA NextIs ==
  ASSUME NEW l \in Lists, NEW c \in Cells, CellOK(l, c), c.firing, c.index < c.length
  PROVE  LET g == c.list[c.index + 1]
         IN  \/ g \in Guests(l) /\ (Prefixed(l, c) => c.index >= 3)
             \/ Prefixed(l, c) /\ c.index = 0 /\ g = OwnState(l)
             \/ Prefixed(l, c) /\ c.index = 1 /\ g = OwnDisable(l)
             \/ Prefixed(l, c) /\ c.index = 2 /\ g = OwnLock(l)
<1>1. PICK k \in Nat : k = c.index /\ k + 1 \in 1..Len(c.list) /\ Len(c.list) \in Nat
  BY CellFields DEF CellOK
<1>2. CASE Prefixed(l, c) /\ \A j \in 4..Len(c.list) : c.list[j] \in Guests(l)
  <2>1. k = 0 \/ k = 1 \/ k = 2 \/ (k >= 3 /\ k + 1 \in 4..Len(c.list))
    BY <1>1
  <2> QED BY <1>1, <1>2, <2>1 DEF Prefixed
<1>3. CASE \A j \in 1..Len(c.list) : c.list[j] \in Guests(l)
  <2>1. ASSUME Prefixed(l, c)
        PROVE  FALSE
    <3>1. 1 \in 1..Len(c.list)
      BY <1>1
    <3>2. OwnState(l) \in Guests(l)
      BY <1>3, <2>1, <3>1 DEF Prefixed
    <3> QED BY <3>2, OwnDo DEF Guests
  <2> QED BY <1>1, <1>3, <2>1
<1> QED BY <1>2, <1>3 DEF CellOK, Elements

\* No deferred settles while the page runs or a later callback is called.
LEMMA CalmWhen ==
  ASSUME NEW C, NEW F, NEW st, NEW done, SettlesOrHas(C, F, st, done), C \in [Lists -> Cells],
         \/ ~done \/ F = <<>> \/ F[Len(F)].in # NoCallback
         \/ /\ F[Len(F)].list \in Lists
            /\ Prefixed(F[Len(F)].list, C[F[Len(F)].list]) => C[F[Len(F)].list].index >= 2
  PROVE  Calm(C, st)
<1>1. ASSUME NEW l \in Outcomes, Settling(C, F, st, l), done
      PROVE  FALSE
  <2>1. /\ F # <<>> /\ F[Len(F)].list = l /\ F[Len(F)].in = NoCallback /\ Prefixed(l, C[l])
        /\ C[l].index = 0 \/ C[l].index = 1
    BY <1>1 DEF Settling
  <2>2. C[l].index >= 2
    BY <1>1, <2>1
  <2> QED BY <2>1, <2>2
<1> QED BY <1>1 DEF SettlesOrHas, Calm

\* A fire of an outcome begins to settle its deferred.
LEMMA FiresOnSettles ==
  ASSUME DeferredAssumption, NEW C, NEW F, NEW C2, NEW F2, NEW l \in Lists, NEW v \in Nat,
         NEW st, NEW ca, NEW done, Struct(C, F), FiresOn(C, F, C2, F2, l, v), Agree(C, st),
         Calm(C, st), CalledOnce(C, ca), Len(F2) = Len(F) + 1 => done
  PROVE  Agree(C2, st) /\ SettlesOrHas(C2, F2, st, done) /\ CalledOnce(C2, ca)
<1>1. PICK c \in Cells : c = C[l] /\ CellOK(l, c)
  BY DEF Struct
<1>2. Struct(C2, F2) /\ C \in [Lists -> Cells] /\ C2 \in [Lists -> Cells]
  BY FiresOnKeeps DEF Struct
<1>3. ASSUME Steady(C, C2)
      PROVE  Agree(C2, st) /\ SettlesOrHas(C2, F2, st, done) /\ CalledOnce(C2, ca)
  <2>1. Agree(C2, st) /\ Calm(C2, st) /\ CalledOnce(C2, ca)
    BY <1>2, <1>3, SteadyKeeps
  <2> QED BY <2>1 DEF Calm, SettlesOrHas
<1>4. CASE C2 = C /\ F2 = F
  BY <1>4 DEF Calm, SettlesOrHas
<1>5. CASE l[2] = "progress" /\ \E n \in Cells : Puts(C, C2, l, n)
  BY <1>2, <1>3, <1>5, PutSteady
<1>6. CASE /\ l[2] # "progress" /\ c.open /\ ~c.firing /\ c.memory = NoValue
           /\ F2 = Append(F, FireOf(l, v))
           /\ \E n \in Cells : Begins(c, n, v) /\ Puts(C, C2, l, n)
  <2>1. PICK n \in Cells : Begins(c, n, v) /\ Puts(C, C2, l, n)
    BY <1>6
  <2>2. c.on /\ Prefixed(l, c)
    BY <1>1, <1>6 DEF CellOK
  <2>3. n.on /\ n.memory = v /\ n.firing /\ n.index = 0 /\ Prefixed(l, n)
    BY <2>1, <2>2 DEF Begins, IsCell, Prefixed
  <2>4. C2[l] = n /\ \A x \in Lists : x # l => C2[x] = C[x]
    BY <2>1 DEF Puts
  <2>5. l \in Outcomes /\ v # NoValue /\ ~Fired(C, l) /\ Fired(C2, l)
    BY <1>1, <1>6, <2>3, <2>4 DEF Outcomes, DeferredAssumption, Fired
  <2>6. \A x \in Outcomes : /\ x \in Lists /\ C2[x].on = C[x].on
                            /\ Fired(C, x) => Fired(C2, x) /\ x # l /\ C2[x] = C[x]
                            /\ x # l => C2[x] = C[x]
    <3>1. ASSUME NEW x \in Outcomes
          PROVE  /\ x \in Lists /\ C2[x].on = C[x].on
                 /\ Fired(C, x) => Fired(C2, x) /\ x # l /\ C2[x] = C[x]
                 /\ x # l => C2[x] = C[x]
      <4>1. x \in Lists
        BY DEF Outcomes
      <4>2. CASE x = l
        BY <1>1, <2>1, <2>2, <2>4, <2>5, <4>1, <4>2 DEF Begins, IsCell
      <4>3. CASE x # l
        BY <2>4, <4>1, <4>3 DEF Fired
      <4> QED BY <4>2, <4>3
    <3> QED BY <3>1
  <2>7. C[Rival(l)].on /\ C[Rival(l)].memory = NoValue
    <3>1. Rival(l) \in Outcomes /\ Rival(Rival(l)) = l
      BY <2>5, RivalIs
    <3>2. C[Rival(l)].on
      BY <2>5, <3>1 DEF Agree
    <3>3. ~Fired(C, Rival(l))
      BY <1>1, <2>2, <3>1 DEF Calm, HasSettled
    <3> QED BY <3>2, <3>3 DEF Fired
  <2>8. FireOf(l, v) \in Frames
    BY DEF FireOf, Frames
  <2>9. PICK N \in Nat : N = Len(F2) /\ N = Len(F) + 1 /\ F2[N] = FireOf(l, v) /\ N >= 1
    BY <1>6, <2>8, PushIs DEF Struct
  <2>10. F2 # <<>> /\ F2[Len(F2)].list = l /\ F2[Len(F2)].in = NoCallback
    <3>1. FireOf(l, v).list = l /\ FireOf(l, v).in = NoCallback
      BY DEF FireOf
    <3>2. F2 # <<>>
      <4>1. Len(<<>>) = 0
        OBVIOUS
      <4>2. Len(F2) # 0
        BY <2>9
      <4> QED BY <4>1, <4>2
    <3>3. F2[Len(F2)] = FireOf(l, v)
      BY <2>9
    <3> QED BY <3>1, <3>2, <3>3
  <2>11. Settling(C2, F2, st, l)
    <3>1. Rival(l) \in Lists /\ Rival(l) # l
      BY <2>5, RivalIs
    <3>2. C2[Rival(l)] = C[Rival(l)]
      BY <2>4, <3>1
    <3> QED BY <2>3, <2>4, <2>7, <2>10, <3>2 DEF Settling
  <2>12. \A x \in Outcomes : HasSettled(C, st, x) /\ x # l => HasSettled(C2, st, x)
    BY <2>6, RivalIs DEF HasSettled
  <2>13. SettlesOrHas(C2, F2, st, done)
    <3>1. \A x \in Outcomes : x # l /\ Fired(C2, x) => Fired(C, x)
      BY <2>6 DEF Fired
    <3> QED BY <2>9, <2>11, <2>12, <3>1 DEF SettlesOrHas, Calm
  <2>14. Agree(C2, st)
    BY <2>6, RivalIs DEF Agree
  <2>15. CalledOnce(C2, ca)
    BY <2>6, RivalIs DEF CalledOnce
  <2> QED BY <2>13, <2>14, <2>15
<1> QED BY <1>1, <1>4, <1>5, <1>6 DEF FiresOn

\* The last fire has come to the own callback at k of its list.
AtOwn(C, F, l, k) ==
  /\ F # <<>> /\ F[Len(F)].list = l /\ F[Len(F)].in = NoCallback /\ Prefixed(l, C[l])
  /\ C[l].index = k

\* The first own callback of a list sets the state of its deferred.
LEMMA StateSettles ==
  ASSUME DeferredAssumption, NEW C, NEW F, NEW C2, NEW F2, NEW l \in Outcomes,
         NEW st \in [Deferreds -> States], NEW st2, NEW ca, NEW done, Struct(C, F),
         Steps(C, F, C2, F2), Agree(C, st), SettlesOrHas(C, F, st, done), CalledOnce(C, ca),
         AtOwn(C, F, l, 0), st2 = [st EXCEPT ![l[1]] = Outcome(l[2])]
  PROVE  Agree(C2, st2) /\ SettlesOrHas(C2, F2, st2, done) /\ CalledOnce(C2, ca)
<1> USE DEF AtOwn
<1>1. l \in Lists /\ l[1] \in Deferreds /\ Rival(l) \in Outcomes /\ Rival(l) \in Lists /\ Rival(l) # l
  BY RivalIs DEF DeferredAssumption, Outcomes
<1>2. PICK c \in Cells : c = C[l] /\ CellOK(l, c) /\ c.firing /\ c.memory # NoValue /\ c.on
  BY <1>1, TopIs DEF Struct, FrameOK, CellOK
<1>3. PICK n \in Cells :
        /\ Puts(C, C2, l, n)
        /\ IsCell(n, c.list, c.on, c.stack, c.open, c.memory, c.firing, c.index + 1, c.length)
  BY <1>2 DEF Steps
<1>4. Steady(C, C2) /\ C \in [Lists -> Cells] /\ C2 \in [Lists -> Cells]
  BY <1>3, StepsSteady DEF Struct, Puts
<1>5. CalledOnce(C2, ca)
  BY <1>4, SteadyKeeps
<1>6. ~HasSettled(C, st, l) /\ Fired(C, l)
  BY <1>2 DEF HasSettled, Fired
<1>7. done /\ Settling(C, F, st, l)
  BY <1>6 DEF SettlesOrHas
<1>8. C2[l] = n /\ \A x \in Lists : x # l => C2[x] = C[x]
  BY <1>3 DEF Puts
<1>9. /\ n.on /\ n.memory = c.memory /\ n.firing /\ n.index = 1 /\ Prefixed(l, n)
  BY <1>2, <1>3 DEF IsCell, Prefixed
<1>10. \A x \in Outcomes : Fired(C2, x) <=> Fired(C, x)
  BY <1>4 DEF Steady, SteadyCell, Fired
<1>11. \A x \in Outcomes : C2[x].on <=> C[x].on
  BY <1>4 DEF Steady, SteadyCell
<1>12. F2 # <<>> /\ F2[Len(F2)].list = l /\ F2[Len(F2)].in = NoCallback
  <2>1. Len(F) >= 1 /\ Len(F2) = Len(F) /\ F2[Len(F)] = FireOf(l, F[Len(F)].value)
    BY TopIs DEF Steps
  <2> QED BY <2>1 DEF FireOf
<1>13. st2[l[1]] = Outcome(l[2]) /\ \A d \in Deferreds : d # l[1] => st2[d] = st[d]
  BY <1>1
<1>14. Settling(C2, F2, st2, l)
  BY <1>1, <1>7, <1>8, <1>9, <1>12, <1>13 DEF Settling
<1>15. ASSUME NEW x \in Outcomes, x # l, Fired(C2, x)
       PROVE  HasSettled(C2, st2, x)
  <2>1. ~Settling(C, F, st, x)
    BY <1>15 DEF Settling
  <2>2. HasSettled(C, st, x)
    BY <1>10, <1>15, <2>1 DEF SettlesOrHas
  <2>3. x # Rival(l)
    BY <1>7, <1>10, <1>15 DEF Settling, Fired
  <2>4. x[1] # l[1] /\ x[1] \in Deferreds /\ x \in Lists /\ Rival(x) \in Outcomes
    BY <1>15, <2>3, RivalIs DEF DeferredAssumption
  <2> QED BY <1>8, <1>11, <1>13, <1>15, <2>2, <2>4 DEF HasSettled
<1>16. SettlesOrHas(C2, F2, st2, done)
  BY <1>7, <1>14, <1>15 DEF SettlesOrHas
<1>17. ASSUME NEW x \in Outcomes
       PROVE  /\ ~C2[x].on => Fired(C2, Rival(x))
              /\ st2[x[1]] = Outcome(x[2]) => Fired(C2, x)
  <2>1. ~C2[x].on => Fired(C2, Rival(x))
    BY <1>10, <1>11, RivalIs DEF Agree
  <2>2. CASE x[1] = l[1]
    <3>1. CASE x = l
      BY <1>6, <1>10, <2>1, <3>1
    <3>2. CASE x = Rival(l)
      <4>1. Outcome(x[2]) # Outcome(l[2])
        BY <3>2, RivalIs
      <4> QED BY <1>13, <2>1, <2>2, <4>1
    <3> QED BY <2>2, <3>1, <3>2, RivalIs
  <2>3. CASE x[1] # l[1]
    <3>1. x[1] \in Deferreds
      BY DEF DeferredAssumption, Outcomes
    <3> QED BY <1>10, <1>13, <2>1, <2>3, <3>1 DEF Agree
  <2> QED BY <2>2, <2>3
<1> QED BY <1>5, <1>16, <1>17 DEF Agree

\* The second disables the other outcome.
LEMMA DisableSettles ==
  ASSUME DeferredAssumption, NEW C, NEW F, NEW C1, NEW F2, NEW C2, NEW l \in Outcomes,
         NEW st \in [Deferreds -> States], NEW ca, NEW done, Struct(C, F),
         Steps(C, F, C1, F2), Agree(C, st), SettlesOrHas(C, F, st, done), CalledOnce(C, ca),
         AtOwn(C, F, l, 1),
         NEW k \in Cells, Disables(C1[Rival(l)], k), Puts(C1, C2, Rival(l), k)
  PROVE  /\ C1[Rival(l)].memory = NoValue
         /\ Agree(C2, st) /\ Calm(C2, st) /\ CalledOnce(C2, ca)
<1> USE DEF AtOwn
<1>1. l \in Lists /\ l[1] \in Deferreds /\ Rival(l) \in Outcomes /\ Rival(l) \in Lists /\ Rival(l) # l
  BY RivalIs DEF DeferredAssumption, Outcomes
<1>2. PICK c \in Cells : c = C[l] /\ CellOK(l, c) /\ c.firing /\ c.memory # NoValue /\ c.on
  BY <1>1, TopIs DEF Struct, FrameOK, CellOK
<1>3. PICK n \in Cells :
        /\ Puts(C, C1, l, n)
        /\ IsCell(n, c.list, c.on, c.stack, c.open, c.memory, c.firing, c.index + 1, c.length)
  BY <1>2 DEF Steps
<1>4. ~HasSettled(C, st, l) /\ Fired(C, l)
  BY <1>2 DEF HasSettled, Fired
<1>5. done /\ Settling(C, F, st, l)
  BY <1>4 DEF SettlesOrHas
<1>6. C[Rival(l)].on /\ C[Rival(l)].memory = NoValue /\ st[l[1]] = Outcome(l[2])
  BY <1>5 DEF Settling
<1>7. /\ C2[l] = n /\ C2[Rival(l)] = k /\ C1[Rival(l)] = C[Rival(l)]
      /\ \A x \in Lists : x # l /\ x # Rival(l) => C2[x] = C[x]
  BY <1>1, <1>3 DEF Puts
<1>8. n.on /\ n.memory = c.memory /\ n.index = 2 /\ ~k.on
  BY <1>2, <1>3 DEF IsCell, Disables
<1>9. \A x \in Outcomes : x # Rival(l) => C2[x].on = C[x].on /\ C2[x].memory = C[x].memory
  <2>1. ASSUME NEW x \in Outcomes, x # Rival(l)
        PROVE  C2[x].on = C[x].on /\ C2[x].memory = C[x].memory
    <3>1. CASE x = l
      BY <1>2, <1>3, <1>7, <3>1 DEF IsCell
    <3>2. CASE x # l
      BY <1>7, <2>1, <3>2 DEF Outcomes
    <3> QED BY <3>1, <3>2
  <2> QED BY <2>1
<1>10. \A x \in Outcomes : /\ Fired(C2, x) <=> Fired(C, x)
                           /\ Fired(C, x) => x # Rival(l)
  BY <1>6, <1>7, <1>8, <1>9 DEF Fired
<1>11. HasSettled(C2, st, l)
  BY <1>6, <1>7, <1>8 DEF HasSettled
<1>12. ASSUME NEW x \in Outcomes, Fired(C2, x), x # l
       PROVE  HasSettled(C2, st, x)
  <2>1. ~Settling(C, F, st, x)
    BY <1>12 DEF Settling
  <2>2. HasSettled(C, st, x) /\ x # Rival(l)
    BY <1>10, <1>12, <2>1 DEF SettlesOrHas
  <2>3. x \in Lists /\ Rival(x) \in Outcomes /\ Rival(x) # Rival(l)
    <3>1. x = Rival(Rival(x)) /\ l = Rival(Rival(l))
      BY RivalIs
    <3> QED BY <1>12, <3>1, RivalIs
  <2>4. C2[x] = C[x] /\ ~C2[Rival(x)].on
    BY <1>7, <1>9, <1>12, <2>2, <2>3 DEF HasSettled
  <2> QED BY <2>2, <2>4 DEF HasSettled
<1>13. Calm(C2, st)
  BY <1>11, <1>12 DEF Calm
<1>14. ASSUME NEW x \in Outcomes
       PROVE  /\ ~C2[x].on => Fired(C2, Rival(x))
              /\ st[x[1]] = Outcome(x[2]) => Fired(C2, x)
  <2>1. Rival(x) \in Outcomes /\ Rival(Rival(l)) = l
    BY RivalIs
  <2>2. CASE x = Rival(l)
    BY <1>4, <1>6, <1>10, <2>1, <2>2, RivalIs DEF Agree
  <2>3. CASE x # Rival(l)
    BY <1>9, <1>10, <2>1, <2>3 DEF Agree
  <2> QED BY <2>2, <2>3
<1>15. CalledOnce(C2, ca)
  <2>1. ASSUME NEW x \in Outcomes, NEW i \in 1..Len(ca[x])
        PROVE  Fired(C2, x) /\ ~C2[Rival(x)].on /\ ca[x][i][2] = C2[x].memory
    <3>1. Fired(C, x) /\ ~C[Rival(x)].on /\ ca[x][i][2] = C[x].memory
      BY DEF CalledOnce
    <3>2. Rival(x) \in Outcomes /\ x # Rival(l)
      BY <1>10, <3>1, RivalIs
    <3>3. ~C2[Rival(x)].on
      BY <1>7, <1>8, <1>9, <3>1, <3>2
    <3> QED BY <1>9, <1>10, <3>1, <3>2, <3>3
  <2> QED BY <2>1 DEF CalledOnce
<1> QED BY <1>6, <1>7, <1>13, <1>14, <1>15 DEF Agree
-----------------------------------------------------------------------------
(* The order of the callbacks *)

\* The fire of a list decides what it does.
LEMMA ModeIs ==
  ASSUME NEW C, NEW F, Struct(C, F), NEW l \in Lists
  PROVE  /\ Mode(F, l) \in {"loops", "calls", "none"}
         /\ Mode(F, l) # "none" => C[l].firing
         /\ Mode(F, l) = "calls" => C[l].index < C[l].length
<1>1. \A i \in 1..Len(F) : FrameOK(C, F[i])
  BY FramesAre
<1> QED BY <1>1 DEF Mode, FrameOK

\* The last fire decides what its list does.
LEMMA ModeTop ==
  ASSUME NEW C, NEW F, Struct(C, F), F # <<>>
  PROVE  Mode(F, F[Len(F)].list) = IF F[Len(F)].in = NoCallback THEN "loops" ELSE "calls"
<1>1. PICK N \in Nat : N = Len(F) /\ N \in 1..Len(F)
  BY TopIs
<1>2. \A i \in 1..Len(F) : F[i].list = F[N].list => i = N
  BY <1>1 DEF Struct
<1> QED BY <1>1, <1>2 DEF Mode

\* The last frame is replaced by one of the same list.
LEMMA ModeReplaced ==
  ASSUME NEW C, NEW F, NEW F2, Struct(C, F), F # <<>>, Len(F2) = Len(F),
         \A i \in 1..(Len(F) - 1) : F2[i] = F[i], F2[Len(F)].list = F[Len(F)].list
  PROVE  /\ Mode(F2, F[Len(F)].list) = IF F2[Len(F)].in = NoCallback THEN "loops" ELSE "calls"
         /\ \A x \in Lists : x # F[Len(F)].list => Mode(F2, x) = Mode(F, x)
<1>1. PICK N \in Nat : N = Len(F) /\ N \in 1..Len(F)
  BY TopIs
<1>2. \A i \in 1..N : F[i].list = F[N].list => i = N
  BY <1>1 DEF Struct
<1>3. \A i \in 1..N : i = N \/ F2[i] = F[i]
  BY <1>1
<1>4. \A i \in 1..N : F2[i].list = F[N].list => i = N
  BY <1>1, <1>2, <1>3
<1>5. Mode(F2, F[N].list) = IF F2[N].in = NoCallback THEN "loops" ELSE "calls"
  BY <1>1, <1>4 DEF Mode
<1>6. \A x \in Lists : x # F[N].list => Mode(F2, x) = Mode(F, x)
  BY <1>1, <1>3 DEF Mode
<1> QED BY <1>1, <1>5, <1>6

Pushes(C, F, F2, l, v) == ~C[l].firing /\ F2 = Append(F, FireOf(l, v))

\* A fire that begins changes what its own list does.
LEMMA ModePush ==
  ASSUME NEW C, NEW F, NEW F2, NEW l \in Lists, NEW v \in Nat, Struct(C, F),
         Pushes(C, F, F2, l, v)
  PROVE  /\ Mode(F, l) = "none" /\ Mode(F2, l) = "loops"
         /\ \A x \in Lists : x # l => Mode(F2, x) = Mode(F, x)
<1>1. PICK f \in Frames : f = FireOf(l, v)
  BY DEF Frames, FireOf
<1>2. f.list = l /\ f.in = NoCallback
  BY <1>1 DEF FireOf
<1>3. /\ Len(F2) = Len(F) + 1 /\ F2[Len(F) + 1] = f /\ Len(F) \in Nat
      /\ \A i \in 1..Len(F) : F2[i] = F[i] /\ i \in 1..Len(F2)
      /\ \A i \in 1..Len(F2) : i \in 1..Len(F) \/ i = Len(F) + 1
      /\ Len(F) + 1 \in 1..Len(F2)
  BY <1>1, PushIs DEF Struct, Pushes
<1>4. Mode(F, l) = "none"
  BY ModeIs DEF Pushes
<1>5. Mode(F2, l) = "loops"
  BY <1>2, <1>3 DEF Mode
<1>6. \A x \in Lists : x # l => Mode(F2, x) = Mode(F, x)
  BY <1>2, <1>3 DEF Mode
<1> QED BY <1>4, <1>5, <1>6

\* A fire that ends leaves its list only.
LEMMA ModePops ==
  ASSUME NEW C, NEW F, NEW C2, NEW F2, Struct(C, F), F # <<>>, Pops(C, F, C2, F2)
  PROVE  /\ Mode(F2, F[Len(F)].list) = "none"
         /\ \A x \in Lists : x # F[Len(F)].list => Mode(F2, x) = Mode(F, x)
<1>1. PICK N \in Nat : N = Len(F) /\ N \in 1..Len(F)
  BY TopIs
<1>2. \A i \in 1..N : F[i].list = F[N].list => i = N
  BY <1>1 DEF Struct
<1>3. Len(F2) = N - 1 /\ \A i \in 1..(N - 1) : F2[i] = F[i] /\ i # N /\ i \in 1..N
  BY <1>1 DEF Pops
<1>4. \A i \in 1..N : i = N \/ i \in 1..(N - 1)
  OBVIOUS
<1>5. Mode(F2, F[N].list) = "none"
  BY <1>2, <1>3 DEF Mode
<1>6. \A x \in Lists : x # F[N].list => Mode(F2, x) = Mode(F, x)
  BY <1>1, <1>3, <1>4 DEF Mode
<1> QED BY <1>1, <1>5, <1>6

\* A list whose fire an exception has left does nothing.
LEMMA ModeThrow ==
  ASSUME NEW C, NEW F, NEW n \in 0..(Len(F) - 1), Struct(C, F), NEW x \in Lists
  PROVE  Mode(SubSeq(F, 1, n), x) = Mode(F, x) \/ Mode(SubSeq(F, 1, n), x) = "none"
<1>1. F \in Seq(Frames) /\ n <= Len(F) /\ n \in Nat /\ Len(F) \in Nat
  BY DEF Struct
<1>2. PICK F2 : F2 = SubSeq(F, 1, n)
  OBVIOUS
<1>3. Len(F2) = n
  BY <1>1, <1>2
<1>4. \A i \in 1..n : F2[i] = F[i] /\ i \in 1..Len(F)
  BY <1>1, <1>2
<1>5. \A i, j \in 1..Len(F) : F[i].list = F[j].list => i = j
  BY DEF Struct
<1>6. Mode(F2, x) = Mode(F, x) \/ Mode(F2, x) = "none"
  BY <1>3, <1>4, <1>5 DEF Mode
<1> QED BY <1>2, <1>6

Modes == {"loops", "calls", "none"}

\* A list that is not concerned by a call of the page.
LEMMA ListLater ==
  ASSUME NEW l \in Lists, NEW c \in Cells, NEW mode, NEW ad \in Seq(Nat),
         NEW ca \in Seq(Nat \X Nat), NEW n \in Nat, NEW n2 \in Nat, n <= n2, NEW th,
         ListInv(l, c, mode, ad, ca, n, th)
  PROVE  ListInv(l, c, mode, ad, ca, n2, th)
<1>1. PagesInOrder(c, n2)
  <2>1. \A i \in 1..Len(c.list) : c.list[i] \in Tasks
    BY CellFields
  <2>2. \A i \in 1..Len(c.list) : c.list[i].do = "page" => c.list[i].id \in Nat
    BY <2>1, OwnDo DEF Tasks
  <2> QED BY <2>2 DEF ListInv, PagesInOrder
<1>2. AddedInOrder(ad, n2)
  <2>1. \A i \in 1..Len(ad) : ad[i] \in Nat
    OBVIOUS
  <2> QED BY <2>1 DEF ListInv, AddedInOrder
<1>3. ASSUME l[2] = "progress", l[1] # Joined
      PROVE  Waiting(c, n2)
  <2>1. c.memory \in Nat \cup {NoValue} /\ \A i \in 1..Len(c.stack) : c.stack[i] \in Nat
    BY CellFields
  <2>2. Waiting(c, n)
    BY <1>3 DEF ListInv
  <2>3. c.memory # NoValue => c.memory < n2
    BY <2>1, <2>2 DEF Waiting
  <2>4. \A i \in 1..Len(c.stack) : c.stack[i] < n2
    BY <2>1, <2>2 DEF Waiting
  <2> QED BY <2>2, <2>3, <2>4 DEF Waiting
<1>4. ASSUME l[2] = "progress", l[1] # Joined
      PROVE  Notified(c, mode, ca, n2)
  <2>1. Notified(c, mode, ca, n)
    BY <1>4 DEF ListInv
  <2>2. ASSUME NEW i \in 1..Len(ca)
        PROVE  ca[i][1] < n2
    <3>1. ca[i][1] < n /\ ca[i][1] \in Nat
      BY <2>1 DEF Notified
    <3> QED BY <3>1
  <2> QED BY <2>1, <2>2 DEF Notified
<1> QED BY <1>1, <1>2, <1>3, <1>4 DEF ListInv

\* An exception leaves its fire.
LEMMA ListThrown ==
  ASSUME NEW l \in Lists, NEW c \in Cells, NEW mode, NEW mode2 \in {mode, "none"}, NEW ad, NEW ca,
         NEW n, NEW th, ListInv(l, c, mode, ad, ca, n, th)
  PROVE  ListInv(l, c, mode2, ad, ca, n, TRUE)
<1>1. \A j : Due(c, mode2, j) => Due(c, mode, j)
  BY DEF Due
<1>2. ASSUME l[2] # "progress"
      PROVE  Matches(c, mode2, ad, ca)
  BY <1>2 DEF ListInv, Matches, Live, Due
<1>3. ASSUME l[2] = "progress", l[1] # Joined
      PROVE  Notified(c, mode2, ca, n)
  BY <1>1, <1>3 DEF ListInv, Notified
<1> QED BY <1>2, <1>3 DEF ListInv

\* The list of n is the one of c with f after it, and f is the one callback more that is due.
Grown(c, mode, n, mode2, f) ==
  /\ n.list = Append(c.list, f) /\ n.memory = c.memory /\ n.stack = c.stack
  /\ Live(n, mode2) => Live(c, mode)
  /\ \A j \in 1..Len(c.list) : Due(n, mode2, j) <=> Due(c, mode, j)
  /\ Live(n, mode2) /\ f.do = "page" => Due(n, mode2, Len(c.list) + 1)

\* add lengthens a list: what else is due stays due.
LEMMA LengthensGrows ==
  ASSUME NEW l \in Lists, NEW c \in Cells, NEW n \in Cells, NEW f, NEW mode \in Modes,
         CellOK(l, c), Lengthens(c, n, f), mode = "calls" => c.index < c.length
  PROVE  Grown(c, mode, n, mode, f)
<1>1. /\ c.list \in Seq(Tasks) /\ Len(c.list) \in Nat /\ c.index \in Nat /\ c.length \in Nat
  BY CellFields
<1>2. PICK s : s = Append(c.list, f)
  OBVIOUS
<1>3. /\ Len(s) = Len(c.list) + 1 /\ s[Len(c.list) + 1] = f
      /\ \A j \in 1..Len(c.list) : s[j] = c.list[j] /\ j \in 1..Len(s)
      /\ Len(c.list) + 1 \in 1..Len(s)
  BY <1>1, <1>2
<1>4. /\ n.list = s /\ n.on = c.on /\ n.stack = c.stack /\ n.memory = c.memory
      /\ n.firing = c.firing /\ n.index = c.index /\ (c.firing \/ c.memory = NoValue)
  BY <1>2 DEF Lengthens, IsCell
<1>5. Live(n, mode) => Live(c, mode)
  BY <1>4 DEF Live
<1>6. \A j \in 1..Len(c.list) : Due(n, mode, j) <=> Due(c, mode, j)
  BY <1>3, <1>4 DEF Due
<1>7. ASSUME Live(n, mode), f.do = "page"
      PROVE  Due(n, mode, Len(c.list) + 1)
  <2>1. CASE c.firing
    <3>1. c.length = Len(c.list) /\ c.index <= c.length /\ mode # "none"
      BY <1>4, <1>7, <2>1 DEF CellOK, Live
    <3>2. CASE mode = "loops"
      BY <1>1, <1>3, <1>4, <1>7, <2>1, <3>1, <3>2 DEF Due
    <3>3. CASE mode = "calls"
      BY <1>1, <1>3, <1>4, <1>7, <2>1, <3>1, <3>3 DEF Due
    <3> QED BY <3>1, <3>2, <3>3 DEF Modes
  <2>2. CASE ~c.firing
    BY <1>3, <1>4, <1>7, <2>2 DEF Due
  <2> QED BY <2>1, <2>2
<1> QED BY <1>2, <1>4, <1>5, <1>6, <1>7 DEF Grown

\* add begins a fire that calls nothing but the new callback.
LEMMA ResumesGrows ==
  ASSUME NEW l \in Lists, NEW c \in Cells, NEW n \in Cells, NEW f, NEW mode \in Modes,
         CellOK(l, c), c.on, Resumes(c, n, f)
  PROVE  Grown(c, mode, n, "loops", f)
<1>1. /\ c.list \in Seq(Tasks) /\ Len(c.list) \in Nat
  BY CellFields
<1>2. PICK s : s = Append(c.list, f)
  OBVIOUS
<1>3. /\ Len(s) = Len(c.list) + 1 /\ s[Len(c.list) + 1] = f
      /\ \A j \in 1..Len(c.list) : s[j] = c.list[j] /\ j \in 1..Len(s)
      /\ Len(c.list) + 1 \in 1..Len(s)
  BY <1>1, <1>2
<1>4. /\ n.list = s /\ n.on = c.on /\ n.stack = c.stack /\ n.memory = c.memory
      /\ n.firing /\ n.index = Len(c.list) /\ ~c.firing /\ c.memory # NoValue
  BY <1>2 DEF Resumes, IsCell
<1>5. Live(n, "loops") => Live(c, mode)
  BY <1>4 DEF Live
<1>6. \A j \in 1..Len(c.list) : ~Due(n, "loops", j) /\ ~Due(c, mode, j)
  BY <1>1, <1>3, <1>4 DEF Due
<1>7. f.do = "page" => Due(n, "loops", Len(c.list) + 1)
  BY <1>1, <1>3, <1>4 DEF Due
<1> QED BY <1>2, <1>4, <1>5, <1>6, <1>7 DEF Grown

\* A sequence and its next element.
LEMMA AppendIs ==
  ASSUME NEW S, NEW s \in Seq(S), NEW e \in S
  PROVE  /\ Append(s, e) \in Seq(S) /\ Len(s) \in Nat /\ Len(Append(s, e)) = Len(s) + 1
         /\ Append(s, e)[Len(s) + 1] = e /\ \A j \in 1..Len(s) : Append(s, e)[j] = s[j]
         /\ \A j \in 1..(Len(s) + 1) : j \in 1..Len(s) \/ j = Len(s) + 1
         /\ \A j \in 1..Len(s) : j \in 1..(Len(s) + 1) /\ j # Len(s) + 1
  OBVIOUS

\* The page adds its callback p.
LEMMA GrownByPage ==
  ASSUME NEW l \in Lists, NEW c \in Cells, NEW n \in Cells, NEW mode \in Modes, NEW mode2 \in Modes,
         NEW ad \in Seq(Nat), NEW ca \in Seq(Nat \X Nat), NEW p \in Nat, NEW th \in BOOLEAN,
         ListInv(l, c, mode, ad, ca, p, th), Grown(c, mode, n, mode2, PageCallback(p)),
         ~th /\ n.firing => mode2 # "none"
  PROVE  ListInv(l, n, mode2, Append(ad, p), ca, p + 1, th)
<1>1. PICK f \in PageTasks : f = PageCallback(p) /\ f.do = "page" /\ f.id = p
  BY SMTT(30) DEF PageTasks, PageCallback
<1>2. PICK k \in Nat : k = Len(c.list) /\ c.list \in Seq(Tasks) /\ f \in Tasks
  BY <1>1, CellFields DEF Tasks
<1>3. PICK s : s = Append(c.list, f)
  OBVIOUS
<1>4. /\ Len(s) = k + 1 /\ s[k + 1] = f /\ \A j \in 1..k : s[j] = c.list[j]
      /\ \A j \in 1..(k + 1) : j \in 1..k \/ j = k + 1
      /\ \A j \in 1..k : j \in 1..(k + 1) /\ j # k + 1
  BY <1>2, <1>3, AppendIs
<1>5. n.list = s /\ n.memory = c.memory /\ n.stack = c.stack
  BY <1>1, <1>3 DEF Grown
<1>6. PICK q \in Nat : q = Len(ad)
  OBVIOUS
<1>7. PICK a2 : a2 = Append(ad, p)
  OBVIOUS
<1>8. /\ Len(a2) = q + 1 /\ a2[q + 1] = p /\ \A j \in 1..q : a2[j] = ad[j] /\ ad[j] \in Nat
      /\ \A j \in 1..(q + 1) : j \in 1..q \/ j = q + 1
      /\ \A j \in 1..q : j \in 1..(q + 1) /\ j # q + 1
  BY <1>6, <1>7, AppendIs
<1>9. \A j \in 1..k : c.list[j].do = "page" => c.list[j].id \in Nat /\ c.list[j].id < p
  <2>1. \A j \in 1..k : c.list[j] \in Tasks
    BY <1>2
  <2> QED BY <1>2, <2>1, OwnDo DEF Tasks, ListInv, PagesInOrder
<1>10. PagesInOrder(n, p + 1)
  <2>1. ASSUME NEW i \in 1..k, s[i].do = "page"
        PROVE  /\ s[i].id < p + 1
               /\ \A j \in 1..(i - 1) : s[j].do = "page" => s[j].id < s[i].id
    <3>1. c.list[i].do = "page" /\ c.list[i].id \in Nat /\ c.list[i].id < p /\ s[i] = c.list[i]
      BY <1>4, <1>9, <2>1
    <3>2. \A j \in 1..(i - 1) : j \in 1..k
      OBVIOUS
    <3>3. \A j \in 1..(i - 1) : s[j].do = "page" => s[j].id < s[i].id
      BY <1>2, <1>4, <3>1, <3>2 DEF ListInv, PagesInOrder
    <3>4. s[i].id < p + 1
      BY <3>1
    <3> QED BY <3>3, <3>4
  <2>2. s[k + 1].id < p + 1
    BY <1>1, <1>4
  <2>3. \A j \in 1..((k + 1) - 1) : s[j].do = "page" => s[j].id < s[k + 1].id
    <3>1. \A j \in 1..((k + 1) - 1) : j \in 1..k
      OBVIOUS
    <3>2. s[k + 1].id = p
      BY <1>1, <1>4
    <3> QED BY <1>4, <1>9, <3>1, <3>2
  <2> QED BY <1>4, <1>5, <2>1, <2>2, <2>3 DEF PagesInOrder
<1>11. AddedInOrder(a2, p + 1)
  <2>1. AddedInOrder(ad, p)
    BY DEF ListInv
  <2>2. ASSUME NEW i \in 1..q
        PROVE  a2[i] < p + 1 /\ \A j \in 1..(i - 1) : a2[j] < a2[i]
    <3>1. \A j \in 1..(i - 1) : j \in 1..q
      OBVIOUS
    <3>2. a2[i] = ad[i] /\ ad[i] \in Nat /\ ad[i] < p
      BY <1>6, <1>8, <2>1 DEF AddedInOrder
    <3>3. \A j \in 1..(i - 1) : a2[j] < a2[i]
      BY <1>6, <1>8, <2>1, <3>1, <3>2 DEF AddedInOrder
    <3>4. a2[i] < p + 1
      BY <3>2
    <3> QED BY <3>3, <3>4
  <2>3. a2[q + 1] < p + 1 /\ \A j \in 1..((q + 1) - 1) : a2[j] < a2[q + 1]
    BY <1>6, <1>8, <2>1 DEF AddedInOrder
  <2> QED BY <1>8, <2>2, <2>3 DEF AddedInOrder
<1>12. ASSUME l[2] # "progress"
       PROVE  Matches(n, mode2, a2, ca)
  <2>1. Matches(c, mode, ad, ca)
    BY <1>12 DEF ListInv
  <2>2. PICK r \in Nat : r = Len(ca)
    OBVIOUS
  <2>a. r <= q /\ \A i \in 1..r : ca[i][1] = ad[i]
    BY <1>6, <2>1, <2>2 DEF Matches
  <2>b. \A i \in 1..r : i \in 1..q
    BY <2>a
  <2>3. \A i \in 1..r : ca[i][1] = a2[i]
    BY <1>8, <2>a, <2>b
  <2>4. \A j \in 1..k : Due(n, mode2, j) <=> Due(c, mode, j)
    BY <1>2 DEF Grown
  <2>5. ASSUME Live(n, mode2)
        PROVE  /\ \A j \in 1..(k + 1) : Due(n, mode2, j) =>
                    \E i \in (r + 1)..(q + 1) : a2[i] = s[j].id
               /\ \A i \in (r + 1)..(q + 1) : \E j \in 1..(k + 1) : Due(n, mode2, j) /\ s[j].id = a2[i]
    <3>1. Live(c, mode) /\ Due(n, mode2, k + 1)
      BY <1>1, <1>2, <2>5 DEF Grown
    <3>2. /\ \A j \in 1..k : Due(c, mode, j) => \E i \in (r + 1)..q : ad[i] = c.list[j].id
          /\ \A i \in (r + 1)..q : \E j \in 1..k : Due(c, mode, j) /\ c.list[j].id = ad[i]
      BY <1>2, <1>6, <2>1, <2>2, <3>1 DEF Matches
    <3>3. q + 1 \in (r + 1)..(q + 1) /\ k + 1 \in 1..(k + 1)
      BY <2>a
    <3>4. \A i \in (r + 1)..q : i \in 1..q /\ i \in (r + 1)..(q + 1)
      BY <2>a
    <3>5. ASSUME NEW j \in 1..(k + 1), Due(n, mode2, j)
          PROVE  \E i \in (r + 1)..(q + 1) : a2[i] = s[j].id
      <4>1. CASE j = k + 1
        BY <1>1, <1>4, <1>8, <3>3, <4>1
      <4>2. CASE j \in 1..k
        <5>1. PICK i \in (r + 1)..q : ad[i] = c.list[j].id
          BY <2>4, <3>2, <3>5, <4>2
        <5> QED BY <1>4, <1>8, <3>4, <4>2, <5>1
      <4> QED BY <1>4, <4>1, <4>2
    <3>6. ASSUME NEW i \in (r + 1)..(q + 1)
          PROVE  \E j \in 1..(k + 1) : Due(n, mode2, j) /\ s[j].id = a2[i]
      <4>1. CASE i = q + 1
        BY <1>1, <1>4, <1>8, <3>1, <3>3, <4>1
      <4>2. CASE i # q + 1
        <5>1. i \in (r + 1)..q
          BY <4>2
        <5>2. PICK j \in 1..k : Due(c, mode, j) /\ c.list[j].id = ad[i]
          BY <3>2, <5>1
        <5> QED BY <1>4, <1>8, <2>4, <3>4, <5>1, <5>2
      <4> QED BY <4>1, <4>2
    <3> QED BY <3>5, <3>6
  <2>6. r <= q + 1
    BY <2>a
  <2> QED BY <1>4, <1>5, <1>8, <2>2, <2>3, <2>5, <2>6 DEF Matches
<1>13. ASSUME l[2] = "progress", l[1] # Joined
       PROVE  Waiting(n, p + 1) /\ Notified(n, mode2, ca, p + 1)
  <2>1. Waiting(c, p) /\ Notified(c, mode, ca, p)
    BY <1>13 DEF ListInv
  <2>2. c.memory \in Nat \cup {NoValue} /\ \A i \in 1..Len(c.stack) : c.stack[i] \in Nat
    BY CellFields
  <2>3. Waiting(n, p + 1)
    BY <1>5, <2>1, <2>2 DEF Waiting
  <2>4. ASSUME NEW i \in 1..Len(ca)
        PROVE  /\ ca[i][1] < p + 1
               /\ ca[i][2] = n.memory =>
                    \A j \in 1..Len(n.list) : Due(n, mode2, j) => n.list[j].id # ca[i][1]
    <3>1. ca[i][1] \in Nat /\ ca[i][1] < p
      BY <2>1 DEF Notified
    <3>2. ca[i][1] < p + 1
      BY <3>1
    <3>3. ASSUME ca[i][2] = n.memory, NEW j \in 1..Len(n.list), Due(n, mode2, j)
          PROVE  n.list[j].id # ca[i][1]
      <4>1. CASE j = k + 1
        BY <1>1, <1>4, <1>5, <3>1, <4>1
      <4>2. CASE j \in 1..k
        BY <1>2, <1>4, <1>5, <2>1, <3>3, <4>2 DEF Grown, Notified
      <4> QED BY <1>4, <1>5, <4>1, <4>2
    <3> QED BY <3>2, <3>3
  <2>5. Notified(n, mode2, ca, p + 1)
    BY <1>5, <2>1, <2>4 DEF Notified
  <2> QED BY <2>3, <2>5
<1> QED BY <1>7, <1>10, <1>11, <1>12, <1>13 DEF ListInv

\* The history with the next call of the page.
LEMMA AddedAppend ==
  ASSUME NEW ad \in Seq(Nat), NEW p \in Nat, AddedInOrder(ad, p)
  PROVE  AddedInOrder(Append(ad, p), p + 1)
<1>1. PICK q \in Nat : q = Len(ad)
  OBVIOUS
<1>2. PICK a2 : a2 = Append(ad, p)
  OBVIOUS
<1>3. /\ Len(a2) = q + 1 /\ a2[q + 1] = p /\ \A j \in 1..q : a2[j] = ad[j] /\ ad[j] \in Nat
      /\ \A i \in 1..(q + 1) : i \in 1..q \/ i = q + 1
  BY <1>1, <1>2, AppendIs
<1>4. ASSUME NEW i \in 1..q
      PROVE  a2[i] < p + 1 /\ \A j \in 1..(i - 1) : a2[j] < a2[i]
  <2>1. \A j \in 1..(i - 1) : j \in 1..q
    OBVIOUS
  <2>2. a2[i] = ad[i] /\ ad[i] \in Nat /\ ad[i] < p
    BY <1>1, <1>3 DEF AddedInOrder
  <2>3. \A j \in 1..(i - 1) : a2[j] < a2[i]
    BY <1>1, <1>3, <2>1, <2>2 DEF AddedInOrder
  <2>4. a2[i] < p + 1
    BY <2>2
  <2> QED BY <2>3, <2>4
<1>5. a2[q + 1] < p + 1 /\ \A j \in 1..((q + 1) - 1) : a2[j] < a2[q + 1]
  BY <1>1, <1>3 DEF AddedInOrder
<1> QED BY <1>2, <1>3, <1>4, <1>5 DEF AddedInOrder

\* The page adds a callback to a list that is disabled.
LEMMA OffByPage ==
  ASSUME NEW l \in Lists, NEW c \in Cells, NEW mode, NEW ad \in Seq(Nat),
         NEW ca \in Seq(Nat \X Nat), NEW p \in Nat, NEW th \in BOOLEAN,
         ListInv(l, c, mode, ad, ca, p, th), ~c.on
  PROVE  ListInv(l, c, mode, Append(ad, p), ca, p + 1, th)
<1>1. ListInv(l, c, mode, ad, ca, p + 1, th)
  <2>1. p <= p + 1 /\ p + 1 \in Nat
    OBVIOUS
  <2> QED BY <2>1, ListLater
<1>2. PICK a2 : a2 = Append(ad, p)
  OBVIOUS
<1>3. AddedInOrder(a2, p + 1)
  BY <1>2, AddedAppend DEF ListInv
<1>4. ASSUME l[2] # "progress"
      PROVE  Matches(c, mode, a2, ca)
  <2>1. PICK q \in Nat : q = Len(ad)
    OBVIOUS
  <2>2. PICK r \in Nat : r = Len(ca)
    OBVIOUS
  <2>3. Len(a2) = q + 1 /\ \A j \in 1..q : a2[j] = ad[j]
    BY <1>2, <2>1, AppendIs
  <2>4. r <= q /\ \A i \in 1..r : ca[i][1] = ad[i]
    BY <1>4, <2>1, <2>2 DEF ListInv, Matches
  <2>5. \A i \in 1..r : i \in 1..q
    BY <2>4
  <2>6. r <= q + 1
    BY <2>4
  <2>7. \A i \in 1..r : ca[i][1] = a2[i]
    BY <2>3, <2>4, <2>5
  <2> QED BY <2>2, <2>3, <2>6, <2>7 DEF Matches, Live
<1> QED BY <1>1, <1>2, <1>3, <1>4 DEF ListInv

\* The list of n is the one of c, and what is due to its callbacks too.
SameDue(l, c, mode, n, mode2, ca, p, th) ==
  /\ n.list = c.list
  /\ l[2] # "progress" => /\ Live(n, mode2) => Live(c, mode)
                          /\ \A j \in 1..Len(c.list) : Due(n, mode2, j) <=> Due(c, mode, j)
  /\ l[2] = "progress" /\ l[1] # Joined => Waiting(n, p) /\ Notified(n, mode2, ca, p)
  /\ ~th /\ n.firing => mode2 # "none"

\* The order in a list that a call leaves as it is.
LEMMA SameList ==
  ASSUME NEW l \in Lists, NEW c \in Cells, NEW n \in Cells, NEW mode, NEW mode2,
         NEW ad \in Seq(Nat), NEW ca \in Seq(Nat \X Nat), NEW p \in Nat, NEW p2 \in Nat, p <= p2,
         NEW th \in BOOLEAN, ListInv(l, c, mode, ad, ca, p, th),
         SameDue(l, c, mode, n, mode2, ca, p2, th)
  PROVE  ListInv(l, n, mode2, ad, ca, p2, th)
<1>1. ListInv(l, c, mode, ad, ca, p2, th)
  BY ListLater
<1>2. PagesInOrder(n, p2) /\ AddedInOrder(ad, p2)
  BY <1>1 DEF ListInv, PagesInOrder, SameDue
<1>3. ASSUME l[2] # "progress"
      PROVE  Matches(n, mode2, ad, ca)
  BY <1>1, <1>3 DEF ListInv, Matches, SameDue
<1> QED BY <1>2, <1>3 DEF ListInv, SameDue

\* The notification that is made stays.
LEMMA NotifiedStays ==
  ASSUME NEW c \in Cells, NEW n \in Cells, NEW mode, NEW mode2, NEW ca \in Seq(Nat \X Nat),
         NEW p \in Nat, NEW p2 \in Nat, p <= p2, Notified(c, mode, ca, p),
         n.list = c.list, n.memory = c.memory,
         \A j \in 1..Len(c.list) : Due(n, mode2, j) => Due(c, mode, j)
  PROVE  Notified(n, mode2, ca, p2)
<1>1. ASSUME NEW i \in 1..Len(ca)
      PROVE  ca[i][1] < p2
  <2>1. ca[i][1] \in Nat /\ ca[i][1] < p
    BY DEF Notified
  <2> QED BY <2>1
<1> QED BY <1>1 DEF Notified

\* A later notification is made.
LEMMA NotifiedMoves ==
  ASSUME NEW c \in Cells, NEW n \in Cells, NEW mode, NEW mode2, NEW ca \in Seq(Nat \X Nat),
         NEW p \in Nat, NEW p2 \in Nat, p <= p2, NoValue \notin Nat, Notified(c, mode, ca, p),
         n.memory \in Nat, c.memory # NoValue => c.memory < n.memory
  PROVE  Notified(n, mode2, ca, p2)
<1>1. ASSUME NEW i \in 1..Len(ca)
      PROVE  ca[i][1] < p2 /\ n.memory # NoValue /\ ca[i][2] < n.memory /\ ca[i][2] \in Nat
  <2>1. ca[i][1] \in Nat /\ ca[i][2] \in Nat
    OBVIOUS
  <2>2. ca[i][1] < p /\ c.memory # NoValue /\ ca[i][2] <= c.memory
    BY DEF Notified
  <2>3. c.memory \in Nat /\ c.memory < n.memory
    BY <2>2, CellFields
  <2>4. ca[i][1] < p2
    BY <2>1, <2>2
  <2>5. ca[i][2] < n.memory
    BY <2>1, <2>2, <2>3
  <2> QED BY <2>1, <2>4, <2>5
<1>2. \A i \in 1..Len(ca) : ca[i][2] <= n.memory /\ ca[i][2] # n.memory
  BY <1>1
<1> QED BY <1>1, <1>2 DEF Notified

\* when or pipe adds a callback.
LEMMA GrownByJoin ==
  ASSUME NEW l \in Lists, NEW c \in Cells, NEW n \in Cells, NEW mode \in Modes, NEW mode2 \in Modes,
         NEW ad \in Seq(Nat), NEW ca \in Seq(Nat \X Nat), NEW p \in Nat, NEW th \in BOOLEAN,
         NEW f \in JoinTasks, ListInv(l, c, mode, ad, ca, p, th), Grown(c, mode, n, mode2, f),
         ~th /\ n.firing => mode2 # "none"
  PROVE  ListInv(l, n, mode2, ad, ca, p, th)
<1>1. PICK k \in Nat : k = Len(c.list) /\ c.list \in Seq(Tasks)
  BY CellFields
<1>2. PICK s : s = Append(c.list, f)
  OBVIOUS
<1>3. f.do # "page" /\ f \in Tasks
  BY OwnDo DEF Tasks
<1>4. /\ Len(s) = k + 1 /\ s[k + 1] = f /\ \A j \in 1..k : s[j] = c.list[j]
      /\ \A j \in 1..(k + 1) : j \in 1..k \/ j = k + 1
      /\ \A j \in 1..k : j \in 1..(k + 1) /\ j # k + 1
  BY <1>1, <1>2, <1>3, AppendIs
<1>5. n.list = s /\ n.memory = c.memory /\ n.stack = c.stack
  BY <1>2 DEF Grown
<1>6. PagesInOrder(n, p)
  <2>1. ASSUME NEW i \in 1..k, s[i].do = "page"
        PROVE  s[i].id < p /\ \A j \in 1..(i - 1) : s[j].do = "page" => s[j].id < s[i].id
    <3>1. \A j \in 1..(i - 1) : j \in 1..k
      OBVIOUS
    <3> QED BY <1>1, <1>4, <2>1, <3>1 DEF ListInv, PagesInOrder
  <2> QED BY <1>3, <1>4, <1>5, <2>1 DEF PagesInOrder
<1>7. \A j \in 1..Len(s) : Due(n, mode2, j) => j \in 1..k /\ Due(c, mode, j)
  <2>1. ~Due(n, mode2, k + 1)
    BY <1>3, <1>4, <1>5 DEF Due
  <2> QED BY <1>1, <1>4, <2>1 DEF Grown
<1>8. \A j \in 1..k : Due(c, mode, j) => Due(n, mode2, j) /\ j \in 1..Len(s) /\ s[j] = c.list[j]
  BY <1>1, <1>4 DEF Grown
<1>9. ASSUME l[2] # "progress"
      PROVE  Matches(n, mode2, ad, ca)
  <2>1. Matches(c, mode, ad, ca)
    BY <1>9 DEF ListInv
  <2>2. ASSUME Live(n, mode2)
        PROVE  /\ \A j \in 1..Len(s) : Due(n, mode2, j) =>
                    \E i \in (Len(ca) + 1)..Len(ad) : ad[i] = s[j].id
               /\ \A i \in (Len(ca) + 1)..Len(ad) :
                    \E j \in 1..Len(s) : Due(n, mode2, j) /\ s[j].id = ad[i]
    <3>1. Live(c, mode)
      BY <2>2 DEF Grown
    <3>2. /\ \A j \in 1..k : Due(c, mode, j) => \E i \in (Len(ca) + 1)..Len(ad) : ad[i] = c.list[j].id
          /\ \A i \in (Len(ca) + 1)..Len(ad) : \E j \in 1..k : Due(c, mode, j) /\ c.list[j].id = ad[i]
      BY <1>1, <2>1, <3>1 DEF Matches
    <3> QED BY <1>7, <1>8, <3>2
  <2> QED BY <1>5, <2>1, <2>2 DEF Matches
<1>10. ASSUME l[2] = "progress", l[1] # Joined
       PROVE  Waiting(n, p) /\ Notified(n, mode2, ca, p)
  <2>1. Waiting(c, p) /\ Notified(c, mode, ca, p)
    BY <1>10 DEF ListInv
  <2>2. Waiting(n, p)
    BY <1>5, <2>1 DEF Waiting
  <2>3. Notified(n, mode2, ca, p)
    BY <1>1, <1>5, <1>7, <1>8, <2>1 DEF Notified
  <2> QED BY <2>2, <2>3
<1> QED BY <1>6, <1>9, <1>10 DEF ListInv

\* A fire begins.
LEMMA BeginsOrders ==
  ASSUME NEW l \in Lists, NEW c \in Cells, NEW n \in Cells, NEW ad \in Seq(Nat),
         NEW ca \in Seq(Nat \X Nat), NEW v \in Nat, NEW p \in Nat, NEW p2 \in Nat, p <= p2,
         NEW th \in BOOLEAN, NoValue \notin Nat, CellOK(l, c), ListInv(l, c, "none", ad, ca, p, th),
         ~c.firing, Begins(c, n, v), l[2] # "progress" => c.memory = NoValue,
         l[2] = "progress" /\ l[1] # Joined => p <= v /\ v < p2
  PROVE  ListInv(l, n, "loops", ad, ca, p2, th)
<1>1. /\ n.list = c.list /\ n.on = c.on /\ n.stack = c.stack /\ n.memory = v /\ n.firing
      /\ n.index = 0
  BY DEF Begins, IsCell
<1>2. ASSUME l[2] # "progress", NEW j \in 1..Len(c.list)
      PROVE  Due(n, "loops", j) <=> Due(c, "none", j)
  BY <1>1, <1>2 DEF Due
<1>3. Live(n, "loops") => Live(c, "none")
  BY <1>1 DEF Live
<1>4. ASSUME l[2] = "progress", l[1] # Joined
      PROVE  Waiting(n, p2) /\ Notified(n, "loops", ca, p2)
  <2>1. Waiting(c, p) /\ Notified(c, "none", ca, p)
    BY <1>4 DEF ListInv
  <2>2. c.stack = <<>>
    BY DEF CellOK
  <2>3. Len(n.stack) = 0
    BY <1>1, <2>2
  <2>4. Waiting(n, p2)
    BY <1>1, <1>4, <2>3 DEF Waiting
  <2>5. c.memory # NoValue => c.memory < n.memory
    <3>1. ASSUME c.memory # NoValue
          PROVE  c.memory < v
      <4>1. c.memory \in Nat /\ c.memory < p
        BY <2>1, <3>1, CellFields DEF Waiting
      <4> QED BY <1>4, <4>1
    <3> QED BY <1>1, <3>1
  <2>6. Notified(n, "loops", ca, p2)
    BY <1>1, <2>1, <2>5, NotifiedMoves
  <2> QED BY <2>4, <2>6
<1>5. SameDue(l, c, "none", n, "loops", ca, p2, th)
  BY <1>1, <1>2, <1>3, <1>4 DEF SameDue
<1> QED BY <1>5, SameList

\* A fire waits.
LEMMA StacksOrders ==
  ASSUME NEW l \in Lists, NEW c \in Cells, NEW n \in Cells, NEW mode \in Modes, NEW ad \in Seq(Nat),
         NEW ca \in Seq(Nat \X Nat), NEW v \in Nat, NEW p \in Nat, NEW p2 \in Nat, p <= p2,
         NEW th \in BOOLEAN, CellOK(l, c), ListInv(l, c, mode, ad, ca, p, th),
         c.firing, l[2] = "progress", Stacks(c, n, v), l[1] # Joined => p <= v /\ v < p2
  PROVE  ListInv(l, n, mode, ad, ca, p2, th)
<1>1. /\ n.list = c.list /\ n.on = c.on /\ n.stack = Append(c.stack, v) /\ n.memory = c.memory
      /\ n.firing = c.firing /\ n.index = c.index
  BY DEF Stacks, IsCell
<1>2. \A j \in 1..Len(c.list) : Due(n, mode, j) <=> Due(c, mode, j)
  BY <1>1 DEF Due
<1>3. ASSUME l[1] # Joined
      PROVE  Waiting(n, p2) /\ Notified(n, mode, ca, p2)
  <2>1. Waiting(c, p) /\ Notified(c, mode, ca, p)
    BY <1>3 DEF ListInv
  <2>2. Notified(n, mode, ca, p2)
    BY <1>1, <1>2, <2>1, NotifiedStays
  <2>3. PICK k \in Nat : k = Len(c.stack) /\ c.stack \in Seq(Nat)
    BY CellFields
  <2>4. PICK s : s = Append(c.stack, v)
    OBVIOUS
  <2>5. /\ Len(s) = k + 1 /\ s[k + 1] = v /\ \A j \in 1..k : s[j] = c.stack[j] /\ s[j] \in Nat
        /\ \A j \in 1..(k + 1) : j \in 1..k \/ j = k + 1
    BY <2>3, <2>4, AppendIs
  <2>6. c.memory # NoValue /\ c.memory \in Nat
    BY CellFields DEF CellOK
  <2>7. c.memory < p /\ c.memory < v /\ c.memory < p2
    BY <1>3, <2>1, <2>6 DEF Waiting
  <2>8. ASSUME NEW i \in 1..k
        PROVE  c.memory < s[i] /\ s[i] < p2 /\ s[i] < v /\ \A j \in 1..(i - 1) : s[j] < s[i]
    <3>1. \A j \in 1..(i - 1) : j \in 1..k
      OBVIOUS
    <3>2. c.memory < s[i] /\ s[i] < p /\ \A j \in 1..(i - 1) : s[j] < s[i]
      BY <2>1, <2>3, <2>5, <3>1 DEF Waiting
    <3>3. s[i] < p2 /\ s[i] < v
      BY <1>3, <2>5, <3>2
    <3> QED BY <3>2, <3>3
  <2>9. \A j \in 1..((k + 1) - 1) : s[j] < s[k + 1]
    <3>1. \A j \in 1..((k + 1) - 1) : j \in 1..k
      OBVIOUS
    <3> QED BY <2>5, <2>8, <3>1
  <2>10. Waiting(n, p2)
    BY <1>1, <1>3, <2>4, <2>5, <2>6, <2>7, <2>8, <2>9 DEF Waiting
  <2> QED BY <2>2, <2>10
<1>4. ~th /\ n.firing => mode # "none"
  BY <1>1 DEF ListInv
<1>5. SameDue(l, c, mode, n, mode, ca, p2, th)
  BY <1>1, <1>3, <1>4 DEF SameDue
<1> QED BY <1>5, SameList

\* The loop goes on after a callback that is not due.
Passes(c, mode) == c.firing /\ (mode = "loops" => c.list[c.index + 1].do # "page")

\* The loop goes on after a callback that was called or is jQuery's.
LEMMA StepsOrders ==
  ASSUME NEW l \in Lists, NEW c \in Cells, NEW n \in Cells, NEW mode \in {"loops", "calls"},
         NEW ad \in Seq(Nat), NEW ca \in Seq(Nat \X Nat), NEW p \in Nat, NEW th \in BOOLEAN,
         ListInv(l, c, mode, ad, ca, p, th), Passes(c, mode),
         IsCell(n, c.list, c.on, c.stack, c.open, c.memory, c.firing, c.index + 1, c.length)
  PROVE  ListInv(l, n, "loops", ad, ca, p, th)
<1>1. /\ n.list = c.list /\ n.on = c.on /\ n.stack = c.stack /\ n.memory = c.memory
      /\ n.firing = c.firing /\ n.index = c.index + 1
  BY DEF IsCell
<1>2. c.index \in Nat /\ Len(c.list) \in Nat
  BY CellFields
<1>3. Live(n, "loops") => Live(c, mode)
  BY <1>1 DEF Live
<1>4. ASSUME NEW j \in 1..Len(c.list)
      PROVE  Due(n, "loops", j) <=> Due(c, mode, j)
  <2>1. CASE mode = "calls"
    BY <1>1, <2>1 DEF Due
  <2>2. CASE mode = "loops"
    <3>0. c.list[c.index + 1].do # "page"
      BY <2>2 DEF Passes
    <3>a. PICK x \in Nat : x = c.index
      BY <1>2
    <3>b. j > x <=> j > x + 1 \/ j = x + 1
      OBVIOUS
    <3>1. j > c.index <=> j > c.index + 1 \/ j = c.index + 1
      BY <3>a, <3>b
    <3> QED BY <1>1, <2>2, <3>0, <3>1 DEF Due
  <2> QED BY <2>1, <2>2
<1>5. ASSUME l[2] = "progress", l[1] # Joined
      PROVE  Waiting(n, p) /\ Notified(n, "loops", ca, p)
  <2>1. Waiting(c, p) /\ Notified(c, mode, ca, p)
    BY <1>5 DEF ListInv
  <2>2. Waiting(n, p)
    BY <1>1, <2>1 DEF Waiting
  <2>3. p <= p
    OBVIOUS
  <2>4. Notified(n, "loops", ca, p)
    BY <1>1, <1>4, <2>1, <2>3, NotifiedStays
  <2> QED BY <2>2, <2>4
<1>6. SameDue(l, c, mode, n, "loops", ca, p, th)
  BY <1>1, <1>3, <1>4, <1>5 DEF SameDue
<1>7. p <= p
  OBVIOUS
<1> QED BY <1>6, <1>7, SameList

\* A callback of pipe is called.
LEMMA CallsPipedOrders ==
  ASSUME NEW l \in Lists, NEW c \in Cells,
         NEW ad \in Seq(Nat), NEW ca \in Seq(Nat \X Nat), NEW p \in Nat, NEW th \in BOOLEAN,
         ListInv(l, c, "loops", ad, ca, p, th), c.firing, c.list[c.index + 1].do # "page"
  PROVE  ListInv(l, c, "calls", ad, ca, p, th)
<1>1. c.index \in Nat /\ Len(c.list) \in Nat
  BY CellFields
<1>2. ASSUME NEW j \in 1..Len(c.list)
      PROVE  Due(c, "calls", j) <=> Due(c, "loops", j)
  <2>1. j > c.index <=> j > c.index + 1 \/ j = c.index + 1
    BY <1>1
  <2> QED BY <2>1 DEF Due
<1>3. ASSUME l[2] = "progress", l[1] # Joined
      PROVE  Waiting(c, p) /\ Notified(c, "calls", ca, p)
  <2>1. Waiting(c, p) /\ Notified(c, "loops", ca, p)
    BY <1>3 DEF ListInv
  <2>2. p <= p
    OBVIOUS
  <2>3. Notified(c, "calls", ca, p)
    BY <1>2, <2>1, <2>2, NotifiedStays
  <2> QED BY <2>1, <2>3
<1>4. SameDue(l, c, "loops", c, "calls", ca, p, th)
  BY <1>2, <1>3 DEF SameDue, Live
<1>5. p <= p
  OBVIOUS
<1> QED BY <1>4, <1>5, SameList

\* A callback of the page is called: it is the first that was added of those that are due.
LEMMA CallsPageOrders ==
  ASSUME NEW l \in Lists, NEW c \in Cells, NEW ad \in Seq(Nat), NEW ca \in Seq(Nat \X Nat),
         NEW p \in Nat, NEW th \in BOOLEAN, NEW g, NEW v \in Nat, NoValue \notin Nat,
         CellOK(l, c), ListInv(l, c, "loops", ad, ca, p, th),
         c.firing, c.index < c.length, g = c.list[c.index + 1], g.do = "page", v = c.memory
  PROVE  ListInv(l, c, "calls", ad, Append(ca, <<g.id, v>>), p, th)
<1>1. PICK x \in Nat : x = c.index
  BY CellFields
<1>2. PICK k \in Nat : k = Len(c.list) /\ x + 1 \in 1..k /\ c.list \in Seq(Tasks)
  BY <1>1, CellFields, SMTT(30) DEF CellOK
<1>3. \A j \in 1..k : c.list[j].do = "page" => c.list[j].id \in Nat
  <2>1. \A j \in 1..k : c.list[j] \in Tasks
    BY <1>2
  <2> QED BY <2>1, OwnDo DEF Tasks
<1>4. PICK e \in Nat : e = g.id /\ e < p
  BY <1>1, <1>2, <1>3 DEF ListInv, PagesInOrder
<1>5. \A j \in 1..k : c.list[j].do = "page" /\ j > x + 1 => e < c.list[j].id
  <2>1. \A j \in 1..k : j > x + 1 => x + 1 \in 1..(j - 1)
    BY <1>2
  <2> QED BY <1>1, <1>2, <1>4, <2>1 DEF ListInv, PagesInOrder
<1>6. \A j \in 1..k : /\ Due(c, "loops", j) <=> c.list[j].do = "page" /\ (j > x + 1 \/ j = x + 1)
                      /\ Due(c, "calls", j) <=> c.list[j].do = "page" /\ j > x + 1
  <2>1. ASSUME NEW j \in 1..k
        PROVE  j > x <=> j > x + 1 \/ j = x + 1
    OBVIOUS
  <2> QED BY <1>1, <1>2, <2>1 DEF Due
<1>7. PICK r \in Nat : r = Len(ca)
  OBVIOUS
<1>8. PICK w : w = <<e, v>>
  OBVIOUS
<1>9. w \in Nat \X Nat /\ w[1] = e /\ w[2] = v
  BY <1>8
<1>10. PICK h : h = Append(ca, w)
  OBVIOUS
<1>11. /\ Len(h) = r + 1 /\ h[r + 1] = w /\ \A i \in 1..r : h[i] = ca[i]
       /\ \A i \in 1..(r + 1) : i \in 1..r \/ i = r + 1
  BY <1>7, <1>9, <1>10, AppendIs
<1>12. ASSUME l[2] # "progress"
       PROVE  Matches(c, "calls", ad, h)
  <2>1. Matches(c, "loops", ad, ca)
    BY <1>12 DEF ListInv
  <2>2. PICK q \in Nat : q = Len(ad)
    OBVIOUS
  <2>3. \A i \in 1..q : ad[i] \in Nat /\ \A j \in 1..(i - 1) : ad[j] < ad[i]
    BY <2>2 DEF ListInv, AddedInOrder
  <2>4. r <= q /\ \A i \in 1..r : ca[i][1] = ad[i]
    BY <1>7, <2>1, <2>2 DEF Matches
  <2>5. c.on
    BY DEF CellOK
  <2>6. /\ \A j \in 1..k : Due(c, "loops", j) => \E i \in (r + 1)..q : ad[i] = c.list[j].id
        /\ \A i \in (r + 1)..q : \E j \in 1..k : Due(c, "loops", j) /\ c.list[j].id = ad[i]
    BY <1>2, <1>7, <2>1, <2>2, <2>5 DEF Matches, Live
  <2>7. PICK i0 \in (r + 1)..q : ad[i0] = e
    BY <1>1, <1>2, <1>4, <1>6, <2>6
  <2>8. i0 = r + 1
    <3>1. ASSUME i0 # r + 1
          PROVE  FALSE
      <4>1. r + 1 \in (r + 1)..q /\ r + 1 \in 1..(i0 - 1) /\ i0 \in 1..q /\ r + 1 \in 1..q
        BY <3>1
      <4>2. ad[r + 1] < e /\ ad[r + 1] \in Nat
        BY <2>3, <2>7, <4>1
      <4>3. PICK j \in 1..k : Due(c, "loops", j) /\ c.list[j].id = ad[r + 1]
        BY <2>6, <4>1
      <4>4. CASE j = x + 1
        BY <1>1, <1>4, <4>2, <4>3, <4>4, SMTT(30)
      <4>5. CASE j > x + 1
        <5>1. e < ad[r + 1]
          BY <1>5, <1>6, <4>3, <4>5
        <5> QED BY <4>2, <5>1
      <4> QED BY <1>6, <4>3, <4>4, <4>5
    <3> QED BY <3>1
  <2>9. r + 1 <= q /\ ad[r + 1] = e
    BY <2>7, <2>8
  <2>10. \A i \in 1..(r + 1) : h[i][1] = ad[i]
    BY <1>9, <1>11, <2>4, <2>9
  <2>11. ASSUME NEW j \in 1..k, Due(c, "calls", j)
         PROVE  \E i \in (r + 1 + 1)..q : ad[i] = c.list[j].id
    <3>1. Due(c, "loops", j) /\ c.list[j].id # e
      BY <1>3, <1>5, <1>6, <2>11
    <3>2. PICK i \in (r + 1)..q : ad[i] = c.list[j].id
      BY <2>6, <3>1
    <3>3. i # r + 1
      BY <2>9, <3>1, <3>2
    <3>4. i \in (r + 1 + 1)..q
      BY <3>3
    <3> QED BY <3>2, <3>4
  <2>12. ASSUME NEW i \in (r + 1 + 1)..q
         PROVE  \E j \in 1..k : Due(c, "calls", j) /\ c.list[j].id = ad[i]
    <3>1. i \in (r + 1)..q /\ i \in 1..q /\ r + 1 \in 1..(i - 1)
      OBVIOUS
    <3>2. PICK j \in 1..k : Due(c, "loops", j) /\ c.list[j].id = ad[i]
      BY <2>6, <3>1
    <3>3. e < ad[i] /\ ad[i] \in Nat
      BY <2>3, <2>9, <3>1
    <3>4. ad[i] # e
      BY <3>3
    <3>5. j # x + 1
      BY <1>1, <1>4, <3>2, <3>4
    <3> QED BY <1>6, <3>2, <3>5
  <2>13. r + 1 <= q
    BY <2>9
  <2> QED BY <1>2, <1>11, <2>2, <2>10, <2>11, <2>12, <2>13 DEF Matches
<1>13. ASSUME l[2] = "progress", l[1] # Joined
       PROVE  Waiting(c, p) /\ Notified(c, "calls", h, p)
  <2>1. Waiting(c, p) /\ Notified(c, "loops", ca, p)
    BY <1>13 DEF ListInv
  <2>2. ASSUME NEW i \in 1..r
        PROVE  /\ h[i][1] < p /\ c.memory # NoValue /\ h[i][2] <= c.memory
               /\ h[i][2] = c.memory => \A j \in 1..k : Due(c, "calls", j) => c.list[j].id # h[i][1]
               /\ \A j \in 1..(i - 1) : h[j][1] = h[i][1] => h[j][2] < h[i][2]
    <3>1. \A j \in 1..(i - 1) : j \in 1..r
      OBVIOUS
    <3> QED BY <1>2, <1>6, <1>7, <1>11, <2>1, <3>1 DEF Notified
  <2>3. h[r + 1][1] = e /\ h[r + 1][2] = v /\ v # NoValue /\ v <= v
    BY <1>9, <1>11
  <2>4. \A j \in 1..k : Due(c, "calls", j) => c.list[j].id # e
    BY <1>3, <1>5, <1>6
  <2>5. ASSUME NEW j \in 1..r, h[j][1] = e
        PROVE  h[j][2] < v
    <3>1. ca[j] = h[j] /\ ca[j] \in Nat \X Nat
      BY <1>7, <1>11
    <3>2. ca[j][2] <= v /\ ca[j][2] \in Nat
      BY <1>7, <2>1, <3>1 DEF Notified
    <3>3. Due(c, "loops", x + 1)
      BY <1>1, <1>2, <1>6
    <3>4. ca[j][2] # v
      BY <1>1, <1>2, <1>4, <1>7, <2>1, <2>5, <3>1, <3>3 DEF Notified
    <3> QED BY <3>1, <3>2, <3>4
  <2>6. \A j \in 1..((r + 1) - 1) : j \in 1..r
    OBVIOUS
  <2>7. Notified(c, "calls", h, p)
    BY <1>2, <1>4, <1>11, <2>2, <2>3, <2>4, <2>5, <2>6, SMTT(30) DEF Notified
  <2> QED BY <2>1, <2>7
<1>14. PagesInOrder(c, p) /\ AddedInOrder(ad, p)
  BY DEF ListInv
<1>15. ListInv(l, c, "calls", ad, h, p, th)
  BY <1>12, <1>13, <1>14 DEF ListInv
<1> QED BY <1>4, <1>8, <1>10, <1>15

\* A list is disabled that has not fired.
LEMMA DisablesOrders ==
  ASSUME NEW l \in Lists, NEW c \in Cells, NEW n \in Cells, NEW mode, NEW ad \in Seq(Nat),
         NEW ca \in Seq(Nat \X Nat), NEW p \in Nat, NEW th \in BOOLEAN, CellOK(l, c),
         ListInv(l, c, mode, ad, ca, p, th), c.memory = NoValue, Disables(c, n)
  PROVE  ListInv(l, n, mode, ad, ca, p, th)
<1>1. n.list = <<>> /\ ~n.on /\ n.stack = <<>> /\ n.memory = NoValue /\ ~n.firing
  BY DEF Disables, IsCell, CellOK
<1>2. Len(n.list) = 0 /\ Len(n.stack) = 0
  BY <1>1
<1>3. PagesInOrder(n, p) /\ AddedInOrder(ad, p)
  BY <1>2 DEF ListInv, PagesInOrder
<1>4. ASSUME l[2] # "progress"
      PROVE  Matches(n, mode, ad, ca)
  BY <1>1, <1>4 DEF ListInv, Matches, Live
<1>5. ASSUME l[2] = "progress", l[1] # Joined
      PROVE  Waiting(n, p) /\ Notified(n, mode, ca, p)
  <2>1. Waiting(n, p)
    BY <1>1, <1>2 DEF Waiting
  <2>2. Notified(n, mode, ca, p)
    BY <1>5 DEF ListInv, Notified
  <2> QED BY <2>1, <2>2
<1> QED BY <1>1, <1>3, <1>4, <1>5 DEF ListInv

\* lock drops what waits, which changes nothing that is due.
LEMMA LocksOrders ==
  ASSUME NEW l \in Lists, NEW c \in Cells, NEW n \in Cells, NEW mode, NEW ad \in Seq(Nat),
         NEW ca \in Seq(Nat \X Nat), NEW p \in Nat, NEW th \in BOOLEAN,
         ListInv(l, c, mode, ad, ca, p, th), Locks(c, n)
  PROVE  ListInv(l, n, mode, ad, ca, p, th)
<1>1. /\ n.list = c.list /\ n.on = c.on /\ n.stack = <<>> /\ n.memory = c.memory
      /\ n.firing = c.firing /\ n.index = c.index
  BY DEF Locks, IsCell
<1>2. Live(n, mode) => Live(c, mode)
  BY <1>1 DEF Live
<1>3. \A j \in 1..Len(c.list) : Due(n, mode, j) <=> Due(c, mode, j)
  BY <1>1 DEF Due
<1>4. p <= p
  OBVIOUS
<1>5. ASSUME l[2] = "progress", l[1] # Joined
      PROVE  Waiting(n, p) /\ Notified(n, mode, ca, p)
  <2>1. Waiting(c, p) /\ Notified(c, mode, ca, p)
    BY <1>5 DEF ListInv
  <2>2. Len(n.stack) = 0
    BY <1>1
  <2>3. Waiting(n, p)
    BY <1>1, <2>1, <2>2 DEF Waiting
  <2>4. Notified(n, mode, ca, p)
    BY <1>1, <1>3, <1>4, <2>1, NotifiedStays
  <2> QED BY <2>3, <2>4
<1>6. ~th /\ n.firing => mode # "none"
  BY <1>1 DEF ListInv
<1>7. SameDue(l, c, mode, n, mode, ca, p, th)
  BY <1>1, <1>2, <1>3, <1>5, <1>6 DEF SameDue
<1> QED BY <1>4, <1>7, SameList

\* The next notification of the stack is made.
LEMMA RestartsOrders ==
  ASSUME NEW l \in Lists, NEW c \in Cells, NEW n \in Cells, NEW mode, NEW ad \in Seq(Nat),
         NEW ca \in Seq(Nat \X Nat), NEW p \in Nat, NEW th \in BOOLEAN, NoValue \notin Nat,
         CellOK(l, c), ListInv(l, c, mode, ad, ca, p, th), l[2] = "progress", c.stack # <<>>,
         IsCell(n, c.list, c.on, Tail(c.stack), c.open, Head(c.stack), TRUE, 0, Len(c.list))
  PROVE  ListInv(l, n, "loops", ad, ca, p, th)
<1>1. PICK k \in Nat : k = Len(c.stack) /\ c.stack \in Seq(Nat) /\ k >= 1
  BY CellFields
<1>2. PICK s : s = Tail(c.stack)
  OBVIOUS
<1>3. PICK v \in Nat : v = Head(c.stack) /\ v = c.stack[1]
  BY <1>1
<1>4. Len(s) = k - 1 /\ \A j \in 1..(k - 1) : s[j] = c.stack[j + 1] /\ s[j] \in Nat
  BY <1>1, <1>2, SMTT(30)
<1>5. n.list = c.list /\ n.stack = s /\ n.memory = v /\ n.firing
  BY <1>2, <1>3 DEF IsCell
<1>6. p <= p
  OBVIOUS
<1>7. ASSUME l[1] # Joined
      PROVE  Waiting(n, p) /\ Notified(n, "loops", ca, p)
  <2>1. Waiting(c, p) /\ Notified(c, mode, ca, p)
    BY <1>7 DEF ListInv
  <2>2. 1 \in 1..k
    BY <1>1
  <2>3. c.memory # NoValue /\ c.memory < v /\ v < p
    BY <1>1, <1>3, <2>1, <2>2 DEF Waiting
  <2>4. ASSUME NEW i \in 1..(k - 1)
        PROVE  /\ v < s[i] /\ s[i] < p
               /\ \A j \in 1..(i - 1) : s[j] < s[i]
    <3>1. i + 1 \in 1..k /\ 1 \in 1..((i + 1) - 1)
      OBVIOUS
    <3>2. \A j \in 1..(i - 1) : j \in 1..(k - 1) /\ j + 1 \in 1..((i + 1) - 1)
      OBVIOUS
    <3>3. s[i] < p /\ \A j \in 1..((i + 1) - 1) : c.stack[j] < s[i]
      BY <1>1, <1>4, <2>1, <3>1 DEF Waiting
    <3> QED BY <1>3, <1>4, <3>1, <3>2, <3>3
  <2>5. Waiting(n, p)
    BY <1>4, <1>5, <2>3, <2>4 DEF Waiting
  <2>6. Notified(n, "loops", ca, p)
    BY <1>5, <1>6, <2>1, <2>3, NotifiedMoves
  <2> QED BY <2>5, <2>6
<1>8. SameDue(l, c, mode, n, "loops", ca, p, th)
  BY <1>5, <1>7 DEF SameDue
<1> QED BY <1>6, <1>8, SameList

\* The fire ends, all its callbacks have been called.
LEMMA PopsOrders ==
  ASSUME NEW l \in Lists, NEW c \in Cells, NEW n \in Cells, NEW ad \in Seq(Nat),
         NEW ca \in Seq(Nat \X Nat), NEW p \in Nat, NEW th \in BOOLEAN,
         CellOK(l, c), ListInv(l, c, "loops", ad, ca, p, th), c.firing, c.index = c.length,
         c.stack = <<>>,
         IsCell(n, IF l[2] = "progress" THEN c.list ELSE <<>>, c.on, <<>>, c.open, c.memory,
                FALSE, c.index, c.length)
  PROVE  ListInv(l, n, "none", ad, ca, p, th)
<1>1. /\ n.on = c.on /\ n.stack = c.stack /\ n.memory = c.memory /\ ~n.firing
      /\ n.list = IF l[2] = "progress" THEN c.list ELSE <<>>
  BY DEF IsCell
<1>2. c.on /\ c.memory # NoValue /\ c.index = Len(c.list) /\ Len(c.list) \in Nat
  BY CellFields DEF CellOK
<1>3. PagesInOrder(n, p) /\ AddedInOrder(ad, p)
  <2>1. CASE l[2] = "progress"
    BY <1>1, <2>1 DEF ListInv, PagesInOrder
  <2>2. CASE l[2] # "progress"
    <3>1. Len(n.list) = 0
      BY <1>1, <2>2
    <3> QED BY <3>1 DEF ListInv, PagesInOrder
  <2> QED BY <2>1, <2>2
<1>4. \A j : ~Due(n, "none", j)
  BY <1>1, <1>2 DEF Due
<1>5. ASSUME l[2] # "progress"
      PROVE  Matches(n, "none", ad, ca)
  <2>1. Matches(c, "loops", ad, ca) /\ Live(c, "loops")
    BY <1>2, <1>5 DEF ListInv, Live
  <2>2. \A j \in 1..Len(c.list) : ~Due(c, "loops", j)
    BY <1>2 DEF Due
  <2>3. \A i \in (Len(ca) + 1)..Len(ad) : FALSE
    BY <2>1, <2>2 DEF Matches
  <2> QED BY <1>4, <2>1, <2>3 DEF Matches
<1>6. ASSUME l[2] = "progress", l[1] # Joined
      PROVE  Waiting(n, p) /\ Notified(n, "none", ca, p)
  <2>1. Waiting(c, p) /\ Notified(c, "loops", ca, p)
    BY <1>6 DEF ListInv
  <2>2. Waiting(n, p)
    BY <1>1, <2>1 DEF Waiting
  <2>3. Notified(n, "none", ca, p)
    BY <1>1, <1>4, <1>6, <2>1 DEF Notified
  <2> QED BY <2>2, <2>3
<1> QED BY <1>1, <1>3, <1>5, <1>6 DEF ListInv

\* All callbacks that were added have been called.
LEMMA AllCalled ==
  ASSUME NEW l \in Outcomes, NEW c \in Cells, NEW ad \in Seq(Nat), NEW ca \in Seq(Nat \X Nat),
         NEW p, NEW th, NEW mode, CellOK(l, c), ListInv(l, c, mode, ad, ca, p, th),
         c.on, c.memory # NoValue, ~c.firing
  PROVE  Len(ca) = Len(ad)
<1>1. l[2] # "progress" /\ Matches(c, mode, ad, ca) /\ Live(c, mode)
  BY DEF Outcomes, ListInv, Live
<1>2. \A j : ~Due(c, mode, j)
  BY DEF Due
<1>3. \A i \in (Len(ca) + 1)..Len(ad) : FALSE
  BY <1>1, <1>2 DEF Matches
<1>4. PICK q \in Nat : q = Len(ad)
  OBVIOUS
<1>5. PICK r \in Nat : r = Len(ca)
  OBVIOUS
<1>6. r <= q /\ \A i \in (r + 1)..q : FALSE
  BY <1>1, <1>3, <1>4, <1>5 DEF Matches
<1>7. r < q => r + 1 \in (r + 1)..q
  OBVIOUS
<1> QED BY <1>4, <1>5, <1>6, <1>7

\* The order of the lists holds for later calls.
LEMMA OrderedLater ==
  ASSUME NEW C, NEW F, NEW ad \in [Lists -> Seq(Nat)], NEW ca \in [Lists -> Seq(Nat \X Nat)],
         NEW n \in Nat, NEW n2 \in Nat, n <= n2, NEW th,
         Struct(C, F), Ordered(C, F, ad, ca, n, th)
  PROVE  Ordered(C, F, ad, ca, n2, th)
<1>1. ASSUME NEW x \in Lists
      PROVE  ListInv(x, C[x], Mode(F, x), ad[x], ca[x], n2, th)
  <2>1. C[x] \in Cells /\ ad[x] \in Seq(Nat) /\ ca[x] \in Seq(Nat \X Nat)
    BY DEF Struct
  <2>2. ListInv(x, C[x], Mode(F, x), ad[x], ca[x], n, th)
    BY DEF Ordered
  <2> QED BY <2>1, <2>2, ListLater
<1> QED BY <1>1 DEF Ordered

\* Of the list l becomes k, with the fires that run or without; the others stay.
Elsewhere(C, F, C2, F2, ad, ca, ad2, ca2, l, k) ==
  /\ Puts(C, C2, l, k)
  /\ \A x \in Lists : x # l => Mode(F2, x) = Mode(F, x)
  /\ \A x \in Lists : x # l => ad2[x] = ad[x] /\ ca2[x] = ca[x]

\* The order of the lists when one of them changes.
LEMMA PutOrders ==
  ASSUME NEW C, NEW F, NEW C2, NEW F2, NEW ad \in [Lists -> Seq(Nat)],
         NEW ca \in [Lists -> Seq(Nat \X Nat)], NEW ad2, NEW ca2, NEW n \in Nat, NEW n2 \in Nat,
         n <= n2, NEW th, NEW l \in Lists, NEW k, Struct(C, F), Ordered(C, F, ad, ca, n, th),
         Elsewhere(C, F, C2, F2, ad, ca, ad2, ca2, l, k),
         ListInv(l, k, Mode(F2, l), ad2[l], ca2[l], n2, th)
  PROVE  Ordered(C2, F2, ad2, ca2, n2, th)
<1>1. ASSUME NEW x \in Lists
      PROVE  ListInv(x, C2[x], Mode(F2, x), ad2[x], ca2[x], n2, th)
  <2>1. CASE x = l
    BY <2>1 DEF Elsewhere, Puts
  <2>2. CASE x # l
    <3>1. Ordered(C, F, ad, ca, n2, th)
      BY OrderedLater
    <3>2. C2[x] = C[x] /\ Mode(F2, x) = Mode(F, x) /\ ad2[x] = ad[x] /\ ca2[x] = ca[x]
      BY <2>2 DEF Elsewhere, Puts
    <3> QED BY <2>2, <3>1, <3>2 DEF Ordered
  <2> QED BY <2>1, <2>2
<1> QED BY <1>1 DEF Ordered

\* add, as what it makes of a list that fires or not.
LEMMA AddsGrows ==
  ASSUME DeferredAssumption, NEW C, NEW F, NEW C2, NEW F2, NEW l \in Lists, NEW f,
         Struct(C, F), Adds(C, F, C2, F2, l, f)
  PROVE  \/ ~C[l].on /\ C2 = C /\ F2 = F
         \/ \E n \in Cells : /\ Puts(C, C2, l, n)
                             /\ Grown(C[l], Mode(F, l), n, Mode(F2, l), f)
                             /\ n.firing => C[l].firing \/ Mode(F2, l) # "none"
                             /\ C[l].firing => Mode(F2, l) = Mode(F, l)
                             /\ \A x \in Lists : x # l => Mode(F2, x) = Mode(F, x)
<1>1. PICK c \in Cells : c = C[l] /\ CellOK(l, c)
  BY DEF Struct
<1>2. PICK m \in Modes : m = Mode(F, l)
  BY ModeIs DEF Modes
<1>3. m = "calls" => c.index < c.length
  BY <1>1, <1>2, ModeIs
<1>4. CASE ~C[l].on /\ C2 = C /\ F2 = F
  BY <1>4
<1>5. CASE C[l].on /\ F2 = F /\ \E n \in Cells : Lengthens(C[l], n, f) /\ Puts(C, C2, l, n)
  <2>1. PICK n \in Cells : Lengthens(c, n, f) /\ Puts(C, C2, l, n)
    BY <1>1, <1>5
  <2>2. Grown(c, m, n, m, f)
    BY <1>1, <1>3, <2>1, LengthensGrows
  <2>3. n.firing => c.firing
    BY <2>1 DEF Lengthens, IsCell
  <2> QED BY <1>1, <1>2, <1>5, <2>1, <2>2, <2>3
<1>6. CASE /\ C[l].on /\ F2 = Append(F, FireOf(l, C[l].memory))
           /\ \E n \in Cells : Resumes(C[l], n, f) /\ Puts(C, C2, l, n)
  <2>1. PICK n \in Cells : Resumes(c, n, f) /\ Puts(C, C2, l, n)
    BY <1>1, <1>6
  <2>a. ~c.firing /\ c.memory \in Nat
    BY <2>1, CellFields DEF Resumes
  <2>b. PICK v \in Nat : v = c.memory
    BY <2>a
  <2>2. Pushes(C, F, F2, l, v)
    BY <1>1, <1>6, <2>a, <2>b DEF Pushes
  <2>3. Mode(F2, l) = "loops" /\ \A x \in Lists : x # l => Mode(F2, x) = Mode(F, x)
    BY <2>2, ModePush
  <2>4. Grown(c, m, n, "loops", f)
    BY <1>1, <1>6, <2>1, ResumesGrows
  <2> QED BY <1>1, <1>2, <2>1, <2>a, <2>3, <2>4
<1> QED BY <1>4, <1>5, <1>6 DEF Adds

\* when or pipe adds a callback.
LEMMA AddsJoinOrders ==
  ASSUME DeferredAssumption, NEW C, NEW F, NEW C2, NEW F2, NEW ad \in [Lists -> Seq(Nat)],
         NEW ca \in [Lists -> Seq(Nat \X Nat)], NEW n \in Nat, NEW th \in BOOLEAN, NEW l \in Lists,
         NEW f \in JoinTasks, Struct(C, F), Ordered(C, F, ad, ca, n, th), Adds(C, F, C2, F2, l, f)
  PROVE  Ordered(C2, F2, ad, ca, n, th)
<1>1. CASE C2 = C /\ F2 = F
  BY <1>1
<1>2. ASSUME NEW k \in Cells, Puts(C, C2, l, k), Grown(C[l], Mode(F, l), k, Mode(F2, l), f),
             k.firing => C[l].firing \/ Mode(F2, l) # "none",
             C[l].firing => Mode(F2, l) = Mode(F, l),
             \A x \in Lists : x # l => Mode(F2, x) = Mode(F, x)
      PROVE  Ordered(C2, F2, ad, ca, n, th)
  <2>1. C[l] \in Cells /\ ad[l] \in Seq(Nat) /\ ca[l] \in Seq(Nat \X Nat)
    BY DEF Struct
  <2>2. ListInv(l, C[l], Mode(F, l), ad[l], ca[l], n, th)
    BY DEF Ordered
  <2>3. Mode(F, l) \in Modes /\ Mode(F2, l) \in Modes
    BY DEF Mode, Modes
  <2>4. ~th /\ k.firing => Mode(F2, l) # "none"
    BY <1>2, <2>2 DEF ListInv
  <2>5. ListInv(l, k, Mode(F2, l), ad[l], ca[l], n, th)
    BY <1>2, <2>1, <2>2, <2>3, <2>4, GrownByJoin
  <2>6. n <= n
    OBVIOUS
  <2>7. Elsewhere(C, F, C2, F2, ad, ca, ad, ca, l, k)
    BY <1>2 DEF Elsewhere
  <2> QED BY <2>5, <2>6, <2>7, PutOrders
<1> QED BY <1>1, <1>2, AddsGrows

\* The page adds a callback.
Logs(ad, ad2, l, n) == ad2 = [ad EXCEPT ![l] = Append(@, n)]

\* The page adds a callback.
LEMMA AddsPageOrders ==
  ASSUME DeferredAssumption, NEW C, NEW F, NEW C2, NEW F2, NEW ad \in [Lists -> Seq(Nat)],
         NEW ca \in [Lists -> Seq(Nat \X Nat)], NEW n \in Nat, NEW th \in BOOLEAN, NEW l \in Lists,
         Struct(C, F), Ordered(C, F, ad, ca, n, th), Adds(C, F, C2, F2, l, PageCallback(n)),
         NEW ad2, Logs(ad, ad2, l, n)
  PROVE  Ordered(C2, F2, ad2, ca, n + 1, th)
<1>2. ad2[l] = Append(ad[l], n) /\ \A x \in Lists : x # l => ad2[x] = ad[x] /\ ca[x] = ca[x]
  BY DEF Logs
<1>3. C[l] \in Cells /\ ad[l] \in Seq(Nat) /\ ca[l] \in Seq(Nat \X Nat)
  BY DEF Struct
<1>4. ListInv(l, C[l], Mode(F, l), ad[l], ca[l], n, th)
  BY DEF Ordered
<1>5. n <= n + 1 /\ n + 1 \in Nat
  OBVIOUS
<1>6. CASE ~C[l].on /\ C2 = C /\ F2 = F
  <2>1. ListInv(l, C[l], Mode(F, l), ad2[l], ca[l], n + 1, th)
    BY <1>2, <1>3, <1>4, <1>6, OffByPage
  <2>2. Puts(C, C2, l, C[l]) /\ \A x \in Lists : x # l => Mode(F2, x) = Mode(F, x)
    BY <1>6 DEF Puts, Struct
  <2>3. ListInv(l, C[l], Mode(F2, l), ad2[l], ca[l], n + 1, th)
    BY <1>6, <2>1
  <2>4. Ordered(C2, F2, ad2, ca, n + 1, th)
    <3>1. Elsewhere(C, F, C2, F2, ad, ca, ad2, ca, l, C[l])
      BY <1>2, <2>2 DEF Elsewhere
    <3> QED BY <1>5, <2>3, <3>1, PutOrders
  <2> QED BY <2>4
<1>7. ASSUME NEW k \in Cells, Puts(C, C2, l, k),
             Grown(C[l], Mode(F, l), k, Mode(F2, l), PageCallback(n)),
             k.firing => C[l].firing \/ Mode(F2, l) # "none",
             C[l].firing => Mode(F2, l) = Mode(F, l),
             \A x \in Lists : x # l => Mode(F2, x) = Mode(F, x)
      PROVE  Ordered(C2, F2, ad2, ca, n + 1, th)
  <2>1. Mode(F, l) \in Modes /\ Mode(F2, l) \in Modes
    BY DEF Mode, Modes
  <2>2. ~th /\ k.firing => Mode(F2, l) # "none"
    BY <1>4, <1>7 DEF ListInv
  <2>3. ListInv(l, k, Mode(F2, l), ad2[l], ca[l], n + 1, th)
    BY <1>2, <1>3, <1>4, <1>7, <2>1, <2>2, GrownByPage
  <2>4. Elsewhere(C, F, C2, F2, ad, ca, ad2, ca, l, k)
    BY <1>2, <1>7 DEF Elsewhere
  <2> QED BY <1>5, <2>3, <2>4, PutOrders
<1> QED BY <1>6, <1>7, AddsGrows

\* A notification of the page comes after all that were made.
Notes(l, v, n, n2) == l[2] = "progress" /\ l[1] # Joined => n <= v /\ v < n2

\* resolve, reject, notify, or a callback of jQuery fires.
LEMMA FiresOnOrders ==
  ASSUME DeferredAssumption, NEW C, NEW F, NEW C2, NEW F2, NEW ad \in [Lists -> Seq(Nat)],
         NEW ca \in [Lists -> Seq(Nat \X Nat)], NEW n \in Nat, NEW n2 \in Nat, n <= n2,
         NEW th \in BOOLEAN, NEW l \in Lists, NEW v \in Nat,
         Struct(C, F), Ordered(C, F, ad, ca, n, th), FiresOn(C, F, C2, F2, l, v),
         Notes(l, v, n, n2)
  PROVE  Ordered(C2, F2, ad, ca, n2, th)
<1>1. PICK c \in Cells : c = C[l] /\ CellOK(l, c)
  BY DEF Struct
<1>2. ad[l] \in Seq(Nat) /\ ca[l] \in Seq(Nat \X Nat) /\ NoValue \notin Nat
  BY DEF DeferredAssumption
<1>3. ListInv(l, c, Mode(F, l), ad[l], ca[l], n, th)
  BY <1>1 DEF Ordered
<1>4. CASE C2 = C /\ F2 = F
  BY <1>4, OrderedLater
<1>5. CASE /\ c.open /\ ~c.firing /\ (l[2] # "progress" => c.memory = NoValue)
           /\ F2 = Append(F, FireOf(l, v)) /\ \E k \in Cells : Begins(c, k, v) /\ Puts(C, C2, l, k)
  <2>1. PICK k \in Cells : Begins(c, k, v) /\ Puts(C, C2, l, k)
    BY <1>5
  <2>2. Mode(F, l) = "none" /\ Mode(F2, l) = "loops"
        /\ \A x \in Lists : x # l => Mode(F2, x) = Mode(F, x)
    <3>1. Pushes(C, F, F2, l, v)
      BY <1>1, <1>5 DEF Pushes
    <3> QED BY <3>1, ModePush
  <2>3. ListInv(l, c, "none", ad[l], ca[l], n, th)
    BY <1>3, <2>2
  <2>4. ListInv(l, k, "loops", ad[l], ca[l], n2, th)
    BY <1>1, <1>2, <1>5, <2>1, <2>3, BeginsOrders DEF Notes
  <2>5. Elsewhere(C, F, C2, F2, ad, ca, ad, ca, l, k)
    BY <2>1, <2>2 DEF Elsewhere
  <2>6. ListInv(l, k, Mode(F2, l), ad[l], ca[l], n2, th)
    BY <2>2, <2>4
  <2> QED BY <2>5, <2>6, PutOrders
<1>6. CASE c.firing /\ l[2] = "progress" /\ F2 = F /\ \E k \in Cells : Stacks(c, k, v) /\ Puts(C, C2, l, k)
  <2>1. PICK k \in Cells : Stacks(c, k, v) /\ Puts(C, C2, l, k)
    BY <1>6
  <2>2. PICK m \in Modes : m = Mode(F, l) /\ m = Mode(F2, l)
    BY <1>6 DEF Mode, Modes
  <2>3. ListInv(l, c, m, ad[l], ca[l], n, th)
    BY <1>3, <2>2
  <2>4. ListInv(l, k, m, ad[l], ca[l], n2, th)
    BY <1>1, <1>2, <1>6, <2>1, <2>3, StacksOrders DEF Notes
  <2>5. Elsewhere(C, F, C2, F2, ad, ca, ad, ca, l, k)
    BY <1>6, <2>1 DEF Elsewhere
  <2>6. ListInv(l, k, Mode(F2, l), ad[l], ca[l], n2, th)
    BY <2>2, <2>4
  <2> QED BY <2>5, <2>6, PutOrders
<1> QED BY <1>1, <1>4, <1>5, <1>6 DEF FiresOn

\* The last fire, its list and what is known of them.
LEMMA TopOrders ==
  ASSUME NEW C, NEW F, NEW ad \in [Lists -> Seq(Nat)], NEW ca \in [Lists -> Seq(Nat \X Nat)],
         NEW n \in Nat, NEW th, Struct(C, F), F # <<>>, Ordered(C, F, ad, ca, n, th),
         NEW l, l = F[Len(F)].list
  PROVE  /\ l \in Lists /\ C[l] \in Cells /\ CellOK(l, C[l]) /\ C[l].firing
         /\ ad[l] \in Seq(Nat) /\ ca[l] \in Seq(Nat \X Nat)
         /\ ListInv(l, C[l], IF F[Len(F)].in = NoCallback THEN "loops" ELSE "calls",
                    ad[l], ca[l], n, th)
<1>1. l \in Lists /\ C[l] \in Cells /\ CellOK(l, C[l]) /\ C[l].firing
  BY TopIs DEF FrameOK
<1>2. Mode(F, l) = IF F[Len(F)].in = NoCallback THEN "loops" ELSE "calls"
  BY ModeTop
<1>3. ListInv(l, C[l], Mode(F, l), ad[l], ca[l], n, th)
  BY <1>1 DEF Ordered
<1> QED BY <1>1, <1>2, <1>3

\* The loop goes on.
LEMMA StepsOrdered ==
  ASSUME NEW C, NEW F, NEW C2, NEW F2, NEW ad \in [Lists -> Seq(Nat)],
         NEW ca \in [Lists -> Seq(Nat \X Nat)], NEW n \in Nat, NEW th \in BOOLEAN,
         Struct(C, F), F # <<>>, Ordered(C, F, ad, ca, n, th), Steps(C, F, C2, F2),
         NEW l, l = F[Len(F)].list,
         F[Len(F)].in = NoCallback => C[l].list[C[l].index + 1].do # "page"
  PROVE  Ordered(C2, F2, ad, ca, n, th)
<1>1. /\ l \in Lists /\ C[l] \in Cells /\ C[l].firing
      /\ ad[l] \in Seq(Nat) /\ ca[l] \in Seq(Nat \X Nat)
  BY TopOrders
<1>2. PICK m \in {"loops", "calls"} : m = IF F[Len(F)].in = NoCallback THEN "loops" ELSE "calls"
  OBVIOUS
<1>3. ListInv(l, C[l], m, ad[l], ca[l], n, th)
  BY <1>2, TopOrders
<1>4. PICK k \in Cells :
        /\ Puts(C, C2, l, k)
        /\ IsCell(k, C[l].list, C[l].on, C[l].stack, C[l].open, C[l].memory, C[l].firing,
                  C[l].index + 1, C[l].length)
  BY DEF Steps
<1>5. ListInv(l, k, "loops", ad[l], ca[l], n, th)
  <2>1. PICK c \in Cells : c = C[l]
    BY <1>1
  <2>2. m = "loops" => c.list[c.index + 1].do # "page"
    BY <1>2, <2>1
  <2>3. Passes(c, m)
    BY <1>1, <2>1, <2>2 DEF Passes
  <2>4. IsCell(k, c.list, c.on, c.stack, c.open, c.memory, c.firing, c.index + 1, c.length)
    BY <1>4, <2>1
  <2>5. ListInv(l, c, m, ad[l], ca[l], n, th)
    BY <1>3, <2>1
  <2> QED BY <1>1, <2>3, <2>4, <2>5, StepsOrders
<1>6. /\ Len(F2) = Len(F) /\ (\A i \in 1..(Len(F) - 1) : F2[i] = F[i])
      /\ F2[Len(F)].list = F[Len(F)].list /\ F2[Len(F)].in = NoCallback
  BY DEF Steps, FireOf
<1>7. Mode(F2, l) = "loops" /\ \A x \in Lists : x # l => Mode(F2, x) = Mode(F, x)
  BY <1>6, ModeReplaced
<1>8. Elsewhere(C, F, C2, F2, ad, ca, ad, ca, l, k)
  BY <1>4, <1>7 DEF Elsewhere
<1>9. n <= n /\ ListInv(l, k, Mode(F2, l), ad[l], ca[l], n, th)
  BY <1>5, <1>7
<1> QED BY <1>1, <1>8, <1>9, PutOrders

\* The last fire calls g, a callback of the page or of pipe.
CallsNext(C, F, F2, g, ca, ca2) ==
  LET l == F[Len(F)].list
  IN  /\ g \in PageTasks \cup JoinTasks /\ g # NoCallback /\ F # <<>> /\ Calls(F, F2, g)
      /\ F[Len(F)].in = NoCallback /\ C[l].index < C[l].length /\ g = C[l].list[C[l].index + 1]
      /\ ca2 = IF g.do = "page" THEN [ca EXCEPT ![l] = Append(@, <<g.id, F[Len(F)].value>>)] ELSE ca

\* A callback of the page is called and logged, or one of pipe is.
LEMMA CallsOrdered ==
  ASSUME NEW C, NEW F, NEW F2, NEW ad \in [Lists -> Seq(Nat)],
         NEW ca \in [Lists -> Seq(Nat \X Nat)], NEW ca2, NEW n \in Nat, NEW th \in BOOLEAN,
         NEW g, NoValue \notin Nat, Struct(C, F), Ordered(C, F, ad, ca, n, th),
         CallsNext(C, F, F2, g, ca, ca2)
  PROVE  Ordered(C, F2, ad, ca2, n, th)
<1>a. PICK l : l = F[Len(F)].list
  OBVIOUS
<1>b. /\ g # NoCallback /\ F # <<>> /\ Calls(F, F2, g) /\ F[Len(F)].in = NoCallback
      /\ C[l].index < C[l].length /\ g = C[l].list[C[l].index + 1]
      /\ ca2 = IF g.do = "page" THEN [ca EXCEPT ![l] = Append(@, <<g.id, F[Len(F)].value>>)] ELSE ca
  BY <1>a DEF CallsNext
<1>1. /\ l \in Lists /\ C[l] \in Cells /\ CellOK(l, C[l]) /\ C[l].firing
      /\ ad[l] \in Seq(Nat) /\ ca[l] \in Seq(Nat \X Nat)
      /\ ListInv(l, C[l], "loops", ad[l], ca[l], n, th)
  BY <1>a, <1>b, TopOrders
<1>2. PICK v \in Nat : v = F[Len(F)].value /\ v = C[l].memory
  BY <1>a, <1>b, TopIs DEF FrameOK
<1>3. /\ Len(F2) = Len(F) /\ (\A i \in 1..(Len(F) - 1) : F2[i] = F[i])
      /\ F2[Len(F)].list = F[Len(F)].list /\ F2[Len(F)].in # NoCallback
  BY <1>b DEF Calls
<1>4. Mode(F2, l) = "calls" /\ \A x \in Lists : x # l => Mode(F2, x) = Mode(F, x)
  BY <1>a, <1>b, <1>3, ModeReplaced
<1>5. Puts(C, C, l, C[l])
  BY DEF Puts, Struct
<1>6. n <= n
  OBVIOUS
<1>7. CASE g.do = "page"
  <2>1. ca2[l] = Append(ca[l], <<g.id, v>>) /\ \A x \in Lists : x # l => ca2[x] = ca[x]
    BY <1>1, <1>2, <1>7, <1>b
  <2>2. ListInv(l, C[l], "calls", ad[l], Append(ca[l], <<g.id, v>>), n, th)
    <3>1. PICK c \in Cells : c = C[l]
      BY <1>1
    <3>2. CellOK(l, c) /\ ListInv(l, c, "loops", ad[l], ca[l], n, th)
      BY <1>1, <3>1
    <3>3. c.firing
      BY <1>1, <3>1
    <3>4. c.index < c.length /\ g = c.list[c.index + 1] /\ v = c.memory
      BY <1>2, <1>b, <3>1
    <3>5. ListInv(l, c, "calls", ad[l], Append(ca[l], <<g.id, v>>), n, th)
      BY <1>1, <1>7, <3>2, <3>3, <3>4, CallsPageOrders
    <3> QED BY <3>1, <3>5
  <2>3. ListInv(l, C[l], Mode(F2, l), ad[l], ca2[l], n, th)
    BY <1>4, <2>1, <2>2
  <2>4. Elsewhere(C, F, C, F2, ad, ca, ad, ca2, l, C[l])
    BY <1>4, <1>5, <2>1 DEF Elsewhere
  <2> QED BY ONLY <1>1, <1>6, <2>3, <2>4, PutOrders, Struct(C, F), Ordered(C, F, ad, ca, n, th),
          n \in Nat, ad \in [Lists -> Seq(Nat)], ca \in [Lists -> Seq(Nat \X Nat)]
<1>8. CASE g.do # "page"
  <2>1. C[l].list[C[l].index + 1].do # "page"
    BY <1>8, <1>b
  <2>2. ListInv(l, C[l], "calls", ad[l], ca[l], n, th)
    BY <1>1, <2>1, CallsPipedOrders
  <2>3. ListInv(l, C[l], Mode(F2, l), ad[l], ca2[l], n, th)
    BY <1>4, <1>8, <1>b, <2>2
  <2>4. Elsewhere(C, F, C, F2, ad, ca, ad, ca2, l, C[l])
    BY <1>4, <1>5, <1>8, <1>b DEF Elsewhere
  <2> QED BY ONLY <1>1, <1>6, <2>3, <2>4, PutOrders, Struct(C, F), Ordered(C, F, ad, ca, n, th),
          n \in Nat, ad \in [Lists -> Seq(Nat)], ca \in [Lists -> Seq(Nat \X Nat)]
<1> QED BY <1>7, <1>8

\* The end of a fire.
LEMMA RestartsOrdered ==
  ASSUME NEW C, NEW F, NEW C2, NEW F2, NEW ad \in [Lists -> Seq(Nat)],
         NEW ca \in [Lists -> Seq(Nat \X Nat)], NEW n \in Nat, NEW th \in BOOLEAN,
         NoValue \notin Nat, Struct(C, F), F # <<>>, Ordered(C, F, ad, ca, n, th),
         F[Len(F)].in = NoCallback, Restarts(C, F, C2, F2)
  PROVE  Ordered(C2, F2, ad, ca, n, th)
<1>1. PICK l : l = F[Len(F)].list
  OBVIOUS
<1>2. /\ l \in Lists /\ C[l] \in Cells /\ CellOK(l, C[l])
      /\ ad[l] \in Seq(Nat) /\ ca[l] \in Seq(Nat \X Nat)
      /\ ListInv(l, C[l], "loops", ad[l], ca[l], n, th)
  BY <1>1, TopOrders
<1>3. PICK k \in Cells :
        /\ Puts(C, C2, l, k)
        /\ IsCell(k, C[l].list, C[l].on, Tail(C[l].stack), C[l].open, Head(C[l].stack), TRUE, 0,
                  Len(C[l].list))
  BY <1>1 DEF Restarts
<1>4. l[2] = "progress" /\ C[l].stack # <<>>
  BY <1>1 DEF Restarts
<1>5. ListInv(l, k, "loops", ad[l], ca[l], n, th)
  BY <1>2, <1>3, <1>4, RestartsOrders, ZenonT(40)
<1>6. /\ Len(F2) = Len(F) /\ (\A i \in 1..(Len(F) - 1) : F2[i] = F[i])
      /\ F2[Len(F)].list = F[Len(F)].list /\ F2[Len(F)].in = NoCallback
  BY <1>1 DEF Restarts, FireOf
<1>7. Mode(F2, l) = "loops" /\ \A x \in Lists : x # l => Mode(F2, x) = Mode(F, x)
  BY <1>1, <1>6, ModeReplaced
<1>8. Elsewhere(C, F, C2, F2, ad, ca, ad, ca, l, k)
  BY <1>3, <1>7 DEF Elsewhere
<1>9. n <= n /\ ListInv(l, k, Mode(F2, l), ad[l], ca[l], n, th)
  BY <1>5, <1>7
<1> QED BY <1>2, <1>8, <1>9, PutOrders

\* A fire ends: nothing was due.
LEMMA PopsOrdered ==
  ASSUME NEW C, NEW F, NEW C2, NEW F2, NEW ad \in [Lists -> Seq(Nat)],
         NEW ca \in [Lists -> Seq(Nat \X Nat)], NEW n \in Nat, NEW th \in BOOLEAN,
         Struct(C, F), F # <<>>, Ordered(C, F, ad, ca, n, th), F[Len(F)].in = NoCallback,
         C[F[Len(F)].list].index = C[F[Len(F)].list].length, Pops(C, F, C2, F2)
  PROVE  Ordered(C2, F2, ad, ca, n, th)
<1>1. PICK l : l = F[Len(F)].list
  OBVIOUS
<1>2. /\ l \in Lists /\ C[l] \in Cells /\ CellOK(l, C[l]) /\ C[l].firing
      /\ ad[l] \in Seq(Nat) /\ ca[l] \in Seq(Nat \X Nat)
      /\ ListInv(l, C[l], "loops", ad[l], ca[l], n, th)
  BY <1>1, TopOrders
<1>3. PICK k \in Cells :
        /\ Puts(C, C2, l, k)
        /\ IsCell(k, IF l[2] = "progress" THEN C[l].list ELSE <<>>, C[l].on, <<>>, C[l].open,
                  C[l].memory, FALSE, C[l].index, C[l].length)
  BY <1>1 DEF Pops
<1>4. C[l].stack = <<>> /\ C[l].index = C[l].length
  BY <1>1 DEF Pops
<1>5. ListInv(l, k, "none", ad[l], ca[l], n, th)
  BY <1>2, <1>3, <1>4, PopsOrders
<1>6. Mode(F2, l) = "none" /\ \A x \in Lists : x # l => Mode(F2, x) = Mode(F, x)
  BY <1>1, ModePops
<1>7. Elsewhere(C, F, C2, F2, ad, ca, ad, ca, l, k)
  BY <1>3, <1>6 DEF Elsewhere
<1>8. n <= n /\ ListInv(l, k, Mode(F2, l), ad[l], ca[l], n, th)
  BY <1>5, <1>6
<1> QED BY <1>2, <1>7, <1>8, PutOrders

\* An exception leaves lists as firing with no fire.
LEMMA ThrowsOrdered ==
  ASSUME NEW C, NEW F, NEW ad, NEW ca, NEW n, NEW th, NEW k \in 0..(Len(F) - 1), Struct(C, F),
         Ordered(C, F, ad, ca, n, th)
  PROVE  Ordered(C, SubSeq(F, 1, k), ad, ca, n, TRUE)
<1>1. ASSUME NEW x \in Lists
      PROVE  ListInv(x, C[x], Mode(SubSeq(F, 1, k), x), ad[x], ca[x], n, TRUE)
  <2>1. ListInv(x, C[x], Mode(F, x), ad[x], ca[x], n, th) /\ C[x] \in Cells
    BY DEF Ordered, Struct
  <2>2. Mode(SubSeq(F, 1, k), x) \in {Mode(F, x), "none"}
    BY ModeThrow
  <2> QED BY <2>1, <2>2, ListThrown
<1> QED BY <1>1 DEF Ordered

\* A list is disabled or locked by a callback of jQuery.
LEMMA OffOrdered ==
  ASSUME NEW C, NEW F, NEW C2, NEW ad \in [Lists -> Seq(Nat)],
         NEW ca \in [Lists -> Seq(Nat \X Nat)], NEW n \in Nat, NEW th \in BOOLEAN,
         Struct(C, F), Ordered(C, F, ad, ca, n, th), NEW l \in Lists, NEW k \in Cells,
         Puts(C, C2, l, k), (C[l].memory = NoValue /\ Disables(C[l], k)) \/ Locks(C[l], k)
  PROVE  Ordered(C2, F, ad, ca, n, th)
<1>1. C[l] \in Cells /\ CellOK(l, C[l]) /\ ad[l] \in Seq(Nat) /\ ca[l] \in Seq(Nat \X Nat)
  BY DEF Struct
<1>2. ListInv(l, C[l], Mode(F, l), ad[l], ca[l], n, th)
  BY DEF Ordered
<1>3. ListInv(l, k, Mode(F, l), ad[l], ca[l], n, th)
  BY <1>1, <1>2, DisablesOrders, LocksOrders
<1>4. Elsewhere(C, F, C2, F, ad, ca, ad, ca, l, k)
  BY DEF Elsewhere
<1>5. n <= n
  OBVIOUS
<1> QED BY <1>3, <1>4, <1>5, PutOrders

-----------------------------------------------------------------------------
(* The calls *)

\* The invariant when no deferred is about to settle.
Held(C, F, st, ad, ca, n, th) ==
  /\ Struct(C, F) /\ Agree(C, st) /\ Calm(C, st) /\ CalledOnce(C, ca)
  /\ Ordered(C, F, ad, ca, n, th)

\* Then the invariant holds, whatever runs.
LEMMA HeldHolds ==
  ASSUME NEW C, NEW F, NEW st, NEW ad, NEW ca, NEW n, NEW th, NEW done,
         Held(C, F, st, ad, ca, n, th)
  PROVE  Holds(C, F, st, ad, ca, n, th, done)
  BY DEF Held, Holds, Calm, SettlesOrHas

\* The running code is the page's, or the callback that the last fire has come to is not the
\* one that settles a deferred.
CalmTop(C, F, done) ==
  \/ ~done \/ F = <<>> \/ F[Len(F)].in # NoCallback
  \/ /\ F[Len(F)].list \in Lists
     /\ Prefixed(F[Len(F)].list, C[F[Len(F)].list]) => C[F[Len(F)].list].index >= 2

\* And no deferred settles when the page or a later callback runs.
LEMMA HoldsHeld ==
  ASSUME NEW C, NEW F, NEW st, NEW ad, NEW ca, NEW n, NEW th, NEW done,
         Holds(C, F, st, ad, ca, n, th, done), CalmTop(C, F, done)
  PROVE  Held(C, F, st, ad, ca, n, th)
<1>1. SettlesOrHas(C, F, st, done) /\ C \in [Lists -> Cells]
  BY DEF Holds, Struct
<1>2. Calm(C, st)
  BY <1>1, CalmWhen DEF CalmTop
<1> QED BY <1>2 DEF Holds, Held

\* when or pipe adds a callback to a deferred of the page.
LEMMA AddsJoinHeld ==
  ASSUME DeferredAssumption, NEW C, NEW F, NEW C2, NEW F2, NEW st, NEW ad \in [Lists -> Seq(Nat)],
         NEW ca \in [Lists -> Seq(Nat \X Nat)], NEW n \in Nat, NEW th \in BOOLEAN, NEW l \in Lists,
         NEW f \in JoinTasks, Held(C, F, st, ad, ca, n, th), Adds(C, F, C2, F2, l, f), l[1] # Joined
  PROVE  Held(C2, F2, st, ad, ca, n, th)
<1>1. f \in Guests(l)
  BY DEF Guests
<1>2. Struct(C, F) /\ Struct(C2, F2) /\ C \in [Lists -> Cells] /\ C2 \in [Lists -> Cells]
  BY <1>1, AddsKeeps DEF Held, Struct
<1>3. Steady(C, C2)
  BY <1>1, <1>2, AddsSteady
<1>4. Agree(C2, st) /\ Calm(C2, st) /\ CalledOnce(C2, ca)
  BY <1>2, <1>3, SteadyKeeps DEF Held
<1>5. Ordered(C2, F2, ad, ca, n, th)
  BY <1>2, AddsJoinOrders DEF Held
<1> QED BY <1>2, <1>4, <1>5 DEF Held

\* The page adds a callback.
LEMMA AddsPageHeld ==
  ASSUME DeferredAssumption, NEW C, NEW F, NEW C2, NEW F2, NEW st, NEW ad \in [Lists -> Seq(Nat)],
         NEW ca \in [Lists -> Seq(Nat \X Nat)], NEW n \in Nat, NEW th \in BOOLEAN, NEW l \in Lists,
         Held(C, F, st, ad, ca, n, th), Adds(C, F, C2, F2, l, PageCallback(n)),
         NEW ad2, Logs(ad, ad2, l, n)
  PROVE  Held(C2, F2, st, ad2, ca, n + 1, th)
<1>1. PageCallback(n) \in Guests(l)
  BY DEF Guests, PageTasks, PageCallback
<1>2. Struct(C, F) /\ Struct(C2, F2) /\ C \in [Lists -> Cells] /\ C2 \in [Lists -> Cells]
  BY <1>1, AddsKeeps DEF Held, Struct
<1>3. Steady(C, C2)
  BY <1>1, <1>2, AddsSteady
<1>4. Agree(C2, st) /\ Calm(C2, st) /\ CalledOnce(C2, ca)
  BY <1>2, <1>3, SteadyKeeps DEF Held
<1>a. Ordered(C, F, ad, ca, n, th)
  BY DEF Held
<1>5. Ordered(C2, F2, ad2, ca, n + 1, th)
  BY <1>2, <1>a, AddsPageOrders
<1> QED BY <1>2, <1>4, <1>5 DEF Held

\* A fire may begin to settle a deferred.
LEMMA FiresOnHolds ==
  ASSUME DeferredAssumption, NEW C, NEW F, NEW C2, NEW F2, NEW st, NEW ad \in [Lists -> Seq(Nat)],
         NEW ca \in [Lists -> Seq(Nat \X Nat)], NEW n \in Nat, NEW n2 \in Nat, n <= n2,
         NEW th \in BOOLEAN, NEW l \in Lists, NEW v \in Nat, NEW done,
         Held(C, F, st, ad, ca, n, th), FiresOn(C, F, C2, F2, l, v),
         Notes(l, v, n, n2), Len(F2) = Len(F) + 1 => done
  PROVE  Holds(C2, F2, st, ad, ca, n2, th, done)
<1>1. Struct(C, F) /\ Struct(C2, F2)
  BY FiresOnKeeps DEF Held
<1>2. Agree(C2, st) /\ SettlesOrHas(C2, F2, st, done) /\ CalledOnce(C2, ca)
  BY <1>1, FiresOnSettles DEF Held
<1>3. Ordered(C2, F2, ad, ca, n2, th)
  <2>1. Ordered(C, F, ad, ca, n, th)
    BY DEF Held
  <2> QED BY <1>1, <2>1, FiresOnOrders
<1> QED BY <1>1, <1>2, <1>3 DEF Holds

\* The loop goes on.
LEMMA StepsHeld ==
  ASSUME DeferredAssumption, NEW C, NEW F, NEW C2, NEW F2, NEW st, NEW ad \in [Lists -> Seq(Nat)],
         NEW ca \in [Lists -> Seq(Nat \X Nat)], NEW n \in Nat, NEW th \in BOOLEAN, NEW l,
         Held(C, F, st, ad, ca, n, th), F # <<>>, Steps(C, F, C2, F2),
         l = F[Len(F)].list, C[l].index < C[l].length,
         F[Len(F)].in = NoCallback => C[l].list[C[l].index + 1].do # "page"
  PROVE  Held(C2, F2, st, ad, ca, n, th)
<1>1. Struct(C, F) /\ Struct(C2, F2) /\ C \in [Lists -> Cells] /\ C2 \in [Lists -> Cells]
  BY StepKeeps DEF Held, Struct
<1>2. Steady(C, C2)
  BY <1>1, StepsSteady
<1>3. Agree(C2, st) /\ Calm(C2, st) /\ CalledOnce(C2, ca)
  BY <1>1, <1>2, SteadyKeeps DEF Held
<1>4. Ordered(C2, F2, ad, ca, n, th)
  BY <1>1, StepsOrdered DEF Held
<1> QED BY <1>1, <1>3, <1>4 DEF Held

\* A fire ends or restarts.
LEMMA EndsHeld ==
  ASSUME DeferredAssumption, NEW C, NEW F, NEW C2, NEW F2, NEW st, NEW ad \in [Lists -> Seq(Nat)],
         NEW ca \in [Lists -> Seq(Nat \X Nat)], NEW n \in Nat, NEW th \in BOOLEAN,
         Held(C, F, st, ad, ca, n, th), F # <<>>, F[Len(F)].in = NoCallback,
         C[F[Len(F)].list].index = C[F[Len(F)].list].length,
         Restarts(C, F, C2, F2) \/ Pops(C, F, C2, F2)
  PROVE  Held(C2, F2, st, ad, ca, n, th)
<1>1. NoValue \notin Nat
  BY DEF DeferredAssumption
<1>2. Struct(C, F) /\ Ordered(C, F, ad, ca, n, th)
  BY DEF Held
<1>3. Struct(C2, F2)
  BY <1>1, <1>2, RestartKeeps, PopKeeps
<1>4. Steady(C, C2)
  BY <1>2, RestartsSteady, PopsSteady
<1>5. C \in [Lists -> Cells] /\ C2 \in [Lists -> Cells]
  BY <1>2, <1>3 DEF Struct
<1>6. Agree(C2, st) /\ Calm(C2, st) /\ CalledOnce(C2, ca)
  BY <1>4, <1>5, SteadyKeeps DEF Held
<1>7. Ordered(C2, F2, ad, ca, n, th)
  BY <1>1, <1>2, RestartsOrdered, PopsOrdered
<1> QED BY <1>3, <1>6, <1>7 DEF Held

\* An exception leaves fires.
LEMMA ThrowsHeld ==
  ASSUME NEW C, NEW F, NEW st, NEW ad, NEW ca, NEW n, NEW th, NEW k \in 0..(Len(F) - 1),
         Held(C, F, st, ad, ca, n, th)
  PROVE  Held(C, SubSeq(F, 1, k), st, ad, ca, n, TRUE)
<1>1. Struct(C, F) /\ Ordered(C, F, ad, ca, n, th)
  BY DEF Held
<1>2. Struct(C, SubSeq(F, 1, k))
  BY <1>1, ThrowKeeps
<1>3. Ordered(C, SubSeq(F, 1, k), ad, ca, n, TRUE)
  BY <1>1, ThrowsOrdered
<1> QED BY <1>2, <1>3 DEF Held

\* A callback of the page is called: its list has fired and the other outcome is disabled.
LEMMA CallsHeld ==
  ASSUME DeferredAssumption, NEW C, NEW F, NEW F2, NEW st, NEW ad \in [Lists -> Seq(Nat)],
         NEW ca \in [Lists -> Seq(Nat \X Nat)], NEW ca2, NEW n \in Nat, NEW th \in BOOLEAN,
         NEW g, Held(C, F, st, ad, ca, n, th), CallsNext(C, F, F2, g, ca, ca2)
  PROVE  Held(C, F2, st, ad, ca2, n, th)
<1>a. PICK l : l = F[Len(F)].list
  OBVIOUS
<1>b. /\ g \in PageTasks \cup JoinTasks /\ F # <<>> /\ Calls(F, F2, g) /\ F[Len(F)].in = NoCallback
      /\ C[l].index < C[l].length /\ g = C[l].list[C[l].index + 1]
      /\ ca2 = IF g.do = "page" THEN [ca EXCEPT ![l] = Append(@, <<g.id, F[Len(F)].value>>)] ELSE ca
  BY <1>a DEF CallsNext
<1>1. Struct(C, F) /\ Ordered(C, F, ad, ca, n, th) /\ NoValue \notin Nat
  BY DEF Held, DeferredAssumption
<1>2. Struct(C, F2)
  BY <1>1, <1>a, <1>b, CallKeeps
<1>3. Ordered(C, F2, ad, ca2, n, th)
  BY <1>1, CallsOrdered
<1>c. C[l].memory \in Nat \cup {NoValue} /\ (g.do = "page" => g.id \in Nat)
  <2>1. C[l] \in Cells
    BY <1>1, <1>a, <1>b, TopIs
  <2>2. g.do = "page" => g.id \in Nat
    BY <1>b, OwnDo
  <2> QED BY <2>1, <2>2, CellFields
<1>4. l \in Lists /\ ca[l] \in Seq(Nat \X Nat) /\ C[l].firing /\ C[l].on /\ C[l].memory # NoValue
  BY <1>1, <1>a, <1>b, TopIs, ZenonT(40) DEF FrameOK, CellOK
<1>5. F[Len(F)].value = C[l].memory
  BY <1>1, <1>a, <1>b, TopIs DEF FrameOK
<1>6. CASE g.do # "page"
  BY <1>2, <1>3, <1>6, <1>b DEF Held
<1>7. CASE g.do = "page"
  <2>1. PICK e : e = <<g.id, C[l].memory>>
    OBVIOUS
  <2>a. e \in Nat \X Nat
    BY <1>4, <1>7, <1>c, <2>1
  <2>2. ca2[l] = Append(ca[l], e) /\ e[2] = C[l].memory /\ \A x \in Lists : x # l => ca2[x] = ca[x]
    BY <1>4, <1>5, <1>7, <1>b, <2>1
  <2>3. ASSUME NEW x \in Outcomes, NEW i \in 1..Len(ca2[x])
        PROVE  Fired(C, x) /\ ~C[Rival(x)].on /\ ca2[x][i][2] = C[x].memory
    <3>1. CalledOnce(C, ca) /\ x \in Lists
      BY DEF Held, Outcomes
    <3>2. CASE x # l
      BY <2>2, <3>1, <3>2 DEF CalledOnce
    <3>3. CASE x = l
      <4>1. Fired(C, l)
        BY <1>4 DEF Fired
      <4>2. ~C[Rival(l)].on
        BY <3>3, <4>1 DEF Held, Calm, HasSettled
      <4>3. PICK r \in Nat : r = Len(ca[l])
        BY <1>4
      <4>4. PICK h : h = Append(ca[l], e)
        OBVIOUS
      <4>5. Len(h) = r + 1 /\ h[r + 1] = e /\ \A j \in 1..r : h[j] = ca[l][j]
        BY <1>4, <2>a, <4>3, <4>4
      <4>6. i = r + 1 \/ i \in 1..r
        BY <2>2, <3>3, <4>4, <4>5
      <4>7. CASE i = r + 1
        BY <2>2, <3>3, <4>1, <4>2, <4>4, <4>5, <4>7
      <4>8. CASE i \in 1..r
        <5>1. h[i][2] = C[l].memory
          BY <3>1, <3>3, <4>3, <4>5, <4>8 DEF CalledOnce
        <5> QED BY <2>2, <3>3, <4>1, <4>2, <4>4, <5>1
      <4> QED BY <4>6, <4>7, <4>8
    <3> QED BY <3>2, <3>3
  <2>4. CalledOnce(C, ca2)
    BY <2>3 DEF CalledOnce
  <2> QED BY <1>2, <1>3, <2>4 DEF Held
<1> QED BY <1>6, <1>7

\* The invariant before a call, when no deferred settles.
LEMMA HeldNow ==
  ASSUME IInv, CalmTop(cb, fires, ScriptDone)
  PROVE  Held(cb, fires, state, added, called, ops, thrown)
<1>1. PICK done : done = ScriptDone
  OBVIOUS
<1>2. Holds(cb, fires, state, added, called, ops, thrown, done) /\ CalmTop(cb, fires, done)
  BY <1>1 DEF IInv
<1> QED BY <1>2, HoldsHeld

\* The invariant after a call that settles none.
LEMMA HeldNext ==
  ASSUME Typed', Held(cb', fires', state', added', called', ops', thrown')
  PROVE  IInv'
<1>1. PICK done : done = ScriptDone'
  OBVIOUS
<1>2. Holds(cb', fires', state', added', called', ops', thrown', done)
  BY HeldHolds
<1> QED BY <1>1, <1>2 DEF IInv

\* No deferred settles while the page runs.
LEMMA PageCalm ==
  ASSUME IInv, PageRuns
  PROVE  Held(cb, fires, state, added, called, ops, thrown)
<1>1. CalmTop(cb, fires, ScriptDone)
  BY DEF PageRuns, Last, CalmTop
<1> QED BY <1>1, HeldNow

\* done, fail and progress.
LEMMA AddCallbackHolds ==
  ASSUME DeferredAssumption, IInv, NEW l \in Lists, AddCallback(l)
  PROVE  IInv'
<1>1. /\ PageRuns /\ ops' = ops + 1
      /\ Goto(Add(Now, l, PageCallback(ops)))
      /\ added' = [added EXCEPT ![l] = Append(@, ops)]
      /\ script' = script /\ depth' = depth /\ state' = state /\ called' = called /\ thrown' = thrown
  BY DEF AddCallback, PageCalls, joining
<1>2. Held(cb, fires, state, added, called, ops, thrown)
  BY <1>1, PageCalm
<1>3. Typed
  BY DEF IInv
<1>4. PageCallback(ops) \in Tasks
  BY <1>3 DEF Typed, Tasks, PageTasks, PageCallback
<1>5. cb \in [Lists -> Cells]
  BY <1>2 DEF Held, Struct
<1>6. PICK m : m = Add([cb |-> cb, fires |-> fires], l, PageCallback(ops))
  OBVIOUS
<1>7. Adds(cb, fires, m.cb, m.fires, l, PageCallback(ops))
  BY <1>4, <1>5, <1>6, AddIs
<1>8. Adds(cb, fires, cb', fires', l, PageCallback(ops))
  BY <1>1, <1>6, <1>7 DEF Goto, Now
<1>9. Logs(added, added', l, ops)
  BY <1>1 DEF Logs
<1>10. Held(cb', fires', state, added', called, ops + 1, thrown)
  BY <1>2, <1>3, <1>8, <1>9, AddsPageHeld DEF Typed
<1>11. Held(cb', fires', state', added', called', ops', thrown')
  BY <1>1, <1>10
<1>12. Typed'
  BY <1>1, <1>3 DEF Typed
<1> QED BY <1>11, <1>12, HeldNext

\* A call that begins a fire is not the one that adds.
LEMMA DoneStays ==
  ASSUME ScriptDone, script' = script, depth' = depth, depth \in Nat, fires \in Seq(Frames),
         Len(fires') = Len(fires) \/ Len(fires') = Len(fires) + 1
  PROVE  ScriptDone'
<1>1. PICK n \in Nat : n = Len(fires)
  OBVIOUS
<1>2. PICK k : k = Len(fires')
  OBVIOUS
<1>3. script = <<>> \/ n > depth
  BY <1>1 DEF ScriptDone
<1>4. k = n \/ k = n + 1
  BY <1>1, <1>2
<1>5. script' = <<>> \/ k > depth'
  BY <1>3, <1>4
<1> QED BY <1>2, <1>5 DEF ScriptDone

\* resolve, reject and notify.
LEMMA FireListHolds ==
  ASSUME DeferredAssumption, IInv, NEW d \in Raw, NEW kind \in Kinds, FireList(d, kind)
  PROVE  IInv'
<1>1. /\ PageRuns /\ ScriptDone /\ ops' = ops + 1
      /\ Goto(FireWith(Now, <<d, kind>>, ops))
      /\ script' = script /\ depth' = depth /\ state' = state /\ added' = added
      /\ called' = called /\ thrown' = thrown
  BY DEF FireList, PageCalls, joining
<1>2. Held(cb, fires, state, added, called, ops, thrown)
  BY <1>1, PageCalm
<1>3. Typed
  BY DEF IInv
<1>4. PICK l \in Lists : l = <<d, kind>>
  BY DEF DeferredAssumption, Deferreds
<1>5. cb \in [Lists -> Cells] /\ fires \in Seq(Frames)
  BY <1>2 DEF Held, Struct
<1>6. PICK m : m = FireWith([cb |-> cb, fires |-> fires], l, ops)
  OBVIOUS
<1>7. FiresOn(cb, fires, m.cb, m.fires, l, ops)
  BY <1>3, <1>5, <1>6, FireIs DEF Typed
<1>8. FiresOn(cb, fires, cb', fires', l, ops)
  BY <1>1, <1>4, <1>6, <1>7 DEF Goto, Now
<1>9. Notes(l, ops, ops, ops + 1) /\ ops + 1 \in Nat /\ ops <= ops + 1
  BY <1>3 DEF Notes, Typed
<1>10. PICK done : done = ScriptDone'
  OBVIOUS
<1>11. Len(fires') = Len(fires) + 1 => done
  BY <1>1, <1>3, <1>5, <1>10, DoneStays DEF Typed
<1>12. Holds(cb', fires', state, added, called, ops + 1, thrown, done)
  BY <1>2, <1>3, <1>8, <1>9, <1>11, FiresOnHolds, ZenonT(40) DEF Typed
<1>13. Typed'
  BY <1>1, <1>3 DEF Typed
<1> QED BY <1>1, <1>10, <1>12, <1>13 DEF IInv

\* What when and pipe have still to add.
Adding == (Raw \X Kinds) \X JoinTasks

\* The adds of then.
LEMMA ThenIs ==
  ASSUME DeferredAssumption, NEW d \in Raw, NEW f \in JoinTasks, NEW g \in JoinTasks,
         NEW h \in JoinTasks
  PROVE  Then(d, f, g, h) \in Seq(Adding)
<1>1. <<<<d, "done">>, f>> \in Adding /\ <<<<d, "fail">>, g>> \in Adding
      /\ <<<<d, "progress">>, h>> \in Adding
  BY DEF Adding, Kinds
<1> QED BY <1>1 DEF Then

\* The callbacks that when and pipe add.
LEMMA JoinTasksAre ==
  ASSUME NEW kind \in Kinds
  PROVE  ToJoined(kind) \in JoinTasks /\ Piped(<<Joined, kind>>) \in JoinTasks
         /\ \A i \in Nat : ResolveFunc(i) \in JoinTasks
  BY DEF ToJoined, JoinTasks, ResolveFunc

\* The adds of when.
LEMMA WaitIs ==
  ASSUME DeferredAssumption, NEW as \in (Raw \cup {Plain}) \X (Raw \cup {Plain})
  PROVE  Wait(as, 1) \o Wait(as, 2) \in Seq(Adding)
<1>1. ASSUME NEW i \in {1, 2}
      PROVE  Wait(as, i) \in Seq(Adding)
  <2>a. as[1] \in Raw \cup {Plain} /\ as[2] \in Raw \cup {Plain}
    OBVIOUS
  <2>b. i = 1 \/ i = 2
    OBVIOUS
  <2>c. i \in Nat
    BY <2>b
  <2>1. as[i] \in Raw \cup {Plain}
    BY <2>a, <2>b
  <2>2. CASE as[i] = Plain
    BY <2>2 DEF Wait
  <2>3. CASE as[i] # Plain
    <3>1. as[i] \in Raw /\ ResolveFunc(i) \in JoinTasks /\ ToJoined("fail") \in JoinTasks
          /\ ToJoined("progress") \in JoinTasks
      BY <2>1, <2>3, <2>c, JoinTasksAre DEF Kinds
    <3> QED BY <2>3, <3>1, ThenIs DEF Wait
  <2> QED BY <2>2, <2>3
<1>2. PICK s \in Seq(Adding) : s = Wait(as, 1)
  BY <1>1
<1>3. PICK t \in Seq(Adding) : t = Wait(as, 2)
  BY <1>1
<1>4. s \o t \in Seq(Adding)
  OBVIOUS
<1> QED BY <1>2, <1>3, <1>4

\* when counts its arguments, or resolves at once.
LEMMA WhenHolds ==
  ASSUME DeferredAssumption, IInv, NEW as \in (Raw \cup {Plain}) \X (Raw \cup {Plain}), When(as)
  PROVE  IInv'
<1>1. /\ PageRuns /\ ops' = ops + 1 /\ depth' = Len(fires)
      /\ state' = state /\ added' = added /\ called' = called /\ thrown' = thrown
  BY DEF When, PageCalls
<1>a. script' = Wait(as, 1) \o Wait(as, 2)
  BY DEF When
<1>2. Held(cb, fires, state, added, called, ops, thrown)
  BY <1>1, PageCalm
<1>3. Typed
  BY DEF IInv
<1>4. cb \in [Lists -> Cells] /\ fires \in Seq(Frames) /\ Struct(cb, fires)
      /\ Ordered(cb, fires, added, called, ops, thrown)
  BY <1>2 DEF Held, Struct
<1>5. Typed'
  <2>1. script' \in Seq((Raw \X Kinds) \X JoinTasks)
    BY <1>a, WaitIs DEF Adding
  <2>2. depth' \in Nat
    BY <1>1, <1>4
  <2> QED BY <1>1, <1>3, <2>1, <2>2 DEF Typed
<1>6. ops + 1 \in Nat /\ ops <= ops + 1
  BY <1>3 DEF Typed
<1>7. CASE Goto(Now)
  <2>1. cb' = cb /\ fires' = fires
    BY <1>7 DEF Goto, Now
  <2>2. Ordered(cb, fires, added, called, ops + 1, thrown)
    BY <1>3, <1>4, <1>6, OrderedLater DEF Typed
  <2>3. Held(cb', fires', state', added', called', ops', thrown')
    BY <1>1, <1>2, <2>1, <2>2 DEF Held
  <2> QED BY <1>5, <2>3, HeldNext
<1>8. CASE Goto(FireWith(Now, <<Joined, "done">>, ops))
  <2>1. PICK l \in Lists : l = <<Joined, "done">>
    BY DEF DeferredAssumption, Deferreds, Kinds
  <2>2. PICK m : m = FireWith([cb |-> cb, fires |-> fires], l, ops)
    OBVIOUS
  <2>3. FiresOn(cb, fires, m.cb, m.fires, l, ops)
    BY <1>3, <1>4, <2>2, FireIs DEF Typed
  <2>4. FiresOn(cb, fires, cb', fires', l, ops)
    BY <1>8, <2>1, <2>2, <2>3 DEF Goto, Now
  <2>5. Notes(l, ops, ops, ops + 1)
    BY <2>1 DEF Notes
  <2>6. PICK done : done = ScriptDone'
    OBVIOUS
  <2>7. Len(fires') = Len(fires) + 1 => done
    <3>1. PICK n \in Nat : n = Len(fires)
      BY <1>4
    <3>2. n + 1 > n
      OBVIOUS
    <3> QED BY <1>1, <2>6, <3>1, <3>2 DEF ScriptDone
  <2>8. Holds(cb', fires', state, added, called, ops + 1, thrown, done)
    BY <1>2, <1>3, <1>6, <2>4, <2>5, <2>7, FiresOnHolds, ZenonT(40) DEF Typed
  <2> QED BY <1>1, <1>5, <2>6, <2>8 DEF IInv
<1> QED BY <1>7, <1>8 DEF When

\* pipe notes what it has to add.
LEMMA PipeHolds ==
  ASSUME DeferredAssumption, IInv, NEW d \in Raw, NEW kinds \in SUBSET Kinds, Pipe(d, kinds)
  PROVE  IInv'
<1>1. PICK f, g, h : /\ f = IF "done" \in kinds THEN Piped(<<Joined, "done">>) ELSE ToJoined("done")
                     /\ g = IF "fail" \in kinds THEN Piped(<<Joined, "fail">>) ELSE ToJoined("fail")
                     /\ h = IF "progress" \in kinds THEN Piped(<<Joined, "progress">>)
                            ELSE ToJoined("progress")
  OBVIOUS
<1>2. /\ PageRuns /\ ops' = ops + 1 /\ depth' = Len(fires) /\ script' = Then(d, f, g, h)
      /\ cb' = cb /\ fires' = fires
      /\ state' = state /\ added' = added /\ called' = called /\ thrown' = thrown
  BY <1>1 DEF Pipe, PageCalls
<1>3. f \in JoinTasks /\ g \in JoinTasks /\ h \in JoinTasks
  BY <1>1, JoinTasksAre DEF Kinds
<1>4. Held(cb, fires, state, added, called, ops, thrown)
  BY <1>2, PageCalm
<1>5. Typed
  BY DEF IInv
<1>6. fires \in Seq(Frames) /\ Struct(cb, fires) /\ Ordered(cb, fires, added, called, ops, thrown)
  BY <1>4 DEF Held, Struct
<1>7. Typed'
  <2>1. script' \in Seq((Raw \X Kinds) \X JoinTasks)
    BY <1>2, <1>3, ThenIs DEF Adding
  <2>2. depth' \in Nat
    BY <1>2, <1>6
  <2> QED BY <1>2, <1>5, <2>1, <2>2 DEF Typed
<1>8. ops + 1 \in Nat /\ ops <= ops + 1
  BY <1>5 DEF Typed
<1>9. Ordered(cb, fires, added, called, ops + 1, thrown)
  BY <1>5, <1>6, <1>8, OrderedLater DEF Typed
<1>10. Held(cb', fires', state', added', called', ops', thrown')
  BY <1>2, <1>4, <1>9 DEF Held
<1> QED BY <1>7, <1>10, HeldNext

\* when and pipe add their callbacks.
LEMMA ScriptAddsHolds ==
  ASSUME DeferredAssumption, IInv, ScriptAdds
  PROVE  IInv'
<1>1. /\ script # <<>> /\ Len(fires) = depth
      /\ Goto(Add(Now, Head(script)[1], Head(script)[2])) /\ script' = Tail(script)
      /\ state' = state /\ depth' = depth /\ ops' = ops /\ added' = added /\ called' = called
      /\ thrown' = thrown
  BY DEF ScriptAdds
<1>2. Typed
  BY DEF IInv
<1>3. Held(cb, fires, state, added, called, ops, thrown)
  <2>1. ~ScriptDone
    BY <1>1, <1>2 DEF ScriptDone, Typed
  <2> QED BY <2>1, HeldNow DEF CalmTop
<1>4. script \in Seq(Adding)
  BY <1>2 DEF Typed, Adding
<1>5. Head(script) \in Adding /\ Tail(script) \in Seq(Adding)
  BY <1>1, <1>4
<1>6. PICK l \in Lists, f \in JoinTasks : l = Head(script)[1] /\ f = Head(script)[2] /\ l[1] # Joined
  <2>1. PICK x \in Raw \X Kinds, y \in JoinTasks : Head(script) = <<x, y>>
    BY <1>5 DEF Adding
  <2>2. x \in Lists /\ x[1] # Joined
    BY DEF DeferredAssumption, Deferreds
  <2> QED BY <2>1, <2>2
<1>7. cb \in [Lists -> Cells] /\ f \in Tasks
  BY <1>3 DEF Held, Struct, Tasks
<1>8. PICK m : m = Add([cb |-> cb, fires |-> fires], l, f)
  OBVIOUS
<1>9. Adds(cb, fires, m.cb, m.fires, l, f)
  BY <1>7, <1>8, AddIs
<1>10. Adds(cb, fires, cb', fires', l, f)
  BY <1>1, <1>6, <1>8, <1>9 DEF Goto, Now
<1>a. l[1] # Joined
  BY <1>6
<1>11. Held(cb', fires', state, added, called, ops, thrown)
  BY <1>2, <1>3, <1>10, <1>a, AddsJoinHeld DEF Typed
<1>12. Typed'
  BY <1>1, <1>2, <1>5 DEF Typed, Adding
<1> QED BY <1>1, <1>11, <1>12, HeldNext

\* The last fire as the actions name it.
LEMMA TopFireIs ==
  ASSUME Struct(cb, fires), fires # <<>>, NEW l, l = TopFire.list
  PROVE  /\ TopFire = fires[Len(fires)] /\ TopC = cb[l] /\ l = fires[Len(fires)].list
         /\ l \in Lists /\ cb[l] \in Cells /\ CellOK(l, cb[l]) /\ cb[l].firing
         /\ TopFire.value \in Nat /\ TopFire.value = cb[l].memory
         /\ TopFire.in # NoCallback =>
              cb[l].index < cb[l].length /\ TopFire.in = cb[l].list[cb[l].index + 1]
<1>1. TopFire = fires[Len(fires)] /\ TopC = cb[l]
  BY DEF TopFire, TopC, Last
<1> QED BY <1>1, TopIs DEF FrameOK

\* A callback of the page or of pipe is called.
LEMMA CallPageHolds ==
  ASSUME DeferredAssumption, IInv, CallPage
  PROVE  IInv'
<1>1. PICK g : g = NextCallback
  OBVIOUS
<1>2. /\ ScriptDone /\ Call /\ g.do \in {"page", "piped"}
      /\ called' = IF g.do = "piped" THEN called
                   ELSE [called EXCEPT ![TopFire.list] = Append(@, <<g.id, TopFire.value>>)]
      /\ script' = script /\ depth' = depth /\ ops' = ops /\ added' = added /\ thrown' = thrown
      /\ state' = state
  BY <1>1 DEF CallPage, joining
<1>3. Typed /\ Struct(cb, fires)
  BY DEF IInv, Holds
<1>4. /\ fires # <<>> /\ TopFire.in = NoCallback /\ TopC.index < TopC.length /\ cb' = cb
      /\ g \in PageTasks \cup JoinTasks /\ Calls(fires, fires', g)
  BY <1>1, <1>2, <1>3, CallIs DEF CallPage
<1>5. PICK l : l = TopFire.list
  OBVIOUS
<1>6. /\ TopFire = fires[Len(fires)] /\ TopC = cb[l] /\ l = fires[Len(fires)].list
      /\ l \in Lists /\ cb[l] \in Cells /\ CellOK(l, cb[l]) /\ cb[l].firing
      /\ TopFire.value \in Nat
  BY <1>3, <1>4, <1>5, TopFireIs
<1>7. g = cb[l].list[cb[l].index + 1] /\ cb[l].index < cb[l].length
  BY <1>1, <1>4, <1>6 DEF NextCallback
<1>8. Held(cb, fires, state, added, called, ops, thrown)
  <2>1. g \notin OwnTasks
    BY <1>4, OwnDo
  <2>2. g # OwnState(l) /\ g # OwnDisable(l) /\ g # OwnLock(l)
    BY <1>6, <2>1 DEF OwnTasks
  <2>3. PICK c \in Cells : c = cb[l]
    BY <1>6
  <2>4. c.firing /\ c.index < c.length /\ CellOK(l, c) /\ g = c.list[c.index + 1]
    BY <1>6, <1>7, <2>3
  <2>5. Prefixed(l, c) => c.index >= 3
    BY <1>6, <2>2, <2>4, NextIs
  <2>6. c.index \in Nat
    BY CellFields
  <2>7. Prefixed(l, c) => c.index >= 2
    BY <2>5, <2>6
  <2>8. CalmTop(cb, fires, ScriptDone)
    BY <1>6, <2>3, <2>7 DEF CalmTop
  <2> QED BY <2>8, HeldNow
<1>9. g # NoCallback
  <2>1. g \in [do : {"page"}, id : Nat] \cup {Piped(<<Joined, kind>>) : kind \in Kinds}
    BY <1>2, <1>4 DEF PageTasks, JoinTasks, Fire
  <2>2. {Piped(<<Joined, kind>>) : kind \in Kinds} \subseteq [do : {"piped"}, list : Lists]
    BY DEF DeferredAssumption, Deferreds, Piped
  <2> QED BY <2>1, <2>2 DEF DeferredAssumption
<1>10. called' = IF g.do = "page"
                 THEN [called EXCEPT ![l] = Append(@, <<g.id, fires[Len(fires)].value>>)]
                 ELSE called
  BY <1>2, <1>5, <1>6
<1>11. CallsNext(cb, fires, fires', g, called, called')
  BY <1>4, <1>6, <1>7, <1>9, <1>10 DEF CallsNext
<1>12. Held(cb, fires', state, added, called', ops, thrown)
  BY <1>3, <1>8, <1>11, CallsHeld DEF Typed
<1>13. called' \in [Lists -> Seq(Nat \X Nat)]
  <2>1. CASE g.do = "page"
    <3>1. g.id \in Nat
      BY <1>4, <2>1, OwnDo
    <3>2. PICK e \in Nat \X Nat : e = <<g.id, fires[Len(fires)].value>>
      BY <1>6, <3>1
    <3>3. PICK s \in Seq(Nat \X Nat) : s = called[l]
      BY <1>3, <1>6 DEF Typed
    <3>4. PICK t : t = Append(s, e)
      OBVIOUS
    <3>5. t \in Seq(Nat \X Nat)
      BY <3>4, AppendIs
    <3>6. called' = [called EXCEPT ![l] = t]
      BY <1>10, <2>1, <3>2, <3>3, <3>4
    <3> QED BY <1>3, <3>5, <3>6 DEF Typed
  <2>2. CASE g.do # "page"
    BY <1>3, <1>10, <2>2 DEF Typed
  <2> QED BY <2>1, <2>2
<1>14. Typed'
  BY <1>2, <1>3, <1>13 DEF Typed
<1>15. Held(cb', fires', state', added', called', ops', thrown')
  BY <1>2, <1>4, <1>12
<1> QED BY <1>14, <1>15, HeldNext

\* A callback of the page returns.
LEMMA PageReturnsHolds ==
  ASSUME DeferredAssumption, IInv, PageReturns
  PROVE  IInv'
<1>1. /\ fires # <<>> /\ TopFire.in # NoCallback /\ Goto(Stepped)
      /\ script' = script /\ depth' = depth /\ ops' = ops /\ added' = added /\ thrown' = thrown
      /\ state' = state /\ called' = called
  BY DEF PageReturns, Returns, joining
<1>2. Typed /\ Struct(cb, fires)
  BY DEF IInv, Holds
<1>3. PICK l : l = TopFire.list
  OBVIOUS
<1>4. l = fires[Len(fires)].list /\ cb[l].index < cb[l].length /\ fires[Len(fires)].in # NoCallback
  BY <1>1, <1>2, <1>3, TopFireIs
<1>5. Steps(cb, fires, cb', fires')
  BY <1>1, <1>2, SteppedIs DEF Goto
<1>6. Held(cb, fires, state, added, called, ops, thrown)
  BY <1>4, HeldNow DEF CalmTop
<1>7. Held(cb', fires', state, added, called, ops, thrown)
  BY <1>1, <1>2, <1>4, <1>5, <1>6, StepsHeld DEF Typed
<1>8. Typed'
  BY <1>1, <1>2 DEF Typed
<1> QED BY <1>1, <1>7, <1>8, HeldNext

\* A fire ends, or goes on with what waits.
LEMMA FireEndsHolds ==
  ASSUME DeferredAssumption, IInv, FireEnds
  PROVE  IInv'
<1>1. /\ EndFire
      /\ script' = script /\ depth' = depth /\ ops' = ops /\ added' = added /\ thrown' = thrown
      /\ state' = state /\ called' = called
  BY DEF FireEnds, joining
<1>2. Typed /\ Struct(cb, fires)
  BY DEF IInv, Holds
<1>3. /\ fires # <<>> /\ TopFire.in = NoCallback /\ TopC.index = TopC.length
      /\ Restarts(cb, fires, cb', fires') \/ Pops(cb, fires, cb', fires')
  BY <1>1, <1>2, EndIs
<1>4. PICK l : l = TopFire.list
  OBVIOUS
<1>5. /\ TopFire = fires[Len(fires)] /\ TopC = cb[l] /\ l = fires[Len(fires)].list
      /\ l \in Lists /\ cb[l] \in Cells /\ CellOK(l, cb[l]) /\ cb[l].firing
  BY <1>2, <1>3, <1>4, TopFireIs
<1>6. cb[l].index = cb[l].length /\ fires[Len(fires)].in = NoCallback
  BY <1>3, <1>5
<1>7. Held(cb, fires, state, added, called, ops, thrown)
  <2>1. cb[l].length = Len(cb[l].list) /\ Len(cb[l].list) \in Nat
    BY <1>5, CellFields DEF CellOK
  <2>2. Prefixed(l, cb[l]) => cb[l].index >= 2
    BY <1>6, <2>1 DEF Prefixed
  <2>3. CalmTop(cb, fires, ScriptDone)
    BY <1>5, <2>2 DEF CalmTop
  <2> QED BY <2>3, HeldNow
<1>8. cb[fires[Len(fires)].list].index = cb[fires[Len(fires)].list].length
  BY <1>5, <1>6
<1>9. Held(cb', fires', state, added, called, ops, thrown)
  BY <1>2, <1>3, <1>6, <1>7, <1>8, EndsHeld DEF Typed
<1>10. Typed'
  BY <1>1, <1>2 DEF Typed
<1> QED BY <1>1, <1>9, <1>10, HeldNext

\* A callback throws.
LEMMA PageThrowsHolds ==
  ASSUME DeferredAssumption, IInv, PageThrows
  PROVE  IInv'
<1>1. /\ Throw /\ thrown' = TRUE /\ depth' = depth /\ ops' = ops /\ added' = added
      /\ state' = state /\ called' = called /\ (script' = <<>> \/ script' = script)
  BY DEF PageThrows
<1>2. Typed /\ Struct(cb, fires)
  BY DEF IInv, Holds
<1>3. PICK n \in 0..(Len(fires) - 1) : fires' = SubSeq(fires, 1, n) /\ cb' = cb
  BY <1>1 DEF Throw
<1>4. fires # <<>> /\ (TopFire.in # NoCallback \/ CallsUndefined)
  BY <1>1 DEF Throw
<1>5. PICK l : l = TopFire.list
  OBVIOUS
<1>6. /\ TopFire = fires[Len(fires)] /\ TopC = cb[l] /\ cb[l] \in Cells /\ CellOK(l, cb[l])
      /\ cb[l].firing
  BY <1>2, <1>4, <1>5, TopFireIs
<1>7. ~CallsUndefined
  <2>1. PICK c \in Cells : c = cb[l]
    BY <1>6
  <2>2. c.index \in Nat /\ Len(c.list) \in Nat /\ c.length = Len(c.list)
    BY <1>6, <2>1, CellFields DEF CellOK
  <2> QED BY <1>6, <2>1, <2>2 DEF CallsUndefined, Looping
<1>8. Held(cb, fires, state, added, called, ops, thrown)
  BY <1>4, <1>6, <1>7, HeldNow DEF CalmTop
<1>9. Held(cb', fires', state', added', called', ops', thrown')
  BY <1>1, <1>3, <1>8, ThrowsHeld
<1>10. script' \in Seq((Raw \X Kinds) \X JoinTasks)
  <2>1. <<>> \in Seq((Raw \X Kinds) \X JoinTasks)
    OBVIOUS
  <2> QED BY <1>1, <1>2, <2>1 DEF Typed
<1>11. Typed'
  BY <1>1, <1>2, <1>10 DEF Typed
<1> QED BY <1>9, <1>11, HeldNext

\* A list of progress callbacks is locked.
LockTo(c, n) == IF c.memory = NoValue THEN Disables(c, n) ELSE Locks(c, n)

\* lock of a list of progress callbacks.
LEMMA LockHeld ==
  ASSUME DeferredAssumption, NEW C, NEW F, NEW C2, NEW st, NEW ad \in [Lists -> Seq(Nat)],
         NEW ca \in [Lists -> Seq(Nat \X Nat)], NEW n \in Nat, NEW th \in BOOLEAN, NEW r \in Lists,
         NEW k \in Cells, Held(C, F, st, ad, ca, n, th), r[2] = "progress", Puts(C, C2, r, k),
         LockTo(C[r], k)
  PROVE  Held(C2, F, st, ad, ca, n, th)
<1>1. Struct(C, F) /\ Ordered(C, F, ad, ca, n, th)
  BY DEF Held
<1>2. PICK c \in Cells : c = C[r] /\ CellOK(r, c)
  BY <1>1 DEF Struct
<1>3. CellOK(r, k) /\ Extends(c, k)
  BY <1>2, DisablesKeeps, LocksKeeps DEF LockTo
<1>4. Struct(C2, F)
  BY <1>1, <1>2, <1>3, PutKeeps
<1>5. C \in [Lists -> Cells] /\ C2 \in [Lists -> Cells]
  BY <1>1, <1>4 DEF Struct
<1>6. Steady(C, C2)
  BY <1>5, PutSteady
<1>7. Agree(C2, st) /\ Calm(C2, st) /\ CalledOnce(C2, ca)
  BY <1>5, <1>6, SteadyKeeps DEF Held
<1>8. Ordered(C2, F, ad, ca, n, th)
  BY <1>1, OffOrdered DEF LockTo
<1> QED BY <1>4, <1>7, <1>8 DEF Held

\* A callback of jQuery has fired the list of the joined deferred.
LEMMA FireStepped ==
  ASSUME DeferredAssumption, NEW C, NEW F, NEW r \in Lists, NEW v \in Nat, r[1] = Joined,
         Held(C, F, state, added, called, ops, thrown), Typed, Typed', ScriptDone,
         Stepped.cb = C, Stepped.fires = F, Len(F) = Len(fires), fires \in Seq(Frames),
         Goto(FireWith(Stepped, r, v)), script' = script, depth' = depth, state' = state,
         added' = added, called' = called, ops' = ops, thrown' = thrown
  PROVE  IInv'
<1>1. PICK m : m = FireWith([cb |-> C, fires |-> F], r, v)
  OBVIOUS
<1>2. Struct(C, F) /\ C \in [Lists -> Cells]
  BY DEF Held, Struct
<1>3. FiresOn(C, F, m.cb, m.fires, r, v)
  BY <1>1, <1>2, FireIs
<1>4. Stepped = [cb |-> C, fires |-> F]
  BY DEF Stepped
<1>5. FiresOn(C, F, cb', fires', r, v)
  BY <1>1, <1>3, <1>4 DEF Goto
<1>6. Notes(r, v, ops, ops) /\ ops \in Nat /\ ops <= ops
  BY DEF Notes, Typed
<1>7. PICK done : done = ScriptDone'
  OBVIOUS
<1>8. Len(fires') = Len(F) + 1 => done
  BY <1>7, DoneStays DEF Typed
<1>9. Holds(cb', fires', state, added, called, ops, thrown, done)
  BY <1>5, <1>6, <1>8, FiresOnHolds DEF Typed
<1> QED BY <1>7, <1>9 DEF IInv

\* What is known when a callback of jQuery is called.
OwnCall(l, c, f, C, F) ==
  /\ fires # <<>> /\ fires[Len(fires)].in = NoCallback /\ l = fires[Len(fires)].list /\ l \in Lists
  /\ c \in Cells /\ c = cb[l] /\ CellOK(l, c) /\ c.firing /\ c.index < c.length
  /\ f \in Tasks /\ f = c.list[c.index + 1] /\ f.do # "page"
  /\ C = Stepped.cb /\ F = Stepped.fires /\ Steps(cb, fires, C, F) /\ Len(F) = Len(fires)
  /\ TopFire.value \in Nat

\* The loop has come to a callback of jQuery.
LEMMA OwnCallIs ==
  ASSUME DeferredAssumption, IInv, Looping, ~CallsUndefined, NextCallback.do # "page",
         NEW l, l = TopFire.list
  PROVE  OwnCall(l, cb[l], NextCallback, Stepped.cb, Stepped.fires)
<1>1. Struct(cb, fires)
  BY DEF IInv, Holds
<1>2. fires # <<>> /\ TopFire.in = NoCallback /\ TopC.index < TopC.length
  BY DEF Looping
<1>3. /\ TopFire = fires[Len(fires)] /\ TopC = cb[l] /\ l = fires[Len(fires)].list
      /\ l \in Lists /\ cb[l] \in Cells /\ CellOK(l, cb[l]) /\ cb[l].firing
      /\ TopFire.value \in Nat
  BY <1>1, <1>2, TopFireIs
<1>4. PICK c \in Cells : c = cb[l]
  BY <1>3
<1>5. c.firing /\ CellOK(l, c) /\ c.index < c.length
  BY <1>2, <1>3, <1>4
<1>6. c.index + 1 \in 1..Len(c.list) /\ c.list \in Seq(Tasks)
  <2>1. c.index \in Nat /\ c.length = Len(c.list) /\ c.list \in Seq(Tasks)
    BY <1>5, CellFields DEF CellOK
  <2> QED BY <1>5, <2>1
<1>7. PICK f \in Tasks : f = c.list[c.index + 1]
  BY <1>6
<1>8. f = NextCallback
  BY <1>3, <1>4, <1>7 DEF NextCallback
<1>9. Steps(cb, fires, Stepped.cb, Stepped.fires) /\ Len(Stepped.fires) = Len(fires)
  BY <1>1, <1>2, SteppedIs DEF Steps
<1> QED BY <1>2, <1>3, <1>4, <1>5, <1>7, <1>8, <1>9 DEF OwnCall

\* It goes on, when no deferred settles.
LEMMA OwnSteps ==
  ASSUME DeferredAssumption, NEW l, NEW c, NEW f, NEW C, NEW F, OwnCall(l, c, f, C, F), Typed,
         Held(cb, fires, state, added, called, ops, thrown)
  PROVE  Held(C, F, state, added, called, ops, thrown)
<1>1. /\ fires # <<>> /\ l = fires[Len(fires)].list /\ Steps(cb, fires, C, F)
      /\ c = cb[l] /\ c.index < c.length /\ c.list[c.index + 1].do # "page"
  BY DEF OwnCall
<1>2. cb[l].index < cb[l].length /\ cb[l].list[cb[l].index + 1].do # "page"
  BY <1>1
<1>3. /\ added \in [Lists -> Seq(Nat)] /\ called \in [Lists -> Seq(Nat \X Nat)]
      /\ ops \in Nat /\ thrown \in BOOLEAN
  BY DEF Typed
<1> QED BY <1>1, <1>2, <1>3, StepsHeld

\* It goes on in order, when one settles too.
LEMMA OwnOrdered ==
  ASSUME NEW l, NEW c, NEW f, NEW C, NEW F, OwnCall(l, c, f, C, F), Typed, Struct(cb, fires),
         Ordered(cb, fires, added, called, ops, thrown)
  PROVE  Struct(C, F) /\ Ordered(C, F, added, called, ops, thrown)
<1>1. /\ fires # <<>> /\ l = fires[Len(fires)].list /\ Steps(cb, fires, C, F)
      /\ c = cb[l] /\ c.index < c.length /\ c.list[c.index + 1].do # "page"
  BY DEF OwnCall
<1>2. cb[l].index < cb[l].length /\ cb[l].list[cb[l].index + 1].do # "page"
  BY <1>1
<1>3. /\ added \in [Lists -> Seq(Nat)] /\ called \in [Lists -> Seq(Nat \X Nat)]
      /\ ops \in Nat /\ thrown \in BOOLEAN
  BY DEF Typed
<1>4. Struct(C, F)
  BY <1>1, <1>2, StepKeeps
<1>5. Ordered(C, F, added, called, ops, thrown)
  BY <1>1, <1>2, <1>3, StepsOrdered
<1> QED BY <1>4, <1>5

\* A guest is called when no deferred settles.
LEMMA GuestHeld ==
  ASSUME DeferredAssumption, IInv, NEW l, NEW c, NEW f, NEW C, NEW F, OwnCall(l, c, f, C, F),
         f \in JoinTasks
  PROVE  Held(C, F, state, added, called, ops, thrown)
<1>1. l \in Lists /\ c \in Cells /\ CellOK(l, c) /\ c.firing /\ c.index < c.length
      /\ f = c.list[c.index + 1]
  BY DEF OwnCall
<1>2. f \notin OwnTasks
  BY OwnDo
<1>3. f # OwnState(l) /\ f # OwnDisable(l) /\ f # OwnLock(l)
  BY <1>1, <1>2 DEF OwnTasks
<1>4. Prefixed(l, c) => c.index >= 3
  BY <1>1, <1>3, NextIs
<1>5. c.index \in Nat
  BY <1>1, CellFields
<1>6. Prefixed(l, c) => c.index >= 2
  BY <1>4, <1>5
<1>7. CalmTop(cb, fires, ScriptDone)
  BY <1>1, <1>6 DEF CalmTop, OwnCall
<1>8. Held(cb, fires, state, added, called, ops, thrown)
  BY <1>7, HeldNow
<1> QED BY <1>8, OwnSteps DEF IInv

\* The first own callback sets the state.
LEMMA StateHolds ==
  ASSUME DeferredAssumption, IInv, NEW l, NEW c, NEW f, NEW C, NEW F, OwnCall(l, c, f, C, F),
         f.do = "state", ScriptDone, cb' = C, fires' = F, state' = [state EXCEPT ![f.d] = f.to],
         script' = script, depth' = depth, added' = added, called' = called, ops' = ops,
         thrown' = thrown
  PROVE  IInv'
<1>1. /\ l \in Lists /\ c \in Cells /\ CellOK(l, c) /\ c.firing /\ c.index < c.length
      /\ f = c.list[c.index + 1] /\ c = cb[l] /\ fires # <<>> /\ l = fires[Len(fires)].list
      /\ fires[Len(fires)].in = NoCallback /\ Steps(cb, fires, C, F) /\ f.do # "page"
      /\ Len(F) = Len(fires)
  BY DEF OwnCall
<1>2. Prefixed(l, c) /\ c.index = 0 /\ f = OwnState(l)
  <2>1. f \notin Guests(l) /\ f # OwnDisable(l) /\ f # OwnLock(l)
    BY <1>1, OwnDo DEF Guests
  <2> QED BY <1>1, <2>1, NextIs
<1>3. f.d = l[1] /\ f.to = Outcome(l[2]) /\ l \in Outcomes
  <2>1. l \in Outcomes
    BY <1>1, <1>2 DEF Prefixed, Outcomes
  <2>2. f.d = l[1] /\ f.to = Outcome(l[2])
    BY <1>2 DEF OwnState, SetState
  <2> QED BY <2>1, <2>2
<1>4. Typed /\ Struct(cb, fires) /\ fires \in Seq(Frames)
  BY DEF IInv, Holds, Struct
<1>5. PICK done : done = ScriptDone
  OBVIOUS
<1>6. /\ Agree(cb, state) /\ SettlesOrHas(cb, fires, state, done) /\ CalledOnce(cb, called)
      /\ Ordered(cb, fires, added, called, ops, thrown)
  BY <1>5 DEF IInv, Holds
<1>7. state' = [state EXCEPT ![l[1]] = Outcome(l[2])] /\ state \in [Deferreds -> States]
  BY <1>3, <1>4 DEF Typed
<1>8. AtOwn(cb, fires, l, 0)
  BY <1>1, <1>2 DEF AtOwn
<1>9. Agree(C, state') /\ SettlesOrHas(C, F, state', done) /\ CalledOnce(C, called)
  BY <1>1, <1>3, <1>4, <1>6, <1>7, <1>8, StateSettles, ZenonT(40)
<1>11. Struct(C, F) /\ Ordered(C, F, added, called, ops, thrown)
  BY <1>4, <1>6, OwnOrdered
<1>13. ScriptDone' = done
  <2>1. ScriptDone'
    BY <1>1, <1>4, DoneStays DEF Typed
  <2> QED BY <1>5, <2>1
<1>14. Typed'
  <2>1. Outcome(l[2]) \in States
    BY DEF Outcome, States
  <2> QED BY <1>4, <1>7, <2>1 DEF Typed
<1> QED BY <1>9, <1>11, <1>13, <1>14 DEF IInv, Holds

\* The second disables the list of the other outcome.
LEMMA DisableHolds ==
  ASSUME DeferredAssumption, IInv, NEW l, NEW c, NEW f, NEW C, NEW F, OwnCall(l, c, f, C, F),
         f.do = "disable", ScriptDone, cb' = [C EXCEPT ![f.list] = Disabled(@)], fires' = F,
         state' = state, script' = script, depth' = depth, added' = added, called' = called,
         ops' = ops, thrown' = thrown
  PROVE  IInv'
<1>1. /\ l \in Lists /\ c \in Cells /\ CellOK(l, c) /\ c.firing /\ c.index < c.length
      /\ f = c.list[c.index + 1] /\ c = cb[l] /\ fires # <<>> /\ l = fires[Len(fires)].list
      /\ fires[Len(fires)].in = NoCallback /\ Steps(cb, fires, C, F) /\ f.do # "page"
  BY DEF OwnCall
<1>2. Prefixed(l, c) /\ c.index = 1 /\ f = OwnDisable(l)
  <2>1. f \notin Guests(l) /\ f # OwnState(l) /\ f # OwnLock(l)
    BY <1>1, OwnDo DEF Guests
  <2> QED BY <1>1, <2>1, NextIs
<1>3. PICK r : r = Rival(l)
  OBVIOUS
<1>4. f.list = r /\ l \in Outcomes
  <2>1. l \in Outcomes
    BY <1>1, <1>2 DEF Prefixed, Outcomes
  <2>2. f.list = r
    BY <1>2, <1>3 DEF OwnDisable, Disable, Rival
  <2> QED BY <2>1, <2>2
<1>5. r \in Lists
  BY <1>3, <1>4, RivalIs
<1>6. Typed /\ Struct(cb, fires)
  BY DEF IInv, Holds
<1>7. AtOwn(cb, fires, l, 1)
  BY <1>1, <1>2 DEF AtOwn
<1>8. Struct(C, F) /\ Ordered(C, F, added, called, ops, thrown) /\ C \in [Lists -> Cells]
  <2>1. Ordered(cb, fires, added, called, ops, thrown)
    BY DEF IInv, Holds
  <2>2. Struct(C, F) /\ Ordered(C, F, added, called, ops, thrown)
    BY <1>6, <2>1, OwnOrdered
  <2> QED BY <2>2 DEF Struct
<1>9. PICK k : k = Disabled(C[r])
  OBVIOUS
<1>10. Disables(C[r], k) /\ k \in Cells
  BY <1>5, <1>8, <1>9, DisabledIs DEF Disables, IsCell
<1>11. Puts(C, cb', r, k)
  BY <1>4, <1>5, <1>8, <1>9, <1>10 DEF Puts
<1>12. PICK done : done = ScriptDone
  OBVIOUS
<1>13. /\ Agree(cb, state) /\ SettlesOrHas(cb, fires, state, done) /\ CalledOnce(cb, called)
       /\ state \in [Deferreds -> States]
  BY <1>6, <1>12 DEF IInv, Holds, Typed
<1>14. Disables(C[Rival(l)], k) /\ Puts(C, cb', Rival(l), k)
  BY <1>3, <1>10, <1>11
<1>15. C[r].memory = NoValue /\ Agree(cb', state) /\ Calm(cb', state) /\ CalledOnce(cb', called)
  <2>1. PICK C2 : C2 = cb'
    OBVIOUS
  <2>2. /\ DeferredAssumption /\ Struct(cb, fires) /\ Steps(cb, fires, C, F)
        /\ Disables(C[Rival(l)], k) /\ Puts(C, C2, Rival(l), k)
    BY <1>1, <1>6, <1>14, <2>1
  <2>3. l \in Outcomes /\ k \in Cells
    BY <1>4, <1>10
  <2>4. /\ C[Rival(l)].memory = NoValue /\ Agree(C2, state) /\ Calm(C2, state)
        /\ CalledOnce(C2, called)
    BY ONLY <2>2, <2>3, <1>7, <1>13, DisableSettles
  <2> QED BY <1>3, <2>1, <2>4
<1>16. PICK k0 \in Cells : k0 = C[r] /\ CellOK(r, k0)
  BY <1>5, <1>8 DEF Struct
<1>17. CellOK(r, k) /\ Extends(k0, k)
  BY <1>5, <1>10, <1>15, <1>16, DisablesKeeps
<1>18. Struct(cb', F)
  BY <1>5, <1>8, <1>10, <1>11, <1>16, <1>17, PutKeeps
<1>20. Ordered(cb', F, added, called, ops, thrown)
  BY <1>5, <1>6, <1>8, <1>10, <1>11, <1>15, OffOrdered DEF Typed
<1>21. Held(cb', fires', state', added', called', ops', thrown')
  BY <1>15, <1>18, <1>20 DEF Held
<1>22. Typed'
  BY <1>6 DEF Typed
<1> QED BY <1>21, <1>22, HeldNext

\* The third locks the progress list.
LEMMA LockHolds ==
  ASSUME DeferredAssumption, IInv, NEW l, NEW c, NEW f, NEW C, NEW F, OwnCall(l, c, f, C, F),
         f.do = "lock", ScriptDone, cb' = [C EXCEPT ![f.list] = Locked(@)], fires' = F,
         state' = state, script' = script, depth' = depth, added' = added, called' = called,
         ops' = ops, thrown' = thrown
  PROVE  IInv'
<1>1. /\ l \in Lists /\ c \in Cells /\ CellOK(l, c) /\ c.firing /\ c.index < c.length
      /\ f = c.list[c.index + 1] /\ c = cb[l] /\ fires # <<>> /\ l = fires[Len(fires)].list
  BY DEF OwnCall
<1>2. Prefixed(l, c) /\ c.index = 2 /\ f = OwnLock(l)
  <2>1. f \notin Guests(l) /\ f # OwnState(l) /\ f # OwnDisable(l)
    BY <1>1, OwnDo DEF Guests
  <2> QED BY <1>1, <2>1, NextIs
<1>3. PICK r : r = <<l[1], "progress">>
  OBVIOUS
<1>4. f.list = r /\ r \in Lists /\ r[2] = "progress"
  <2>1. f.list = r
    BY <1>2, <1>3 DEF OwnLock, Lock
  <2>2. r \in Lists /\ r[2] = "progress"
    BY <1>1, <1>3 DEF DeferredAssumption, Kinds
  <2> QED BY <2>1, <2>2
<1>5. Typed
  BY DEF IInv
<1>6. Held(cb, fires, state, added, called, ops, thrown)
  <2>1. CalmTop(cb, fires, ScriptDone)
    <3>1. c.index >= 2
      BY <1>2
    <3>2. cb[l].index >= 2
      BY <1>1, <3>1
    <3> QED BY <1>1, <3>2 DEF CalmTop
  <2> QED BY <2>1, HeldNow
<1>7. Held(C, F, state, added, called, ops, thrown)
  BY <1>5, <1>6, OwnSteps
<1>8. C \in [Lists -> Cells]
  BY <1>7 DEF Held, Struct
<1>9. PICK k : k = Locked(C[r])
  OBVIOUS
<1>10. LockTo(C[r], k)
  BY <1>4, <1>8, <1>9, LockedIs DEF LockTo
<1>11. k \in Cells
  BY <1>10 DEF LockTo, Disables, Locks, IsCell
<1>12. Puts(C, cb', r, k)
  BY <1>4, <1>8, <1>9, <1>11 DEF Puts
<1>13. /\ added \in [Lists -> Seq(Nat)] /\ called \in [Lists -> Seq(Nat \X Nat)]
       /\ ops \in Nat /\ thrown \in BOOLEAN
  BY <1>5 DEF Typed
<1>14. PICK C2 : C2 = cb'
  OBVIOUS
<1>15. Held(C2, F, state, added, called, ops, thrown)
  <2>1. DeferredAssumption /\ Puts(C, C2, r, k)
    BY <1>12, <1>14
  <2> QED BY ONLY <2>1, <1>4, <1>7, <1>10, <1>11, <1>13, LockHeld, SMTT(30)
<1>16. Typed'
  BY <1>5 DEF Typed
<1>17. Held(cb', fires', state', added', called', ops', thrown')
  BY <1>14, <1>15
<1> QED BY <1>16, <1>17, HeldNext

\* The lists of the joined deferred, as the callbacks name them.
LEMMA JoinedLists ==
  ASSUME DeferredAssumption
  PROVE  /\ \A f \in JoinTasks : f.do = "fire" => f.list \in Lists /\ f.list[1] = Joined
         /\ \A f \in JoinTasks : f.do = "piped" => f.list \in Lists /\ f.list[1] = Joined
         /\ <<Joined, "done">> \in Lists /\ <<Joined, "done">>[1] = Joined
<1>1. \A kind \in Kinds : <<Joined, kind>> \in Lists /\ <<Joined, kind>>[1] = Joined
  BY DEF DeferredAssumption, Deferreds
<1>2. ASSUME NEW f \in JoinTasks, f.do \in {"fire", "piped"}
      PROVE  f.list \in Lists /\ f.list[1] = Joined
  <2>1. PICK kind \in Kinds : f = Fire(<<Joined, kind>>) \/ f = Piped(<<Joined, kind>>)
    BY <1>2 DEF JoinTasks
  <2>2. f.list = <<Joined, kind>>
    BY <2>1 DEF Fire, Piped
  <2> QED BY <1>1, <2>2
<1> QED BY <1>1, <1>2 DEF Kinds

\* A callback of jQuery is called, whichever it is.
LEMMA CallOwnHolds ==
  ASSUME DeferredAssumption, IInv, Looping, CallOwn(NextCallback)
  PROVE  IInv'
<1>1. PICK f : f = NextCallback
  OBVIOUS
<1>2. PICK l : l = TopFire.list
  OBVIOUS
<1>3. PICK c : c = cb[l]
  OBVIOUS
<1>4. PICK C : C = Stepped.cb
  OBVIOUS
<1>5. PICK F : F = Stepped.fires
  OBVIOUS
<1>6. /\ ScriptDone /\ ~CallsUndefined
      /\ script' = script /\ depth' = depth /\ ops' = ops /\ added' = added /\ called' = called
      /\ thrown' = thrown
  BY DEF CallOwn
<1>7. \/ f.do = "state" /\ state' = [state EXCEPT ![f.d] = f.to] /\ Goto(Stepped)
      \/ f.do = "disable" /\ state' = state
         /\ Goto([Stepped EXCEPT !.cb[f.list] = Disabled(@)])
      \/ f.do = "lock" /\ state' = state
         /\ Goto([Stepped EXCEPT !.cb[f.list] = Locked(@)])
      \/ f.do = "fire" /\ state' = state /\ Goto(FireWith(Stepped, f.list, TopFire.value))
      \/ f.do = "count" /\ state' = state /\ Goto(FireWith(Stepped, <<Joined, "done">>, TopFire.value))
      \/ f.do = "count" /\ state' = state /\ Goto(Stepped)
  BY <1>1 DEF CallOwn
<1>8. OwnCall(l, c, f, C, F)
  BY <1>1, <1>2, <1>3, <1>4, <1>5, <1>6, <1>7, OwnCallIs
<1>9. Typed /\ fires \in Seq(Frames)
  BY DEF IInv, Holds, Struct
<1>10. f \in Tasks /\ Len(F) = Len(fires) /\ TopFire.value \in Nat
  BY <1>8 DEF OwnCall
<1>11. CASE f.do = "state" /\ state' = [state EXCEPT ![f.d] = f.to] /\ Goto(Stepped)
  <2>1. cb' = C /\ fires' = F
    BY <1>4, <1>5, <1>11 DEF Goto
  <2> QED BY <1>6, <1>8, <1>11, <2>1, StateHolds
<1>12. CASE f.do = "disable" /\ state' = state /\ Goto([Stepped EXCEPT !.cb[f.list] = Disabled(@)])
  <2>1. cb' = [C EXCEPT ![f.list] = Disabled(@)] /\ fires' = F
    BY <1>4, <1>5, <1>12 DEF Goto, Stepped
  <2> QED BY <1>6, <1>8, <1>12, <2>1, DisableHolds
<1>13. CASE f.do = "lock" /\ state' = state /\ Goto([Stepped EXCEPT !.cb[f.list] = Locked(@)])
  <2>1. cb' = [C EXCEPT ![f.list] = Locked(@)] /\ fires' = F
    BY <1>4, <1>5, <1>13 DEF Goto, Stepped
  <2> QED BY <1>6, <1>8, <1>13, <2>1, LockHolds
<1>14. ASSUME f.do \in {"fire", "count"}, state' = state
       PROVE  f \in JoinTasks /\ Held(C, F, state, added, called, ops, thrown)
  <2>1. f \in JoinTasks
    BY <1>10, <1>14, OwnDo DEF Tasks
  <2> QED BY <1>8, <2>1, GuestHeld
<1>15. ASSUME state' = state
       PROVE  Typed'
  BY <1>6, <1>9, <1>15 DEF Typed
<1>16. ASSUME NEW r \in Lists, r[1] = Joined, f.do \in {"fire", "count"}, state' = state,
              Goto(FireWith(Stepped, r, TopFire.value))
       PROVE  IInv'
  <2>1. Held(C, F, state, added, called, ops, thrown)
    BY <1>14, <1>16
  <2>2. Typed'
    BY <1>15, <1>16
  <2> QED BY <1>4, <1>5, <1>6, <1>9, <1>10, <1>16, <2>1, <2>2, FireStepped
<1>17. CASE f.do = "fire" /\ state' = state /\ Goto(FireWith(Stepped, f.list, TopFire.value))
  <2>1. f.list \in Lists /\ f.list[1] = Joined
    BY <1>14, <1>17, JoinedLists
  <2> QED BY <1>16, <1>17, <2>1
<1>18. CASE f.do = "count" /\ state' = state
            /\ Goto(FireWith(Stepped, <<Joined, "done">>, TopFire.value))
  BY <1>16, <1>18, JoinedLists
<1>19. CASE f.do = "count" /\ state' = state /\ Goto(Stepped)
  <2>1. cb' = C /\ fires' = F
    BY <1>4, <1>5, <1>19 DEF Goto
  <2>2. Held(C, F, state, added, called, ops, thrown) /\ Typed'
    BY <1>14, <1>15, <1>19
  <2>3. Held(cb', fires', state', added', called', ops', thrown')
    BY <1>6, <1>19, <2>1, <2>2
  <2> QED BY <2>2, <2>3, HeldNext
<1> QED BY <1>7, <1>11, <1>12, <1>13, <1>17, <1>18, <1>19

\* A function given to pipe returns a value or a deferred.
LEMMA PipedReturnsHolds ==
  ASSUME DeferredAssumption, IInv, PipedReturns
  PROVE  IInv'
<1>1. /\ ScriptDone /\ fires # <<>> /\ TopFire.in # NoCallback /\ TopFire.in.do = "piped"
      /\ state' = state /\ ops' = ops /\ added' = added /\ called' = called /\ thrown' = thrown
  BY DEF PipedReturns
<1>2. Typed /\ Struct(cb, fires) /\ fires \in Seq(Frames)
  BY DEF IInv, Holds, Struct
<1>3. PICK l : l = TopFire.list
  OBVIOUS
<1>4. PICK v \in Nat : v = TopFire.value
  BY <1>1, <1>2, <1>3, TopFireIs
<1>5. l = fires[Len(fires)].list /\ cb[l].index < cb[l].length /\ fires[Len(fires)].in # NoCallback
  BY <1>1, <1>2, <1>3, TopFireIs
<1>6. Held(cb, fires, state, added, called, ops, thrown)
  BY <1>5, HeldNow DEF CalmTop
<1>7. PICK C : C = Stepped.cb
  OBVIOUS
<1>8. PICK F : F = Stepped.fires
  OBVIOUS
<1>9. Steps(cb, fires, C, F) /\ Len(F) = Len(fires)
  BY <1>1, <1>2, <1>7, <1>8, SteppedIs DEF Steps
<1>10. Held(C, F, state, added, called, ops, thrown)
  BY <1>1, <1>2, <1>5, <1>6, <1>9, StepsHeld DEF Typed
<1>11. PICK r : r = TopFire.in.list
  OBVIOUS
<1>12. r \in Lists /\ r[1] = Joined
  <2>1. TopFire.in \in PageTasks \cup JoinTasks
    BY <1>1, <1>2, TopIs DEF TopFire, Last, Frames
  <2>2. TopFire.in \in JoinTasks
    BY <1>1, <2>1, OwnDo
  <2> QED BY <1>1, <1>11, <2>2, JoinedLists
<1>13. CASE Goto(FireWith(Stepped, r, v)) /\ script' = script /\ depth' = depth
  <2>1. Typed'
    BY <1>1, <1>2, <1>13 DEF Typed
  <2> QED BY <1>1, <1>2, <1>7, <1>8, <1>9, <1>10, <1>12, <1>13, <2>1, FireStepped
<1>14. ASSUME NEW d \in Raw, depth' = Len(fires), Goto(Stepped),
              script' = Then(d, ToJoined("done"), ToJoined("fail"), ToJoined("progress"))
       PROVE  IInv'
  <2>1. script' \in Seq(Adding)
    BY <1>14, ThenIs, JoinTasksAre DEF Kinds
  <2>2. Typed'
    BY <1>1, <1>2, <1>14, <2>1 DEF Typed, Adding
  <2>3. cb' = C /\ fires' = F
    BY <1>7, <1>8, <1>14 DEF Goto
  <2>4. Held(cb', fires', state', added', called', ops', thrown')
    BY <1>1, <1>10, <2>3
  <2> QED BY <2>2, <2>4, HeldNext
<1> QED BY <1>4, <1>11, <1>13, <1>14 DEF PipedReturns

-----------------------------------------------------------------------------
(* The theorems *)

\* A list as jQuery.Deferred creates it.
LEMMA CreatedIs ==
  ASSUME DeferredAssumption, NEW l \in Lists, NEW c, c = NewList(OwnCallbacks(l[1], l[2]))
  PROVE  /\ c \in Cells /\ CellOK(l, c) /\ c.on /\ c.memory = NoValue /\ ~c.firing /\ c.stack = <<>>
         /\ \A j \in 1..Len(c.list) : c.list[j].do # "page"
<1>1. /\ c.list = OwnCallbacks(l[1], l[2]) /\ c.on /\ c.stack = <<>> /\ c.open
      /\ c.memory = NoValue /\ ~c.firing /\ c.index = 0 /\ c.length = 0
  BY DEF NewList
<1>2. PICK s : s = OwnCallbacks(l[1], l[2])
  OBVIOUS
<1>3. l \in Deferreds \X Kinds
  BY DEF DeferredAssumption
<1>4. l[2] # "progress" => s = <<OwnState(l), OwnDisable(l), OwnLock(l)>>
  BY <1>2 DEF OwnCallbacks, OwnState, OwnDisable, OwnLock
<1>5. l[2] = "progress" => s = <<>>
  BY <1>2 DEF OwnCallbacks
<1>6. OwnState(l) \in Tasks /\ OwnDisable(l) \in Tasks /\ OwnLock(l) \in Tasks
  BY DEF Tasks, OwnTasks
<1>7. s \in Seq(Tasks)
  <2>1. PICK x \in Tasks, y \in Tasks, z \in Tasks :
          x = OwnState(l) /\ y = OwnDisable(l) /\ z = OwnLock(l)
    BY <1>6
  <2>2. <<x, y, z>> \in Seq(Tasks) /\ <<>> \in Seq(Tasks)
    OBVIOUS
  <2> QED BY <1>4, <1>5, <2>1, <2>2
<1>8. c \in Cells
  <2>1. c = [list |-> s, on |-> TRUE, stack |-> <<>>, open |-> TRUE, memory |-> NoValue,
             firing |-> FALSE, index |-> 0, length |-> 0]
    BY <1>2 DEF NewList
  <2> QED BY <1>7, <2>1 DEF Cells
<1>9. l[2] # "progress" => Prefixed(l, c) /\ Len(c.list) = 3
  BY <1>1, <1>2, <1>4 DEF Prefixed
<1>10. l[2] = "progress" => Len(c.list) = 0
  BY <1>1, <1>2, <1>5
<1>11. Elements(l, c)
  BY <1>9, <1>10 DEF Elements
<1>12. CellOK(l, c)
  BY <1>1, <1>9, <1>11 DEF CellOK
<1>13. \A j \in 1..Len(c.list) : c.list[j].do # "page"
  <2>1. CASE l[2] = "progress"
    BY <1>10, <2>1
  <2>2. CASE l[2] # "progress"
    <3>1. /\ Len(c.list) = 3 /\ c.list[1].do = "state" /\ c.list[2].do = "disable"
          /\ c.list[3].do = "lock"
      BY <1>9, <2>2, OwnDo DEF Prefixed
    <3> QED BY <3>1
  <2> QED BY <2>1, <2>2
<1> QED BY <1>1, <1>8, <1>12, <1>13

\* The lists as jQuery.Deferred creates them.
LEMMA InitHolds ==
  ASSUME DeferredAssumption, Init
  PROVE  IInv
<1>1. \A l \in Lists : cb[l] = NewList(OwnCallbacks(l[1], l[2]))
  BY DEF Init
<1>2. \A l \in Lists : /\ cb[l] \in Cells /\ CellOK(l, cb[l]) /\ cb[l].on /\ cb[l].memory = NoValue
                       /\ ~cb[l].firing /\ cb[l].stack = <<>>
                       /\ \A j \in 1..Len(cb[l].list) : cb[l].list[j].do # "page"
  BY <1>1, CreatedIs
<1>3. /\ fires = <<>> /\ state = [d \in Deferreds |-> "pending"] /\ script = <<>> /\ depth = 0
      /\ ops = 0 /\ added = [l \in Lists |-> <<>>] /\ called = [l \in Lists |-> <<>>]
      /\ thrown = FALSE /\ Len(fires) = 0
  BY DEF Init
<1>4. cb \in [Lists -> Cells]
  <2>1. cb = [l \in Lists |-> NewList(OwnCallbacks(l[1], l[2]))]
    BY DEF Init
  <2> QED BY <1>2, <2>1
<1>5. Typed
  <2>1. <<>> \in Seq((Raw \X Kinds) \X JoinTasks) /\ <<>> \in Seq(Nat) /\ <<>> \in Seq(Nat \X Nat)
    OBVIOUS
  <2> QED BY <1>3, <2>1 DEF Typed, States
<1>6. Struct(cb, fires)
  <2>1. <<>> \in Seq(Frames)
    OBVIOUS
  <2> QED BY <1>2, <1>3, <1>4, <2>1 DEF Struct
<1>7. \A l \in Lists : ~Fired(cb, l)
  BY <1>2 DEF Fired
<1>8. Agree(cb, state) /\ SettlesOrHas(cb, fires, state, ScriptDone) /\ CalledOnce(cb, called)
  <2>1. \A l \in Outcomes : l \in Lists /\ l[1] \in Deferreds /\ Len(called[l]) = 0
    BY <1>3 DEF Outcomes, DeferredAssumption
  <2>2. Agree(cb, state)
    BY <1>2, <1>3, <2>1 DEF Agree, Outcome
  <2>3. SettlesOrHas(cb, fires, state, ScriptDone)
    BY <1>7, <2>1 DEF SettlesOrHas
  <2>4. CalledOnce(cb, called)
    BY <2>1 DEF CalledOnce
  <2> QED BY <2>2, <2>3, <2>4
<1>9. Ordered(cb, fires, added, called, ops, thrown)
  <2>1. SUFFICES ASSUME NEW l \in Lists
                 PROVE  ListInv(l, cb[l], Mode(fires, l), added[l], called[l], ops, thrown)
    BY DEF Ordered
  <2>2. Len(added[l]) = 0 /\ Len(called[l]) = 0
    BY <1>3
  <2>3. PICK c \in Cells : c = cb[l]
    BY <1>4
  <2>4. PICK mode : mode = Mode(fires, l)
    OBVIOUS
  <2>5. /\ c.memory = NoValue /\ ~c.firing /\ Len(c.stack) = 0
        /\ \A j \in 1..Len(c.list) : c.list[j].do # "page"
    BY <1>2, <2>3
  <2>6. \A j : ~Due(c, mode, j)
    BY <2>5 DEF Due
  <2>7. PagesInOrder(c, ops) /\ AddedInOrder(added[l], ops)
    BY <2>2, <2>5 DEF PagesInOrder, AddedInOrder
  <2>8. Matches(c, mode, added[l], called[l])
    BY <2>2, <2>6 DEF Matches
  <2>9. Waiting(c, ops) /\ Notified(c, mode, called[l], ops)
    BY <2>2, <2>5 DEF Waiting, Notified
  <2> QED BY <2>3, <2>4, <2>5, <2>7, <2>8, <2>9 DEF ListInv
<1> QED BY <1>5, <1>6, <1>8, <1>9 DEF IInv, Holds

\* Whatever the page and jQuery do, the invariant stays.
LEMMA NextHolds ==
  ASSUME DeferredAssumption, IInv, [Next]_vars
  PROVE  IInv'
<1>1. CASE UNCHANGED vars
  <2>1. /\ cb' = cb /\ fires' = fires /\ script' = script /\ depth' = depth /\ state' = state
        /\ ops' = ops /\ added' = added /\ called' = called /\ thrown' = thrown
    BY <1>1 DEF vars, joining
  <2>2. Typed'
    BY <2>1 DEF IInv, Typed
  <2>3. PICK done : done = ScriptDone
    OBVIOUS
  <2>4. done = ScriptDone'
    BY <2>1, <2>3 DEF ScriptDone
  <2>5. Holds(cb, fires, state, added, called, ops, thrown, done)
    BY <2>3 DEF IInv
  <2>6. Holds(cb', fires', state', added', called', ops', thrown', done)
    BY <2>1, <2>5
  <2> QED BY <2>2, <2>4, <2>6 DEF IInv
<1>2. ASSUME NEW l \in Lists, AddCallback(l)
      PROVE  IInv'
  BY <1>2, AddCallbackHolds
<1>3. ASSUME NEW d \in Raw, NEW kind \in Kinds, FireList(d, kind)
      PROVE  IInv'
  BY <1>3, FireListHolds
<1>4. ASSUME NEW as \in (Raw \cup {Plain}) \X (Raw \cup {Plain}), When(as)
      PROVE  IInv'
  BY <1>4, WhenHolds
<1>5. ASSUME NEW d \in Raw, NEW kinds \in SUBSET Kinds, Pipe(d, kinds)
      PROVE  IInv'
  BY <1>5, PipeHolds
<1>6. CASE ScriptAdds
  BY <1>6, ScriptAddsHolds
<1>7. CASE CallPage
  BY <1>7, CallPageHolds
<1>8. CASE PageReturns
  BY <1>8, PageReturnsHolds
<1>9. CASE PipedReturns
  BY <1>9, PipedReturnsHolds
<1>10. CASE FireEnds
  BY <1>10, FireEndsHolds
<1>11. CASE PageThrows
  BY <1>11, PageThrowsHolds
<1>12. CASE Looping /\ CallOwn(NextCallback)
  BY <1>12, CallOwnHolds
<1> QED BY <1>1, <1>2, <1>3, <1>4, <1>5, <1>6, <1>7, <1>8, <1>9, <1>10, <1>11, <1>12 DEF Next

\* What the histories show of a deferred in any state.
LEMMA IInvSettlesOnce ==
  ASSUME DeferredAssumption, IInv
  PROVE  SettlesOnce
<1>1. CalledOnce(cb, called) /\ called \in [Lists -> Seq(Nat \X Nat)]
  BY DEF IInv, Holds, Typed
<1>2. SUFFICES ASSUME NEW d \in Deferreds
               PROVE  /\ called[<<d, "done">>] = <<>> \/ called[<<d, "fail">>] = <<>>
                      /\ \A kind \in Settled : \A i \in DOMAIN called[<<d, kind>>] :
                           called[<<d, kind>>][i][2] = cb[<<d, kind>>].memory
  BY DEF SettlesOnce
<1>3. PICK l : l = <<d, "done">>
  OBVIOUS
<1>4. PICK r : r = <<d, "fail">>
  OBVIOUS
<1>5. l \in Outcomes /\ r \in Outcomes /\ Rival(l) = r /\ l \in Lists /\ r \in Lists
  BY <1>3, <1>4 DEF Outcomes, DeferredAssumption, Kinds, Rival, Other
<1>6. \A x \in {l, r} : called[x] \in Seq(Nat \X Nat) /\ DOMAIN called[x] = 1..Len(called[x])
                        /\ Len(called[x]) \in Nat
  BY <1>1, <1>5
<1>7. \A x \in {l, r} : \A i \in 1..Len(called[x]) :
        Fired(cb, x) /\ ~cb[Rival(x)].on /\ called[x][i][2] = cb[x].memory
  BY <1>1, <1>5 DEF CalledOnce
<1>8. called[l] = <<>> \/ called[r] = <<>>
  <2>1. SUFFICES ASSUME called[l] # <<>>, called[r] # <<>>
                 PROVE  FALSE
    OBVIOUS
  <2>2. 1 \in 1..Len(called[l]) /\ 1 \in 1..Len(called[r])
    BY <1>6, <2>1
  <2>3. ~cb[r].on /\ Fired(cb, r)
    BY <1>5, <1>7, <2>2
  <2> QED BY <2>3 DEF Fired
<1>9. \A x \in {l, r} : \A i \in DOMAIN called[x] : called[x][i][2] = cb[x].memory
  BY <1>6, <1>7
<1> QED BY <1>3, <1>4, <1>8, <1>9 DEF Settled

\* A sequence whose elements are the first ones of another.
LEMMA PrefixOf ==
  ASSUME NEW s \in Seq(Nat), NEW t \in Seq(Nat), Len(s) <= Len(t),
         \A i \in 1..Len(s) : s[i] = t[i]
  PROVE  IsPrefix(s, t) /\ (Len(s) = Len(t) => s = t)
<1>1. Len(s) \in Nat /\ Len(t) \in Nat
  OBVIOUS
<1>2. SubSeq(s, 1, Len(s)) = SubSeq(t, 1, Len(s))
  BY <1>1
<1>3. Len(s) = Len(t) => s = t
  BY <1>1
<1> QED BY <1>2, <1>3 DEF IsPrefix

\* The histories of the lists of an outcome.
LEMMA IInvCalledInOrder ==
  ASSUME DeferredAssumption, IInv
  PROVE  CalledInOrder
<1>1. SUFFICES ASSUME NEW d \in Deferreds, NEW kind \in Settled
               PROVE  /\ IsPrefix(Ids(<<d, kind>>), added[<<d, kind>>])
                      /\ Quiet /\ ~thrown /\ state[d] = Outcome(kind) =>
                           Ids(<<d, kind>>) = added[<<d, kind>>]
  BY DEF CalledInOrder
<1>2. PICK l : l = <<d, kind>>
  OBVIOUS
<1>3. l \in Outcomes /\ l \in Lists /\ l[1] = d /\ l[2] = kind /\ l[2] # "progress"
  BY <1>2 DEF Outcomes, DeferredAssumption, Kinds, Settled
<1>4. PICK ad \in Seq(Nat) : ad = added[l]
  BY <1>3 DEF IInv, Typed
<1>5. PICK ca \in Seq(Nat \X Nat) : ca = called[l]
  BY <1>3 DEF IInv, Typed
<1>6. PICK c \in Cells : c = cb[l] /\ CellOK(l, c)
  BY <1>3 DEF IInv, Holds, Struct
<1>7. PICK mode : mode = Mode(fires, l)
  OBVIOUS
<1>8. ListInv(l, c, mode, ad, ca, ops, thrown)
  BY <1>3, <1>4, <1>5, <1>6, <1>7 DEF IInv, Holds, Ordered
<1>9. Len(ca) <= Len(ad) /\ \A i \in 1..Len(ca) : ca[i][1] = ad[i]
  BY <1>3, <1>8 DEF ListInv, Matches
<1>10. PICK s : s = Ids(l)
  OBVIOUS
<1>11. s = [i \in 1..Len(ca) |-> ca[i][1]] /\ Len(ca) \in Nat
  BY <1>5, <1>10 DEF Ids
<1>12. s \in Seq(Nat) /\ Len(s) = Len(ca) /\ \A i \in 1..Len(s) : s[i] = ad[i]
  <2>1. \A i \in 1..Len(ca) : ca[i][1] \in Nat
    OBVIOUS
  <2> QED BY <1>9, <1>11, <2>1
<1>13. IsPrefix(s, ad) /\ (Len(ca) = Len(ad) => s = ad)
  BY <1>9, <1>12, PrefixOf
<1>14. ASSUME Quiet, ~thrown, state[d] = Outcome(kind)
       PROVE  Len(ca) = Len(ad)
  <2>1. Fired(cb, l)
    BY <1>3, <1>14 DEF IInv, Holds, Agree
  <2>2. c.on /\ c.memory # NoValue
    BY <1>6, <2>1 DEF Fired
  <2>3. mode = "none"
    <3>1. Len(fires) = 0
      BY <1>14 DEF Quiet
    <3> QED BY <1>7, <3>1 DEF Mode
  <2>4. ~c.firing
    BY <1>8, <1>14, <2>3 DEF ListInv
  <2> QED BY <1>3, <1>6, <1>8, <2>2, <2>4, AllCalled
<1> QED BY <1>2, <1>4, <1>10, <1>13, <1>14

\* The history of a progress list.
LEMMA IInvNotifiesInOrder ==
  ASSUME DeferredAssumption, IInv
  PROVE  NotifiesInOrder
<1>1. SUFFICES ASSUME NEW d \in Raw
               PROVE  LET c == called[<<d, "progress">>] IN
                        \A i, j \in DOMAIN c : i < j /\ c[i][1] = c[j][1] => c[i][2] < c[j][2]
  BY DEF NotifiesInOrder
<1>2. PICK l : l = <<d, "progress">>
  OBVIOUS
<1>3. l \in Lists /\ l[2] = "progress" /\ l[1] # Joined
  BY <1>2 DEF DeferredAssumption, Deferreds, Kinds
<1>4. PICK ca \in Seq(Nat \X Nat) : ca = called[l]
  BY <1>3 DEF IInv, Typed
<1>5. ListInv(l, cb[l], Mode(fires, l), added[l], ca, ops, thrown)
  BY <1>3, <1>4 DEF IInv, Holds, Ordered
<1>6. Notified(cb[l], Mode(fires, l), ca, ops)
  BY <1>3, <1>5 DEF ListInv
<1>7. \A i \in 1..Len(ca) : \A j \in 1..(i - 1) : ca[j][1] = ca[i][1] => ca[j][2] < ca[i][2]
  BY <1>6 DEF Notified
<1>8. \A i, j \in 1..Len(ca) : i < j /\ ca[i][1] = ca[j][1] => ca[i][2] < ca[j][2]
  <2>1. SUFFICES ASSUME NEW i \in 1..Len(ca), NEW j \in 1..Len(ca), i < j, ca[i][1] = ca[j][1]
                 PROVE  ca[i][2] < ca[j][2]
    OBVIOUS
  <2>2. i \in 1..(j - 1)
    BY <2>1
  <2> QED BY <1>7, <2>1, <2>2
<1>9. DOMAIN ca = 1..Len(ca)
  OBVIOUS
<1> QED BY <1>2, <1>4, <1>8, <1>9

\* In every state that the program reaches, whatever callbacks do while lists fire, the lists
\* are as callbacks expect them: a list that fires has its bounds, is one of one fire and
\* keeps its own callbacks in front; it is disabled only when the other outcome has fired;
\* and callbacks are due exactly when they were added and not called.
THEOREM Inductive ==
  ASSUME DeferredAssumption
  PROVE  Spec => []IInv
<1>1. Init => IInv
  BY InitHolds
<1>2. IInv /\ [Next]_vars => IInv'
  BY NextHolds
<1> QED BY <1>1, <1>2, PTL DEF Spec

\* However many deferreds the page makes and whatever its callbacks call, each deferred
\* settles once: callbacks of one outcome only are called, all with the value of the first
\* resolve or reject (jQuery.Callbacks with once and memory, disable of the other list).
THEOREM SettlesOnceHolds ==
  ASSUME DeferredAssumption
  PROVE  Spec => []SettlesOnce
<1>1. IInv => SettlesOnce
  BY IInvSettlesOnce
<1> QED BY <1>1, Inductive, PTL

\* Callbacks of an outcome are called in the order in which they were added, none is left out
\* once nothing runs unless one threw, and notifications reach a progress callback in the
\* order in which they were made (the index, length and stack of a list that fires).
THEOREM OrderKeptHolds ==
  ASSUME DeferredAssumption
  PROVE  Spec => []OrderKept
<1>1. IInv => OrderKept
  BY IInvCalledInOrder, IInvNotifiesInOrder DEF OrderKept
<1> QED BY <1>1, Inductive, PTL
-----------------------------------------------------------------------------
(* What when waits for *)

JDone == <<Joined, "done">>
JFail == <<Joined, "fail">>
Pairs == (Raw \cup {Plain}) \X (Raw \cup {Plain})

\* What when adds to its argument i.
DoneAdd(as, i)  == <<<<as[i], "done">>, ResolveFunc(i)>>
FailAdd(as, i)  == <<<<as[i], "fail">>, ToJoined("fail")>>
WhenAdds(as)    == {DoneAdd(as, i) : i \in Promises(as)} \cup {FailAdd(as, i) : i \in Promises(as)} \cup
                   {<<<<as[i], "progress">>, ToJoined("progress")>> : i \in Promises(as)}

\* The callback at j is still to be called by a fire.
Ahead(c, j) == j \in 1..Len(c.list) /\ (c.firing => c.index < j)

\* No call of f is to come in a list.
Passed(c, f) == \A j \in 1..Len(c.list) : Ahead(c, j) => c.list[j] # f

\* A callback that is to be added, or to be called unless its list is disabled.
Coming(C, sc, l, f) ==
  \/ \E k \in 1..Len(sc) : sc[k] = <<l, f>>
  \/ \E j \in 1..Len(C[l].list) : Ahead(C[l], j) /\ C[l].list[j] = f
  \/ ~C[l].on

\* Callbacks of when are where it adds them.
Placed(C, sc, as) ==
  /\ \A k \in 1..Len(sc) : sc[k] \in WhenAdds(as)
  /\ \A l \in Lists : \A j \in 1..Len(C[l].list) :
       C[l].list[j] \in JoinTasks => <<l, C[l].list[j]>> \in WhenAdds(as)

CountTasks == [do : {"count"}, arg : Nat]

\* A callback that counts is once among those that are to be added and those in the lists.
Once(C, sc) ==
  /\ \A k, m \in 1..Len(sc) : sc[k][2] \in CountTasks /\ sc[k] = sc[m] => k = m
  /\ \A k \in 1..Len(sc) : sc[k][2] \in CountTasks =>
       \A j \in 1..Len(C[sc[k][1]].list) : C[sc[k][1]].list[j] # sc[k][2]
  /\ \A l \in Lists : \A j, k \in 1..Len(C[l].list) :
       C[l].list[j] \in CountTasks /\ C[l].list[j] = C[l].list[k] => j = k

Size(A) == (IF 1 \in A THEN 1 ELSE 0) + (IF 2 \in A THEN 1 ELSE 0)

\* A are the arguments that have not counted: theirs are to come, the others are resolved.
Counts(C, st, sc, as, n, th, A) ==
  /\ A \subseteq Promises(as) /\ n = Size(A)
  /\ \A i \in A : th \/ Coming(C, sc, <<as[i], "done">>, ResolveFunc(i))
  /\ \A i \in Promises(as) \ A :
       /\ st[as[i]] = "resolved"
       /\ \A k \in 1..Len(sc) : sc[k] # DoneAdd(as, i)
       /\ Passed(C[<<as[i], "done">>], ResolveFunc(i))

\* The callback that rejects is to come, or when has settled.
Fails(C, sc, as, th) ==
  \A i \in Promises(as) : \/ th \/ Coming(C, sc, <<as[i], "fail">>, ToJoined("fail"))
                          \/ Fired(C, JFail) \/ Fired(C, JDone)

Joins(C, st, as, n) ==
  /\ Fired(C, JDone) => n = 0
  /\ n = 0 => Fired(C, JDone) \/ Fired(C, JFail)
  /\ Fired(C, JFail) => \E i \in Promises(as) : st[as[i]] = "rejected"

WhenInv(C, st, sc, as, n, th) ==
  /\ Placed(C, sc, as) /\ Once(C, sc) /\ \E A \in SUBSET {1, 2} : Counts(C, st, sc, as, n, th, A)
  /\ Fails(C, sc, as, th) /\ Joins(C, st, as, n)

Idle(C, sc) ==
  /\ sc = <<>> /\ ~Fired(C, JDone) /\ ~Fired(C, JFail)
  /\ \A l \in Lists : \A j \in 1..Len(C[l].list) : C[l].list[j] \notin JoinTasks

\* Before when or pipe is called there is nothing of it; pipe is told from when by its
\* arguments.
JoinInv(C, st, sc, as, n, th) ==
  /\ \A l \in Outcomes : C[l].on => C[l].open
  /\ as \in {<<>>} \cup {<<d>> : d \in Raw} \cup Pairs
  /\ as = <<>> => Idle(C, sc)
  /\ as \in Pairs => WhenInv(C, st, sc, as, n, th)

-----------------------------------------------------------------------------
(* What the calls keep of it *)

\* The callbacks of when and pipe stay in a list as they are and are still to be called,
\* those of G excepted, unless the list is disabled.
Kept(l, c, n, G) ==
  /\ n.on => c.on
  /\ \A j \in 1..Len(n.list) : n.list[j] \in JoinTasks => j \in 1..Len(c.list) /\ n.list[j] = c.list[j]
  /\ l[2] # "progress" =>
       /\ n.on /\ c.open => n.open
       /\ \A j \in 1..Len(n.list) : n.list[j] \in JoinTasks /\ Ahead(n, j) => Ahead(c, j)
       /\ n.on => \A j \in 1..Len(c.list) : c.list[j] \in JoinTasks \ G /\ Ahead(c, j) =>
                    j \in 1..Len(n.list) /\ n.list[j] = c.list[j] /\ Ahead(n, j)

Keeps(C, C2, G) == \A l \in Lists : Kept(l, C[l], C2[l], G)

\* A list that nothing is done to.
LEMMA KeptSelf ==
  ASSUME NEW l, NEW c, NEW G
  PROVE  Kept(l, c, c, G)
BY DEF Kept

\* A call that changes one list.
LEMMA PutKept ==
  ASSUME NEW C, NEW C2, NEW l \in Lists, NEW n, NEW G, Puts(C, C2, l, n), Kept(l, C[l], n, G)
  PROVE  Keeps(C, C2, G)
<1>1. SUFFICES ASSUME NEW x \in Lists
               PROVE  Kept(x, C[x], C2[x], G)
  BY DEF Keeps
<1>2. CASE x = l
  BY <1>2 DEF Puts
<1>3. CASE x # l
  <2>1. C2[x] = C[x]
    BY <1>3 DEF Puts
  <2> QED BY <2>1, KeptSelf
<1> QED BY <1>2, <1>3

\* add of a callback of the page.
LEMMA LengthensKept ==
  ASSUME NEW l \in Lists, NEW c \in Cells, NEW n \in Cells, NEW f, f \notin JoinTasks,
         Lengthens(c, n, f)
  PROVE  Kept(l, c, n, {})
<1>1. /\ n.list = Append(c.list, f) /\ n.on = c.on /\ n.open = c.open /\ n.firing = c.firing
      /\ n.index = c.index
  BY DEF Lengthens, IsCell
<1>2. c.list \in Seq(Tasks) /\ Len(c.list) \in Nat
  BY CellFields
<1>3. /\ Len(n.list) = Len(c.list) + 1 /\ n.list[Len(c.list) + 1] = f
      /\ \A j \in 1..Len(c.list) : n.list[j] = c.list[j]
  BY <1>1, <1>2
<1>4. \A j \in 1..Len(n.list) : n.list[j] \in JoinTasks => j \in 1..Len(c.list)
  BY <1>2, <1>3
<1>5. \A j \in 1..Len(c.list) : j \in 1..Len(n.list)
  BY <1>2, <1>3
<1>6. \A j \in 1..Len(c.list) : Ahead(n, j) <=> Ahead(c, j)
  BY <1>1, <1>5 DEF Ahead
<1> QED BY <1>1, <1>3, <1>4, <1>5, <1>6 DEF Kept

\* add to a list that has fired, of a callback of the page.
LEMMA ResumesKept ==
  ASSUME NEW l \in Lists, NEW c \in Cells, NEW n \in Cells, NEW f, f \notin JoinTasks,
         CellOK(l, c), c.on, Resumes(c, n, f)
  PROVE  Kept(l, c, n, {})
<1>1. /\ n.list = Append(c.list, f) /\ n.on = c.on /\ n.open = c.open /\ n.firing
      /\ n.index = Len(c.list) /\ ~c.firing /\ c.memory # NoValue
  BY DEF Resumes, IsCell
<1>2. c.list \in Seq(Tasks) /\ Len(c.list) \in Nat
  BY CellFields
<1>3. /\ Len(n.list) = Len(c.list) + 1 /\ n.list[Len(c.list) + 1] = f
      /\ \A j \in 1..Len(c.list) : n.list[j] = c.list[j]
  BY <1>1, <1>2
<1>4. \A j \in 1..Len(n.list) : n.list[j] \in JoinTasks => j \in 1..Len(c.list)
  BY <1>2, <1>3
<1>5. l[2] # "progress" => Len(c.list) = 0
  BY <1>1 DEF CellOK
<1> QED BY <1>1, <1>3, <1>4, <1>5 DEF Kept

\* A fire that begins.
LEMMA BeginsKept ==
  ASSUME NEW l \in Lists, NEW c \in Cells, NEW n \in Cells, NEW v, ~c.firing, Begins(c, n, v)
  PROVE  Kept(l, c, n, {})
<1>1. n.list = c.list /\ n.on = c.on /\ n.open = c.open /\ n.index = 0
  BY DEF Begins, IsCell
<1>2. \A j \in 1..Len(c.list) : Ahead(n, j) /\ Ahead(c, j)
  BY <1>1 DEF Ahead
<1> QED BY <1>1, <1>2 DEF Kept

\* A notification that waits.
LEMMA StacksKept ==
  ASSUME NEW l \in Lists, NEW c \in Cells, NEW n \in Cells, NEW v, l[2] = "progress",
         Stacks(c, n, v)
  PROVE  Kept(l, c, n, {})
BY DEF Stacks, IsCell, Kept

\* A list that is disabled
LEMMA DisablesKept ==
  ASSUME NEW l \in Lists, NEW c \in Cells, NEW n \in Cells, NEW G, Disables(c, n)
  PROVE  Kept(l, c, n, G)
<1>1. Len(n.list) = 0 /\ ~n.on
  BY DEF Disables, IsCell
<1> QED BY <1>1 DEF Kept

\* or locked.
LEMMA LocksKept ==
  ASSUME NEW l \in Lists, NEW c \in Cells, NEW n \in Cells, NEW G, l[2] = "progress", Locks(c, n)
  PROVE  Kept(l, c, n, G)
BY DEF Locks, IsCell, Kept

\* The loop goes on.
LEMMA StepKept ==
  ASSUME NEW l \in Lists, NEW c \in Cells, NEW n \in Cells, NEW G,
         IsCell(n, c.list, c.on, c.stack, c.open, c.memory, c.firing, c.index + 1, c.length),
         c.list[c.index + 1] \notin JoinTasks \ G
  PROVE  Kept(l, c, n, G)
<1>1. /\ n.list = c.list /\ n.on = c.on /\ n.open = c.open /\ n.firing = c.firing
      /\ n.index = c.index + 1
  BY DEF IsCell
<1>2. c.index \in Nat
  BY CellFields
<1>3. \A j \in 1..Len(c.list) : Ahead(n, j) => Ahead(c, j)
  BY <1>1, <1>2 DEF Ahead
<1>4. \A j \in 1..Len(c.list) : c.list[j] \in JoinTasks \ G /\ Ahead(c, j) => Ahead(n, j)
  BY <1>1, <1>2 DEF Ahead
<1> QED BY <1>1, <1>3, <1>4 DEF Kept

\* A fire ends.
LEMMA PopKept ==
  ASSUME NEW l \in Lists, NEW c \in Cells, NEW n \in Cells, CellOK(l, c), c.firing,
         c.index = c.length,
         IsCell(n, IF l[2] = "progress" THEN c.list ELSE <<>>, c.on, <<>>, c.open, c.memory, FALSE,
                c.index, c.length)
  PROVE  Kept(l, c, n, {})
<1>1. n.on = c.on /\ n.open = c.open /\ n.list = IF l[2] = "progress" THEN c.list ELSE <<>>
  BY DEF IsCell
<1>2. CASE l[2] = "progress"
  BY <1>1, <1>2 DEF Kept
<1>3. CASE l[2] # "progress"
  <2>1. Len(n.list) = 0
    BY <1>1, <1>3
  <2>2. c.index = Len(c.list) /\ Len(c.list) \in Nat
    BY CellFields DEF CellOK
  <2>3. \A j \in 1..Len(c.list) : ~Ahead(c, j)
    BY <2>2 DEF Ahead
  <2> QED BY <1>1, <1>3, <2>1, <2>3 DEF Kept
<1> QED BY <1>2, <1>3

\* What the lists of the joined deferred have done.
SameJoined(C, C2) == (Fired(C2, JDone) <=> Fired(C, JDone)) /\ (Fired(C2, JFail) <=> Fired(C, JFail))

\* A deferred that has settled stays as it is.
Grows(st, st2) == \A d \in Deferreds : st[d] # "pending" => st2[d] = st[d]

\* The two outcomes of the joined deferred.
LEMMA JoinedAre ==
  ASSUME DeferredAssumption
  PROVE  /\ JDone \in Outcomes /\ JFail \in Outcomes /\ JDone \in Lists /\ JFail \in Lists
         /\ JDone[1] = Joined /\ JFail[1] = Joined /\ Rival(JDone) = JFail /\ Rival(JFail) = JDone
BY DEF DeferredAssumption, Deferreds, Kinds, JDone, JFail, Outcomes, Rival, Other

\* Lists that fire no more than before, nor less.
LEMMA SteadyJoined ==
  ASSUME DeferredAssumption, NEW C, NEW C2, Steady(C, C2)
  PROVE  SameJoined(C, C2)
BY JoinedAre DEF Steady, SteadyCell, SameJoined, Fired

\* A list of another deferred.
LEMMA PutJoined ==
  ASSUME DeferredAssumption, NEW C, NEW C2, NEW l \in Lists, NEW n, Puts(C, C2, l, n), l[1] # Joined
  PROVE  SameJoined(C, C2)
BY JoinedAre DEF Puts, SameJoined, Fired

\* The elements of a pair.
LEMMA PairIs ==
  ASSUME NEW S, NEW as \in S \X S
  PROVE  as[1] \in S /\ as[2] \in S /\ DOMAIN as = {1, 2} /\ Len(as) = 2
<1>1. as[1] \in S /\ as[2] \in S
  OBVIOUS
<1>2. DOMAIN as = {1, 2}
  OBVIOUS
<1>3. Len(as) = 2
  OBVIOUS
<1> QED BY <1>1, <1>2, <1>3

\* The arguments of when.
LEMMA ArgsAre ==
  ASSUME DeferredAssumption, NEW as \in Pairs, NEW i \in Promises(as)
  PROVE  /\ i \in {1, 2} /\ i \in Nat /\ as[i] \in Raw /\ as[i] \in Deferreds
         /\ \A kind \in Kinds : <<as[i], kind>> \in Lists /\ <<as[i], kind>>[2] = kind
                                /\ <<as[i], kind>>[1] = as[i] /\ as[i] # Joined
         /\ ResolveFunc(i) \in CountTasks /\ ResolveFunc(i) \in JoinTasks
         /\ ToJoined("fail") \in JoinTasks /\ ToJoined("fail") \notin CountTasks
<1>a. PICK S : S = Raw \cup {Plain}
  OBVIOUS
<1>b. as \in S \X S
  BY <1>a DEF Pairs
<1>1. as[1] \in S /\ as[2] \in S /\ DOMAIN as = {1, 2}
  BY <1>b, PairIs
<1>2. i \in {1, 2} /\ as[i] # Plain
  BY <1>1 DEF Promises
<1>3. as[i] \in Raw
  BY <1>a, <1>1, <1>2
<1>4. \A kind \in Kinds : <<as[i], kind>> \in Lists /\ as[i] # Joined
  BY <1>3 DEF DeferredAssumption, Deferreds
<1>8. i \in Nat
  BY <1>2
<1>10. as[i] \in Deferreds
  BY <1>3 DEF Deferreds
<1>9. \A kind \in Kinds : <<as[i], kind>>[2] = kind /\ <<as[i], kind>>[1] = as[i]
  OBVIOUS
<1>5. ResolveFunc(i) \in CountTasks /\ ResolveFunc(i) \in JoinTasks
  BY <1>2 DEF ResolveFunc, CountTasks, JoinTasks
<1>6. ToJoined("fail") \in JoinTasks
  BY JoinTasksAre DEF Kinds
<1>7. ToJoined("fail") \notin CountTasks
  BY DEF ToJoined, Fire, CountTasks
<1> QED BY <1>2, <1>3, <1>4, <1>5, <1>6, <1>7, <1>8, <1>9, <1>10

\* Each part of the invariant of when is kept by calls that keep its callbacks: the places,
LEMMA PlacedKept ==
  ASSUME NEW C, NEW C2, NEW G, NEW sc, NEW as, Placed(C, sc, as), Keeps(C, C2, G)
  PROVE  Placed(C2, sc, as)
BY DEF Placed, Keeps, Kept

\* that they are there once,
LEMMA OnceKept ==
  ASSUME NEW C, NEW C2, NEW G, NEW sc, NEW as, Placed(C, sc, as), Once(C, sc), Keeps(C, C2, G),
         \A k \in 1..Len(sc) : sc[k][1] \in Lists
  PROVE  Once(C2, sc)
<1>1. CountTasks \subseteq JoinTasks
  BY DEF CountTasks, JoinTasks
<1>2. ASSUME NEW k \in 1..Len(sc), sc[k][2] \in CountTasks,
             NEW j \in 1..Len(C2[sc[k][1]].list), C2[sc[k][1]].list[j] = sc[k][2]
      PROVE  FALSE
  <2>1. sc[k][1] \in Lists
    OBVIOUS
  <2>2. j \in 1..Len(C[sc[k][1]].list) /\ C2[sc[k][1]].list[j] = C[sc[k][1]].list[j]
    BY <1>1, <1>2, <2>1 DEF Keeps, Kept
  <2> QED BY <1>2, <2>2 DEF Once
<1>3. ASSUME NEW l \in Lists, NEW j \in 1..Len(C2[l].list), NEW k \in 1..Len(C2[l].list),
             C2[l].list[j] \in CountTasks, C2[l].list[j] = C2[l].list[k]
      PROVE  j = k
  <2>1. /\ j \in 1..Len(C[l].list) /\ C2[l].list[j] = C[l].list[j]
        /\ k \in 1..Len(C[l].list) /\ C2[l].list[k] = C[l].list[k]
    BY <1>1, <1>3 DEF Keeps, Kept
  <2> QED BY <1>3, <2>1 DEF Once
<1>4. \A k, m \in 1..Len(sc) : sc[k][2] \in CountTasks /\ sc[k] = sc[m] => k = m
  BY DEF Once
<1> QED BY <1>2, <1>3, <1>4 DEF Once

\* that one is still to be called,
LEMMA ComingKept ==
  ASSUME NEW C, NEW C2, NEW G, NEW sc, NEW l \in Lists, l[2] # "progress",
         NEW f \in JoinTasks, f \notin G, Coming(C, sc, l, f), Keeps(C, C2, G)
  PROVE  Coming(C2, sc, l, f)
<1>1. Kept(l, C[l], C2[l], G)
  BY DEF Keeps
<1>2. CASE \E k \in 1..Len(sc) : sc[k] = <<l, f>>
  BY <1>2 DEF Coming
<1>3. CASE ~C2[l].on
  BY <1>3 DEF Coming
<1>4. ASSUME NEW j \in 1..Len(C[l].list), Ahead(C[l], j), C[l].list[j] = f, C2[l].on
      PROVE  j \in 1..Len(C2[l].list) /\ Ahead(C2[l], j) /\ C2[l].list[j] = f
  <2>1. C[l].list[j] \in JoinTasks \ G
    BY <1>4
  <2> QED BY <1>1, <1>4, <2>1 DEF Kept
<1>5. ~C[l].on => ~C2[l].on
  BY <1>1 DEF Kept
<1> QED BY <1>2, <1>3, <1>4, <1>5 DEF Coming

\* A callback that has been called is not to come again.
LEMMA PassedKept ==
  ASSUME NEW C, NEW C2, NEW G, NEW l \in Lists, l[2] # "progress", NEW f \in JoinTasks,
         Keeps(C, C2, G), Passed(C[l], f)
  PROVE  Passed(C2[l], f)
<1>1. Kept(l, C[l], C2[l], G)
  BY DEF Keeps
<1> QED BY <1>1 DEF Kept, Passed

\* Callbacks of arguments that have not counted are not among those that may be called.
Spares(G, A) == \A i \in A : ResolveFunc(i) \notin G

\* the arguments that have not counted,
LEMMA CountsKept ==
  ASSUME DeferredAssumption, NEW C, NEW C2, NEW st, NEW st2, NEW sc, NEW as \in Pairs, NEW n,
         NEW th, NEW A, NEW G, Counts(C, st, sc, as, n, th, A), Keeps(C, C2, G), Spares(G, A),
         Grows(st, st2)
  PROVE  Counts(C2, st2, sc, as, n, th, A)
<1>1. A \subseteq Promises(as) /\ n = Size(A)
  BY DEF Counts
<1>2. ASSUME NEW i \in A
      PROVE  th \/ Coming(C2, sc, <<as[i], "done">>, ResolveFunc(i))
  <2>1. PICK l \in Lists : l = <<as[i], "done">> /\ l[2] # "progress"
    BY <1>1, ArgsAre DEF Kinds
  <2>2. PICK f \in JoinTasks : f = ResolveFunc(i)
    BY <1>1, ArgsAre
  <2>3. th \/ Coming(C, sc, l, f)
    BY <2>1, <2>2 DEF Counts
  <2>4. f \notin G
    BY <2>2 DEF Spares
  <2>5. th \/ Coming(C2, sc, l, f)
    BY <2>1, <2>3, <2>4, ComingKept
  <2> QED BY <2>1, <2>2, <2>5
<1>3. ASSUME NEW i \in Promises(as) \ A
      PROVE  /\ st2[as[i]] = "resolved"
             /\ \A k \in 1..Len(sc) : sc[k] # DoneAdd(as, i)
             /\ Passed(C2[<<as[i], "done">>], ResolveFunc(i))
  <2>1. PICK l \in Lists : l = <<as[i], "done">> /\ l[2] # "progress" /\ as[i] \in Deferreds
    BY ArgsAre DEF Kinds
  <2>2. PICK f \in JoinTasks : f = ResolveFunc(i)
    BY ArgsAre
  <2>3. /\ st[as[i]] = "resolved" /\ \A k \in 1..Len(sc) : sc[k] # DoneAdd(as, i)
        /\ Passed(C[l], f)
    BY <1>3, <2>1, <2>2 DEF Counts
  <2>4. Passed(C2[l], f)
    BY <2>1, <2>3, PassedKept
  <2>5. st2[as[i]] = "resolved"
    BY <2>1, <2>3 DEF Grows
  <2> QED BY <2>1, <2>2, <2>3, <2>4, <2>5
<1> QED BY <1>1, <1>2, <1>3 DEF Counts

\* the callbacks that reject,
LEMMA FailsKept ==
  ASSUME DeferredAssumption, NEW C, NEW C2, NEW sc, NEW as \in Pairs, NEW th, NEW G,
         Fails(C, sc, as, th), Keeps(C, C2, G), ToJoined("fail") \notin G,
         Fired(C, JDone) => Fired(C2, JDone), Fired(C, JFail) => Fired(C2, JFail)
  PROVE  Fails(C2, sc, as, th)
<1>1. ASSUME NEW i \in Promises(as), Coming(C, sc, <<as[i], "fail">>, ToJoined("fail"))
      PROVE  Coming(C2, sc, <<as[i], "fail">>, ToJoined("fail"))
  <2>1. PICK l \in Lists : l = <<as[i], "fail">> /\ l[2] # "progress"
    BY ArgsAre DEF Kinds
  <2>2. PICK f \in JoinTasks : f = ToJoined("fail") /\ f \notin G
    BY <1>1, ArgsAre
  <2>3. Coming(C, sc, l, f)
    BY <1>1, <2>1, <2>2
  <2>4. f \notin G
    BY <2>2
  <2>5. Coming(C2, sc, l, f)
    BY <2>1, <2>3, <2>4, ComingKept
  <2> QED BY <2>1, <2>2, <2>5
<1> QED BY <1>1 DEF Fails

\* that nothing is there before the call,
LEMMA IdleKept ==
  ASSUME DeferredAssumption, NEW C, NEW C2, NEW G, NEW sc, Idle(C, sc), Keeps(C, C2, G),
         SameJoined(C, C2)
  PROVE  Idle(C2, sc)
<1>1. sc = <<>> /\ ~Fired(C2, JDone) /\ ~Fired(C2, JFail)
  BY DEF Idle, SameJoined
<1>2. ASSUME NEW l \in Lists, NEW j \in 1..Len(C2[l].list), C2[l].list[j] \in JoinTasks
      PROVE  FALSE
  <2>1. j \in 1..Len(C[l].list) /\ C2[l].list[j] = C[l].list[j]
    BY <1>2 DEF Keeps, Kept
  <2> QED BY <1>2, <2>1 DEF Idle
<1> QED BY <1>1, <1>2 DEF Idle

\* what the joined deferred became,
LEMMA JoinsKept ==
  ASSUME DeferredAssumption, NEW C, NEW C2, NEW st, NEW st2, NEW as \in Pairs, NEW n,
         Joins(C, st, as, n), SameJoined(C, C2), Grows(st, st2)
  PROVE  Joins(C2, st2, as, n)
<1>1. ASSUME NEW i \in Promises(as), st[as[i]] = "rejected"
      PROVE  st2[as[i]] = "rejected"
  <2>1. as[i] \in Deferreds
    BY ArgsAre
  <2> QED BY <1>1, <2>1 DEF Grows
<1> QED BY <1>1 DEF Joins, SameJoined

\* What when or pipe has to add goes to lists.
LEMMA ScriptLists ==
  ASSUME DeferredAssumption, NEW sc \in Seq(Adding)
  PROVE  \A k \in 1..Len(sc) : sc[k] \in Adding /\ sc[k][1] \in Lists /\ sc[k][1][1] \in Raw
<1>1. SUFFICES ASSUME NEW k \in 1..Len(sc)
               PROVE  sc[k] \in Adding /\ sc[k][1] \in Lists /\ sc[k][1][1] \in Raw
  OBVIOUS
<1>2. sc[k] \in (Raw \X Kinds) \X JoinTasks
  BY DEF Adding
<1>3. sc[k][1] \in Raw \X Kinds
  BY <1>2
<1>4. sc[k][1] \in Lists
  BY <1>3 DEF DeferredAssumption, Deferreds
<1> QED BY <1>2, <1>3, <1>4 DEF Adding

\* that lists which are not disabled can be fired,
LEMMA OpenKept ==
  ASSUME NEW C, NEW C2, NEW G, Keeps(C, C2, G), \A l \in Outcomes : C[l].on => C[l].open
  PROVE  \A l \in Outcomes : C2[l].on => C2[l].open
BY DEF Keeps, Kept, Outcomes

\* A call that disturbs nothing of when and pipe.
Harmless(G) == ToJoined("fail") \notin G /\ \A f \in G : f \notin CountTasks

\* and so all of it.
LEMMA JoinStays ==
  ASSUME DeferredAssumption, NEW C, NEW C2, NEW G, NEW st, NEW st2, NEW sc \in Seq(Adding), NEW as,
         NEW n, NEW th, JoinInv(C, st, sc, as, n, th), Keeps(C, C2, G), Harmless(G),
         SameJoined(C, C2), Grows(st, st2)
  PROVE  JoinInv(C2, st2, sc, as, n, th)
<1>1. \A l \in Outcomes : C2[l].on => C2[l].open
  BY OpenKept DEF JoinInv
<1>2. as \in {<<>>} \cup {<<d>> : d \in Raw} \cup Pairs
  BY DEF JoinInv
<1>3. as = <<>> => Idle(C2, sc)
  BY IdleKept DEF JoinInv
<1>4. ASSUME as \in Pairs
      PROVE  WhenInv(C2, st2, sc, as, n, th)
  <2>1. /\ Placed(C, sc, as) /\ Once(C, sc) /\ Fails(C, sc, as, th) /\ Joins(C, st, as, n)
        /\ \E A \in SUBSET {1, 2} : Counts(C, st, sc, as, n, th, A)
    BY <1>4 DEF JoinInv, WhenInv
  <2>2. \A k \in 1..Len(sc) : sc[k][1] \in Lists
    BY ScriptLists
  <2>3. Placed(C2, sc, as) /\ Once(C2, sc)
    BY <2>1, <2>2, PlacedKept, OnceKept
  <2>4. PICK A \in SUBSET {1, 2} : Counts(C, st, sc, as, n, th, A)
    BY <2>1
  <2>a. Spares(G, A)
    <3>1. A \subseteq Promises(as)
      BY <2>4 DEF Counts
    <3> QED BY <1>4, <3>1, ArgsAre DEF Spares, Harmless
  <2>5. Counts(C2, st2, sc, as, n, th, A)
    BY <1>4, <2>4, <2>a, CountsKept
  <2>6. ToJoined("fail") \notin G
    BY DEF Harmless
  <2>7. (Fired(C, JDone) => Fired(C2, JDone)) /\ (Fired(C, JFail) => Fired(C2, JFail))
    BY DEF SameJoined
  <2>8. Fails(C2, sc, as, th)
    BY <1>4, <2>1, <2>6, <2>7, FailsKept
  <2>9. Joins(C2, st2, as, n)
    BY <1>4, <2>1, JoinsKept
  <2> QED BY <2>3, <2>5, <2>8, <2>9 DEF WhenInv
<1> QED BY <1>1, <1>2, <1>3, <1>4 DEF JoinInv

\* add of a callback of the page.
LEMMA AddsPageKept ==
  ASSUME DeferredAssumption, NEW C, NEW F, NEW C2, NEW F2, NEW l \in Lists, NEW f \in PageTasks,
         Struct(C, F), Adds(C, F, C2, F2, l, f)
  PROVE  Keeps(C, C2, {}) /\ SameJoined(C, C2)
<1>1. f \notin JoinTasks /\ f \in Guests(l)
  <2>1. f.do = "page" /\ \A g \in JoinTasks : g.do # "page"
    BY OwnDo
  <2> QED BY <2>1 DEF Guests
<1>2. SameJoined(C, C2)
  BY <1>1, AddsSteady, SteadyJoined
<1>3. PICK c \in Cells : c = C[l] /\ CellOK(l, c)
  BY DEF Struct
<1>4. CASE C2 = C
  BY <1>2, <1>4, KeptSelf DEF Keeps
<1>5. ASSUME NEW n \in Cells, Lengthens(c, n, f), Puts(C, C2, l, n)
      PROVE  Keeps(C, C2, {})
  <2>1. Kept(l, C[l], n, {})
    BY <1>1, <1>3, <1>5, LengthensKept
  <2> QED BY <1>5, <2>1, PutKept
<1>6. ASSUME NEW n \in Cells, Resumes(c, n, f), c.on, Puts(C, C2, l, n)
      PROVE  Keeps(C, C2, {})
  <2>1. Kept(l, C[l], n, {})
    BY <1>1, <1>3, <1>6, ResumesKept
  <2> QED BY <1>6, <2>1, PutKept
<1> QED BY <1>2, <1>3, <1>4, <1>5, <1>6 DEF Adds

\* A fire of any list.
LEMMA FiresOnKept ==
  ASSUME DeferredAssumption, NEW C, NEW F, NEW C2, NEW F2, NEW l \in Lists, NEW v,
         Struct(C, F), FiresOn(C, F, C2, F2, l, v)
  PROVE  Keeps(C, C2, {})
<1>1. PICK c \in Cells : c = C[l]
  BY DEF Struct
<1>2. CASE C2 = C
  BY <1>2, KeptSelf DEF Keeps
<1>3. ASSUME NEW n \in Cells, Begins(c, n, v), ~c.firing, Puts(C, C2, l, n)
      PROVE  Keeps(C, C2, {})
  <2>1. Kept(l, C[l], n, {})
    BY <1>1, <1>3, BeginsKept
  <2> QED BY <1>3, <2>1, PutKept
<1>4. ASSUME NEW n \in Cells, Stacks(c, n, v), l[2] = "progress", Puts(C, C2, l, n)
      PROVE  Keeps(C, C2, {})
  <2>1. Kept(l, C[l], n, {})
    BY <1>1, <1>4, StacksKept
  <2> QED BY <1>4, <2>1, PutKept
<1> QED BY <1>1, <1>2, <1>3, <1>4 DEF FiresOn

\* Only a fire of its list changes what is known of the joined deferred.
LEMMA FiresOnJoined ==
  ASSUME DeferredAssumption, NEW C, NEW F, NEW C2, NEW F2, NEW l \in Lists, NEW v,
         FiresOn(C, F, C2, F2, l, v), l[1] # Joined \/ l[2] = "progress"
  PROVE  SameJoined(C, C2)
<1>1. l # JDone /\ l # JFail
  BY DEF JDone, JFail
<1>2. CASE C2 = C
  BY <1>2 DEF SameJoined
<1>3. ASSUME NEW n, Puts(C, C2, l, n)
      PROVE  SameJoined(C, C2)
  BY <1>1, <1>3, JoinedAre DEF Puts, SameJoined, Fired
<1> QED BY <1>2, <1>3 DEF FiresOn

\* The loop of the last fire goes on after f.
LEMMA StepsKept ==
  ASSUME DeferredAssumption, NEW C, NEW F, NEW C2, NEW F2, NEW G, Struct(C, F), F # <<>>,
         Steps(C, F, C2, F2), NEW l, l = F[Len(F)].list, NEW f, f = C[l].list[C[l].index + 1],
         f \notin JoinTasks \ G
  PROVE  Keeps(C, C2, G) /\ SameJoined(C, C2)
<1>1. l \in Lists
  BY TopIs
<1>2. PICK c \in Cells : c = C[l]
  BY <1>1 DEF Struct
<1>3. PICK n \in Cells :
        /\ Puts(C, C2, l, n)
        /\ IsCell(n, c.list, c.on, c.stack, c.open, c.memory, c.firing, c.index + 1, c.length)
  BY <1>2 DEF Steps
<1>4. c.list[c.index + 1] \notin JoinTasks \ G
  BY <1>2
<1>5. Kept(l, c, n, G)
  BY <1>1, <1>3, <1>4, StepKept
<1>6. Keeps(C, C2, G)
  BY <1>1, <1>2, <1>3, <1>5, PutKept
<1>7. SameJoined(C, C2)
  BY StepsSteady, SteadyJoined
<1> QED BY <1>6, <1>7

\* The end of a fire.
LEMMA EndsKept ==
  ASSUME DeferredAssumption, NEW C, NEW F, NEW C2, NEW F2, Struct(C, F), F # <<>>, NEW l,
         l = F[Len(F)].list, C[l].index = C[l].length,
         Restarts(C, F, C2, F2) \/ Pops(C, F, C2, F2)
  PROVE  Keeps(C, C2, {}) /\ SameJoined(C, C2)
<1>1. l \in Lists /\ CellOK(l, C[l]) /\ C[l].firing
  BY TopIs DEF FrameOK
<1>2. PICK c \in Cells : c = C[l]
  BY <1>1 DEF Struct
<1>3. CASE Restarts(C, F, C2, F2)
  <2>1. PICK n \in Cells : Puts(C, C2, l, n) /\ n.list = c.list /\ n.on = c.on
    BY <1>2, <1>3 DEF Restarts, IsCell
  <2>2. l[2] = "progress"
    BY <1>3 DEF Restarts
  <2>3. Kept(l, C[l], n, {})
    BY <1>2, <2>1, <2>2 DEF Kept
  <2>4. Keeps(C, C2, {})
    BY <1>1, <2>1, <2>3, PutKept
  <2>5. SameJoined(C, C2)
    BY <1>3, RestartsSteady, SteadyJoined
  <2> QED BY <2>4, <2>5
<1>4. CASE Pops(C, F, C2, F2)
  <2>1. PICK n \in Cells :
          /\ Puts(C, C2, l, n)
          /\ IsCell(n, IF l[2] = "progress" THEN c.list ELSE <<>>, c.on, <<>>, c.open, c.memory, FALSE,
                    c.index, c.length)
    BY <1>2, <1>4 DEF Pops
  <2>2. CellOK(l, c) /\ c.firing /\ c.index = c.length
    BY <1>1, <1>2
  <2>3. Kept(l, c, n, {})
    BY <1>1, <2>1, <2>2, PopKept
  <2>4. Keeps(C, C2, {})
    BY <1>1, <1>2, <2>1, <2>3, PutKept
  <2>5. SameJoined(C, C2)
    BY <1>4, PopsSteady, SteadyJoined
  <2> QED BY <2>4, <2>5
<1> QED BY <1>3, <1>4

-----------------------------------------------------------------------------
(* The calls *)

\* The invariant of when.
JI == JoinInv(cb, state, script, args, count, thrown)

\* A call that disturbs nothing of when.
LEMMA JoinNext ==
  ASSUME DeferredAssumption, Typed, JI, Keeps(cb, cb', {}), SameJoined(cb, cb'),
         Grows(state, state'), script' = script, args' = args, count' = count, thrown' = thrown
  PROVE  JI'
<1>1. script \in Seq(Adding)
  BY DEF Typed, Adding
<1>2. PICK C2 : C2 = cb'
  OBVIOUS
<1>3. PICK st2 : st2 = state'
  OBVIOUS
<1>a. Harmless({})
  BY DEF Harmless
<1>4. JoinInv(C2, st2, script, args, count, thrown)
  BY <1>1, <1>2, <1>3, <1>a, JoinStays DEF JI
<1> QED BY <1>2, <1>3, <1>4 DEF JI

\* States that stay.
LEMMA GrowsSelf ==
  ASSUME NEW st
  PROVE  Grows(st, st)
BY DEF Grows

\* The page adds a callback.
LEMMA AddCallbackJoins ==
  ASSUME DeferredAssumption, IInv, JI, NEW l \in Lists, AddCallback(l)
  PROVE  JI'
<1>1. /\ ops \in Nat /\ Goto(Add(Now, l, PageCallback(ops))) /\ state' = state
      /\ script' = script /\ args' = args /\ count' = count /\ thrown' = thrown
  BY DEF AddCallback, joining, IInv, Typed
<1>2. Struct(cb, fires) /\ cb \in [Lists -> Cells] /\ Typed
  BY DEF IInv, Holds, Struct
<1>3. PICK f : f = PageCallback(ops)
  OBVIOUS
<1>4. f \in PageTasks /\ f \in Tasks
  BY <1>1, <1>3 DEF PageTasks, PageCallback, Tasks
<1>5. PICK m : m = Add([cb |-> cb, fires |-> fires], l, f)
  OBVIOUS
<1>6. Adds(cb, fires, m.cb, m.fires, l, f)
  BY <1>2, <1>4, <1>5, AddIs
<1>7. Adds(cb, fires, cb', fires', l, f)
  BY <1>1, <1>3, <1>5, <1>6 DEF Goto, Now
<1>8. Keeps(cb, cb', {}) /\ SameJoined(cb, cb')
  BY <1>2, <1>4, <1>7, AddsPageKept
<1>9. Grows(state, state')
  BY <1>1, GrowsSelf
<1> QED BY <1>1, <1>2, <1>8, <1>9, JoinNext

\* The page resolves, rejects or notifies.
LEMMA FireListJoins ==
  ASSUME DeferredAssumption, IInv, JI, NEW d \in Raw, NEW kind \in Kinds, FireList(d, kind)
  PROVE  JI'
<1>1. /\ ops \in Nat /\ Goto(FireWith(Now, <<d, kind>>, ops)) /\ state' = state
      /\ script' = script /\ args' = args /\ count' = count /\ thrown' = thrown
  BY DEF FireList, joining, IInv, Typed
<1>2. Struct(cb, fires) /\ cb \in [Lists -> Cells] /\ Typed
  BY DEF IInv, Holds, Struct
<1>a. <<d, kind>> \in Lists /\ <<d, kind>>[1] # Joined
  BY DEF DeferredAssumption, Deferreds
<1>3. PICK l \in Lists : l = <<d, kind>> /\ l[1] # Joined
  BY <1>a
<1>4. PICK m : m = FireWith([cb |-> cb, fires |-> fires], l, ops)
  OBVIOUS
<1>5. FiresOn(cb, fires, m.cb, m.fires, l, ops)
  BY <1>1, <1>2, <1>4, FireIs
<1>6. FiresOn(cb, fires, cb', fires', l, ops)
  BY <1>1, <1>3, <1>4, <1>5 DEF Goto, Now
<1>7. l[1] # Joined \/ l[2] = "progress"
  BY <1>3
<1>8. Keeps(cb, cb', {}) /\ SameJoined(cb, cb')
  BY <1>2, <1>6, <1>7, FiresOnKept, FiresOnJoined
<1>9. Grows(state, state')
  BY <1>1, GrowsSelf
<1> QED BY <1>1, <1>2, <1>8, <1>9, JoinNext

\* Lists that stay.
LEMMA SameKept ==
  ASSUME NEW C
  PROVE  Keeps(C, C, {}) /\ SameJoined(C, C)
BY KeptSelf DEF Keeps, SameJoined

\* A callback of the page is called,
LEMMA CallPageJoins ==
  ASSUME DeferredAssumption, IInv, JI, CallPage
  PROVE  JI'
<1>1. /\ cb' = cb /\ state' = state
      /\ script' = script /\ args' = args /\ count' = count /\ thrown' = thrown
  BY DEF CallPage, Call, joining
<1>2. Keeps(cb, cb', {}) /\ SameJoined(cb, cb') /\ Grows(state, state') /\ Typed
  BY <1>1, SameKept, GrowsSelf DEF IInv
<1> QED BY <1>1, <1>2, JoinNext

\* and returns.
LEMMA PageReturnsJoins ==
  ASSUME DeferredAssumption, IInv, JI, PageReturns
  PROVE  JI'
<1>1. /\ fires # <<>> /\ TopFire.in # NoCallback /\ TopFire.in.do = "page" /\ Goto(Stepped)
      /\ state' = state
      /\ script' = script /\ args' = args /\ count' = count /\ thrown' = thrown
  BY DEF PageReturns, Returns, joining
<1>2. Struct(cb, fires) /\ Typed
  BY DEF IInv, Holds
<1>3. PICK l : l = TopFire.list
  OBVIOUS
<1>4. PICK f : f = TopFire.in
  OBVIOUS
<1>5. l = fires[Len(fires)].list /\ f = cb[l].list[cb[l].index + 1]
  BY <1>1, <1>2, <1>3, <1>4, TopFireIs
<1>6. f \notin JoinTasks \ {}
  BY <1>1, <1>4, OwnDo
<1>7. Steps(cb, fires, cb', fires')
  BY <1>1, <1>2, SteppedIs DEF Goto
<1>8. Keeps(cb, cb', {}) /\ SameJoined(cb, cb')
  BY <1>1, <1>2, <1>5, <1>6, <1>7, StepsKept
<1>9. Grows(state, state')
  BY <1>1, GrowsSelf
<1> QED BY <1>1, <1>2, <1>8, <1>9, JoinNext

\* A fire ends.
LEMMA FireEndsJoins ==
  ASSUME DeferredAssumption, IInv, JI, FireEnds
  PROVE  JI'
<1>1. /\ EndFire /\ state' = state
      /\ script' = script /\ args' = args /\ count' = count /\ thrown' = thrown
  BY DEF FireEnds, joining
<1>2. Struct(cb, fires) /\ Typed
  BY DEF IInv, Holds
<1>3. /\ fires # <<>> /\ TopC.index = TopC.length
      /\ Restarts(cb, fires, cb', fires') \/ Pops(cb, fires, cb', fires')
  BY <1>1, <1>2, EndIs
<1>4. PICK l : l = TopFire.list
  OBVIOUS
<1>5. l = fires[Len(fires)].list /\ cb[l].index = cb[l].length
  BY <1>2, <1>3, <1>4, TopFireIs
<1>6. Keeps(cb, cb', {}) /\ SameJoined(cb, cb')
  BY <1>2, <1>3, <1>5, EndsKept
<1>7. Grows(state, state')
  BY <1>1, GrowsSelf
<1> QED BY <1>1, <1>2, <1>6, <1>7, JoinNext

\* pipe is called.
LEMMA PipeJoins ==
  ASSUME DeferredAssumption, JI, NEW d \in Raw, NEW kinds \in SUBSET Kinds, Pipe(d, kinds)
  PROVE  JI'
<1>1. cb' = cb /\ args' = <<d>>
  BY DEF Pipe
<1>2. Len(<<d>>) = 1 /\ Len(<<>>) = 0
  OBVIOUS
<1>3. args' # <<>> /\ args' \in {<<x>> : x \in Raw}
  BY <1>1, <1>2
<1>4. args' \notin Pairs
  <2>1. PICK S : S = Raw \cup {Plain}
    OBVIOUS
  <2>2. \A as \in S \X S : Len(as) = 2
    BY PairIs
  <2> QED BY <1>1, <1>2, <2>1, <2>2 DEF Pairs
<1>5. \A l \in Outcomes : cb'[l].on => cb'[l].open
  BY <1>1 DEF JI, JoinInv
<1>6. PICK as : as = args'
  OBVIOUS
<1>7. PICK sc : sc = script'
  OBVIOUS
<1>8. JoinInv(cb', state', sc, as, count', thrown')
  BY <1>3, <1>4, <1>5, <1>6 DEF JoinInv
<1> QED BY <1>6, <1>7, <1>8 DEF JI

\* An exception can leave out what when has still to add.
LEMMA ThrowJoins ==
  ASSUME NEW C, NEW st, NEW sc, NEW sc2, NEW as, NEW n, NEW th, JoinInv(C, st, sc, as, n, th),
         sc2 = sc \/ sc2 = <<>>
  PROVE  JoinInv(C, st, sc2, as, n, TRUE)
<1>1. Len(<<>>) = 0
  OBVIOUS
<1>2. \A k \in 1..Len(sc2) : sc2 = sc
  BY <1>1
<1>3. ASSUME as \in Pairs
      PROVE  WhenInv(C, st, sc2, as, n, TRUE)
  <2>1. PICK A \in SUBSET {1, 2} : Counts(C, st, sc, as, n, th, A)
    BY <1>3 DEF JoinInv, WhenInv
  <2>2. Counts(C, st, sc2, as, n, TRUE, A)
    BY <1>2, <2>1 DEF Counts
  <2>3. Placed(C, sc, as) /\ Once(C, sc) /\ Joins(C, st, as, n)
    BY <1>3 DEF JoinInv, WhenInv
  <2>4. Placed(C, sc2, as)
    BY <1>2, <2>3 DEF Placed
  <2>5. Once(C, sc2)
    BY <1>2, <2>3 DEF Once
  <2>6. Fails(C, sc2, as, TRUE)
    BY DEF Fails
  <2> QED BY <2>2, <2>3, <2>4, <2>5, <2>6 DEF WhenInv
<1>4. as = <<>> => Idle(C, sc2)
  BY DEF JoinInv, Idle
<1> QED BY <1>3, <1>4 DEF JoinInv

\* A callback throws.
LEMMA PageThrowsJoins ==
  ASSUME JI, PageThrows
  PROVE  JI'
<1>1. /\ cb' = cb /\ state' = state /\ args' = args /\ count' = count /\ thrown' = TRUE
      /\ script' = script \/ script' = <<>>
  BY DEF PageThrows, Throw
<1>2. PICK sc : sc = script'
  OBVIOUS
<1>3. JoinInv(cb, state, sc, args, count, TRUE)
  BY <1>1, <1>2, ThrowJoins DEF JI
<1> QED BY <1>1, <1>2, <1>3 DEF JI

\* f, which when had to add to l, is added to it.
Gains(l, c, n, f) ==
  /\ n.on = c.on /\ n.open = c.open /\ Len(c.list) \in Nat
  /\ ~c.on => n = c
  /\ c.on => /\ Len(n.list) = Len(c.list) + 1 /\ n.list[Len(c.list) + 1] = f
             /\ \A j \in 1..Len(c.list) : n.list[j] = c.list[j]
  /\ l[2] # "progress" /\ c.on =>
       Ahead(n, Len(c.list) + 1) /\ \A j \in 1..Len(c.list) : Ahead(n, j) <=> Ahead(c, j)

Moves(C, C2, sc, sc2, l, f) ==
  /\ l \in Lists /\ sc[1] = <<l, f>> /\ Gains(l, C[l], C2[l], f)
  /\ \A x \in Lists : x # l => C2[x] = C[x]
  /\ Len(sc) \in Nat /\ Len(sc) >= 1 /\ Len(sc2) = Len(sc) - 1
  /\ \A k \in 1..Len(sc2) : sc2[k] = sc[k + 1]

\* A callback of when that is added to a list,
LEMMA LengthensGains ==
  ASSUME NEW l \in Lists, NEW c \in Cells, NEW n \in Cells, NEW f, CellOK(l, c), Lengthens(c, n, f),
         c.on
  PROVE  Gains(l, c, n, f)
<1>1. /\ n.list = Append(c.list, f) /\ n.on = c.on /\ n.open = c.open /\ n.firing = c.firing
      /\ n.index = c.index
  BY DEF Lengthens, IsCell
<1>2. c.list \in Seq(Tasks) /\ Len(c.list) \in Nat /\ c.index \in Nat
  BY CellFields
<1>3. /\ Len(n.list) = Len(c.list) + 1 /\ n.list[Len(c.list) + 1] = f
      /\ \A j \in 1..Len(c.list) : n.list[j] = c.list[j]
  BY <1>1, <1>2
<1>4. c.firing => c.index <= Len(c.list)
  BY DEF CellOK
<1>5. Ahead(n, Len(c.list) + 1) /\ \A j \in 1..Len(c.list) : Ahead(n, j) <=> Ahead(c, j)
  BY <1>1, <1>2, <1>3, <1>4 DEF Ahead
<1> QED BY <1>1, <1>2, <1>3, <1>5 DEF Gains

\* and to one that has fired,
LEMMA ResumesGains ==
  ASSUME NEW l \in Lists, NEW c \in Cells, NEW n \in Cells, NEW f, CellOK(l, c), Resumes(c, n, f),
         c.on
  PROVE  Gains(l, c, n, f)
<1>1. /\ n.list = Append(c.list, f) /\ n.on = c.on /\ n.open = c.open /\ n.firing
      /\ n.index = Len(c.list) /\ ~c.firing /\ c.memory # NoValue
  BY DEF Resumes, IsCell
<1>2. c.list \in Seq(Tasks) /\ Len(c.list) \in Nat
  BY CellFields
<1>3. /\ Len(n.list) = Len(c.list) + 1 /\ n.list[Len(c.list) + 1] = f
      /\ \A j \in 1..Len(c.list) : n.list[j] = c.list[j]
  BY <1>1, <1>2
<1>4. l[2] # "progress" => Len(c.list) = 0
  BY <1>1 DEF CellOK
<1>5. Ahead(n, Len(c.list) + 1)
  BY <1>1, <1>2, <1>3 DEF Ahead
<1> QED BY <1>1, <1>2, <1>3, <1>4, <1>5 DEF Gains

\* is in the list if that is not disabled.
LEMMA AddsMoves ==
  ASSUME DeferredAssumption, NEW C, NEW F, NEW C2, NEW F2, NEW sc \in Seq(Adding), sc # <<>>, NEW sc2,
         sc2 = Tail(sc), NEW l, l = sc[1][1], NEW f, f = sc[1][2], Struct(C, F),
         Adds(C, F, C2, F2, l, f)
  PROVE  Moves(C, C2, sc, sc2, l, f) /\ SameJoined(C, C2) /\ l[1] # Joined /\ f \in JoinTasks
<1>1. /\ Len(sc) \in Nat /\ Len(sc) >= 1 /\ Len(sc2) = Len(sc) - 1
      /\ \A k \in 1..Len(sc2) : sc2[k] = sc[k + 1]
  OBVIOUS
<1>2. sc[1] \in Adding
  BY <1>1
<1>3. PICK x \in Raw \X Kinds, y \in JoinTasks : sc[1] = <<x, y>>
  BY <1>2 DEF Adding
<1>4. l = x /\ f = y /\ l \in Lists /\ l[1] # Joined
  BY <1>3 DEF DeferredAssumption, Deferreds
<1>5. f \in Guests(l)
  BY <1>4 DEF Guests
<1>6. SameJoined(C, C2)
  BY <1>4, <1>5, AddsSteady, SteadyJoined
<1>7. PICK c \in Cells : c = C[l] /\ CellOK(l, c)
  BY <1>4 DEF Struct
<1>8. ASSUME ~c.on, C2 = C
      PROVE  Gains(l, C[l], C2[l], f) /\ \A z \in Lists : z # l => C2[z] = C[z]
  <2>1. Len(c.list) \in Nat
    BY CellFields
  <2> QED BY <1>7, <1>8, <2>1 DEF Gains
<1>9. ASSUME NEW n \in Cells, Lengthens(c, n, f) \/ Resumes(c, n, f), c.on, Puts(C, C2, l, n)
      PROVE  Gains(l, C[l], C2[l], f) /\ \A z \in Lists : z # l => C2[z] = C[z]
  <2>1. Gains(l, c, n, f)
    BY <1>4, <1>7, <1>9, LengthensGains, ResumesGains
  <2> QED BY <1>7, <1>9, <2>1 DEF Puts
<1>10. Gains(l, C[l], C2[l], f) /\ \A z \in Lists : z # l => C2[z] = C[z]
  BY <1>7, <1>8, <1>9 DEF Adds
<1> QED BY <1>1, <1>3, <1>4, <1>6, <1>10 DEF Moves

\* Where the elements of the list are after the add.
LEMMA GainsIs ==
  ASSUME NEW l, NEW c, NEW n, NEW f, Gains(l, c, n, f), NEW j \in 1..Len(n.list)
  PROVE  \/ j \in 1..Len(c.list) /\ n.list[j] = c.list[j]
         \/ c.on /\ j = Len(c.list) + 1 /\ n.list[j] = f
BY DEF Gains

\* What was to come still is,
LEMMA ComingMoves ==
  ASSUME NEW C, NEW C2, NEW sc, NEW sc2, NEW l, NEW f, Moves(C, C2, sc, sc2, l, f),
         NEW x \in Lists, x[2] # "progress", NEW g, Coming(C, sc, x, g)
  PROVE  Coming(C2, sc2, x, g)
<1>1. CASE x # l
  <2>1. C2[x] = C[x]
    BY <1>1 DEF Moves
  <2>2. ASSUME NEW k \in 1..Len(sc), sc[k] = <<x, g>>
        PROVE  \E m \in 1..Len(sc2) : sc2[m] = <<x, g>>
    <3>1. k # 1
      BY <1>1, <2>2 DEF Moves
    <3>2. k - 1 \in 1..Len(sc2) /\ sc2[k - 1] = sc[k]
      BY <3>1 DEF Moves
    <3> QED BY <2>2, <3>2
  <2> QED BY <2>1, <2>2 DEF Coming
<1>2. CASE x = l
  <2>1. Gains(l, C[l], C2[l], f)
    BY DEF Moves
  <2>2. CASE ~C[l].on
    BY <1>2, <2>1, <2>2 DEF Gains, Coming
  <2>3. ASSUME C[l].on, NEW k \in 1..Len(sc), sc[k] = <<x, g>>
        PROVE  Coming(C2, sc2, x, g)
    <3>1. CASE k = 1
      <4>1. g = f
        BY <2>3, <3>1 DEF Moves
      <4>2. /\ Len(C[l].list) + 1 \in 1..Len(C2[l].list) /\ Ahead(C2[l], Len(C[l].list) + 1)
            /\ C2[l].list[Len(C[l].list) + 1] = g
        BY <1>2, <2>1, <2>3, <4>1 DEF Gains
      <4> QED BY <1>2, <4>2 DEF Coming
    <3>2. CASE k # 1
      <4>1. k - 1 \in 1..Len(sc2) /\ sc2[k - 1] = sc[k]
        BY <3>2 DEF Moves
      <4> QED BY <2>3, <4>1 DEF Coming
    <3> QED BY <3>1, <3>2
  <2>4. ASSUME C[l].on, NEW j \in 1..Len(C[l].list), Ahead(C[l], j), C[l].list[j] = g
        PROVE  Coming(C2, sc2, x, g)
    <3>1. j \in 1..Len(C2[l].list) /\ Ahead(C2[l], j) /\ C2[l].list[j] = g
      BY <1>2, <2>1, <2>4 DEF Gains
    <3> QED BY <1>2, <3>1 DEF Coming
  <2> QED BY <1>2, <2>2, <2>3, <2>4 DEF Coming
<1> QED BY <1>1, <1>2

\* the places are those of when,
LEMMA PlacedMoves ==
  ASSUME NEW C, NEW C2, NEW sc, NEW sc2, NEW l, NEW f, Moves(C, C2, sc, sc2, l, f), NEW as,
         Placed(C, sc, as)
  PROVE  Placed(C2, sc2, as)
<1>1. ASSUME NEW k \in 1..Len(sc2)
      PROVE  sc2[k] \in WhenAdds(as)
  <2>1. k + 1 \in 1..Len(sc) /\ sc2[k] = sc[k + 1]
    BY DEF Moves
  <2> QED BY <2>1 DEF Placed
<1>2. ASSUME NEW x \in Lists, NEW j \in 1..Len(C2[x].list), C2[x].list[j] \in JoinTasks
      PROVE  <<x, C2[x].list[j]>> \in WhenAdds(as)
  <2>1. CASE j \in 1..Len(C[x].list) /\ C2[x].list[j] = C[x].list[j]
    BY <1>2, <2>1 DEF Placed
  <2>2. CASE x = l /\ C2[x].list[j] = f
    <3>1. 1 \in 1..Len(sc) /\ sc[1] = <<l, f>>
      BY DEF Moves
    <3> QED BY <2>2, <3>1 DEF Placed
  <2>3. CASE x # l
    <3>1. C2[x] = C[x]
      BY <2>3 DEF Moves
    <3> QED BY <1>2, <2>1, <3>1
  <2>4. CASE x = l
    <3>1. Gains(l, C[l], C2[l], f)
      BY DEF Moves
    <3>2. j \in 1..Len(C2[l].list)
      BY <2>4
    <3>3. (j \in 1..Len(C[l].list) /\ C2[l].list[j] = C[l].list[j]) \/ C2[l].list[j] = f
      BY <3>1, <3>2, GainsIs
    <3> QED BY <2>1, <2>2, <2>4, <3>3
  <2> QED BY <2>3, <2>4
<1> QED BY <1>1, <1>2 DEF Placed

\* no callback is there twice,
LEMMA OnceMoves ==
  ASSUME DeferredAssumption, NEW C, NEW C2, NEW sc \in Seq(Adding), NEW sc2, NEW l, NEW f,
         Moves(C, C2, sc, sc2, l, f), Once(C, sc)
  PROVE  Once(C2, sc2)
<1>1. \A k \in 1..Len(sc2) : k + 1 \in 1..Len(sc) /\ sc2[k] = sc[k + 1] /\ k + 1 # 1
  BY DEF Moves
<1>2. 1 \in 1..Len(sc) /\ sc[1] = <<l, f>> /\ sc[1][1] = l /\ sc[1][2] = f
  BY DEF Moves
<1>3. ASSUME NEW k \in 1..Len(sc2), NEW m \in 1..Len(sc2), sc2[k][2] \in CountTasks, sc2[k] = sc2[m]
      PROVE  k = m
  <2>1. k + 1 = m + 1
    BY <1>1, <1>3 DEF Once
  <2> QED BY <2>1
<1>4. \A x \in Lists : \A j \in 1..Len(C2[x].list) :
        \/ j \in 1..Len(C[x].list) /\ C2[x].list[j] = C[x].list[j]
        \/ x = l /\ j = Len(C[x].list) + 1 /\ C2[x].list[j] = f
  <2>1. ASSUME NEW x \in Lists, NEW j \in 1..Len(C2[x].list)
        PROVE  \/ j \in 1..Len(C[x].list) /\ C2[x].list[j] = C[x].list[j]
               \/ x = l /\ j = Len(C[x].list) + 1 /\ C2[x].list[j] = f
    <3>1. CASE x = l
      <4>1. Gains(l, C[l], C2[l], f)
        BY DEF Moves
      <4> QED BY <3>1, <4>1, GainsIs
    <3>2. CASE x # l
      BY <3>2 DEF Moves
    <3> QED BY <3>1, <3>2
  <2> QED BY <2>1
<1>5. ASSUME NEW k \in 1..Len(sc2), sc2[k][2] \in CountTasks,
             NEW j \in 1..Len(C2[sc2[k][1]].list), C2[sc2[k][1]].list[j] = sc2[k][2]
      PROVE  FALSE
  <2>1. PICK e \in Adding : e = sc[k + 1] /\ e = sc2[k]
    BY <1>1
  <2>2. e[1] \in Lists
    BY <1>1, <2>1, ScriptLists
  <2>3. CASE j \in 1..Len(C[e[1]].list) /\ C2[e[1]].list[j] = C[e[1]].list[j]
    <3>1. k + 1 \in 1..Len(sc) /\ sc[k + 1][2] \in CountTasks
      BY <1>1, <1>5
    <3>2. \A m \in 1..Len(C[e[1]].list) : C[e[1]].list[m] # e[2]
      BY <2>1, <3>1 DEF Once
    <3> QED BY <1>5, <2>1, <2>3, <3>2
  <2>4. CASE e[1] = l /\ C2[e[1]].list[j] = f
    <3>1. e[2] = f
      BY <1>5, <2>1, <2>4
    <3>2. PICK x \in Raw \X Kinds, y \in JoinTasks : e = <<x, y>>
      BY DEF Adding
    <3>3. e = sc[1]
      BY <1>2, <2>4, <3>1, <3>2
    <3> QED BY <1>1, <1>2, <1>5, <2>1, <3>3 DEF Once
  <2> QED BY <1>4, <1>5, <2>1, <2>2, <2>3, <2>4
<1>6. ASSUME NEW x \in Lists, NEW j \in 1..Len(C2[x].list), NEW k \in 1..Len(C2[x].list),
             C2[x].list[j] \in CountTasks, C2[x].list[j] = C2[x].list[k]
      PROVE  j = k
  <2>1. \A m \in 1..Len(C[l].list) : f \in CountTasks => C[l].list[m] # f
    BY <1>2 DEF Once
  <2>2. CASE j \in 1..Len(C[x].list) /\ C2[x].list[j] = C[x].list[j]
    BY <1>4, <1>6, <2>1, <2>2, ZenonT(40) DEF Once
  <2>3. CASE x = l /\ j = Len(C[x].list) + 1 /\ C2[x].list[j] = f
    BY <1>4, <1>6, <2>1, <2>3
  <2> QED BY <1>4, <2>2, <2>3
<1> QED BY <1>3, <1>5, <1>6 DEF Once

Absent(sc, add) == \A k \in 1..Len(sc) : sc[k] # add

\* and what has been called does not come back.
LEMMA PassedMoves ==
  ASSUME NEW C, NEW C2, NEW sc, NEW sc2, NEW l, NEW f, Moves(C, C2, sc, sc2, l, f),
         NEW x \in Lists, x[2] # "progress", NEW g, Passed(C[x], g), Absent(sc, <<x, g>>)
  PROVE  Passed(C2[x], g) /\ Absent(sc2, <<x, g>>)
<1> USE DEF Absent
<1>1. \A k \in 1..Len(sc2) : sc2[k] # <<x, g>>
  BY DEF Moves
<1>2. CASE x # l
  <2>1. C2[x] = C[x]
    BY <1>2 DEF Moves
  <2> QED BY <1>1, <2>1
<1>3. CASE x = l
  <2>1. 1 \in 1..Len(sc) /\ sc[1] = <<l, f>>
    BY DEF Moves
  <2>2. f # g
    BY <1>3, <2>1
  <2>3. Gains(l, C[l], C2[l], f)
    BY DEF Moves
  <2>4. ASSUME NEW j \in 1..Len(C2[l].list), Ahead(C2[l], j)
        PROVE  C2[l].list[j] # g
    <3>1. CASE j \in 1..Len(C[l].list) /\ C2[l].list[j] = C[l].list[j]
      <4>1. CASE C[l].on
        <5>1. Ahead(C[l], j)
          BY <1>3, <2>3, <2>4, <3>1, <4>1 DEF Gains
        <5> QED BY <1>3, <3>1, <5>1 DEF Passed
      <4>2. CASE ~C[l].on
        <5>1. C2[l] = C[l]
          BY <2>3, <4>2 DEF Gains
        <5> QED BY <1>3, <2>4, <3>1, <5>1 DEF Passed
      <4> QED BY <4>1, <4>2
    <3>2. CASE C2[l].list[j] = f
      BY <2>2, <3>2
    <3> QED BY <2>3, <3>1, <3>2, GainsIs
  <2> QED BY <1>1, <1>3, <2>4 DEF Passed
<1> QED BY <1>2, <1>3

\* Arguments that have not counted, and those that have.
LEMMA CountsMove ==
  ASSUME DeferredAssumption, NEW C, NEW C2, NEW sc, NEW sc2, NEW l, NEW f,
         Moves(C, C2, sc, sc2, l, f), NEW st, NEW as \in Pairs, NEW n, NEW th, NEW A,
         Counts(C, st, sc, as, n, th, A)
  PROVE  Counts(C2, st, sc2, as, n, th, A)
<1>1. A \subseteq Promises(as) /\ n = Size(A)
  BY DEF Counts
<1>2. ASSUME NEW i \in A
      PROVE  th \/ Coming(C2, sc2, <<as[i], "done">>, ResolveFunc(i))
  <2>1. PICK x \in Lists : x = <<as[i], "done">> /\ x[2] # "progress"
    BY <1>1, ArgsAre DEF Kinds
  <2>2. PICK g : g = ResolveFunc(i)
    OBVIOUS
  <2>3. th \/ Coming(C, sc, x, g)
    BY <2>1, <2>2 DEF Counts
  <2>4. th \/ Coming(C2, sc2, x, g)
    BY <2>1, <2>3, ComingMoves
  <2> QED BY <2>1, <2>2, <2>4
<1>3. ASSUME NEW i \in Promises(as) \ A
      PROVE  /\ st[as[i]] = "resolved"
             /\ \A k \in 1..Len(sc2) : sc2[k] # DoneAdd(as, i)
             /\ Passed(C2[<<as[i], "done">>], ResolveFunc(i))
  <2>1. PICK x \in Lists : x = <<as[i], "done">> /\ x[2] # "progress"
    BY ArgsAre DEF Kinds
  <2>2. PICK g : g = ResolveFunc(i)
    OBVIOUS
  <2>3. DoneAdd(as, i) = <<x, g>>
    BY <2>1, <2>2 DEF DoneAdd
  <2>4. st[as[i]] = "resolved" /\ Absent(sc, <<x, g>>) /\ Passed(C[x], g)
    BY <1>3, <2>1, <2>2, <2>3 DEF Counts, Absent
  <2>5. Passed(C2[x], g) /\ Absent(sc2, <<x, g>>)
    BY <2>1, <2>4, PassedMoves
  <2> QED BY <2>1, <2>2, <2>3, <2>4, <2>5 DEF Absent
<1> QED BY <1>1, <1>2, <1>3 DEF Counts

\* The callbacks that reject.
LEMMA FailsMove ==
  ASSUME DeferredAssumption, NEW C, NEW C2, NEW sc, NEW sc2, NEW l, NEW f,
         Moves(C, C2, sc, sc2, l, f), NEW as \in Pairs, NEW th, Fails(C, sc, as, th),
         SameJoined(C, C2)
  PROVE  Fails(C2, sc2, as, th)
<1>1. ASSUME NEW i \in Promises(as), Coming(C, sc, <<as[i], "fail">>, ToJoined("fail"))
      PROVE  Coming(C2, sc2, <<as[i], "fail">>, ToJoined("fail"))
  <2>1. PICK x \in Lists : x = <<as[i], "fail">> /\ x[2] # "progress"
    BY ArgsAre DEF Kinds
  <2>2. PICK g : g = ToJoined("fail")
    OBVIOUS
  <2>3. Coming(C, sc, x, g)
    BY <1>1, <2>1, <2>2
  <2>4. Coming(C2, sc2, x, g)
    BY <2>1, <2>3, ComingMoves
  <2> QED BY <2>1, <2>2, <2>4
<1> QED BY <1>1 DEF Fails, SameJoined

\* The whole of the invariant, when an add of when is made,
LEMMA ScriptMoves ==
  ASSUME DeferredAssumption, NEW C, NEW C2, NEW sc \in Seq(Adding), NEW sc2, NEW l, NEW f,
         Moves(C, C2, sc, sc2, l, f), SameJoined(C, C2), NEW st, NEW as, NEW n, NEW th,
         JoinInv(C, st, sc, as, n, th)
  PROVE  JoinInv(C2, st, sc2, as, n, th)
<1>1. Moves(C, C2, sc, sc2, l, f) /\ SameJoined(C, C2) /\ sc # <<>>
  BY DEF Moves
<1>2. ASSUME NEW x \in Outcomes, C2[x].on
      PROVE  C2[x].open
  <2>1. x \in Lists /\ (C[x].on => C[x].open)
    BY DEF JoinInv, Outcomes
  <2>2. CASE x = l
    BY <1>1, <1>2, <2>1, <2>2 DEF Moves, Gains
  <2>3. CASE x # l
    BY <1>1, <1>2, <2>1, <2>3 DEF Moves
  <2> QED BY <2>2, <2>3
<1>3. as # <<>>
  BY <1>1 DEF JoinInv, Idle
<1>4. ASSUME as \in Pairs
      PROVE  WhenInv(C2, st, sc2, as, n, th)
  <2>1. PICK A \in SUBSET {1, 2} : Counts(C, st, sc, as, n, th, A)
    BY <1>4 DEF JoinInv, WhenInv
  <2>a. Moves(C, C2, sc, sc2, l, f) /\ SameJoined(C, C2)
    BY <1>1
  <2>2. Counts(C2, st, sc2, as, n, th, A)
    BY ONLY DeferredAssumption, <2>a, <1>4, <2>1, CountsMove
  <2>3. Placed(C, sc, as) /\ Once(C, sc) /\ Fails(C, sc, as, th) /\ Joins(C, st, as, n)
    BY <1>4 DEF JoinInv, WhenInv
  <2>b. sc \in Seq(Adding)
    OBVIOUS
  <2>4. Placed(C2, sc2, as)
    BY ONLY <2>a, <2>3, PlacedMoves
  <2>c. Once(C2, sc2)
    BY ONLY DeferredAssumption, <2>a, <2>b, <2>3, OnceMoves
  <2>d. Fails(C2, sc2, as, th)
    BY ONLY DeferredAssumption, <2>a, <1>4, <2>3, FailsMove
  <2>5. Joins(C2, st, as, n)
    BY <1>1, <1>4, <2>3, GrowsSelf, JoinsKept
  <2> QED BY <2>2, <2>4, <2>c, <2>d, <2>5 DEF WhenInv
<1> QED BY <1>2, <1>3, <1>4 DEF JoinInv

\* as the code makes it.
LEMMA ScriptAddsJoins ==
  ASSUME DeferredAssumption, IInv, JI, ScriptAdds
  PROVE  JI'
<1>1. /\ script # <<>> /\ Goto(Add(Now, Head(script)[1], Head(script)[2])) /\ script' = Tail(script)
      /\ state' = state /\ args' = args /\ count' = count /\ thrown' = thrown
  BY DEF ScriptAdds
<1>2. Struct(cb, fires) /\ cb \in [Lists -> Cells]
  BY DEF IInv, Holds, Struct
<1>3. PICK sc \in Seq(Adding) : sc = script
  BY DEF IInv, Typed, Adding
<1>4. sc # <<>> /\ Head(sc) = sc[1]
  BY <1>1, <1>3
<1>5. PICK l : l = sc[1][1]
  OBVIOUS
<1>6. PICK f : f = sc[1][2]
  OBVIOUS
<1>7. l \in Lists /\ f \in Tasks
  <2>1. 1 \in 1..Len(sc)
    BY <1>4
  <2>2. PICK x \in Raw \X Kinds, y \in JoinTasks : sc[1] = <<x, y>>
    BY <2>1 DEF Adding
  <2>3. f = y
    BY <1>6, <2>2
  <2> QED BY <1>5, <2>1, <2>3, ScriptLists DEF Tasks
<1>8. PICK m : m = Add([cb |-> cb, fires |-> fires], l, f)
  OBVIOUS
<1>9. Adds(cb, fires, m.cb, m.fires, l, f)
  BY <1>2, <1>7, <1>8, AddIs
<1>10. Adds(cb, fires, cb', fires', l, f)
  BY <1>1, <1>3, <1>4, <1>5, <1>6, <1>8, <1>9 DEF Goto, Now
<1>11. PICK sc2 : sc2 = script'
  OBVIOUS
<1>12. sc2 = Tail(sc)
  BY <1>1, <1>3, <1>11
<1>13. JoinInv(cb, state, sc, args, count, thrown)
  BY <1>3 DEF JI
<1>14. PICK C2 : C2 = cb'
  OBVIOUS
<1>a. PICK F2 : F2 = fires'
  OBVIOUS
<1>15. Adds(cb, fires, C2, F2, l, f)
  BY <1>10, <1>14, <1>a
<1>b. sc \in Seq(Adding) /\ sc # <<>> /\ Struct(cb, fires) /\ l = sc[1][1] /\ f = sc[1][2]
  BY <1>2, <1>4, <1>5, <1>6
<1>c. Moves(cb, C2, sc, sc2, l, f) /\ SameJoined(cb, C2)
  BY ONLY DeferredAssumption, <1>b, <1>12, <1>15, AddsMoves
<1>16. JoinInv(C2, state, sc2, args, count, thrown)
  BY ONLY DeferredAssumption, <1>b, <1>c, <1>13, ScriptMoves
<1> QED BY <1>1, <1>11, <1>14, <1>16 DEF JI

-----------------------------------------------------------------------------
(* The callbacks of jQuery *)

\* What f is that when adds to its argument i.
WaitsFor(as, i, l, f) ==
  \/ l = <<as[i], "done">> /\ f = ResolveFunc(i)
  \/ l = <<as[i], "fail">> /\ f = ToJoined("fail")
  \/ l = <<as[i], "progress">> /\ f = ToJoined("progress")

\* What an add of when is.
LEMMA WhenAddIs ==
  ASSUME NEW as, NEW l, NEW f, <<l, f>> \in WhenAdds(as)
  PROVE  \E i \in Promises(as) : WaitsFor(as, i, l, f)
BY DEF WhenAdds, DoneAdd, FailAdd, WaitsFor

\* A callback of when or pipe is only called after one of them was.
LEMMA AddedBy ==
  ASSUME DeferredAssumption, JI, NEW l \in Lists, NEW j \in 1..Len(cb[l].list), NEW f,
         f = cb[l].list[j], f \in JoinTasks
  PROVE  args # <<>> /\ (args \in Pairs => <<l, f>> \in WhenAdds(args))
BY DEF JI, JoinInv, Idle, WhenInv, Placed

\* The fire goes on after a callback of when or pipe.
LEMMA GuestSteps ==
  ASSUME DeferredAssumption, Struct(cb, fires), fires # <<>>, NEW l, l = TopFire.list,
         cb[l].index < cb[l].length, NEW f, f = cb[l].list[cb[l].index + 1], NEW C, NEW F,
         C = Stepped.cb, F = Stepped.fires
  PROVE  /\ Struct(C, F) /\ Keeps(cb, C, {f}) /\ SameJoined(cb, C) /\ l \in Lists
         /\ cb[l].index + 1 \in 1..Len(cb[l].list)
<1>1. /\ l = fires[Len(fires)].list /\ l \in Lists /\ cb[l] \in Cells /\ CellOK(l, cb[l])
      /\ cb[l].firing
  BY TopFireIs
<1>2. Steps(cb, fires, C, F)
  BY SteppedIs
<1>3. Struct(C, F)
  BY <1>1, <1>2, StepKeeps
<1>4. PICK G : G = {f} /\ f \notin JoinTasks \ G
  OBVIOUS
<1>a. f \notin JoinTasks \ G
  BY <1>4
<1>5. Keeps(cb, C, G) /\ SameJoined(cb, C)
  BY <1>1, <1>2, <1>a, StepsKept
<1>6. PICK c \in Cells : c = cb[l]
  BY <1>1
<1>7. c.index \in Nat /\ c.length = Len(c.list) /\ c.index < c.length
  BY <1>1, <1>6, CellFields DEF CellOK
<1>8. c.index + 1 \in 1..Len(c.list)
  BY <1>7
<1> QED BY <1>1, <1>3, <1>4, <1>5, <1>6, <1>8

\* pipe waits for one deferred.
LEMMA PipedReturnsJoins ==
  ASSUME DeferredAssumption, IInv, JI, PipedReturns
  PROVE  JI'
<1>1. /\ fires # <<>> /\ TopFire.in # NoCallback /\ TopFire.in.do = "piped"
      /\ args' = args /\ state' = state
  BY DEF PipedReturns
<1>2. Struct(cb, fires)
  BY DEF IInv, Holds
<1>3. PICK l : l = TopFire.list
  OBVIOUS
<1>4. PICK f : f = TopFire.in
  OBVIOUS
<1>5. /\ f = cb[l].list[cb[l].index + 1] /\ cb[l].index < cb[l].length /\ TopFire.value \in Nat
      /\ TopFire = fires[Len(fires)]
  BY <1>1, <1>2, <1>3, <1>4, TopFireIs
<1>6. f \in JoinTasks
  <2>1. f \in PageTasks \cup JoinTasks
    BY <1>1, <1>2, <1>4, <1>5, TopIs DEF Frames
  <2> QED BY <1>1, <1>4, <2>1, OwnDo
<1>7. PICK C : C = Stepped.cb
  OBVIOUS
<1>8. PICK F : F = Stepped.fires
  OBVIOUS
<1>9. /\ Struct(C, F) /\ Keeps(cb, C, {f}) /\ l \in Lists
      /\ cb[l].index + 1 \in 1..Len(cb[l].list)
  BY <1>1, <1>2, <1>3, <1>5, <1>7, <1>8, GuestSteps
<1>10. args # <<>> /\ (args \in Pairs => <<l, f>> \in WhenAdds(args))
  BY <1>5, <1>6, <1>9, AddedBy
<1>11. args \notin Pairs
  <2>1. SUFFICES ASSUME args \in Pairs
                 PROVE  FALSE
    OBVIOUS
  <2>2. PICK as \in Pairs : as = args
    BY <2>1
  <2>3. <<l, f>> \in WhenAdds(as)
    BY <1>10, <2>2
  <2>4. \E i \in Promises(as) : WaitsFor(as, i, l, f)
    BY <2>3, WhenAddIs
  <2>5. PICK i \in Promises(as) : WaitsFor(as, i, l, f)
    BY <2>4
  <2>6. f = ResolveFunc(i) \/ f = ToJoined("fail") \/ f = ToJoined("progress")
    BY <2>5 DEF WaitsFor
  <2> QED BY <1>1, <1>4, <2>6 DEF ResolveFunc, ToJoined, Fire
<1>12. \A x \in Outcomes : C[x].on => C[x].open
  BY <1>9, OpenKept DEF JI, JoinInv
<1>13. PICK r : r = TopFire.in.list
  OBVIOUS
<1>14. r \in Lists
  BY <1>1, <1>4, <1>6, <1>13, JoinedLists
<1>15. CASE Goto(FireWith(Stepped, r, TopFire.value))
  <2>1. PICK m : m = FireWith([cb |-> C, fires |-> F], r, TopFire.value)
    OBVIOUS
  <2>2. C \in [Lists -> Cells]
    BY <1>9 DEF Struct
  <2>3. FiresOn(C, F, m.cb, m.fires, r, TopFire.value)
    BY <1>5, <1>14, <2>1, <2>2, FireIs
  <2>4. Stepped = [cb |-> C, fires |-> F]
    BY <1>7, <1>8 DEF Stepped
  <2>5. PICK C2 : C2 = cb'
    OBVIOUS
  <2>6. m.cb = C2
    BY <1>15, <2>1, <2>4, <2>5 DEF Goto
  <2>7. Keeps(C, C2, {})
    BY <1>9, <1>14, <2>3, <2>6, FiresOnKept
  <2>8. \A x \in Outcomes : C2[x].on => C2[x].open
    BY <1>12, <2>7, OpenKept
  <2> QED BY <1>1, <1>10, <1>11, <2>5, <2>8 DEF JI, JoinInv
<1>16. CASE Goto(Stepped)
  <2>1. cb' = C
    BY <1>7, <1>16 DEF Goto
  <2> QED BY <1>1, <1>10, <1>11, <1>12, <2>1 DEF JI, JoinInv
<1> QED BY <1>13, <1>15, <1>16 DEF PipedReturns

\* While the own callbacks of a list run, the other outcome has not fired.
LEMMA RivalWaits ==
  ASSUME DeferredAssumption, IInv, NEW l \in Lists, fires # <<>>, l = fires[Len(fires)].list,
         Prefixed(l, cb[l]), cb[l].firing, cb[l].index < 2
  PROVE  /\ l \in Outcomes /\ cb[Rival(l)].memory = NoValue
         /\ state[l[1]] \in {"pending", Outcome(l[2])}
<1>1. l \in Outcomes /\ l[1] \in Deferreds
  BY DEF Prefixed, Outcomes, DeferredAssumption
<1>2. PICK done : done = ScriptDone
  OBVIOUS
<1>3. /\ Struct(cb, fires) /\ SettlesOrHas(cb, fires, state, done) /\ Agree(cb, state)
      /\ state \in [Deferreds -> States]
  BY <1>2 DEF IInv, Holds, Typed
<1>4. PICK c \in Cells : c = cb[l] /\ CellOK(l, c)
  BY <1>3 DEF Struct
<1>5. Fired(cb, l)
  BY <1>4 DEF CellOK, Fired
<1>6. c.index \in Nat
  BY <1>4, CellFields
<1>7. ~HasSettled(cb, state, l)
  <2>1. ~(c.index >= 2)
    BY <1>4, <1>6
  <2> QED BY <1>4, <2>1 DEF HasSettled
<1>8. cb[Rival(l)].memory = NoValue
  BY <1>1, <1>3, <1>5, <1>7 DEF SettlesOrHas, Settling
<1>9. Rival(l) \in Outcomes /\ Rival(l)[1] = l[1] /\ ~Fired(cb, Rival(l))
  BY <1>1, <1>8, RivalIs DEF Fired
<1>10. state[l[1]] # Outcome(Rival(l)[2])
  BY <1>3, <1>9 DEF Agree
<1>11. Outcome(Rival(l)[2]) # Outcome(l[2]) /\ Outcome(l[2]) \in {"resolved", "rejected"}
       /\ Outcome(Rival(l)[2]) \in {"resolved", "rejected"}
  BY <1>1, RivalIs DEF Outcome
<1>12. state[l[1]] \in {"pending", "resolved", "rejected"}
  BY <1>1, <1>3 DEF States
<1> QED BY <1>1, <1>8, <1>10, <1>11, <1>12

\* disable and lock.
LEMMA OffKept ==
  ASSUME DeferredAssumption, NEW C, NEW C2, NEW r \in Lists, NEW k \in Cells, C[r] \in Cells,
         Puts(C, C2, r, k),
         (r[2] = "progress" /\ LockTo(C[r], k)) \/ (Disables(C[r], k) /\ ~Fired(C, r))
  PROVE  Keeps(C, C2, {}) /\ SameJoined(C, C2)
<1>1. PICK c \in Cells : c = C[r]
  OBVIOUS
<1>2. Kept(r, c, k, {})
  BY <1>1, DisablesKept, LocksKept DEF LockTo
<1>3. Keeps(C, C2, {})
  BY <1>1, <1>2, PutKept
<1>4. CASE r[2] = "progress"
  <2>1. r # JDone /\ r # JFail
    BY <1>4 DEF JDone, JFail
  <2> QED BY <1>3, <2>1, JoinedAre DEF Puts, SameJoined, Fired
<1>5. CASE Disables(C[r], k) /\ ~Fired(C, r)
  <2>1. ~k.on
    BY <1>5 DEF Disables, IsCell
  <2>2. C2[r] = k /\ \A x \in Lists : x # r => C2[x] = C[x]
    BY DEF Puts
  <2>3. ~Fired(C2, r) /\ \A x \in Lists : x # r => (Fired(C2, x) <=> Fired(C, x))
    BY <2>1, <2>2 DEF Fired
  <2> QED BY <1>3, <1>5, <2>3, JoinedAre DEF SameJoined
<1> QED BY <1>4, <1>5

\* The list's own callbacks are none of when.
LEMMA OwnKept ==
  ASSUME DeferredAssumption, IInv, NEW l, NEW c, NEW f, NEW C, NEW F, OwnCall(l, c, f, C, F),
         f \notin JoinTasks
  PROVE  Keeps(cb, C, {}) /\ SameJoined(cb, C) /\ C \in [Lists -> Cells]
<1>1. /\ fires # <<>> /\ l = fires[Len(fires)].list /\ f = cb[l].list[cb[l].index + 1]
      /\ Steps(cb, fires, C, F)
  BY DEF OwnCall
<1>2. Struct(cb, fires) /\ f \notin JoinTasks \ {}
  BY DEF IInv, Holds
<1>3. Keeps(cb, C, {}) /\ SameJoined(cb, C)
  BY <1>1, <1>2, StepsKept
<1> QED BY <1>1, <1>3 DEF Steps, Puts

\* Two calls that disturb nothing of when, one after the other.
LEMMA KeepsTwice ==
  ASSUME NEW C, NEW C1, NEW C2, NEW G, Keeps(C, C1, G), Keeps(C1, C2, {}), SameJoined(C, C1),
         SameJoined(C1, C2)
  PROVE  Keeps(C, C2, G) /\ SameJoined(C, C2)
<1>1. ASSUME NEW l \in Lists
      PROVE  Kept(l, C[l], C2[l], G)
  <2>1. Kept(l, C[l], C1[l], G) /\ Kept(l, C1[l], C2[l], {})
    BY DEF Keeps
  <2> QED BY <2>1 DEF Kept
<1> QED BY <1>1 DEF Keeps, SameJoined

\* The state is set.
LEMMA StateJoins ==
  ASSUME DeferredAssumption, IInv, JI, NEW l, NEW c, NEW f, NEW C, NEW F, OwnCall(l, c, f, C, F),
         f.do = "state", cb' = C, state' = [state EXCEPT ![f.d] = f.to],
         script' = script, args' = args, count' = count, thrown' = thrown
  PROVE  JI'
<1>1. /\ l \in Lists /\ c \in Cells /\ CellOK(l, c) /\ c.firing /\ c.index < c.length
      /\ f = c.list[c.index + 1] /\ c = cb[l] /\ fires # <<>> /\ l = fires[Len(fires)].list
  BY DEF OwnCall
<1>2. Prefixed(l, c) /\ c.index = 0 /\ f = OwnState(l)
  <2>1. f \notin Guests(l) /\ f # OwnDisable(l) /\ f # OwnLock(l)
    BY <1>1, OwnDo DEF Guests
  <2> QED BY <1>1, <2>1, NextIs
<1>3. f.d = l[1] /\ f.to = Outcome(l[2])
  BY <1>2 DEF OwnState, SetState
<1>4. f \notin JoinTasks
  BY OwnDo
<1>5. Keeps(cb, C, {}) /\ SameJoined(cb, C)
  BY <1>4, OwnKept
<1>6. state[l[1]] \in {"pending", Outcome(l[2])}
  <2>a. c.index < 2
    BY <1>2
  <2>1. Prefixed(l, cb[l]) /\ cb[l].firing /\ cb[l].index < 2
    BY <1>1, <1>2, <2>a
  <2> QED BY <1>1, <2>1, RivalWaits
<1>7. Grows(state, state')
  <2>1. state \in [Deferreds -> States]
    BY DEF IInv, Typed
  <2>2. state' = [state EXCEPT ![l[1]] = Outcome(l[2])]
    BY <1>3
  <2> QED BY <1>6, <2>1, <2>2 DEF Grows
<1>8. Typed
  BY DEF IInv
<1> QED BY <1>5, <1>7, <1>8, JoinNext

\* The other outcome is disabled,
LEMMA DisableJoins ==
  ASSUME DeferredAssumption, IInv, JI, NEW l, NEW c, NEW f, NEW C, NEW F, OwnCall(l, c, f, C, F),
         f.do = "disable", cb' = [C EXCEPT ![f.list] = Disabled(@)], state' = state,
         script' = script, args' = args, count' = count, thrown' = thrown
  PROVE  JI'
<1>1. /\ l \in Lists /\ c \in Cells /\ CellOK(l, c) /\ c.firing /\ c.index < c.length
      /\ f = c.list[c.index + 1] /\ c = cb[l] /\ fires # <<>> /\ l = fires[Len(fires)].list
  BY DEF OwnCall
<1>2. Prefixed(l, c) /\ c.index = 1 /\ f = OwnDisable(l)
  <2>1. f \notin Guests(l) /\ f # OwnState(l) /\ f # OwnLock(l)
    BY <1>1, OwnDo DEF Guests
  <2> QED BY <1>1, <2>1, NextIs
<1>4. f \notin JoinTasks
  BY OwnDo
<1>5. Keeps(cb, C, {}) /\ SameJoined(cb, C) /\ C \in [Lists -> Cells] /\ Steps(cb, fires, C, F)
  BY <1>4, OwnKept DEF OwnCall
<1>6. l \in Outcomes /\ cb[Rival(l)].memory = NoValue
  <2>a. c.index < 2
    BY <1>2
  <2>1. Prefixed(l, cb[l]) /\ cb[l].firing /\ cb[l].index < 2
    BY <1>1, <1>2, <2>a
  <2> QED BY <1>1, <2>1, RivalWaits
<1>7. PICK r : r = Rival(l)
  OBVIOUS
<1>8. f.list = r /\ r \in Lists /\ r # l
  <2>1. f.list = r
    BY <1>2, <1>7 DEF OwnDisable, Disable, Rival
  <2> QED BY <1>6, <1>7, <2>1, RivalIs
<1>9. C[r] = cb[r]
  BY <1>1, <1>5, <1>8 DEF Steps, Puts
<1>10. ~Fired(C, r)
  BY <1>6, <1>7, <1>9 DEF Fired
<1>11. PICK k : k = Disabled(C[r])
  OBVIOUS
<1>12. Disables(C[r], k) /\ k \in Cells
  BY <1>5, <1>8, <1>11, DisabledIs DEF Disables, IsCell
<1>13. PICK C2 : C2 = cb'
  OBVIOUS
<1>14. Puts(C, C2, r, k) /\ C[r] \in Cells
  BY <1>5, <1>8, <1>11, <1>12, <1>13 DEF Puts
<1>15. Keeps(C, C2, {}) /\ SameJoined(C, C2)
  BY ONLY DeferredAssumption, <1>8, <1>10, <1>12, <1>14, OffKept
<1>16. Keeps(cb, C2, {}) /\ SameJoined(cb, C2)
  BY <1>5, <1>15, KeepsTwice
<1>17. Typed /\ Grows(state, state')
  BY GrowsSelf DEF IInv
<1>18. Keeps(cb, cb', {}) /\ SameJoined(cb, cb')
  BY <1>13, <1>16
<1> QED BY <1>17, <1>18, JoinNext

\* and progress is locked.
LEMMA LockJoins ==
  ASSUME DeferredAssumption, IInv, JI, NEW l, NEW c, NEW f, NEW C, NEW F, OwnCall(l, c, f, C, F),
         f.do = "lock", cb' = [C EXCEPT ![f.list] = Locked(@)], state' = state,
         script' = script, args' = args, count' = count, thrown' = thrown
  PROVE  JI'
<1>1. /\ l \in Lists /\ c \in Cells /\ CellOK(l, c) /\ c.firing /\ c.index < c.length
      /\ f = c.list[c.index + 1] /\ c = cb[l]
  BY DEF OwnCall
<1>2. f = OwnLock(l)
  <2>1. f \notin Guests(l) /\ f # OwnState(l) /\ f # OwnDisable(l)
    BY <1>1, OwnDo DEF Guests
  <2> QED BY <1>1, <2>1, NextIs
<1>4. f \notin JoinTasks
  BY OwnDo
<1>5. Keeps(cb, C, {}) /\ SameJoined(cb, C) /\ C \in [Lists -> Cells]
  BY <1>4, OwnKept
<1>7. PICK r : r = <<l[1], "progress">>
  OBVIOUS
<1>8. f.list = r /\ r \in Lists /\ r[2] = "progress"
  <2>1. f.list = r
    BY <1>2, <1>7 DEF OwnLock, Lock
  <2>2. r \in Lists /\ r[2] = "progress"
    BY <1>1, <1>7 DEF DeferredAssumption, Kinds
  <2> QED BY <2>1, <2>2
<1>11. PICK k : k = Locked(C[r])
  OBVIOUS
<1>12. LockTo(C[r], k)
  BY <1>5, <1>8, <1>11, LockedIs DEF LockTo
<1>a. k \in Cells
  BY <1>12 DEF LockTo, Disables, Locks, IsCell
<1>13. PICK C2 : C2 = cb'
  OBVIOUS
<1>14. Puts(C, C2, r, k) /\ C[r] \in Cells
  BY <1>5, <1>8, <1>11, <1>a, <1>13 DEF Puts
<1>15. Keeps(C, C2, {}) /\ SameJoined(C, C2)
  BY ONLY DeferredAssumption, <1>8, <1>12, <1>a, <1>14, OffKept
<1>16. Keeps(cb, C2, {}) /\ SameJoined(cb, C2)
  BY <1>5, <1>15, KeepsTwice
<1>17. Typed /\ Grows(state, state')
  BY GrowsSelf DEF IInv
<1>18. Keeps(cb, cb', {}) /\ SameJoined(cb, cb')
  BY <1>13, <1>16
<1> QED BY <1>17, <1>18, JoinNext

\* A callback of when or pipe is about to do its work.
Ready(C, C1, F1, st, f) ==
  /\ Struct(C1, F1) /\ Agree(C1, st) /\ Keeps(C, C1, {f}) /\ SameJoined(C, C1)
  /\ \A l \in Outcomes : C1[l].on => C1[l].open

AtGuest(C, C1, l, f) ==
  /\ l \in Lists /\ C1[l].list = C[l].list /\ C1[l].firing /\ C1[l].index = C[l].index + 1
  /\ C[l].index \in Nat /\ C[l].index + 1 \in 1..Len(C[l].list) /\ C[l].firing
  /\ f = C[l].list[C[l].index + 1]

\* What the lists are when a callback of when has been called.
LEMMA GuestReady ==
  ASSUME DeferredAssumption, IInv, JI, NEW l, NEW c, NEW f, NEW C, NEW F, OwnCall(l, c, f, C, F),
         f \in JoinTasks
  PROVE  /\ Ready(cb, C, F, state, f)
         /\ args # <<>> /\ (args \in Pairs => <<l, f>> \in WhenAdds(args))
         /\ l[2] # "progress" => state[l[1]] = Outcome(l[2])
         /\ AtGuest(cb, C, l, f)
<1>1. /\ l \in Lists /\ c \in Cells /\ CellOK(l, c) /\ c.firing /\ c.index < c.length
      /\ f = c.list[c.index + 1] /\ c = cb[l] /\ fires # <<>> /\ l = fires[Len(fires)].list
      /\ Steps(cb, fires, C, F)
  BY DEF OwnCall
<1>2. Held(C, F, state, added, called, ops, thrown)
  BY GuestHeld
<1>3. Struct(C, F) /\ Agree(C, state) /\ Calm(C, state) /\ Struct(cb, fires)
  BY <1>2 DEF Held, IInv, Holds
<1>4. PICK G : G = {f}
  OBVIOUS
<1>5. f \notin JoinTasks \ G /\ f = cb[l].list[cb[l].index + 1]
  BY <1>1, <1>4
<1>6. Keeps(cb, C, G) /\ SameJoined(cb, C)
  BY <1>1, <1>3, <1>5, StepsKept
<1>7. \A x \in Outcomes : C[x].on => C[x].open
  BY <1>6, OpenKept DEF JI, JoinInv
<1>8. Ready(cb, C, F, state, f)
  BY <1>3, <1>4, <1>6, <1>7 DEF Ready
<1>9. c.index \in Nat /\ c.length = Len(c.list) /\ c.on /\ c.memory # NoValue
  BY <1>1, CellFields DEF CellOK
<1>10. c.index + 1 \in 1..Len(c.list)
  BY <1>1, <1>9
<1>11. PICK n \in Cells :
         /\ Puts(cb, C, l, n)
         /\ IsCell(n, c.list, c.on, c.stack, c.open, c.memory, c.firing, c.index + 1, c.length)
  BY <1>1 DEF Steps
<1>12. /\ C[l] = n /\ n.list = c.list /\ n.on /\ n.memory # NoValue /\ n.firing
       /\ n.index = c.index + 1
  BY <1>1, <1>9, <1>11 DEF Puts, IsCell
<1>13. l[2] # "progress" => state[l[1]] = Outcome(l[2])
  <2>1. Fired(C, l)
    BY <1>12 DEF Fired
  <2> QED BY <1>1, <1>3, <2>1 DEF Calm, HasSettled, Outcomes
<1>14. args # <<>> /\ (args \in Pairs => <<l, f>> \in WhenAdds(args))
  <2>1. cb[l].index + 1 \in 1..Len(cb[l].list)
    BY <1>1, <1>10
  <2> QED BY <1>1, <1>5, <2>1, AddedBy
<1>15. AtGuest(cb, C, l, f)
  BY <1>1, <1>9, <1>10, <1>12 DEF AtGuest
<1> QED BY <1>8, <1>13, <1>14, <1>15

\* A fire of an outcome of the joined deferred: it has settled, or settles so.
LEMMA FiresJoined ==
  ASSUME DeferredAssumption, NEW C, NEW F, NEW C2, NEW F2, NEW r \in {JDone, JFail}, NEW v \in Nat,
         NEW st, Struct(C, F), Agree(C, st), \A l \in Outcomes : C[l].on => C[l].open,
         FiresOn(C, F, C2, F2, r, v)
  PROVE  /\ Fired(C2, r) \/ Fired(C2, Rival(r))
         /\ Fired(C2, Rival(r)) <=> Fired(C, Rival(r))
         /\ Fired(C, r) => Fired(C2, r)
<1>1. r \in Outcomes /\ r \in Lists /\ Rival(r) \in Lists /\ Rival(r) # r /\ r[2] # "progress"
  BY JoinedAre, RivalIs
<1>2. PICK c \in Cells : c = C[r] /\ CellOK(r, c)
  BY <1>1 DEF Struct
<1>3. ~c.on => Fired(C, Rival(r))
  BY <1>1, <1>2 DEF Agree
<1>4. c.on => c.open
  BY <1>1, <1>2
<1>5. c.open => c.on
  BY <1>2 DEF CellOK
<1>6. ASSUME C2 = C, c.open => c.firing \/ c.memory # NoValue
      PROVE  /\ Fired(C2, r) \/ Fired(C2, Rival(r))
             /\ Fired(C2, Rival(r)) <=> Fired(C, Rival(r))
             /\ Fired(C, r) => Fired(C2, r)
  <2>1. c.on => Fired(C, r)
    BY <1>2, <1>4, <1>6 DEF CellOK, Fired
  <2> QED BY <1>3, <1>6, <2>1
<1>7. ASSUME NEW n \in Cells, Begins(c, n, v), Puts(C, C2, r, n), c.open
      PROVE  /\ Fired(C2, r) \/ Fired(C2, Rival(r))
             /\ Fired(C2, Rival(r)) <=> Fired(C, Rival(r))
             /\ Fired(C, r) => Fired(C2, r)
  <2>1. n.on /\ n.memory = v /\ v # NoValue
    BY <1>5, <1>7 DEF Begins, IsCell, DeferredAssumption
  <2>2. C2[r] = n /\ C2[Rival(r)] = C[Rival(r)]
    BY <1>1, <1>7 DEF Puts
  <2> QED BY <2>1, <2>2 DEF Fired
<1> QED BY <1>1, <1>2, <1>6, <1>7 DEF FiresOn

\* A failing argument rejects, unless another was before.
LEMMA FailFires ==
  ASSUME DeferredAssumption, NEW as \in Pairs, NEW i \in Promises(as), NEW C, NEW C1, NEW F1, NEW C2,
         NEW F2, NEW st, NEW sc \in Seq(Adding), NEW n, NEW th, NEW v \in Nat,
         WhenInv(C, st, sc, as, n, th), Ready(C, C1, F1, st, ToJoined("fail")),
         FiresOn(C1, F1, C2, F2, JFail, v), st[as[i]] = "rejected"
  PROVE  WhenInv(C2, st, sc, as, n, th)
<1>1. /\ Struct(C1, F1) /\ Agree(C1, st) /\ SameJoined(C, C1)
      /\ \A l \in Outcomes : C1[l].on => C1[l].open
  BY DEF Ready
<1>2. PICK G : G = {ToJoined("fail")}
  OBVIOUS
<1>3. Keeps(C, C1, G)
  BY <1>2 DEF Ready
<1>4. Keeps(C1, C2, {})
  BY <1>1, JoinedAre, FiresOnKept
<1>5. /\ Placed(C, sc, as) /\ Once(C, sc) /\ Joins(C, st, as, n)
      /\ \E A \in SUBSET {1, 2} : Counts(C, st, sc, as, n, th, A)
  BY DEF WhenInv
<1>6. \A k \in 1..Len(sc) : sc[k][1] \in Lists
  BY ScriptLists
<1>7. Placed(C2, sc, as) /\ Once(C2, sc)
  <2>1. Placed(C1, sc, as) /\ Once(C1, sc)
    BY <1>3, <1>5, <1>6, PlacedKept, OnceKept
  <2> QED BY <1>4, <1>6, <2>1, PlacedKept, OnceKept
<1>8. PICK A \in SUBSET {1, 2} : Counts(C, st, sc, as, n, th, A)
  BY <1>5
<1>9. Spares(G, A) /\ Spares({}, A)
  BY <1>2 DEF Spares, ResolveFunc, ToJoined, Fire
<1>10. Counts(C1, st, sc, as, n, th, A)
  BY <1>3, <1>8, <1>9, GrowsSelf, CountsKept
<1>11. Counts(C2, st, sc, as, n, th, A)
  BY <1>4, <1>9, <1>10, GrowsSelf, CountsKept
<1>12. /\ Fired(C2, JFail) \/ Fired(C2, JDone)
       /\ Fired(C2, JDone) <=> Fired(C1, JDone)
       /\ Fired(C1, JFail) => Fired(C2, JFail)
  BY <1>1, JoinedAre, FiresJoined, ZenonT(40)
<1>13. Fails(C2, sc, as, th)
  BY <1>12 DEF Fails
<1>14. Joins(C2, st, as, n)
  BY <1>1, <1>5, <1>12 DEF Joins, SameJoined
<1> QED BY <1>7, <1>11, <1>13, <1>14 DEF WhenInv

\* The number of the arguments that have not counted.
LEMMA SizeIs ==
  ASSUME NEW A \in SUBSET {1, 2}
  PROVE  /\ Size(A) \in Nat /\ (Size(A) = 0 <=> A = {})
         /\ \A i \in A : Size(A \ {i}) = Size(A) - 1 /\ Size(A) >= 1
<1>1. Size(A) \in Nat
  BY DEF Size
<1>2. Size(A) = 0 <=> A = {}
  BY DEF Size
<1>3. ASSUME NEW i \in A
      PROVE  Size(A \ {i}) = Size(A) - 1 /\ Size(A) >= 1
  <2>1. i = 1 \/ i = 2
    OBVIOUS
  <2> QED BY <2>1 DEF Size
<1> QED BY <1>1, <1>2, <1>3

\* An argument that is resolved counts once.
LEMMA CountStep ==
  ASSUME DeferredAssumption, NEW as \in Pairs, NEW i \in Promises(as), NEW C, NEW C1, NEW F1,
         NEW st, NEW sc \in Seq(Adding), NEW n, NEW th, NEW A \in SUBSET {1, 2}, NEW l,
         l = <<as[i], "done">>, NEW f, f = ResolveFunc(i), Counts(C, st, sc, as, n, th, A),
         Once(C, sc), Ready(C, C1, F1, st, f), AtGuest(C, C1, l, f), st[as[i]] = "resolved"
  PROVE  i \in A /\ Counts(C1, st, sc, as, n - 1, th, A \ {i})
<1>1. PICK j \in 1..Len(C[l].list) : j = C[l].index + 1 /\ f = C[l].list[j] /\ j \in Nat
  BY DEF AtGuest
<1>2. i \in A
  <2>1. Ahead(C[l], j)
    BY <1>1 DEF AtGuest, Ahead
  <2>2. ~Passed(C[l], f)
    BY <1>1, <2>1 DEF Passed
  <2> QED BY <2>2 DEF Counts
<1>3. A \subseteq Promises(as) /\ n = Size(A)
  BY DEF Counts
<1>4. n - 1 = Size(A \ {i})
  BY <1>2, <1>3, SizeIs
<1>5. PICK G : G = {f}
  OBVIOUS
<1>6. Keeps(C, C1, G)
  BY <1>5 DEF Ready
<1>7. f \in CountTasks /\ l \in Lists
  <2>1. f \in CountTasks
    BY ArgsAre
  <2> QED BY <2>1 DEF AtGuest
<1>8. ASSUME NEW k \in A \ {i}
      PROVE  th \/ Coming(C1, sc, <<as[k], "done">>, ResolveFunc(k))
  <2>1. PICK x \in Lists : x = <<as[k], "done">> /\ x[2] # "progress"
    BY <1>3, ArgsAre DEF Kinds
  <2>2. PICK g \in JoinTasks : g = ResolveFunc(k)
    BY <1>3, ArgsAre
  <2>3. th \/ Coming(C, sc, x, g)
    BY <2>1, <2>2 DEF Counts
  <2>4. g \notin G
    <3>1. g.arg = k /\ f.arg = i
      BY <2>2 DEF ResolveFunc
    <3> QED BY <1>5, <3>1
  <2>5. th \/ Coming(C1, sc, x, g)
    BY <1>6, <2>1, <2>3, <2>4, ComingKept
  <2> QED BY <2>1, <2>2, <2>5
<1>9. ASSUME NEW k \in Promises(as) \ A
      PROVE  /\ st[as[k]] = "resolved"
             /\ \A m \in 1..Len(sc) : sc[m] # DoneAdd(as, k)
             /\ Passed(C1[<<as[k], "done">>], ResolveFunc(k))
  <2>1. PICK x \in Lists : x = <<as[k], "done">> /\ x[2] # "progress"
    BY ArgsAre DEF Kinds
  <2>2. PICK g \in JoinTasks : g = ResolveFunc(k)
    BY ArgsAre
  <2>3. /\ st[as[k]] = "resolved" /\ \A m \in 1..Len(sc) : sc[m] # DoneAdd(as, k)
        /\ Passed(C[x], g)
    BY <1>9, <2>1, <2>2 DEF Counts
  <2>4. Passed(C1[x], g)
    BY <1>6, <2>1, <2>3, PassedKept
  <2> QED BY <2>1, <2>2, <2>3, <2>4
<1>10. \A m \in 1..Len(sc) : sc[m] # DoneAdd(as, i)
  <2>1. SUFFICES ASSUME NEW m \in 1..Len(sc), sc[m] = <<l, f>>
                 PROVE  FALSE
    BY DEF DoneAdd
  <2>a. PICK e : e = sc[m]
    OBVIOUS
  <2>b. e = <<l, f>>
    BY <2>1, <2>a
  <2>2. e[1] = l /\ e[2] = f
    BY <2>b
  <2>3. e[2] \in CountTasks => \A k \in 1..Len(C[e[1]].list) : C[e[1]].list[k] # e[2]
    BY <2>a DEF Once
  <2> QED BY <1>1, <1>7, <2>2, <2>3
<1>11. Passed(C1[l], f)
  <2>1. SUFFICES ASSUME NEW k \in 1..Len(C1[l].list), Ahead(C1[l], k), C1[l].list[k] = f
                 PROVE  FALSE
    BY DEF Passed
  <2>2. k \in 1..Len(C[l].list) /\ C[l].list[k] = f
    BY <2>1 DEF AtGuest
  <2>3. k = j
    BY <1>1, <1>7, <2>2 DEF Once
  <2>4. C1[l].firing /\ C1[l].index = j
    BY <1>1 DEF AtGuest
  <2> QED BY <1>1, <2>1, <2>3, <2>4 DEF Ahead
<1>12. ASSUME NEW k \in Promises(as) \ (A \ {i})
       PROVE  /\ st[as[k]] = "resolved"
              /\ \A m \in 1..Len(sc) : sc[m] # DoneAdd(as, k)
              /\ Passed(C1[<<as[k], "done">>], ResolveFunc(k))
  <2>1. CASE k = i
    BY <1>10, <1>11, <2>1
  <2>2. CASE k # i
    <3>1. k \in Promises(as) \ A
      BY <2>2
    <3> QED BY <1>9, <3>1
  <2> QED BY <2>1, <2>2
<1> QED BY <1>2, <1>3, <1>4, <1>8, <1>12 DEF Counts

\* The last one resolves, unless one was rejected.
LEMMA CountFires ==
  ASSUME DeferredAssumption, NEW as \in Pairs, NEW i \in Promises(as), NEW C, NEW C1, NEW F1,
         NEW C2, NEW F2, NEW st, NEW sc \in Seq(Adding), NEW n, NEW th, NEW l,
         l = <<as[i], "done">>, NEW f, f = ResolveFunc(i), WhenInv(C, st, sc, as, n, th),
         Ready(C, C1, F1, st, f), AtGuest(C, C1, l, f), st[as[i]] = "resolved",
         NEW v \in Nat, IF n = 1 THEN FiresOn(C1, F1, C2, F2, JDone, v) ELSE C2 = C1
  PROVE  WhenInv(C2, st, sc, as, n - 1, th)
<1>1. /\ Struct(C1, F1) /\ Agree(C1, st) /\ SameJoined(C, C1)
      /\ \A x \in Outcomes : C1[x].on => C1[x].open
  BY DEF Ready
<1>2. PICK G : G = {f}
  OBVIOUS
<1>3. Keeps(C, C1, G)
  BY <1>2 DEF Ready
<1>4. Keeps(C1, C2, {})
  BY <1>1, JoinedAre, FiresOnKept, SameKept
<1>5. /\ Placed(C, sc, as) /\ Once(C, sc) /\ Joins(C, st, as, n) /\ Fails(C, sc, as, th)
      /\ \E A \in SUBSET {1, 2} : Counts(C, st, sc, as, n, th, A)
  BY DEF WhenInv
<1>6. \A k \in 1..Len(sc) : sc[k][1] \in Lists
  BY ScriptLists
<1>7. Placed(C2, sc, as) /\ Once(C2, sc)
  <2>1. Placed(C1, sc, as) /\ Once(C1, sc)
    BY <1>3, <1>5, <1>6, PlacedKept, OnceKept
  <2> QED BY <1>4, <1>6, <2>1, PlacedKept, OnceKept
<1>8. PICK A \in SUBSET {1, 2} : Counts(C, st, sc, as, n, th, A)
  BY <1>5
<1>9. i \in A /\ Counts(C1, st, sc, as, n - 1, th, A \ {i})
  BY <1>5, <1>8, CountStep
<1>10. Counts(C2, st, sc, as, n - 1, th, A \ {i})
  <2>1. Spares({}, A \ {i})
    BY DEF Spares
  <2> QED BY <1>4, <1>9, <2>1, GrowsSelf, CountsKept
<1>11. n \in Nat /\ n >= 1
  <2>1. n = Size(A)
    BY <1>8 DEF Counts
  <2> QED BY <1>9, <2>1, SizeIs
<1>12. ~Fired(C1, JDone)
  BY <1>1, <1>5, <1>11 DEF Joins, SameJoined
<1>13. /\ Fired(C2, JDone) => n - 1 = 0
       /\ n - 1 = 0 => Fired(C2, JDone) \/ Fired(C2, JFail)
       /\ Fired(C2, JFail) <=> Fired(C1, JFail)
  <2>1. CASE n = 1
    <3>1. FiresOn(C1, F1, C2, F2, JDone, v)
      BY <2>1
    <3>2. n - 1 = 0
      BY <2>1
    <3> QED BY <1>1, <3>1, <3>2, JoinedAre, FiresJoined, ZenonT(40)
  <2>2. CASE n # 1
    <3>1. C2 = C1 /\ n - 1 # 0
      BY <1>11, <2>2
    <3> QED BY <1>12, <3>1
  <2> QED BY <2>1, <2>2
<1>14. Joins(C2, st, as, n - 1)
  BY <1>1, <1>5, <1>13 DEF Joins, SameJoined
<1>15. Fails(C2, sc, as, th)
  <2>1. ToJoined("fail") \notin G /\ ToJoined("fail") \notin {}
    BY <1>2 DEF ToJoined, Fire, ResolveFunc
  <2>2. (Fired(C, JDone) => Fired(C1, JDone)) /\ (Fired(C, JFail) => Fired(C1, JFail))
    BY <1>1 DEF SameJoined
  <2>3. Fails(C1, sc, as, th)
    BY <1>3, <1>5, <2>1, <2>2, FailsKept
  <2>4. (Fired(C1, JDone) => Fired(C2, JDone)) /\ (Fired(C1, JFail) => Fired(C2, JFail))
    BY <1>12, <1>13
  <2> QED BY <1>4, <2>1, <2>3, <2>4, FailsKept
<1> QED BY <1>7, <1>10, <1>14, <1>15 DEF WhenInv

\* A callback with which when or pipe fires the joined deferred.
LEMMA FireJoins ==
  ASSUME DeferredAssumption, IInv, JI, NEW l, NEW c, NEW f, NEW C, NEW F, OwnCall(l, c, f, C, F),
         f \in JoinTasks, f.do = "fire", FiresOn(C, F, cb', fires', f.list, TopFire.value),
         state' = state, script' = script, args' = args, count' = count, thrown' = thrown
  PROVE  JI'
<1>1. PICK C2 : C2 = cb'
  OBVIOUS
<1>2. PICK F2 : F2 = fires'
  OBVIOUS
<1>3. PICK v : v = TopFire.value
  OBVIOUS
<1>4. v \in Nat
  BY <1>3 DEF OwnCall
<1>5. PICK r \in Lists : r = f.list
  BY JoinedLists
<1>6. FiresOn(C, F, C2, F2, r, v)
  BY <1>1, <1>2, <1>3, <1>5
<1>7. /\ Ready(cb, C, F, state, f)
      /\ args # <<>> /\ (args \in Pairs => <<l, f>> \in WhenAdds(args))
      /\ l[2] # "progress" => state[l[1]] = Outcome(l[2])
  BY GuestReady
<1>8. /\ Struct(C, F) /\ Keeps(cb, C, {f}) /\ SameJoined(cb, C)
      /\ \A x \in Outcomes : C[x].on => C[x].open
  BY <1>7 DEF Ready
<1>9. Keeps(C, C2, {})
  BY <1>6, <1>8, FiresOnKept
<1>10. \A x \in Outcomes : C2[x].on => C2[x].open
  BY <1>8, <1>9, OpenKept
<1>11. PICK sc \in Seq(Adding) : sc = script
  BY DEF IInv, Typed, Adding
<1>12. JoinInv(cb, state, sc, args, count, thrown)
  BY <1>11 DEF JI
<1>13. CASE args \notin Pairs
  <2>1. JoinInv(C2, state, sc, args, count, thrown)
    BY <1>7, <1>10, <1>12, <1>13 DEF JoinInv
  <2> QED BY <1>1, <1>11, <2>1 DEF JI
<1>14. CASE args \in Pairs
  <2>1. PICK as \in Pairs : as = args
    BY <1>14
  <2>2. <<l, f>> \in WhenAdds(as)
    BY <1>7, <2>1
  <2>b. \E i \in Promises(as) : WaitsFor(as, i, l, f)
    BY <2>2, WhenAddIs
  <2>3. PICK i \in Promises(as) : WaitsFor(as, i, l, f)
    BY <2>b
  <2>4. f # ResolveFunc(i)
    BY DEF ResolveFunc
  <2>5. CASE l = <<as[i], "fail">> /\ f = ToJoined("fail")
    <3>1. r = JFail /\ Ready(cb, C, F, state, ToJoined("fail"))
      BY <1>5, <1>7, <2>5 DEF ToJoined, Fire, JFail
    <3>2. state[as[i]] = "rejected"
      BY <1>7, <2>5 DEF Outcome
    <3>3. WhenInv(cb, state, sc, as, count, thrown)
      BY <1>12, <2>1 DEF JoinInv
    <3>a. sc \in Seq(Adding) /\ FiresOn(C, F, C2, F2, JFail, v)
      BY <1>6, <3>1
    <3>4. WhenInv(C2, state, sc, as, count, thrown)
      BY ONLY DeferredAssumption, <1>4, <2>3, <3>1, <3>2, <3>3, <3>a, FailFires
    <3>5. JoinInv(C2, state, sc, args, count, thrown)
      BY <1>7, <1>10, <1>12, <2>1, <3>4 DEF JoinInv
    <3> QED BY <1>1, <1>11, <3>5 DEF JI
  <2>6. CASE f = ToJoined("progress")
    <3>1. r = <<Joined, "progress">>
      BY <1>5, <2>6 DEF ToJoined, Fire
    <3>2. PICK G : G = {f}
      OBVIOUS
    <3>3. Harmless(G) /\ Harmless({})
      <4>1. f # ToJoined("fail") /\ f \notin CountTasks
        BY <2>6 DEF ToJoined, Fire, CountTasks
      <4> QED BY <3>2, <4>1 DEF Harmless
    <3>4. Keeps(cb, C, G)
      BY <1>8, <3>2
    <3>5. JoinInv(C, state, sc, args, count, thrown)
      BY <1>8, <1>12, <3>3, <3>4, GrowsSelf, JoinStays
    <3>6. SameJoined(C, C2)
      BY <1>6, <3>1, FiresOnJoined
    <3>7. JoinInv(C2, state, sc, args, count, thrown)
      BY <1>9, <3>3, <3>5, <3>6, GrowsSelf, JoinStays
    <3> QED BY <1>1, <1>11, <3>7 DEF JI
  <2> QED BY <2>3, <2>4, <2>5, <2>6 DEF WaitsFor
<1> QED BY <1>13, <1>14

\* The callback with which when counts.
LEMMA CountJoins ==
  ASSUME DeferredAssumption, IInv, JI, NEW l, NEW c, NEW f, NEW C, NEW F, OwnCall(l, c, f, C, F),
         f \in JoinTasks, f.do = "count", count' = count - 1,
         IF count = 1 THEN FiresOn(C, F, cb', fires', JDone, TopFire.value) ELSE cb' = C,
         state' = state, script' = script, args' = args, thrown' = thrown
  PROVE  JI'
<1>1. PICK C2 : C2 = cb'
  OBVIOUS
<1>2. PICK F2 : F2 = fires'
  OBVIOUS
<1>3. PICK v : v = TopFire.value
  OBVIOUS
<1>4. v \in Nat
  BY <1>3 DEF OwnCall
<1>6. IF count = 1 THEN FiresOn(C, F, C2, F2, JDone, v) ELSE C2 = C
  BY <1>1, <1>2, <1>3
<1>7. /\ Ready(cb, C, F, state, f) /\ AtGuest(cb, C, l, f)
      /\ args # <<>> /\ (args \in Pairs => <<l, f>> \in WhenAdds(args))
      /\ l[2] # "progress" => state[l[1]] = Outcome(l[2])
  BY GuestReady
<1>8. Struct(C, F) /\ \A x \in Outcomes : C[x].on => C[x].open
  BY <1>7 DEF Ready
<1>9. Keeps(C, C2, {})
  BY <1>6, <1>8, JoinedAre, FiresOnKept, SameKept
<1>10. \A x \in Outcomes : C2[x].on => C2[x].open
  BY <1>8, <1>9, OpenKept
<1>11. PICK sc \in Seq(Adding) : sc = script
  BY DEF IInv, Typed, Adding
<1>12. JoinInv(cb, state, sc, args, count, thrown)
  BY <1>11 DEF JI
<1>13. CASE args \notin Pairs
  <2>1. JoinInv(C2, state, sc, args, count - 1, thrown)
    BY <1>7, <1>10, <1>12, <1>13 DEF JoinInv
  <2> QED BY <1>1, <1>11, <2>1 DEF JI
<1>14. CASE args \in Pairs
  <2>1. PICK as \in Pairs : as = args
    BY <1>14
  <2>2. <<l, f>> \in WhenAdds(as)
    BY <1>7, <2>1
  <2>b. \E i \in Promises(as) : WaitsFor(as, i, l, f)
    BY <2>2, WhenAddIs
  <2>3. PICK i \in Promises(as) : WaitsFor(as, i, l, f)
    BY <2>b
  <2>4. f # ToJoined("fail") /\ f # ToJoined("progress")
    BY DEF ToJoined, Fire
  <2>5. l = <<as[i], "done">> /\ f = ResolveFunc(i)
    BY <2>3, <2>4 DEF WaitsFor
  <2>6. state[as[i]] = "resolved"
    BY <1>7, <2>5 DEF Outcome
  <2>7. WhenInv(cb, state, sc, as, count, thrown)
    BY <1>12, <2>1 DEF JoinInv
  <2>a. sc \in Seq(Adding) /\ Ready(cb, C, F, state, f) /\ AtGuest(cb, C, l, f)
    BY <1>7
  <2>8. WhenInv(C2, state, sc, as, count - 1, thrown)
    BY ONLY DeferredAssumption, <1>4, <1>6, <2>3, <2>5, <2>6, <2>7, <2>a, CountFires
  <2>9. JoinInv(C2, state, sc, args, count - 1, thrown)
    BY <1>7, <1>10, <1>12, <2>1, <2>8 DEF JoinInv
  <2> QED BY <1>1, <1>11, <2>9 DEF JI
<1> QED BY <1>13, <1>14

\* A callback of jQuery is called, whichever it is.
LEMMA CallOwnJoins ==
  ASSUME DeferredAssumption, IInv, JI, Looping, CallOwn(NextCallback)
  PROVE  JI'
<1>1. PICK f : f = NextCallback
  OBVIOUS
<1>2. PICK l : l = TopFire.list
  OBVIOUS
<1>3. PICK c : c = cb[l]
  OBVIOUS
<1>4. PICK C : C = Stepped.cb
  OBVIOUS
<1>5. PICK F : F = Stepped.fires
  OBVIOUS
<1>6. ~CallsUndefined /\ script' = script /\ args' = args /\ thrown' = thrown
  BY DEF CallOwn
<1>7. \/ f.do = "state" /\ state' = [state EXCEPT ![f.d] = f.to] /\ Goto(Stepped) /\ count' = count
      \/ f.do = "disable" /\ state' = state /\ count' = count
         /\ Goto([Stepped EXCEPT !.cb[f.list] = Disabled(@)])
      \/ f.do = "lock" /\ state' = state /\ count' = count
         /\ Goto([Stepped EXCEPT !.cb[f.list] = Locked(@)])
      \/ f.do = "fire" /\ state' = state /\ count' = count
         /\ Goto(FireWith(Stepped, f.list, TopFire.value))
      \/ f.do = "count" /\ state' = state /\ count' = count - 1
         /\ Goto(IF count = 1 THEN FireWith(Stepped, JDone, TopFire.value) ELSE Stepped)
  BY <1>1 DEF CallOwn, JDone
<1>8. OwnCall(l, c, f, C, F)
  BY <1>1, <1>2, <1>3, <1>4, <1>5, <1>6, <1>7, OwnCallIs
<1>9. f \in Tasks /\ TopFire.value \in Nat /\ C \in [Lists -> Cells]
  BY <1>8 DEF OwnCall, Steps, Puts
<1>10. CASE f.do = "state" /\ state' = [state EXCEPT ![f.d] = f.to] /\ Goto(Stepped) /\ count' = count
  <2>1. cb' = C
    BY <1>4, <1>10 DEF Goto
  <2> QED BY <1>6, <1>8, <1>10, <2>1, StateJoins
<1>11. CASE f.do = "disable" /\ state' = state /\ count' = count
            /\ Goto([Stepped EXCEPT !.cb[f.list] = Disabled(@)])
  <2>1. cb' = [C EXCEPT ![f.list] = Disabled(@)]
    BY <1>4, <1>11 DEF Goto, Stepped
  <2> QED BY <1>6, <1>8, <1>11, <2>1, DisableJoins
<1>12. CASE f.do = "lock" /\ state' = state /\ count' = count
            /\ Goto([Stepped EXCEPT !.cb[f.list] = Locked(@)])
  <2>1. cb' = [C EXCEPT ![f.list] = Locked(@)]
    BY <1>4, <1>12 DEF Goto, Stepped
  <2> QED BY <1>6, <1>8, <1>12, <2>1, LockJoins
<1>13. f.do \in {"fire", "count"} => f \in JoinTasks
  BY <1>9, OwnDo DEF Tasks
<1>14. Stepped = [cb |-> C, fires |-> F]
  BY <1>4, <1>5 DEF Stepped
<1>15. ASSUME NEW r \in Lists, Goto(FireWith(Stepped, r, TopFire.value))
       PROVE  FiresOn(C, F, cb', fires', r, TopFire.value)
  <2>1. PICK m : m = FireWith([cb |-> C, fires |-> F], r, TopFire.value)
    OBVIOUS
  <2>2. FiresOn(C, F, m.cb, m.fires, r, TopFire.value)
    BY <1>9, <2>1, FireIs
  <2> QED BY <1>14, <1>15, <2>1, <2>2 DEF Goto
<1>16. CASE f.do = "fire" /\ state' = state /\ count' = count
            /\ Goto(FireWith(Stepped, f.list, TopFire.value))
  <2>1. f \in JoinTasks /\ f.list \in Lists
    BY <1>13, <1>16, JoinedLists
  <2>2. FiresOn(C, F, cb', fires', f.list, TopFire.value)
    BY <1>15, <1>16, <2>1
  <2> QED BY <1>6, <1>8, <1>16, <2>1, <2>2, FireJoins
<1>17. CASE f.do = "count" /\ state' = state /\ count' = count - 1
            /\ Goto(IF count = 1 THEN FireWith(Stepped, JDone, TopFire.value) ELSE Stepped)
  <2>1. f \in JoinTasks
    BY <1>13, <1>17
  <2>2. IF count = 1 THEN FiresOn(C, F, cb', fires', JDone, TopFire.value) ELSE cb' = C
    <3>1. CASE count = 1
      BY <1>15, <1>17, <3>1, JoinedAre
    <3>2. CASE count # 1
      BY <1>4, <1>17, <3>2 DEF Goto
    <3> QED BY <3>1, <3>2
  <2> QED BY <1>6, <1>8, <1>17, <2>1, <2>2, CountJoins
<1> QED BY <1>7, <1>10, <1>11, <1>12, <1>16, <1>17
-----------------------------------------------------------------------------
(* when *)

\* No arguments are not two.
LEMMA NoArgs == <<>> \notin Pairs
<1>1. PICK S : S = Raw \cup {Plain}
  OBVIOUS
<1>2. \A as \in S \X S : Len(as) = 2
  BY PairIs
<1>3. Len(<<>>) = 0
  OBVIOUS
<1> QED BY <1>1, <1>2, <1>3 DEF Pairs

\* Before any call.
LEMMA InitJoins ==
  ASSUME DeferredAssumption, Init
  PROVE  JI
<1>1. /\ args = <<>> /\ script = <<>> /\ \A l \in Lists : cb[l] = NewList(OwnCallbacks(l[1], l[2]))
  BY DEF Init
<1>2. ASSUME NEW l \in Lists
      PROVE  cb[l].on /\ cb[l].open /\ cb[l].memory = NoValue
  <2>1. PICK c : c = cb[l]
    OBVIOUS
  <2>2. c = NewList(OwnCallbacks(l[1], l[2]))
    BY <1>1, <2>1
  <2>3. c.on /\ c.open /\ c.memory = NoValue
    BY <2>2 DEF NewList
  <2> QED BY <2>1, <2>3
<1>3. \A l \in Outcomes : cb[l].on => cb[l].open
  BY <1>2 DEF Outcomes
<1>4. ASSUME NEW l \in Lists, NEW j \in 1..Len(cb[l].list)
      PROVE  cb[l].list[j] \notin JoinTasks
  <2>1. PICK c : c = cb[l]
    OBVIOUS
  <2>2. c = NewList(OwnCallbacks(l[1], l[2]))
    BY <1>1, <2>1
  <2>3. c.list = OwnCallbacks(l[1], l[2]) /\ c \in Cells
    BY <2>2, CreatedIs DEF NewList
  <2>4. CASE l[2] = "progress"
    <3>1. Len(c.list) = 0
      BY <2>3, <2>4 DEF OwnCallbacks
    <3> QED BY <2>1, <3>1
  <2>5. CASE l[2] # "progress"
    <3>1. c.list = <<OwnState(l), OwnDisable(l), OwnLock(l)>>
      BY <2>3, <2>5 DEF OwnCallbacks, OwnState, OwnDisable, OwnLock
    <3>2. OwnState(l) \notin JoinTasks /\ OwnDisable(l) \notin JoinTasks /\ OwnLock(l) \notin JoinTasks
      BY OwnDo
    <3>3. Len(c.list) = 3 /\ c.list[1] = OwnState(l) /\ c.list[2] = OwnDisable(l) /\ c.list[3] = OwnLock(l)
      BY <3>1
    <3>4. j = 1 \/ j = 2 \/ j = 3
      BY <2>1, <3>3
    <3> QED BY <2>1, <3>2, <3>3, <3>4
  <2> QED BY <2>4, <2>5
<1>5. ~Fired(cb, JDone) /\ ~Fired(cb, JFail)
  BY <1>2, JoinedAre DEF Fired
<1>6. Idle(cb, script)
  BY <1>1, <1>4, <1>5 DEF Idle
<1>7. <<>> \notin Pairs
  BY NoArgs
<1> QED BY <1>1, <1>3, <1>6, <1>7 DEF JI, JoinInv

\* The number of the arguments that are promises.
LEMMA CountIs ==
  ASSUME DeferredAssumption, NEW as \in Pairs
  PROVE  Promises(as) \in SUBSET {1, 2} /\ CountOf(as) = Size(Promises(as))
<1>1. PICK P : P = Promises(as)
  OBVIOUS
<1>2. P \subseteq {1, 2}
  BY <1>1, ArgsAre
<1>3. P = {} \/ P = {1} \/ P = {2} \/ P = {1} \cup {2}
  BY <1>2
<1>4. Cardinality({}) = 0
  BY FS_EmptySet
<1>5. \A x : IsFiniteSet({x}) /\ Cardinality({x}) = 1
  BY FS_Singleton
<1>6. Cardinality({1} \cup {2}) = 2
  <2>1. PICK S : S = {1}
    OBVIOUS
  <2>2. 2 \notin S
    BY <2>1
  <2>a. IsFiniteSet(S) /\ Cardinality(S) = 1
    BY <1>5, <2>1
  <2>3. Cardinality(S \cup {2}) = Cardinality(S) + 1
    BY ONLY <2>2, <2>a, FS_AddElement
  <2> QED BY <2>1, <2>a, <2>3
<1>7. CASE P = {}
  BY <1>1, <1>4, <1>7 DEF CountOf, Size
<1>8. CASE P = {1}
  BY <1>1, <1>5, <1>8 DEF CountOf, Size
<1>9. CASE P = {2}
  BY <1>1, <1>5, <1>9 DEF CountOf, Size
<1>10. CASE P = {1} \cup {2}
  BY <1>1, <1>6, <1>10 DEF CountOf, Size
<1> QED BY <1>1, <1>3, <1>7, <1>8, <1>9, <1>10

\* What when adds to an argument is nothing or three adds.
LEMMA ThreeLong ==
  ASSUME NEW x, NEW y, NEW z, NEW w, w = <<x, y, z>>
  PROVE  Len(w) = 3 /\ w[1] = x /\ w[2] = y /\ w[3] = z
OBVIOUS

\* Where the elements of a concatenation come from.
LEMMA ConcatIs ==
  ASSUME NEW S, NEW v \in Seq(S), NEW w \in Seq(S), NEW s, s = v \o w
  PROVE  /\ Len(s) = Len(v) + Len(w) /\ Len(v) \in Nat /\ Len(w) \in Nat
         /\ \A k \in 1..Len(v) : s[k] = v[k]
         /\ \A k \in 1..Len(w) : s[Len(v) + k] = w[k]
         /\ \A k \in 1..Len(s) :
              k \in 1..Len(v) \/ (k - Len(v) \in 1..Len(w) /\ s[k] = w[k - Len(v)])
<1>1. Len(v) \in Nat /\ Len(w) \in Nat
  OBVIOUS
<1>2. Len(s) = Len(v) + Len(w)
  OBVIOUS
<1>3. \A k \in 1..(Len(v) + Len(w)) : s[k] = IF k <= Len(v) THEN v[k] ELSE w[k - Len(v)]
  OBVIOUS
<1>4. \A k \in 1..Len(v) : s[k] = v[k]
  BY <1>1, <1>3
<1>5. ASSUME NEW k \in 1..Len(w)
      PROVE  s[Len(v) + k] = w[k]
  <2>1. Len(v) + k \in 1..(Len(v) + Len(w)) /\ ~(Len(v) + k <= Len(v)) /\ (Len(v) + k) - Len(v) = k
    BY <1>1
  <2> QED BY <1>3, <2>1
<1>6. ASSUME NEW k \in 1..Len(s)
      PROVE  k \in 1..Len(v) \/ (k - Len(v) \in 1..Len(w) /\ s[k] = w[k - Len(v)])
  BY <1>1, <1>2, <1>3
<1> QED BY <1>1, <1>2, <1>4, <1>5, <1>6

\* What when adds to one argument,
LEMMA WaitPart ==
  ASSUME DeferredAssumption, NEW as \in Pairs, NEW i \in {1, 2}, NEW w, w = Wait(as, i)
  PROVE  /\ i \notin Promises(as) => w = <<>>
         /\ i \in Promises(as) =>
              /\ Len(w) = 3 /\ w[1] = DoneAdd(as, i) /\ w[2] = FailAdd(as, i)
              /\ w[3] = <<<<as[i], "progress">>, ToJoined("progress")>>
         /\ w \in Seq(Adding)
<1>1. i \in DOMAIN as
  <2>1. PICK S : S = Raw \cup {Plain}
    OBVIOUS
  <2>2. as \in S \X S
    BY <2>1 DEF Pairs
  <2> QED BY <2>2, PairIs
<1>2. CASE as[i] = Plain
  <2>1. w = <<>>
    BY <1>2 DEF Wait
  <2>2. i \notin Promises(as)
    BY <1>2 DEF Promises
  <2>3. w \in Seq(Adding)
    BY <2>1
  <2> QED BY <2>1, <2>2, <2>3
<1>3. CASE as[i] # Plain
  <2>1. i \in Promises(as)
    BY <1>1, <1>3 DEF Promises
  <2>2. w = Then(as[i], ResolveFunc(i), ToJoined("fail"), ToJoined("progress"))
    BY <1>3 DEF Wait
  <2>3. w = <<DoneAdd(as, i), FailAdd(as, i), <<<<as[i], "progress">>, ToJoined("progress")>>>>
    BY <2>2 DEF Then, DoneAdd, FailAdd
  <2>4. /\ Len(w) = 3 /\ w[1] = DoneAdd(as, i) /\ w[2] = FailAdd(as, i)
        /\ w[3] = <<<<as[i], "progress">>, ToJoined("progress")>>
    BY ONLY <2>3, ThreeLong
  <2>5. as[i] \in Raw /\ ResolveFunc(i) \in JoinTasks /\ ToJoined("fail") \in JoinTasks
        /\ ToJoined("progress") \in JoinTasks
    BY <2>1, ArgsAre, JoinTasksAre DEF Kinds
  <2>6. w \in Seq(Adding)
    BY <2>2, <2>5, ThenIs
  <2> QED BY <2>1, <2>4, <2>6
<1> QED BY <1>2, <1>3

Awaits(as, s) ==
  /\ \A k \in 1..Len(s) : s[k] \in WhenAdds(as)
  /\ \A k, m \in 1..Len(s) : s[k][2] \in CountTasks /\ s[k] = s[m] => k = m
  /\ \A i \in Promises(as) : \E k \in 1..Len(s) : s[k] = DoneAdd(as, i)
  /\ \A i \in Promises(as) : \E k \in 1..Len(s) : s[k] = FailAdd(as, i)

\* and to both.
LEMMA WaitAll ==
  ASSUME DeferredAssumption, NEW as \in Pairs, NEW s, s = Wait(as, 1) \o Wait(as, 2)
  PROVE  Awaits(as, s)
<1>1. PICK v \in Seq(Adding) : v = Wait(as, 1)
  BY WaitPart
<1>2. PICK w \in Seq(Adding) : w = Wait(as, 2)
  BY WaitPart
<1>a. s = v \o w
  BY <1>1, <1>2
<1>e. v \in Seq(Adding) /\ w \in Seq(Adding)
  BY <1>1, <1>2
<1>3. /\ Len(s) = Len(v) + Len(w) /\ Len(v) \in Nat /\ Len(w) \in Nat
      /\ \A k \in 1..Len(v) : s[k] = v[k]
      /\ \A k \in 1..Len(w) : s[Len(v) + k] = w[k]
  BY ONLY <1>a, <1>e, ConcatIs
<1>4. \A k \in 1..Len(s) : k \in 1..Len(v) \/ (k - Len(v) \in 1..Len(w) /\ s[k] = w[k - Len(v)])
  BY ONLY <1>a, <1>e, ConcatIs
<1>b. /\ 1 \notin Promises(as) => v = <<>>
      /\ 1 \in Promises(as) =>
              /\ Len(v) = 3 /\ v[1] = DoneAdd(as, 1) /\ v[2] = FailAdd(as, 1)
              /\ v[3] = <<<<as[1], "progress">>, ToJoined("progress")>>
  BY <1>1, WaitPart
<1>c. /\ 2 \notin Promises(as) => w = <<>>
      /\ 2 \in Promises(as) =>
              /\ Len(w) = 3 /\ w[1] = DoneAdd(as, 2) /\ w[2] = FailAdd(as, 2)
              /\ w[3] = <<<<as[2], "progress">>, ToJoined("progress")>>
  BY <1>2, WaitPart
<1>d. Len(<<>>) = 0 /\ 1..0 = {} /\ \A k \in 1..3 : k = 1 \/ k = 2 \/ k = 3
  OBVIOUS
<1>5. ASSUME NEW k \in 1..Len(v)
      PROVE  /\ 1 \in Promises(as)
             /\ \/ k = 1 /\ v[k] = DoneAdd(as, 1)
                \/ k = 2 /\ v[k] = FailAdd(as, 1)
                \/ k = 3 /\ v[k] = <<<<as[1], "progress">>, ToJoined("progress")>>
  BY <1>b, <1>d
<1>6. ASSUME NEW k \in 1..Len(w)
      PROVE  /\ 2 \in Promises(as)
             /\ \/ k = 1 /\ w[k] = DoneAdd(as, 2)
                \/ k = 2 /\ w[k] = FailAdd(as, 2)
                \/ k = 3 /\ w[k] = <<<<as[2], "progress">>, ToJoined("progress")>>
  BY <1>c, <1>d
<1>7. \A k \in 1..Len(v) : v[k] \in WhenAdds(as)
  BY <1>5 DEF WhenAdds
<1>8. \A k \in 1..Len(w) : w[k] \in WhenAdds(as)
  BY <1>6 DEF WhenAdds
<1>9. \A k \in 1..Len(s) : s[k] \in WhenAdds(as)
  BY <1>3, <1>4, <1>7, <1>8
<1>10. /\ \A i \in {1, 2} : DoneAdd(as, i)[2].arg = i /\ FailAdd(as, i)[2] = ToJoined("fail")
       /\ <<<<as[1], "progress">>, ToJoined("progress")>>[2] = ToJoined("progress")
       /\ <<<<as[2], "progress">>, ToJoined("progress")>>[2] = ToJoined("progress")
       /\ ToJoined("fail") \notin CountTasks /\ ToJoined("progress") \notin CountTasks
  BY DEF DoneAdd, FailAdd, ResolveFunc, ToJoined, Fire, CountTasks
<1>11. ASSUME NEW k \in 1..Len(s), s[k][2] \in CountTasks
       PROVE  (k = 1 /\ s[k][2].arg = 1) \/ (k = Len(v) + 1 /\ s[k][2].arg = 2)
  <2>1. CASE k \in 1..Len(v)
    <3>1. s[k] = v[k]
      BY <1>3, <2>1
    <3>2. k = 1 /\ v[k] = DoneAdd(as, 1)
      BY <1>5, <1>10, <1>11, <2>1, <3>1
    <3> QED BY <1>10, <3>1, <3>2
  <2>2. CASE k - Len(v) \in 1..Len(w) /\ s[k] = w[k - Len(v)]
    <3>1. PICK m \in 1..Len(w) : m = k - Len(v) /\ s[k] = w[m]
      BY <2>2
    <3>2. m = 1 /\ w[m] = DoneAdd(as, 2)
      BY <1>6, <1>10, <1>11, <3>1
    <3>3. k = Len(v) + 1
      BY <1>3, <3>1, <3>2
    <3> QED BY <1>10, <3>1, <3>2, <3>3
  <2> QED BY <1>4, <2>1, <2>2
<1>12. \A k, m \in 1..Len(s) : s[k][2] \in CountTasks /\ s[k] = s[m] => k = m
  <2>1. SUFFICES ASSUME NEW k \in 1..Len(s), NEW m \in 1..Len(s), s[k][2] \in CountTasks, s[k] = s[m]
                 PROVE  k = m
    OBVIOUS
  <2>2. PICK e : e = s[k] /\ e = s[m]
    BY <2>1
  <2>3. (k = 1 /\ e[2].arg = 1) \/ (k = Len(v) + 1 /\ e[2].arg = 2)
    BY <1>11, <2>1, <2>2
  <2>4. (m = 1 /\ e[2].arg = 1) \/ (m = Len(v) + 1 /\ e[2].arg = 2)
    BY <1>11, <2>1, <2>2
  <2>5. PICK a : a = e[2].arg
    OBVIOUS
  <2>6. (k = 1 /\ a = 1) \/ (k = Len(v) + 1 /\ a = 2)
    BY <2>3, <2>5
  <2>7. (m = 1 /\ a = 1) \/ (m = Len(v) + 1 /\ a = 2)
    BY <2>4, <2>5
  <2> QED BY ONLY <2>6, <2>7
<1>13. ASSUME NEW i \in Promises(as)
       PROVE  /\ \E k \in 1..Len(s) : s[k] = DoneAdd(as, i)
              /\ \E k \in 1..Len(s) : s[k] = FailAdd(as, i)
  <2>1. i = 1 \/ i = 2
    BY ArgsAre
  <2>2. CASE i = 1
    <3>1. Len(v) = 3 /\ v[1] = DoneAdd(as, i) /\ v[2] = FailAdd(as, i)
      BY <1>b, <1>13, <2>2
    <3>2. 1 \in 1..Len(v) /\ 2 \in 1..Len(v)
      BY <3>1
    <3>4. 1 \in 1..Len(s) /\ 2 \in 1..Len(s)
      <4>1. PICK n : n = Len(s)
        OBVIOUS
      <4>2. PICK m \in Nat : m = Len(w)
        BY <1>3
      <4>3. n = 3 + m
        BY <1>3, <3>1, <4>1, <4>2
      <4>4. 1 \in 1..n /\ 2 \in 1..n
        BY ONLY <4>2, <4>3
      <4> QED BY <4>1, <4>4
    <3>3. s[1] = v[1] /\ s[2] = v[2]
      BY <1>3, <3>2
    <3> QED BY <3>1, <3>2, <3>3, <3>4
  <2>3. CASE i = 2
    <3>1. Len(w) = 3 /\ w[1] = DoneAdd(as, i) /\ w[2] = FailAdd(as, i)
      BY <1>c, <1>13, <2>3
    <3>2. 1 \in 1..Len(w) /\ 2 \in 1..Len(w)
      BY <3>1
    <3>4. Len(v) + 1 \in 1..Len(s) /\ Len(v) + 2 \in 1..Len(s)
      <4>1. PICK n : n = Len(s)
        OBVIOUS
      <4>2. PICK m : m = Len(v)
        OBVIOUS
      <4>3. n = m + 3 /\ m \in Nat
        BY <1>3, <3>1, <4>1, <4>2
      <4>4. m + 1 \in 1..n /\ m + 2 \in 1..n
        BY ONLY <4>3
      <4> QED BY <4>1, <4>2, <4>4
    <3>3. s[Len(v) + 1] = w[1] /\ s[Len(v) + 2] = w[2]
      BY <1>3, <3>2
    <3> QED BY <3>1, <3>2, <3>3, <3>4
  <2> QED BY <2>1, <2>2, <2>3
<1> QED BY <1>9, <1>12, <1>13 DEF Awaits

WhenFires(C, F, C2, F2, n, v) == IF n = 0 THEN FiresOn(C, F, C2, F2, JDone, v) ELSE C2 = C

\* A call of when: its callbacks are to be added, or nothing is waited for.
LEMMA WhenStarts ==
  ASSUME DeferredAssumption, NEW as \in Pairs, NEW C, NEW F, NEW C2, NEW F2, NEW st, NEW th,
         NEW v \in Nat, NEW sc, sc = Wait(as, 1) \o Wait(as, 2), Struct(C, F),
         Agree(C, st), JoinInv(C, st, <<>>, <<>>, 0, th), NEW n, n = CountOf(as),
         WhenFires(C, F, C2, F2, n, v)
  PROVE  Keeps(C, C2, {}) /\ WhenInv(C2, st, sc, as, n, th)
<1>a. Idle(C, <<>>) /\ \A x \in Outcomes : C[x].on => C[x].open
  BY DEF JoinInv
<1>1. Keeps(C, C2, {})
  BY JoinedAre, FiresOnKept, SameKept DEF WhenFires
<1>2. PICK A \in SUBSET {1, 2} : A = Promises(as) /\ n = Size(A)
  BY CountIs
<1>3. n \in Nat /\ (n = 0 <=> A = {})
  BY <1>2, SizeIs
<1>4. ASSUME NEW l \in Lists, NEW j \in 1..Len(C2[l].list), C2[l].list[j] \in JoinTasks
      PROVE  FALSE
  <2>1. j \in 1..Len(C[l].list) /\ C2[l].list[j] = C[l].list[j]
    BY <1>1, <1>4 DEF Keeps, Kept
  <2> QED BY <1>a, <1>4, <2>1 DEF Idle
<1>5. /\ \A k \in 1..Len(sc) : sc[k] \in WhenAdds(as)
      /\ \A k, m \in 1..Len(sc) : sc[k][2] \in CountTasks /\ sc[k] = sc[m] => k = m
      /\ \A i \in Promises(as) : \E k \in 1..Len(sc) : sc[k] = DoneAdd(as, i)
      /\ \A i \in Promises(as) : \E k \in 1..Len(sc) : sc[k] = FailAdd(as, i)
  <2>1. Awaits(as, sc)
    BY WaitAll
  <2> QED BY <2>1 DEF Awaits
<1>6. Placed(C2, sc, as)
  BY <1>4, <1>5 DEF Placed
<1>7. ASSUME NEW a \in WhenAdds(as)
      PROVE  a[1] \in Lists
  <2>1. \A i \in Promises(as) : \A kind \in Kinds : <<as[i], kind>> \in Lists
    BY ArgsAre
  <2>2. \A x, y : <<x, y>>[1] = x
    OBVIOUS
  <2>3. ASSUME NEW i \in Promises(as), NEW kind \in Kinds, NEW f, a = <<<<as[i], kind>>, f>>
        PROVE  a[1] \in Lists
    BY <2>1, <2>2, <2>3
  <2>4. {"done", "fail", "progress"} \subseteq Kinds
    BY DEF Kinds
  <2>5. CASE \E i \in Promises(as) : a = DoneAdd(as, i)
    BY <2>3, <2>4, <2>5 DEF DoneAdd
  <2>6. CASE \E i \in Promises(as) : a = FailAdd(as, i)
    BY <2>3, <2>4, <2>6 DEF FailAdd
  <2>7. CASE \E i \in Promises(as) : a = <<<<as[i], "progress">>, ToJoined("progress")>>
    BY <2>3, <2>4, <2>7
  <2> QED BY <2>5, <2>6, <2>7 DEF WhenAdds
<1>8. CountTasks \subseteq JoinTasks
  BY DEF CountTasks, JoinTasks
<1>9. Once(C2, sc)
  <2>1. ASSUME NEW k \in 1..Len(sc), sc[k][2] \in CountTasks,
               NEW j \in 1..Len(C2[sc[k][1]].list), C2[sc[k][1]].list[j] = sc[k][2]
        PROVE  FALSE
    <3>1. sc[k][1] \in Lists
      BY <1>5, <1>7
    <3> QED BY <1>4, <1>8, <2>1, <3>1
  <2>2. \A l \in Lists : \A j, k \in 1..Len(C2[l].list) :
          C2[l].list[j] \in CountTasks /\ C2[l].list[j] = C2[l].list[k] => j = k
    BY <1>4, <1>8
  <2> QED BY <1>5, <2>1, <2>2 DEF Once
<1>10. \A i \in A : Coming(C2, sc, <<as[i], "done">>, ResolveFunc(i))
  BY <1>2, <1>5 DEF Coming, DoneAdd
<1>11. Counts(C2, st, sc, as, n, th, A)
  BY <1>2, <1>10 DEF Counts
<1>12. Fails(C2, sc, as, th)
  BY <1>5 DEF Fails, Coming, FailAdd
<1>13. ~Fired(C, JDone) /\ ~Fired(C, JFail)
  BY <1>a DEF Idle
<1>14. Joins(C2, st, as, n)
  <2>1. CASE n = 0
    <3>1. FiresOn(C, F, C2, F2, JDone, v)
      BY <2>1 DEF WhenFires
    <3>2. (Fired(C2, JDone) \/ Fired(C2, JFail)) /\ (Fired(C2, JFail) <=> Fired(C, JFail))
      BY <1>a, <3>1, JoinedAre, FiresJoined
    <3> QED BY <1>13, <2>1, <3>2 DEF Joins
  <2>2. CASE n # 0
    BY <1>13, <2>2 DEF Joins, WhenFires
  <2> QED BY <2>1, <2>2
<1> QED BY <1>1, <1>6, <1>9, <1>11, <1>12, <1>14 DEF WhenInv

\* when is called once, before pipe.
LEMMA WhenJoins ==
  ASSUME DeferredAssumption, IInv, JI, NEW as \in Pairs, When(as)
  PROVE  JI'
<1>1. /\ ops \in Nat /\ args = <<>> /\ script = <<>> /\ args' = as /\ count' = CountOf(as)
      /\ script' = Wait(as, 1) \o Wait(as, 2) /\ state' = state /\ thrown' = thrown
      /\ IF CountOf(as) = 0 THEN Goto(FireWith(Now, JDone, ops)) ELSE Goto(Now)
  BY DEF When, IInv, Typed, JDone
<1>2. Struct(cb, fires) /\ cb \in [Lists -> Cells] /\ Agree(cb, state)
  BY DEF IInv, Holds, Struct
<1>3. \A x \in Outcomes : cb[x].on => cb[x].open
  BY DEF JI, JoinInv
<1>4. PICK n : n = CountOf(as)
  OBVIOUS
<1>5. PICK C2 : C2 = cb'
  OBVIOUS
<1>6. PICK F2 : F2 = fires'
  OBVIOUS
<1>7. PICK sc : sc = Wait(as, 1) \o Wait(as, 2)
  OBVIOUS
<1>8. PICK m : m = FireWith([cb |-> cb, fires |-> fires], JDone, ops)
  OBVIOUS
<1>9. FiresOn(cb, fires, m.cb, m.fires, JDone, ops)
  BY <1>1, <1>2, <1>8, JoinedAre, FireIs
<1>10. IF n = 0 THEN FiresOn(cb, fires, C2, F2, JDone, ops) ELSE C2 = cb
  BY <1>1, <1>4, <1>5, <1>6, <1>8, <1>9 DEF Goto, Now
<1>a. JoinInv(cb, state, <<>>, <<>>, 0, thrown)
  BY <1>1, NoArgs DEF JI, JoinInv
<1>b. WhenFires(cb, fires, C2, F2, n, ops)
  BY <1>10 DEF WhenFires
<1>c. as \in Pairs /\ ops \in Nat
  BY <1>1
<1>11. Keeps(cb, C2, {}) /\ WhenInv(C2, state, sc, as, n, thrown)
  BY ONLY DeferredAssumption, <1>2, <1>4, <1>7, <1>a, <1>b, <1>c, WhenStarts
<1>12. \A x \in Outcomes : C2[x].on => C2[x].open
  BY <1>3, <1>11, OpenKept
<1>13. as # <<>>
  BY NoArgs
<1>14. JoinInv(C2, state, sc, as, n, thrown)
  BY <1>11, <1>12, <1>13 DEF JoinInv
<1> QED BY <1>1, <1>4, <1>5, <1>7, <1>14 DEF JI

\* Every action, by the lemma of its operation.
LEMMA NextJoins ==
  ASSUME DeferredAssumption, IInv, JI, [Next]_vars
  PROVE  JI'
<1>1. CASE UNCHANGED vars
  BY <1>1 DEF vars, joining, JI
<1>2. ASSUME NEW l \in Lists, AddCallback(l)
      PROVE  JI'
  BY <1>2, AddCallbackJoins
<1>3. ASSUME NEW d \in Raw, NEW kind \in Kinds, FireList(d, kind)
      PROVE  JI'
  BY <1>3, FireListJoins
<1>4. ASSUME NEW as \in Pairs, When(as)
      PROVE  JI'
  BY <1>4, WhenJoins
<1>5. ASSUME NEW d \in Raw, NEW kinds \in SUBSET Kinds, Pipe(d, kinds)
      PROVE  JI'
  BY <1>5, PipeJoins
<1>6. CASE ScriptAdds
  BY <1>6, ScriptAddsJoins
<1>7. CASE CallPage
  BY <1>7, CallPageJoins
<1>8. CASE PageReturns
  BY <1>8, PageReturnsJoins
<1>9. CASE PipedReturns
  BY <1>9, PipedReturnsJoins
<1>10. CASE FireEnds
  BY <1>10, FireEndsJoins
<1>11. CASE PageThrows
  BY <1>11, PageThrowsJoins
<1>12. CASE Looping /\ CallOwn(NextCallback)
  BY <1>12, CallOwnJoins
<1> QED BY <1>1, <1>2, <1>3, <1>4, <1>5, <1>6, <1>7, <1>8, <1>9, <1>10, <1>11, <1>12 DEF Next, Pairs

\* Once nothing runs, and nothing threw, a list that has fired has no callback left, and its
\* deferred has settled.
LEMMA QuietFired ==
  ASSUME DeferredAssumption, IInv, Quiet, ~thrown, NEW l \in Outcomes, Fired(cb, l)
  PROVE  state[l[1]] = Outcome(l[2]) /\ \A f : ~Coming(cb, script, l, f)
<1>1. l \in Lists /\ l[2] # "progress" /\ fires = <<>> /\ script = <<>>
  BY DEF Outcomes, Quiet
<1>2. PICK c \in Cells : c = cb[l] /\ CellOK(l, c)
  BY <1>1 DEF IInv, Holds, Struct
<1>3. c.on /\ c.memory # NoValue
  BY <1>2 DEF Fired
<1>4. Len(fires) = 0 /\ Len(script) = 0
  BY <1>1
<1>5. Mode(fires, l) = "none"
  BY <1>4 DEF Mode
<1>6. ~c.firing
  <2>1. ListInv(l, cb[l], Mode(fires, l), added[l], called[l], ops, thrown)
    BY <1>1 DEF IInv, Holds, Ordered
  <2> QED BY <1>2, <1>5, <2>1 DEF ListInv
<1>7. Len(c.list) = 0
  <2>1. c.list = <<>>
    BY <1>1, <1>2, <1>3, <1>6 DEF CellOK
  <2> QED BY <2>1
<1>8. \A f : ~Coming(cb, script, l, f)
  BY <1>2, <1>3, <1>4, <1>7 DEF Coming
<1>9. HasSettled(cb, state, l)
  BY <1>1 DEF IInv, Holds, SettlesOrHas, Settling
<1> QED BY <1>8, <1>9 DEF HasSettled

\* What the counts of when show.
LEMMA JoinsAllHolds ==
  ASSUME DeferredAssumption, IInv, JI
  PROVE  JoinsAll
<1>1. SUFFICES ASSUME Len(args) = 2
               PROVE  LET of(s) == {i \in Promises(args) : state[args[i]] = s} IN
                      /\ state[Joined] = "resolved" => of("resolved") = Promises(args)
                      /\ state[Joined] = "rejected" => of("rejected") # {}
                      /\ Quiet /\ ~thrown /\ of("resolved") = Promises(args) =>
                           state[Joined] = "resolved"
                      /\ Quiet /\ ~thrown /\ of("rejected") # {} => state[Joined] = "rejected"
  BY DEF JoinsAll
<1>2. PICK as \in Pairs : as = args
  <2>1. Len(<<>>) = 0 /\ \A d : Len(<<d>>) = 1
    OBVIOUS
  <2>2. args \in {<<>>} \cup {<<d>> : d \in Raw} \cup Pairs
    BY DEF JI, JoinInv
  <2> QED BY <1>1, <2>1, <2>2
<1>3. WhenInv(cb, state, script, as, count, thrown)
  BY <1>2 DEF JI, JoinInv
<1>4. PICK A \in SUBSET {1, 2} : Counts(cb, state, script, as, count, thrown, A)
  BY <1>3 DEF WhenInv
<1>5. Joins(cb, state, as, count) /\ Fails(cb, script, as, thrown)
  BY <1>3 DEF WhenInv
<1>6. count = 0 <=> A = {}
  BY <1>4, SizeIs DEF Counts
<1>7. A = {} => \A i \in Promises(as) : state[as[i]] = "resolved"
  BY <1>4 DEF Counts
<1>8. JDone \in Outcomes /\ JFail \in Outcomes /\ JDone[1] = Joined /\ JFail[1] = Joined
      /\ Outcome(JDone[2]) = "resolved" /\ Outcome(JFail[2]) = "rejected"
  BY JoinedAre DEF JDone, JFail, Outcome
<1>9. ASSUME NEW i \in Promises(as)
      PROVE  /\ <<as[i], "done">> \in Outcomes /\ <<as[i], "fail">> \in Outcomes
             /\ state[as[i]] = "resolved" => Fired(cb, <<as[i], "done">>)
             /\ state[as[i]] = "rejected" => Fired(cb, <<as[i], "fail">>)
  <2>1. PICK d : d = as[i]
    OBVIOUS
  <2>2. PICK x : x = <<d, "done">>
    OBVIOUS
  <2>3. PICK y : y = <<d, "fail">>
    OBVIOUS
  <2>4. x \in Outcomes /\ x[1] = d /\ x[2] = "done" /\ y \in Outcomes /\ y[1] = d /\ y[2] = "fail"
    BY <2>1, <2>2, <2>3, ArgsAre DEF Outcomes, Kinds
  <2>5. Agree(cb, state)
    BY DEF IInv, Holds
  <2>6. /\ state[d] = "resolved" => Fired(cb, x)
        /\ state[d] = "rejected" => Fired(cb, y)
    BY <2>4, <2>5 DEF Agree, Outcome
  <2> QED BY <2>1, <2>2, <2>3, <2>4, <2>6
<1>10. /\ state[Joined] = "resolved" => Fired(cb, JDone)
       /\ state[Joined] = "rejected" => Fired(cb, JFail)
  <2>1. Agree(cb, state)
    BY DEF IInv, Holds
  <2> QED BY <1>8, <2>1 DEF Agree
<1>11. ASSUME Quiet, ~thrown
       PROVE  /\ Fired(cb, JDone) => state[Joined] = "resolved"
              /\ Fired(cb, JFail) => state[Joined] = "rejected"
  BY <1>8, <1>11, QuietFired
<1>12. state[Joined] = "resolved" => \A i \in Promises(as) : state[as[i]] = "resolved"
  BY <1>5, <1>6, <1>7, <1>10 DEF Joins
<1>13. state[Joined] = "rejected" => \E i \in Promises(as) : state[as[i]] = "rejected"
  BY <1>5, <1>10 DEF Joins
<1>14. ASSUME Quiet, ~thrown, \A i \in Promises(as) : state[as[i]] = "resolved"
       PROVE  state[Joined] = "resolved"
  <2>1. A = {}
    <3>1. SUFFICES ASSUME NEW i \in A
                   PROVE  FALSE
      OBVIOUS
    <3>2. i \in Promises(as) /\ Coming(cb, script, <<as[i], "done">>, ResolveFunc(i))
      BY <1>4, <1>14 DEF Counts
    <3>3. PICK x \in Outcomes : x = <<as[i], "done">> /\ Fired(cb, x)
      BY <1>9, <1>14, <3>2
    <3> QED BY <1>14, <3>2, <3>3, QuietFired
  <2>2. Fired(cb, JDone) \/ Fired(cb, JFail)
    BY <1>5, <1>6, <2>1 DEF Joins
  <2>3. ~Fired(cb, JFail)
    BY <1>5, <1>14 DEF Joins
  <2> QED BY <1>11, <1>14, <2>2, <2>3
<1>15. ASSUME Quiet, ~thrown, NEW i \in Promises(as), state[as[i]] = "rejected"
       PROVE  state[Joined] = "rejected"
  <2>1. PICK x \in Outcomes : x = <<as[i], "fail">> /\ Fired(cb, x)
    BY <1>9, <1>15
  <2>2. ~Coming(cb, script, <<as[i], "fail">>, ToJoined("fail"))
    BY <1>15, <2>1, QuietFired
  <2>3. Fired(cb, JFail) \/ Fired(cb, JDone)
    BY <1>5, <1>15, <2>2 DEF Fails
  <2>4. ~Fired(cb, JDone)
    BY <1>5, <1>6, <1>7, <1>15 DEF Joins
  <2> QED BY <1>11, <1>15, <2>3, <2>4
<1>16. /\ state[Joined] = "resolved" => {i \in Promises(as) : state[as[i]] = "resolved"} = Promises(as)
       /\ state[Joined] = "rejected" => {i \in Promises(as) : state[as[i]] = "rejected"} # {}
       /\ Quiet /\ ~thrown /\ {i \in Promises(as) : state[as[i]] = "resolved"} = Promises(as) =>
            state[Joined] = "resolved"
       /\ Quiet /\ ~thrown /\ {i \in Promises(as) : state[as[i]] = "rejected"} # {} =>
            state[Joined] = "rejected"
  BY <1>12, <1>13, <1>14, <1>15
<1> QED BY <1>2, <1>16

\* The promise of when settles as its arguments do, for any number of deferreds, whatever
\* callbacks call before when is called, while it waits and while it fires (resolveFunc,
\* firstParam of when; only an exception keeps it from what its arguments became).
THEOREM DeferredsSettleHolds ==
  ASSUME DeferredAssumption
  PROVE  Spec => []DeferredsSettle
<1>1. Init => JI
  BY InitJoins
<1>2. IInv /\ JI /\ [Next]_vars => JI'
  BY NextJoins
<1>3. IInv /\ JI => DeferredsSettle
  BY IInvSettlesOnce, JoinsAllHolds DEF DeferredsSettle
<1> QED BY <1>1, <1>2, <1>3, Inductive, PTL DEF Spec
=============================================================================
