-------------------------- MODULE DeferredObjects --------------------------
(***************************************************************************)
(* jQuery.Deferred, pipe and jQuery.when of jQuery 1.7 over CallbackLists. *)
(* A deferred has three lists; its own callbacks, first in done and fail,  *)
(* set its state, disable the list of the other outcome and lock progress. *)
(* The page makes at most MaxOps calls, from its scripts or from callbacks *)
(* that a fire has called, and names its callbacks by the call that added  *)
(* them.  Raw deferreds are the page's to resolve, Joined is what one when *)
(* or pipe returns.                                                        *)
(***************************************************************************)
EXTENDS CallbackLists

CONSTANTS Raw, Joined, MaxOps

VARIABLES
  state,   \* state of each deferred
  args,    \* the deferreds that when or pipe was called with
  count,   \* the count of when
  script,  \* adds that a call of when or pipe, or a pipe handler, has still to make
  depth,   \* the frames under that call
  ops,     \* calls the page has made
  added, called,  \* history: callbacks added to each list, calls made from it
  thrown   \* history: an exception left a fire

Deferreds == Raw \cup {Joined}
Kinds     == {"done", "fail", "progress"}

joining == <<args, count, script, depth>>
vars    == <<cb, fires, joining, state, ops, added, called, thrown>>

Outcome(kind) == IF kind = "done" THEN "resolved" ELSE "rejected"
Other(kind)   == IF kind = "done" THEN "fail" ELSE "done"

\* Callbacks: of the page, and of jQuery.
PageCallback(id) == [do |-> "page", id |-> id]
SetState(d, to)  == [do |-> "state", d |-> d, to |-> to]
Disable(l)       == [do |-> "disable", list |-> l]
Lock(l)          == [do |-> "lock", list |-> l]
Fire(l)          == [do |-> "fire", list |-> l]
ResolveFunc(i)   == [do |-> "count", arg |-> i]
Piped(l)         == [do |-> "piped", list |-> l]

\* Lists are created as jQuery.Deferred does; what has no value is no number and no deferred.
DeferredAssumption ==
  /\ Lists = Deferreds \X Kinds /\ Joined \notin Raw
  /\ Flags = [l \in Lists |-> IF l[2] = "progress" THEN {"memory"} ELSE {"once", "memory"}]
  /\ MaxOps \in Nat /\ NoValue \notin Nat /\ Plain \notin Nat \cup Deferreds /\ Plain # NoValue
  /\ NoCallback \notin [do : {"page"}, id : Nat] \cup [do : {"piped"}, list : Lists]

OwnCallbacks(d, kind) ==
  IF kind = "progress" THEN <<>>
  ELSE <<SetState(d, Outcome(kind)), Disable(<<d, Other(kind)>>), Lock(<<d, "progress">>)>>

Init ==
  /\ cb = [l \in Lists |-> NewList(OwnCallbacks(l[1], l[2]))]
  /\ fires = <<>> /\ state = [d \in Deferreds |-> "pending"]
  /\ args = <<>> /\ count = 0 /\ script = <<>> /\ depth = 0 /\ ops = 0
  /\ added = [l \in Lists |-> <<>>] /\ called = [l \in Lists |-> <<>>]
  /\ thrown = FALSE

TypeOK ==
  /\ \A l \in Lists : cb[l].on \/ cb[l].list = <<>>
  /\ \A i \in DOMAIN fires : fires[i].list \in Lists /\ cb[fires[i].list].firing
  /\ state \in [Deferreds -> {"pending", "resolved", "rejected"}]
  /\ count \in 0..Len(args) /\ ops \in 0..MaxOps
-----------------------------------------------------------------------------

\* Nothing of a when or pipe is left to do before the running code goes on.
ScriptDone == script = <<>> \/ Len(fires) > depth

PageCalls ==
  /\ PageRuns /\ ScriptDone /\ ops < MaxOps
  /\ ops' = ops + 1

\* done, fail and progress; then and always are several of them.
AddCallback(l) ==
  /\ PageCalls
  /\ l[1] = Joined => args # <<>> /\ script = <<>>   \* when and pipe return the promise
  /\ Goto(Add(Now, l, PageCallback(ops)))
  /\ added' = [added EXCEPT ![l] = Append(@, ops)]
  /\ UNCHANGED <<joining, state, called, thrown>>

\* resolve, reject and notify.
FireList(d, kind) ==
  /\ PageCalls
  /\ Goto(FireWith(Now, <<d, kind>>, ops))
  /\ UNCHANGED <<joining, state, added, called, thrown>>

Then(d, onDone, onFail, onProgress) ==
  << <<<<d, "done">>, onDone>>, <<<<d, "fail">>, onFail>>, <<<<d, "progress">>, onProgress>> >>

ToJoined(kind) == Fire(<<Joined, kind>>)

\* Mutant: an argument that is no promise is waited for.
WaitFor(as) == Len(as)

\* What when adds to an argument; one that is no promise is passed by.
Wait(as, i) ==
  IF as[i] = Plain THEN <<>>
  ELSE Then(as[i], ResolveFunc(i), ToJoined("fail"), ToJoined("progress"))

Promises(as) == {i \in DOMAIN as : as[i] # Plain}

CountOf(as) == Cardinality(Promises(as))

\* An argument that is no promise, Plain, counts at once.
When(as) ==
  /\ PageCalls /\ args = <<>> /\ script = <<>>
  /\ args' = as /\ depth' = Len(fires) /\ count' = CountOf(as)
  /\ script' = Wait(as, 1) \o Wait(as, 2)
  /\ IF CountOf(as) = 0 THEN Goto(FireWith(Now, <<Joined, "done">>, ops)) ELSE Goto(Now)
  /\ UNCHANGED <<state, added, called, thrown>>

\* The kinds for which pipe is given a function.
Pipe(d, kinds) ==
  LET handler(kind) == IF kind \in kinds THEN Piped(<<Joined, kind>>) ELSE ToJoined(kind)
  IN  /\ PageCalls /\ args = <<>> /\ script = <<>>
      /\ args' = <<d>> /\ depth' = Len(fires)
      /\ script' = Then(d, handler("done"), handler("fail"), handler("progress"))
      /\ UNCHANGED <<cb, fires, state, count, added, called, thrown>>

\* The next add of a when or pipe that runs.
ScriptAdds ==
  /\ script # <<>> /\ Len(fires) = depth
  /\ Goto(Add(Now, Head(script)[1], Head(script)[2]))
  /\ script' = Tail(script)
  /\ UNCHANGED <<state, args, count, depth, ops, added, called, thrown>>
-----------------------------------------------------------------------------
CallPage ==
  /\ ScriptDone /\ Call /\ NextCallback.do \in {"page", "piped"}
  /\ called' = IF NextCallback.do = "piped" THEN called
               ELSE [called EXCEPT ![TopFire.list] = Append(@, <<NextCallback.id, TopFire.value>>)]
  /\ UNCHANGED <<joining, ops, added, thrown, state>>

\* A callback of jQuery does its work and returns at once, or begins a fire.
CallOwn(f) ==
  /\ ScriptDone /\ Looping /\ ~CallsUndefined /\ f = NextCallback
  /\ \/ f.do = "state" /\ state' = [state EXCEPT ![f.d] = f.to] /\ Goto(Stepped) /\ UNCHANGED count
     \/ /\ UNCHANGED <<state, count>>
        /\ \/ f.do = "disable" /\ Goto([Stepped EXCEPT !.cb[f.list] = Disabled(@)])
           \/ f.do = "lock"    /\ Goto([Stepped EXCEPT !.cb[f.list] = Locked(@)])
           \/ f.do = "fire"    /\ Goto(FireWith(Stepped, f.list, TopFire.value))
     \/ /\ f.do = "count" /\ count' = count - 1 /\ UNCHANGED state
        /\ Goto(IF count = 1 THEN FireWith(Stepped, <<Joined, "done">>, TopFire.value) ELSE Stepped)
  /\ UNCHANGED <<args, script, depth, ops, added, called, thrown>>

PageReturns ==
  /\ ScriptDone /\ Returns(FALSE) /\ TopFire.in.do = "page"
  /\ UNCHANGED <<joining, state, ops, added, called, thrown>>

\* A function given to pipe returns a value, or the deferred r to wait for.
PipedReturns ==
  /\ ScriptDone /\ fires # <<>> /\ TopFire.in # NoCallback /\ TopFire.in.do = "piped"
  /\ \/ Goto(FireWith(Stepped, TopFire.in.list, TopFire.value)) /\ UNCHANGED <<script, depth>>
     \/ \E r \in Raw :
          /\ script = <<>>
          /\ script' = Then(r, ToJoined("done"), ToJoined("fail"), ToJoined("progress"))
          /\ depth' = Len(fires) /\ Goto(Stepped)
  /\ UNCHANGED <<state, args, count, ops, added, called, thrown>>

FireEnds == ScriptDone /\ EndFire /\ UNCHANGED <<joining, state, ops, added, called, thrown>>

\* The exception also leaves a when or pipe that it passes.
PageThrows ==
  /\ ScriptDone /\ Throw /\ thrown' = TRUE
  /\ script' = IF Len(fires') < depth THEN <<>> ELSE script
  /\ UNCHANGED <<args, count, depth, state, ops, added, called>>

Next ==
  \/ \E l \in Lists : AddCallback(l)
  \/ \E d \in Raw, kind \in Kinds : FireList(d, kind)
  \/ \E as \in (Raw \cup {Plain}) \X (Raw \cup {Plain}) : When(as)
  \/ \E d \in Raw, kinds \in SUBSET Kinds : Pipe(d, kinds)
  \/ ScriptAdds \/ CallPage \/ PageReturns \/ PipedReturns \/ FireEnds \/ PageThrows
  \/ Looping /\ CallOwn(NextCallback)

Spec == Init /\ [][Next]_vars
-----------------------------------------------------------------------------
Ids(l)    == [i \in DOMAIN called[l] |-> called[l][i][1]]
Quiet     == fires = <<>> /\ script = <<>>
Settled   == {"done", "fail"}

\* Whatever callbacks do while a deferred settles, it settles once: callbacks of both
\* outcomes are never called, and all are called with the one value of the first
\* resolve or reject, which those that are still to come will get.
SettlesOnce ==
  \A d \in Deferreds :
    /\ called[<<d, "done">>] = <<>> \/ called[<<d, "fail">>] = <<>>
    /\ \A kind \in Settled : \A i \in DOMAIN called[<<d, kind>>] :
         called[<<d, kind>>][i][2] = cb[<<d, kind>>].memory

\* Callbacks of an outcome are called once each, in the order in which they were added,
\* those added by callbacks that run and those added afterwards included; unless one
\* threw, none is left out.
CalledInOrder ==
  \A d \in Deferreds, kind \in Settled :
    /\ IsPrefix(Ids(<<d, kind>>), added[<<d, kind>>])
    /\ Quiet /\ ~thrown /\ state[d] = Outcome(kind) => Ids(<<d, kind>>) = added[<<d, kind>>]

\* A progress callback gets each notification at most once and in the order in which they
\* were made, however notify is called from progress callbacks.
NotifiesInOrder ==
  \A d \in Raw : LET c == called[<<d, "progress">>] IN
    \A i, j \in DOMAIN c : i < j /\ c[i][1] = c[j][1] => c[i][2] < c[j][2]

\* The promise of when is resolved exactly when all its arguments are, and rejected only
\* when one is.
JoinsAll ==
  Len(args) = 2 =>
    LET of(s) == {i \in Promises(args) : state[args[i]] = s}
    IN  /\ state[Joined] = "resolved" => of("resolved") = Promises(args)
        /\ state[Joined] = "rejected" => of("rejected") # {}
        /\ Quiet /\ ~thrown /\ of("resolved") = Promises(args) => state[Joined] = "resolved"
        /\ Quiet /\ ~thrown /\ of("rejected") # {} => state[Joined] = "rejected"

\* Whatever callbacks do to deferreds that call them, a deferred settles once, every callback
\* of its outcome is called with that value, and when settles as what it was given does.
DeferredsSettle == SettlesOnce /\ JoinsAll

\* Callbacks that are added, and fires that come, while a list fires wait for their turn:
\* callbacks of an outcome are called in the order in which they were added, notifications
\* reach each callback in the order in which they came.
OrderKept == CalledInOrder /\ NotifiesInOrder
=============================================================================
