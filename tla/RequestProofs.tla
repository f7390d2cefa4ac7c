--------------------------- MODULE RequestProofs ---------------------------
(***************************************************************************)
(* Theorems of AjaxRequest, for any number of requests, any options and    *)
(* any depth of calls, of DataTypes, for any types, options,               *)
(* registrations, redirections and transports that TypesAssumption allows, *)
(* and of EventDispatch, for any elements, event types and bindings and    *)
(* any number of calls that EventsAssumption allows.  The three share no   *)
(* state.                                                                  *)
(*                                                                         *)
(* The argument for DataTypes: the stack of inspections has one inspection *)
(* of a type, and the places of a type that it has passed, or all of them  *)
(* when it is gone, are exactly those that have been run (Run).  The       *)
(* search for a transport has one inspection, whose place counts the       *)
(* candidates that were tried and do not serve.  The conversion keeps that *)
(* the value it has is of the type it has come to, and the end of the      *)
(* chain stays the type that was asked for last.                           *)
(*                                                                         *)
(* The argument for EventDispatch: what is counted beside the lists of     *)
(* handlers agrees with them (Agrees), and every event on the stack goes   *)
(* through places of its way, and handlers, that were there when it took   *)
(* its list of them (OnStack).                                             *)
(***************************************************************************)
EXTENDS AjaxRequest, DataTypes, EventDispatch, SequenceTheorems, FiniteSetTheorems,
        WellFoundedInduction, TLAPS

AjaxSteps == {"global", "beforeSend", "allowed", "install", "transport", "send"}
DoneSteps == {"settle", "event", "complete", "ajaxComplete", "counter", "stopped"}

Frames ==
  [op : {"ajax", "done"}, of : Requests, in : {"jQuery", "page"}, ok : BOOLEAN,
   at : AjaxSteps \cup DoneSteps]

\* Everything has its type, and what is not begun yet is as in the initial state.
Typed ==
  /\ begun \in Nat /\ 1..begun \subseteq Requests
  /\ options \in [Requests -> Options] /\ stage \in [Requests -> 0..2]
  /\ transport \subseteq Requests /\ callbacks \subseteq Requests /\ timers \subseteq Requests
  /\ counted \subseteq 1..begun /\ completed \subseteq Requests /\ loading \subseteq 1..begun
  /\ deferred \in [Requests -> {"pending", "resolved", "rejected"}]
  /\ active \in Int
  /\ window \in [JsonpNames -> Requests \cup {None}]
  /\ previous \in [Requests -> Requests \cup {None}]
  /\ container \in [Requests -> Requests \cup {None}]
  /\ frames \in Seq(Frames)
  /\ reopened \subseteq Requests /\ shared \subseteq Requests /\ threw \in BOOLEAN

Unbegun ==
  /\ \A i \in DOMAIN frames : frames[i].of <= begun
  /\ \A n \in JsonpNames : window[n] # None => window[n] <= begun
  /\ \A r \in Requests : r > begun =>
       /\ stage[r] # 2 /\ deferred[r] = "pending" /\ container[r] = None /\ previous[r] = None
       /\ r \notin reopened \cup shared \cup transport \cup callbacks \cup timers

\* A request is begun once, and counted only after the frame of its ajax has passed there.
BegunOnce ==
  /\ \A i, j \in DOMAIN frames :
       frames[i].op = "ajax" /\ frames[j].op = "ajax" /\ frames[i].of = frames[j].of => i = j
  /\ \A i \in DOMAIN frames :
       frames[i].op = "ajax" /\ frames[i].at = "global" => frames[i].of \notin counted
  /\ \A r \in counted : Global(r)

\* Unless it was sent after it was done, done of a request runs once, from the time its state
\* is 2, and settles the deferred.
DoneOnce ==
  /\ \A r \in Requests \ reopened : stage[r] # 2 => deferred[r] = "pending"
  /\ \A i \in DOMAIN frames : frames[i].op = "done" /\ frames[i].of \notin reopened =>
       /\ stage[frames[i].of] = 2
       /\ frames[i].at = "settle" => deferred[frames[i].of] = "pending"
       /\ \A j \in DOMAIN frames : frames[j].op = "done" /\ frames[j].of = frames[i].of => i = j

\* Counted requests that have not left the counter.
Ends(f, r) == f.op = "done" /\ f.of = r /\ f.at # "stopped"
Open       == {r \in counted : stage[r] # 2 \/ \E i \in DOMAIN frames : Ends(frames[i], r)}

CounterExact ==
  reopened = {} => active >= Cardinality(Open) /\ (~threw => active = Cardinality(Open))

\* What leaves the counter was counted; what is done has run its complete callbacks, or will.
Completes(f, r) == f.op = "done" /\ f.of = r /\ f.at \in {"settle", "event", "complete"}
CountedOnes ==
  /\ \A i \in DOMAIN frames :
       frames[i].op = "done" /\ frames[i].at = "counter" => frames[i].of \in counted
  /\ ~threw => \A r \in counted : stage[r] = 2 =>
       r \in completed \/ \E i \in DOMAIN frames : Completes(frames[i], r)

TimersSent == \A r \in timers : stage[r] = 1

\* Nothing runs between the checks of a request that is sent as a script.
Script(r) == options[r].transport = "script"
Sending(f) == f.op = "ajax" /\ Script(f.of) /\ f.at \in {"beforeSend", "install", "transport", "send"}
ScriptsSent ==
  /\ \A i \in DOMAIN frames : Sending(frames[i]) => i = Len(frames) /\ frames[i].in = "jQuery" /\ stage[frames[i].of] # 2
  /\ \A r \in Requests : Script(r) => r \notin reopened

Live(r) == r \in loading \/ deferred[r] = "pending"
OwnNames ==
  /\ \A r \in Requests : previous[r] # None => previous[r] \in shared
  /\ \A n \in JsonpNames : window[n] # None /\ window[n] \notin shared =>
       deferred[window[n]] = "pending" /\ options[window[n]].name = n
  /\ \A q, r \in 1..begun : q # r /\ options[q].name = options[r].name /\ options[q].name # None
       /\ Live(q) /\ Live(r) => q \in shared /\ r \in shared

Contained ==
  /\ \A r \in Requests \ shared : container[r] \in {None, r}
  /\ \A r \in Requests : deferred[r] = "resolved" /\ options[r].name # None => container[r] # None
  /\ \A i \in DOMAIN frames : frames[i].op = "done" /\ frames[i].ok
       /\ options[frames[i].of].name # None => container[frames[i].of] # None

IInv ==
  /\ Unbegun /\ BegunOnce /\ DoneOnce /\ EventsAgree /\ CounterExact /\ CountedOnes
  /\ TimersSent /\ ScriptsSent /\ OwnNames /\ Contained
-----------------------------------------------------------------------------
\* What the first n of a sequence are.
LEMMA Cut ==
  ASSUME NEW S, NEW s \in Seq(S), NEW n \in 0..Len(s)
  PROVE  /\ SubSeq(s, 1, n) \in Seq(S) /\ Len(SubSeq(s, 1, n)) = n
         /\ \A i \in 1..n : SubSeq(s, 1, n)[i] = s[i]
OBVIOUS

\* The frames after a call has gone on, has returned, was begun, or was given up.
LEMMA Replaced ==
  ASSUME frames \in Seq(Frames), frames # <<>>, NEW g \in Frames, frames' = Append(Rest, g)
  PROVE  /\ frames' \in Seq(Frames) /\ frames' # <<>>
         /\ Len(frames) \in Nat \ {0} /\ Len(frames') = Len(frames)
         /\ Top = frames[Len(frames)] /\ Top \in Frames
         /\ \A i \in 1..(Len(frames) - 1) : frames'[i] = frames[i]
         /\ frames'[Len(frames)] = g
<1>1. Len(frames) \in Nat \ {0}
  OBVIOUS
<1>2. /\ Rest \in Seq(Frames) /\ Len(Rest) = Len(frames) - 1
      /\ \A i \in 1..(Len(frames) - 1) : Rest[i] = frames[i]
  <2>1. Len(frames) - 1 \in 0..Len(frames)
    BY <1>1
  <2> QED BY <2>1, Cut DEF Rest, Front
<1>3. Top = frames[Len(frames)] /\ Top \in Frames
  BY <1>1 DEF Top, Last
<1> QED BY <1>1, <1>2, <1>3

LEMMA Popped ==
  ASSUME frames \in Seq(Frames), frames # <<>>, frames' = Rest
  PROVE  /\ frames' \in Seq(Frames)
         /\ Len(frames) \in Nat \ {0} /\ Len(frames') = Len(frames) - 1
         /\ Top = frames[Len(frames)] /\ Top \in Frames
         /\ \A i \in 1..(Len(frames) - 1) : frames'[i] = frames[i]
<1>1. Len(frames) \in Nat \ {0}
  OBVIOUS
<1>2. /\ Rest \in Seq(Frames) /\ Len(Rest) = Len(frames) - 1
      /\ \A i \in 1..(Len(frames) - 1) : Rest[i] = frames[i]
  <2>1. Len(frames) - 1 \in 0..Len(frames)
    BY <1>1
  <2> QED BY <2>1, Cut DEF Rest, Front
<1>3. Top = frames[Len(frames)] /\ Top \in Frames
  BY <1>1 DEF Top, Last
<1> QED BY <1>1, <1>2, <1>3

LEMMA Pushed ==
  ASSUME frames \in Seq(Frames), NEW g \in Frames, frames' = Append(frames, g)
  PROVE  /\ frames' \in Seq(Frames) /\ frames' # <<>>
         /\ Len(frames) \in Nat /\ Len(frames') = Len(frames) + 1
         /\ \A i \in 1..Len(frames) : frames'[i] = frames[i]
         /\ frames'[Len(frames) + 1] = g
OBVIOUS

LEMMA Unwound ==
  ASSUME frames \in Seq(Frames), NEW n \in 0..Len(frames), frames' = SubSeq(frames, 1, n)
  PROVE  /\ frames' \in Seq(Frames) /\ Len(frames') = n
         /\ \A i \in 1..n : frames'[i] = frames[i]
BY Cut

LEMMA FrameTyped ==
  ASSUME Typed
  PROVE  /\ Len(frames) \in Nat /\ DOMAIN frames = 1..Len(frames)
         /\ \A i \in 1..Len(frames) : frames[i] \in Frames /\ frames[i].of \in Requests
<1>1. /\ Len(frames) \in Nat /\ DOMAIN frames = 1..Len(frames)
      /\ \A i \in 1..Len(frames) : frames[i] \in Frames
  BY DEF Typed
<1>2. \A f \in Frames : f.of \in Requests
  BY DEF Frames
<1> QED BY <1>1, <1>2

\* done of a request that is not done yet, called from page code, from a step of its ajax, or
\* by the browser.
LEMMA DoneKeeps ==
  ASSUME AjaxAssumption, Typed, IInv, NEW r \in 1..begun, NEW status, NEW n \in 0..Len(frames),
         \A i \in 1..n : ~Sending(frames[i]),
         \A i \in (n+1)..Len(frames) : frames[i].op = "ajax",
         stage[r] # 2, Done(r, status, SubSeq(frames, 1, n)), callbacks' \subseteq callbacks,
         UNCHANGED <<begun, options, counted, deferred, completed, active, jsonp, history>>
  PROVE  Typed' /\ IInv'
<1> DEFINE cut == SubSeq(frames, 1, n)
           L == Len(frames)
<1>1. /\ cut \in Seq(Frames) /\ Len(cut) = n /\ \A i \in 1..n : cut[i] = frames[i]
      /\ L \in Nat /\ DOMAIN frames = 1..L
  BY Cut DEF Typed
<1>2. PICK ok \in BOOLEAN :
        /\ frames' = Append(cut, Frame("done", r, "settle", "jQuery", ok))
        /\ ok /\ options[r].name # None => container[r] # None
  BY DEF Done, Outcomes
<1> HIDE DEF cut
<1> DEFINE f == Frame("done", r, "settle", "jQuery", ok)
<1>3. f \in Frames /\ f.op = "done" /\ f.of = r /\ f.at = "settle" /\ f.in = "jQuery" /\ f.ok = ok
  BY DEF Frame, Frames, DoneSteps, Typed
<1> HIDE DEF f
<1>4. stage' = [stage EXCEPT ![r] = 2] /\ transport' = transport \ {r} /\ timers' = timers \ {r}
  BY DEF Done
<1>5. /\ DOMAIN frames' = 1..(n+1) /\ Len(frames') = n + 1 /\ frames' \in Seq(Frames)
      /\ \A i \in 1..n : frames'[i] = frames[i]
      /\ frames'[n + 1] = f
  BY <1>1, <1>2, <1>3 DEF f
<1>6. Typed'
  BY <1>4, <1>5 DEF Typed, jsonp, history
<1>7. /\ r \in Requests /\ begun \in Nat /\ counted \subseteq Requests /\ timers \subseteq Requests
      /\ n \in Nat /\ \A i \in 1..L : frames[i].of \in Requests
      /\ \A q \in Requests : stage'[q] = IF q = r THEN 2 ELSE stage[q]
      /\ begun' = begun /\ options' = options /\ counted' = counted /\ deferred' = deferred
      /\ completed' = completed /\ active' = active /\ window' = window /\ previous' = previous
      /\ container' = container /\ loading' = loading /\ reopened' = reopened
      /\ shared' = shared /\ threw' = threw
  <2>1. \A i \in 1..L : frames[i].of \in Requests
    BY FrameTyped
  <2>2. \A q \in Requests : stage'[q] = IF q = r THEN 2 ELSE stage[q]
    BY <1>4 DEF Typed
  <2> QED BY <1>1, <2>1, <2>2 DEF Typed, jsonp, history
<1> USE <1>1, <1>3, <1>5, <1>7
<1>8. Unbegun'
  BY <1>4 DEF IInv, Unbegun
<1>9. BegunOnce'
  BY DEF IInv, BegunOnce, Global
<1>10. DoneOnce'
  <2>1. \A q \in Requests \ reopened : stage'[q] # 2 => deferred[q] = "pending"
    BY DEF IInv, DoneOnce
  <2>2. r \notin reopened => deferred[r] = "pending"
    BY DEF IInv, DoneOnce
  <2>3. ASSUME NEW i \in 1..n, frames[i].op = "done", frames[i].of \notin reopened
        PROVE  /\ frames[i].of # r /\ stage[frames[i].of] = 2
               /\ frames[i].at = "settle" => deferred[frames[i].of] = "pending"
               /\ \A j \in 1..n : frames[j].op = "done" /\ frames[j].of = frames[i].of => i = j
    <3>1. i \in DOMAIN frames /\ \A j \in 1..n : j \in DOMAIN frames
      OBVIOUS
    <3>2. /\ stage[frames[i].of] = 2
          /\ frames[i].at = "settle" => deferred[frames[i].of] = "pending"
          /\ \A j \in DOMAIN frames :
               frames[j].op = "done" /\ frames[j].of = frames[i].of => i = j
      BY <2>3, <3>1 DEF IInv, DoneOnce
    <3>3. frames[i].of # r
      BY <3>2
    <3> QED BY <3>1, <3>2, <3>3
  <2>4. ASSUME NEW i \in 1..(n+1), frames'[i].op = "done", frames'[i].of \notin reopened
        PROVE  /\ stage'[frames'[i].of] = 2
               /\ frames'[i].at = "settle" => deferred[frames'[i].of] = "pending"
               /\ \A j \in 1..(n+1) : frames'[j].op = "done" /\ frames'[j].of = frames'[i].of => i = j
    <3>1. CASE i = n + 1
      BY <2>2, <2>3, <2>4, <3>1
    <3>2. CASE i \in 1..n
      <4>1. frames'[i] = frames[i]
        BY <3>2
      <4>2. frames[i].of # r /\ stage[frames[i].of] = 2
        BY <2>3, <2>4, <3>2, <4>1
      <4>3. \A j \in 1..n : frames[j].op = "done" /\ frames[j].of = frames[i].of => i = j
        BY <2>3, <2>4, <3>2, <4>1
      <4>4. frames[i].at = "settle" => deferred[frames[i].of] = "pending"
        BY <2>3, <2>4, <3>2, <4>1
      <4>5. frames[i].of \in Requests
        BY <3>2
      <4>6. stage'[frames[i].of] = 2
        BY <4>2, <4>5
      <4>7. \A j \in 1..(n+1) : frames'[j].op = "done" /\ frames'[j].of = frames[i].of => i = j
        BY <3>2, <4>2, <4>3
      <4> QED BY <4>1, <4>4, <4>6, <4>7
    <3> QED BY <3>1, <3>2
  <2> QED BY <2>1, <2>4 DEF DoneOnce
<1>11. EventsAgree'
  BY DEF IInv, EventsAgree
<1>12. CounterExact'
  <2>1. \A q \in counted : (\E i \in 1..(n+1) : Ends(frames'[i], q))
                             <=> q = r \/ \E i \in 1..L : Ends(frames[i], q)
    BY DEF Ends
  <2>2. Open' = Open
    BY <2>1, ZenonT(40) DEF Open
  <2> QED BY <2>2 DEF IInv, CounterExact
<1>13. CountedOnes'
  <2>1. \A q \in counted : (\E i \in 1..(n+1) : Completes(frames'[i], q))
                             <=> q = r \/ \E i \in 1..L : Completes(frames[i], q)
    BY DEF Completes
  <2>2. ~threw => \A q \in counted : stage'[q] = 2 =>
          q \in completed \/ \E i \in 1..(n+1) : Completes(frames'[i], q)
    BY <2>1 DEF IInv, CountedOnes
  <2>3. \A i \in 1..(n+1) : frames'[i].op = "done" /\ frames'[i].at = "counter"
          => frames'[i].of \in counted
    BY DEF IInv, CountedOnes
  <2> QED BY <2>2, <2>3 DEF CountedOnes
<1>14. TimersSent'
  BY <1>4 DEF IInv, TimersSent
<1>15. ScriptsSent'
  BY DEF IInv, ScriptsSent, Script, Sending
<1>16. OwnNames'
  BY DEF IInv, OwnNames, Live
<1>17. Contained'
  BY <1>2 DEF IInv, Contained
<1> QED BY <1>6, <1>8, <1>9, <1>10, <1>11, <1>12, <1>13, <1>14, <1>15, <1>16, <1>17 DEF IInv

\* A call goes on at a step, in jQuery or in page code.
MovesTo(step, who) == frames' = Append(Rest, [Top EXCEPT !.at = step, !.in = who])

TopMoves(L, step, who) ==
  /\ L = Len(frames) /\ DOMAIN frames = 1..L /\ DOMAIN frames' = 1..L /\ Len(frames') = L
  /\ Top = frames[L] /\ frames'[L].at = step /\ frames'[L].in = who
  /\ \A i \in 1..L : frames[i].of \in Requests
  /\ \A i \in 1..L : /\ frames'[i].op = frames[i].op /\ frames'[i].of = frames[i].of
                     /\ frames'[i].ok = frames[i].ok
                     /\ i # L => frames'[i] = frames[i]

LEMMA Moved ==
  ASSUME AjaxAssumption, Typed, Unbegun, frames # <<>>,
         NEW step \in AjaxSteps \cup DoneSteps, NEW who \in {"jQuery", "page"}, MovesTo(step, who)
  PROVE  /\ Top.of \in Requests /\ Top.of \in 1..begun /\ frames' \in Seq(Frames)
         /\ \E L \in Nat \ {0} : TopMoves(L, step, who)
<1>1. PICK L \in Nat \ {0} : L = Len(frames) /\ DOMAIN frames = 1..L
  BY FrameTyped DEF Typed
<1>2. Top = frames[L] /\ Top \in Frames /\ \A i \in 1..L : frames[i].of \in Requests
  BY <1>1, FrameTyped DEF Top, Last
<1> DEFINE f == [Top EXCEPT !.at = step, !.in = who]
<1>3. f \in Frames /\ f.op = Top.op /\ f.of = Top.of /\ f.ok = Top.ok /\ f.at = step /\ f.in = who
  BY <1>2 DEF Frames
<1> HIDE DEF f
<1>4. /\ frames' \in Seq(Frames) /\ Len(frames') = L
      /\ (\A i \in 1..(L-1) : frames'[i] = frames[i]) /\ frames'[L] = f
  <2>1. frames \in Seq(Frames) /\ frames' = Append(Rest, f)
    BY DEF f, Typed, MovesTo
  <2>2. frames' \in Seq(Frames) /\ Len(frames') = L
    BY <1>1, <1>3, <2>1, Replaced
  <2>3. (\A i \in 1..(L-1) : frames'[i] = frames[i]) /\ frames'[L] = f
    BY <1>1, <1>3, <2>1, Replaced
  <2> QED BY <2>2, <2>3
<1>5. DOMAIN frames' = 1..L
  BY <1>4
<1>6. Top.of \in Requests /\ Top.of \in 1..begun
  <2>1. Top.of <= begun
    BY <1>1, <1>2 DEF Unbegun
  <2>2. begun \in Nat
    BY DEF Typed
  <2>3. Top.of \in Requests
    BY <1>1, <1>2
  <2>4. Top.of \in Nat \ {0}
    BY <2>3 DEF AjaxAssumption
  <2> QED BY <2>1, <2>2, <2>3, <2>4
<1>7. \A i \in 1..L : /\ frames'[i].op = frames[i].op /\ frames'[i].of = frames[i].of
                      /\ frames'[i].ok = frames[i].ok
                      /\ i # L => frames'[i] = frames[i]
  BY <1>2, <1>3, <1>4
<1>8. frames'[L].at = step /\ frames'[L].in = who
  BY <1>3, <1>4
<1> QED BY <1>1, <1>2, <1>4, <1>5, <1>6, <1>7, <1>8 DEF TopMoves

\* The steps of a call from one to the next, unless it settles, counts or leaves the counter.
Follows(step, who) ==
  /\ step = "global" => Top.at = "global"
  /\ Top.op = "done" =>
       /\ step = "settle" <=> Top.at = "settle"
       /\ step = "stopped" <=> Top.at = "stopped"
       /\ step = "counter" => Top.at = "counter" \/ Top.of \in counted
       /\ Top.at \in {"settle", "event", "complete"} =>
            step \in {"settle", "event", "complete"} \/ Top.of \in completed'
  /\ Top.op = "ajax" /\ Script(Top.of) /\ step \in {"beforeSend", "install", "transport", "send"} =>
       who = "jQuery" /\ stage[Top.of] # 2

\* A call goes on or calls page code, and nothing else changes but what is named here.
LEMMA MoveKeeps ==
  ASSUME AjaxAssumption, Typed, IInv, frames # <<>>,
         NEW step \in AjaxSteps \cup DoneSteps, NEW who \in {"jQuery", "page"},
         MovesTo(step, who), Follows(step, who),
         completed \subseteq completed', completed' \subseteq Requests,
         transport' \subseteq transport \cup {Top.of},
         UNCHANGED <<begun, options, stage, callbacks, timers, counted, deferred, active,
                     jsonp, history>>
  PROVE  Typed' /\ IInv'
<1>1. Top.of \in Requests /\ Top.of \in 1..begun /\ frames' \in Seq(Frames)
  BY Moved DEF IInv
<1>2. PICK L \in Nat \ {0} : TopMoves(L, step, who)
  BY Moved DEF IInv
<1>3. Typed'
  BY <1>1 DEF Typed, jsonp, history
<1>4. /\ begun \in Nat /\ counted \subseteq Requests
      /\ begun' = begun /\ options' = options /\ counted' = counted /\ deferred' = deferred
      /\ stage' = stage /\ active' = active /\ window' = window /\ previous' = previous
      /\ container' = container /\ loading' = loading /\ reopened' = reopened
      /\ shared' = shared /\ threw' = threw /\ timers' = timers /\ callbacks' = callbacks
  BY DEF Typed, jsonp, history
<1>5. \A i \in 1..L : /\ frames'[i].at = "global" => frames[i].at = "global"
                      /\ frames[i].op = "done" => (frames'[i].at = "settle" <=> frames[i].at = "settle")
  BY <1>2 DEF Follows, TopMoves
<1> USE <1>2, <1>4 DEF TopMoves
<1>6. Unbegun'
  BY <1>1 DEF IInv, Unbegun
<1>7. BegunOnce'
  BY <1>5 DEF IInv, BegunOnce, Global
<1>8. DoneOnce'
  BY <1>5 DEF IInv, DoneOnce
<1>9. EventsAgree'
  BY <1>5 DEF IInv, EventsAgree
<1>10. CounterExact'
  <2>1. \A q \in counted, i \in 1..L : Ends(frames'[i], q) <=> Ends(frames[i], q)
    BY DEF Ends, Follows
  <2>2. Open' = Open
    BY <2>1 DEF Open
  <2> QED BY <2>2 DEF IInv, CounterExact
<1>11. CountedOnes'
  <2>1. \A q \in counted, i \in 1..L :
          Completes(frames[i], q) => Completes(frames'[i], q) \/ q \in completed'
    BY DEF Completes, Follows
  <2>2. ~threw => \A q \in counted : stage'[q] = 2 =>
          q \in completed' \/ \E i \in 1..L : Completes(frames'[i], q)
    BY <2>1 DEF IInv, CountedOnes
  <2>3. \A i \in 1..L : frames'[i].op = "done" /\ frames'[i].at = "counter"
          => frames'[i].of \in counted
    BY DEF IInv, CountedOnes, Follows
  <2> QED BY <2>2, <2>3 DEF CountedOnes
<1>12. TimersSent'
  BY DEF IInv, TimersSent
<1>13. ScriptsSent'
  BY DEF IInv, ScriptsSent, Script, Sending, Follows
<1>14. OwnNames'
  BY DEF IInv, OwnNames, Live
<1>15. Contained'
  BY DEF IInv, Contained
<1> QED BY <1>3, <1>6, <1>7, <1>8, <1>9, <1>10, <1>11, <1>12, <1>13, <1>14, <1>15 DEF IInv

\* A call ends, and nothing else changes but that a transport is not to call back: one of ajax, or one of done that has left the
\* counter or was never in it.
LEMMA DropKeeps ==
  ASSUME AjaxAssumption, Typed, IInv, frames # <<>>, frames' = Rest,
         Top.op = "done" => Top.at = "stopped" \/ Top.of \notin counted,
         callbacks' \subseteq callbacks,
         UNCHANGED <<begun, options, stage, transport, timers, counted, deferred, completed, active,
                     jsonp, history>>
  PROVE  Typed' /\ IInv'
<1> DEFINE L == Len(frames)
<1>1. /\ L \in Nat \ {0} /\ DOMAIN frames = 1..L /\ Top = frames[L]
      /\ \A i \in 1..L : frames[i].of \in Requests
  BY FrameTyped DEF Typed, Top, Last
<1>3. /\ DOMAIN frames' = 1..(L-1) /\ Len(frames') = L - 1 /\ frames' \in Seq(Frames)
      /\ \A i \in 1..(L-1) : frames'[i] = frames[i]
  <2>1. frames \in Seq(Frames)
    BY DEF Typed
  <2>2. frames' \in Seq(Frames) /\ Len(frames') = L - 1
    BY <2>1, Popped
  <2>3. \A i \in 1..(L-1) : frames'[i] = frames[i]
    BY <2>1, Popped
  <2> QED BY <1>1, <2>2, <2>3
<1>5. Typed'
  BY <1>3 DEF Typed, jsonp, history
<1>6. /\ begun \in Nat /\ counted \subseteq Requests
      /\ begun' = begun /\ options' = options /\ counted' = counted /\ deferred' = deferred
      /\ stage' = stage /\ active' = active /\ window' = window /\ previous' = previous
      /\ container' = container /\ loading' = loading /\ reopened' = reopened
      /\ shared' = shared /\ threw' = threw /\ timers' = timers
      /\ transport' = transport /\ completed' = completed
  BY DEF Typed, jsonp, history
<1> USE <1>1, <1>3, <1>6
<1>8. Unbegun'
  BY DEF IInv, Unbegun
<1>9. BegunOnce'
  BY DEF IInv, BegunOnce, Global
<1>10. DoneOnce'
  BY SMTT(30) DEF IInv, DoneOnce
<1>11. EventsAgree'
  BY DEF IInv, EventsAgree
<1>12. CounterExact'
  <2>1. \A q \in counted : ~Ends(frames[L], q)
    BY DEF Ends
  <2>2. Open' = Open
    BY <2>1 DEF Open
  <2> QED BY <2>2 DEF IInv, CounterExact
<1>13. CountedOnes'
  <2>1. \A q \in counted : ~Completes(frames[L], q)
    BY DEF Completes
  <2>2. ~threw => \A q \in counted : stage'[q] = 2 =>
          q \in completed \/ \E i \in 1..(L-1) : Completes(frames'[i], q)
    BY <2>1 DEF IInv, CountedOnes
  <2>3. \A i \in 1..(L-1) : frames'[i].op = "done" /\ frames'[i].at = "counter"
          => frames'[i].of \in counted
    BY DEF IInv, CountedOnes
  <2> QED BY <2>2, <2>3 DEF CountedOnes
<1>14. TimersSent'
  BY DEF IInv, TimersSent
<1>15. ScriptsSent'
  BY DEF IInv, ScriptsSent, Script, Sending
<1>16. OwnNames'
  BY DEF IInv, OwnNames, Live
<1>17. Contained'
  BY DEF IInv, Contained
<1> QED BY <1>5, <1>8, <1>9, <1>10, <1>11, <1>12, <1>13, <1>14, <1>15, <1>16, <1>17 DEF IInv

\* Finitely many requests are counted.
LEMMA OpenFinite ==
  ASSUME Typed
  PROVE  IsFiniteSet(Open) /\ Cardinality(Open) \in Nat
<1>1. IsFiniteSet(1..begun)
  BY FS_Interval DEF Typed
<1>2. Open \subseteq 1..begun
  BY DEF Typed, Open
<1>3. IsFiniteSet(Open)
  BY <1>1, <1>2, FS_Subset
<1> QED BY <1>3, FS_CardinalityType

\* What is added to a finite set counts once.
LEMMA OneMore ==
  ASSUME NEW S, IsFiniteSet(S), NEW x, x \notin S, NEW T, T = S \cup {x}
  PROVE  Cardinality(T) = Cardinality(S) + 1
BY FS_AddElement

\* A request with global events is counted.
LEMMA CountKeeps ==
  ASSUME AjaxAssumption, Typed, IInv, frames # <<>>, NEW who \in {"jQuery", "page"},
         Top.op = "ajax", Top.at = "global", stage[Top.of] # 2, Global(Top.of),
         MovesTo("beforeSend", who), counted' = counted \cup {Top.of}, active' = active + 1,
         UNCHANGED <<begun, options, stage, transport, callbacks, timers, deferred, completed,
                     jsonp, history>>
  PROVE  Typed' /\ IInv'
<1>1. Top.of \in Requests /\ Top.of \in 1..begun /\ frames' \in Seq(Frames)
  BY Moved DEF IInv, AjaxSteps
<1>2. PICK L \in Nat \ {0} : TopMoves(L, "beforeSend", who)
  BY Moved DEF IInv, AjaxSteps
<1>3. Typed'
  <2>1. begun' = begun /\ counted \subseteq 1..begun /\ active \in Int
    BY DEF Typed
  <2>2. counted' \subseteq 1..begun
    BY <1>1, <2>1
  <2>3. active' \in Int
    BY <2>1
  <2> QED BY <1>1, <2>1, <2>2, <2>3 DEF Typed, jsonp, history
<1>4. /\ begun \in Nat /\ counted \subseteq Requests
      /\ begun' = begun /\ options' = options /\ deferred' = deferred
      /\ stage' = stage /\ window' = window /\ previous' = previous
      /\ container' = container /\ loading' = loading /\ reopened' = reopened
      /\ shared' = shared /\ threw' = threw /\ timers' = timers /\ callbacks' = callbacks
      /\ transport' = transport /\ completed' = completed
  BY DEF Typed, jsonp, history
<1> USE <1>1, <1>2, <1>4 DEF TopMoves
<1>5. Unbegun'
  BY DEF IInv, Unbegun
<1>6. BegunOnce'
  BY DEF IInv, BegunOnce, Global
<1>7. DoneOnce'
  BY DEF IInv, DoneOnce
<1>8. EventsAgree'
  BY DEF IInv, EventsAgree
<1>9. CounterExact'
  <2>1. \A q \in Requests, i \in 1..L : Ends(frames'[i], q) <=> Ends(frames[i], q)
    BY DEF Ends
  <2>2. Open' = Open \cup {Top.of}
    BY <2>1 DEF Open
  <2>3. Top.of \notin Open
    BY DEF Open, IInv, BegunOnce
  <2>4. Cardinality(Open') = Cardinality(Open) + 1
    BY <2>2, <2>3, OpenFinite, OneMore
  <2>5. active \in Int /\ Cardinality(Open) \in Nat
    BY OpenFinite DEF Typed
  <2> QED BY <2>4, <2>5 DEF IInv, CounterExact
<1>10. CountedOnes'
  <2>1. \A q \in Requests, i \in 1..L : Completes(frames[i], q) <=> Completes(frames'[i], q)
    BY DEF Completes
  <2>2. ~threw => \A q \in counted' : stage'[q] = 2 =>
          q \in completed' \/ \E i \in 1..L : Completes(frames'[i], q)
    BY <2>1 DEF IInv, CountedOnes
  <2>3. \A i \in 1..L : frames'[i].op = "done" /\ frames'[i].at = "counter"
          => frames'[i].of \in counted'
    BY DEF IInv, CountedOnes
  <2> QED BY <2>2, <2>3 DEF CountedOnes
<1>11. TimersSent'
  BY DEF IInv, TimersSent
<1>12. ScriptsSent'
  BY DEF IInv, ScriptsSent, Script, Sending, Global
<1>13. OwnNames'
  BY DEF IInv, OwnNames, Live
<1>14. Contained'
  BY DEF IInv, Contained
<1> QED BY <1>3, <1>5, <1>6, <1>7, <1>8, <1>9, <1>10, <1>11, <1>12, <1>13, <1>14 DEF IInv

\* A request that was counted leaves the counter; ajaxStop may follow.
LEMMA CounterKeeps ==
  ASSUME AjaxAssumption, Typed, IInv, Counter
  PROVE  Typed' /\ IInv'
<1> DEFINE r == Top.of
<1>1. PICK L \in Nat \ {0} :
        /\ L = Len(frames) /\ DOMAIN frames = 1..L /\ Top = frames[L] /\ frames \in Seq(Frames)
        /\ frames # <<>> /\ frames[L].op = "done" /\ frames[L].at = "counter" /\ r = frames[L].of
        /\ \A i \in 1..L : frames[i].of \in Requests
  BY FrameTyped DEF Typed, Top, Last, Counter, Step
<1>2. PICK M \in {L - 1, L} :
        /\ DOMAIN frames' = 1..M /\ Len(frames') = M /\ frames' \in Seq(Frames)
        /\ \A i \in 1..(L-1) : frames'[i] = frames[i]
        /\ M = L => /\ frames'[L].op = "done" /\ frames'[L].at = "stopped" /\ frames'[L].of = r
                    /\ frames'[L].ok = frames[L].ok
  <2>1. CASE active = 1
    <3>1. MovesTo("stopped", "page")
      BY <2>1 DEF Counter, CallsPage, MovesTo
    <3>2. PICK K \in Nat \ {0} : TopMoves(K, "stopped", "page")
      BY <1>1, <3>1, Moved DEF IInv, DoneSteps
    <3>3. K = L /\ frames' \in Seq(Frames)
      BY <1>1, <3>1, <3>2, Moved DEF IInv, DoneSteps, TopMoves
    <3> QED BY <1>1, <3>2, <3>3 DEF TopMoves
  <2>2. CASE active # 1
    <3>1. frames' = Rest
      BY <2>2 DEF Counter
    <3>2. /\ frames' \in Seq(Frames) /\ Len(frames') = L - 1
          /\ \A i \in 1..(L-1) : frames'[i] = frames[i]
      BY <1>1, <3>1, Popped
    <3> QED BY <1>1, <3>2
  <2> QED BY <2>1, <2>2
<1>3. Typed'
  BY <1>2 DEF Typed, Counter, request, jsonp, history
<1>4. /\ begun \in Nat /\ counted \subseteq Requests /\ active' = active - 1 /\ active \in Int
      /\ begun' = begun /\ options' = options /\ counted' = counted /\ deferred' = deferred
      /\ stage' = stage /\ window' = window /\ previous' = previous
      /\ container' = container /\ loading' = loading /\ reopened' = reopened
      /\ shared' = shared /\ threw' = threw /\ timers' = timers /\ callbacks' = callbacks
      /\ transport' = transport /\ completed' = completed
  BY DEF Typed, Counter, request, jsonp, history
<1> HIDE DEF r
<1> USE <1>1, <1>2, <1>4
<1>5. Unbegun'
  BY DEF IInv, Unbegun
<1>6. BegunOnce'
  BY DEF IInv, BegunOnce, Global
<1>7. DoneOnce'
  BY SMTT(30) DEF IInv, DoneOnce
<1>8. EventsAgree'
  BY DEF IInv, EventsAgree
<1>9. CounterExact'
  <2> SUFFICES ASSUME reopened = {}
               PROVE  /\ active' >= Cardinality(Open')
                      /\ ~threw => active' = Cardinality(Open')
    BY DEF CounterExact
  <2>1. r \in Open
    BY DEF Open, Ends, IInv, CountedOnes
  <2>2. \A q \in counted : (\E i \in 1..M : Ends(frames'[i], q))
                             <=> q # r /\ \E i \in 1..L : Ends(frames[i], q)
    <3>1. \A i \in 1..(L-1) : ~(frames[i].op = "done" /\ frames[i].of = r)
      BY DEF IInv, DoneOnce
    <3> QED BY <3>1 DEF Ends
  <2>3. stage[r] = 2
    BY DEF IInv, DoneOnce
  <2>4. Open' = Open \ {r}
    BY <2>2, <2>3 DEF Open
  <2>5. Cardinality(Open') = Cardinality(Open) - 1 /\ Cardinality(Open) \in Nat
    BY <2>1, <2>4, OpenFinite, FS_RemoveElement
  <2>6. active >= Cardinality(Open) /\ (~threw => active = Cardinality(Open))
    BY DEF IInv, CounterExact
  <2> QED BY <2>5, <2>6
<1>10. CountedOnes'
  <2>1. \A q \in counted : (\E i \in 1..L : Completes(frames[i], q))
                             => \E i \in 1..M : Completes(frames'[i], q)
    BY DEF Completes
  <2>2. ~threw => \A q \in counted : stage'[q] = 2 =>
          q \in completed' \/ \E i \in 1..M : Completes(frames'[i], q)
    BY <2>1 DEF IInv, CountedOnes
  <2>3. \A i \in 1..M : frames'[i].op = "done" /\ frames'[i].at = "counter"
          => frames'[i].of \in counted
    BY DEF IInv, CountedOnes
  <2> QED BY <2>2, <2>3 DEF CountedOnes
<1>11. TimersSent'
  BY DEF IInv, TimersSent
<1>12. ScriptsSent'
  BY DEF IInv, ScriptsSent, Script, Sending
<1>13. OwnNames'
  BY DEF IInv, OwnNames, Live
<1>14. Contained'
  BY DEF IInv, Contained
<1> QED BY <1>3, <1>5, <1>6, <1>7, <1>8, <1>9, <1>10, <1>11, <1>12, <1>13, <1>14 DEF IInv

\* The deferred is settled, and a jsonp request gives back the name that it has taken.
LEMMA SettleKeeps ==
  ASSUME AjaxAssumption, Typed, IInv, Settle
  PROVE  Typed' /\ IInv'
<1> DEFINE r == Top.of
           n == options[r].name
           ok == Top.ok
<1>1. PICK who \in {"jQuery", "page"} :
        MovesTo("event", who) /\ frames # <<>> /\ Top.op = "done" /\ Top.at = "settle"
  BY DEF Settle, Step, GoOn, CallsPage, MovesTo
<1>2. r \in Requests /\ r \in 1..begun /\ frames' \in Seq(Frames)
  BY <1>1, Moved DEF IInv, DoneSteps
<1>3. PICK L \in Nat \ {0} : TopMoves(L, "event", who)
  BY <1>1, Moved DEF IInv, DoneSteps
<1>4. n # None => n \in JsonpNames
  BY <1>2 DEF Typed, JsonpNames
<1>5. /\ begun \in Nat /\ counted \subseteq Requests
      /\ begun' = begun /\ options' = options /\ counted' = counted /\ completed' = completed
      /\ stage' = stage /\ active' = active /\ previous' = previous /\ transport' = transport
      /\ loading' = loading /\ reopened' = reopened
      /\ shared' = shared /\ threw' = threw /\ timers' = timers /\ callbacks' = callbacks
  BY DEF Settle, Typed, history
<1>6. /\ \A q \in Requests : q # r => deferred'[q] = deferred[q]
      /\ deferred' \in [Requests -> {"pending", "resolved", "rejected"}]
      /\ IF deferred[r] = "pending"
         THEN deferred'[r] = IF ok THEN "resolved" ELSE "rejected"
         ELSE deferred'[r] = deferred[r]
  BY <1>2 DEF Settle, Typed
<1>7. previous[r] # None => previous[r] \in Requests /\ previous[r] \in shared /\ previous[r] <= begun
  <2>1. previous[r] # None => previous[r] \in Requests /\ previous[r] \in shared
    BY <1>2 DEF Typed, IInv, OwnNames
  <2>2. \A q \in shared : q \in Nat /\ q <= begun
    BY <1>5 DEF AjaxAssumption, Typed, IInv, Unbegun
  <2> QED BY <2>1, <2>2
<1>8. /\ window' \in [JsonpNames -> Requests \cup {None}]
      /\ \A m \in JsonpNames : window'[m] = IF m = n /\ deferred[r] = "pending" THEN previous[r] ELSE window[m]
  BY <1>2, <1>4, <1>7 DEF Settle, Typed, RestoreCallback, JsonpNames
<1>9. /\ container' \in [Requests -> Requests \cup {None}]
      /\ \A q \in Requests : \/ container'[q] = container[q]
                             \/ q = previous[r] /\ container'[q] # None
  <2>1. container \in [Requests -> Requests \cup {None}]
    BY DEF Typed
  <2>2. \/ container' = container
        \/ /\ previous[r] # None /\ container[r] # None
           /\ container' = [container EXCEPT ![previous[r]] = container[r]]
    BY DEF Settle, RestoreCallback
  <2> QED BY <1>2, <1>7, <2>1, <2>2
<1>10. Typed'
  BY <1>2, <1>5, <1>6, <1>8, <1>9 DEF Typed
<1>11. Top = frames[L] /\ frames[L].op = "done" /\ frames[L].at = "settle" /\ r = frames[L].of
  BY <1>1, <1>3 DEF TopMoves
<1>23. /\ DOMAIN frames = 1..L /\ DOMAIN frames' = 1..L /\ Len(frames') = L /\ Len(frames) = L
       /\ \A i \in 1..L : frames[i].of \in Requests
       /\ \A i \in 1..L : /\ frames'[i].op = frames[i].op /\ frames'[i].of = frames[i].of
                          /\ frames'[i].ok = frames[i].ok
                          /\ i # L => frames'[i] = frames[i]
       /\ frames'[L].at = "event" /\ frames[L].ok = Top.ok
  BY <1>3, <1>11 DEF TopMoves
<1> HIDE DEF r, n, ok
<1>24. \A i \in 1..L : frames'[i].at = "global" => i # L /\ frames'[i] = frames[i]
  BY <1>23
<1>25. frames[L].op = "done" /\ frames[L].at = "settle" /\ r = frames[L].of /\ ok = frames[L].ok
  BY <1>11, <1>23 DEF ok
<1> USE <1>2, <1>5, <1>23, <1>25
<1>12. r \notin reopened => /\ stage[r] = 2 /\ deferred[r] = "pending"
                           /\ \A j \in 1..L : frames[j].op = "done" /\ frames[j].of = r => j = L
  BY DEF IInv, DoneOnce
<1>13. Unbegun'
  <2>1. \A i \in 1..L : frames'[i].of <= begun
    BY DEF IInv, Unbegun
  <2>2. \A m \in JsonpNames : window'[m] # None => window'[m] <= begun
    BY <1>7, <1>8 DEF IInv, Unbegun
  <2>3. \A q \in Requests : q > begun => q # r /\ q # previous[r]
    <3>1. Requests \subseteq Nat /\ None \notin Requests
      BY DEF AjaxAssumption
    <3> QED BY <1>7, <3>1
  <2>4. \A q \in Requests : q > begun => deferred'[q] = "pending" /\ container'[q] = None
    BY <1>6, <1>9, <2>3 DEF IInv, Unbegun
  <2> QED BY <2>1, <2>2, <2>4 DEF IInv, Unbegun
<1>14. BegunOnce'
  <2>1. \A i, j \in 1..L : frames'[i].op = "ajax" /\ frames'[j].op = "ajax"
                           /\ frames'[i].of = frames'[j].of => i = j
    BY DEF IInv, BegunOnce
  <2>2. \A i \in 1..L : frames'[i].op = "ajax" /\ frames'[i].at = "global" => frames'[i].of \notin counted'
    BY <1>24 DEF IInv, BegunOnce
  <2>3. \A q \in counted' : Global(q)'
    BY DEF IInv, BegunOnce, Global
  <2> QED BY <2>1, <2>2, <2>3 DEF BegunOnce
<1>26. \A i \in 1..L : i # L /\ frames[i].op = "done" /\ frames[i].of \notin reopened => frames[i].of # r
  BY <1>12
<1>15. DoneOnce'
  <2>1. \A q \in Requests \ reopened : stage[q] # 2 => deferred'[q] = "pending"
    BY <1>6, <1>12 DEF IInv, DoneOnce
  <2>2. ASSUME NEW i \in 1..L, frames'[i].op = "done", frames'[i].of \notin reopened
        PROVE  /\ stage[frames'[i].of] = 2
               /\ frames'[i].at = "settle" => deferred'[frames'[i].of] = "pending"
               /\ \A j \in 1..L : frames'[j].op = "done" /\ frames'[j].of = frames'[i].of => i = j
    <3>1. /\ stage[frames[i].of] = 2
          /\ \A j \in 1..L : frames[j].op = "done" /\ frames[j].of = frames[i].of => i = j
      BY <2>2 DEF IInv, DoneOnce
    <3>2. ASSUME frames'[i].at = "settle" PROVE deferred'[frames[i].of] = "pending"
      <4>1. i # L /\ frames[i].of # r /\ frames[i].at = "settle"
        BY <1>26, <2>2, <3>2
      <4>2. deferred[frames[i].of] = "pending"
        BY <2>2, <4>1 DEF IInv, DoneOnce
      <4> QED BY <1>6, <4>1, <4>2
    <3> QED BY <3>1, <3>2
  <2> QED BY <2>1, <2>2 DEF DoneOnce
<1>16. EventsAgree'
  <2> SUFFICES ASSUME NEW i \in 1..L, frames'[i].op = "done", frames'[i].of \notin reopened,
                      frames'[i].at # "settle"
               PROVE  deferred'[frames'[i].of] = (IF frames'[i].ok THEN "resolved" ELSE "rejected")
    BY DEF EventsAgree
  <2>1. CASE i = L
    BY <1>6, <1>12, <2>1
  <2>2. CASE i # L
    <3>1. deferred[frames[i].of] = (IF frames[i].ok THEN "resolved" ELSE "rejected")
      BY <2>2 DEF IInv, EventsAgree
    <3>2. deferred'[frames[i].of] = deferred[frames[i].of]
      BY <1>6, <1>26, <2>2
    <3> QED BY <2>2, <3>1, <3>2
  <2> QED BY <2>1, <2>2
<1>17. CounterExact'
  <2>1. \A q \in counted, i \in 1..L : Ends(frames'[i], q) <=> Ends(frames[i], q)
    BY DEF Ends
  <2>2. Open' = Open
    BY <2>1 DEF Open
  <2> QED BY <2>2 DEF IInv, CounterExact
<1>18. CountedOnes'
  <2>1. \A q \in counted, i \in 1..L : Completes(frames[i], q) => Completes(frames'[i], q)
    BY DEF Completes
  <2>2. ~threw => \A q \in counted : stage'[q] = 2 =>
          q \in completed' \/ \E i \in 1..L : Completes(frames'[i], q)
    BY <2>1 DEF IInv, CountedOnes
  <2>3. \A i \in 1..L : frames'[i].op = "done" /\ frames'[i].at = "counter"
          => frames'[i].of \in counted
    BY DEF IInv, CountedOnes
  <2> QED BY <2>2, <2>3 DEF CountedOnes
<1>19. TimersSent'
  BY DEF IInv, TimersSent
<1>20. ScriptsSent'
  BY DEF IInv, ScriptsSent, Script, Sending
<1>21. OwnNames'
  <2>1. \A q \in Requests : Live(q)' => Live(q)
    BY <1>6 DEF Live
  <2>2. ASSUME NEW m \in JsonpNames, window'[m] # None, window'[m] \notin shared
        PROVE  deferred'[window'[m]] = "pending" /\ options[window'[m]].name = m
    <3>1. window'[m] = window[m]
      BY <1>7, <1>8, <2>2
    <3>2. window[m] \in Requests /\ deferred[window[m]] = "pending" /\ options[window[m]].name = m
      BY <2>2, <3>1 DEF IInv, OwnNames, Typed
    <3>3. window[m] # r
      BY <1>7, <1>8, <2>2, <3>1, <3>2 DEF n
    <3> QED BY <1>6, <3>1, <3>2, <3>3
  <2>3. \A q \in 1..begun : q \in Requests
    BY DEF Typed
  <2> QED BY <2>1, <2>2, <2>3 DEF IInv, OwnNames
<1>22. Contained'
  <2>1. \A q \in Requests \ shared : container'[q] \in {None, q}
    <3>1. None \notin Requests
      BY DEF AjaxAssumption
    <3> QED BY <1>7, <1>9, <3>1 DEF IInv, Contained
  <2>2. \A q \in Requests : container[q] # None => container'[q] # None
    BY <1>9
  <2>3. ok /\ n # None => container[r] # None
    <3>1. frames[L].ok /\ options[frames[L].of].name # None => container[frames[L].of] # None
      BY DEF IInv, Contained
    <3> QED BY <3>1 DEF n
  <2>4. \A q \in Requests : deferred'[q] = "resolved" /\ options[q].name # None => container[q] # None
    <3>1. \A q \in Requests : deferred[q] = "resolved" /\ options[q].name # None => container[q] # None
      BY DEF IInv, Contained
    <3>2. deferred'[r] = "resolved" => ok \/ deferred[r] = "resolved"
      BY <1>6
    <3> QED BY <1>6, <2>3, <3>1, <3>2 DEF n
  <2>5. \A i \in 1..L : frames'[i].op = "done" /\ frames'[i].ok
          /\ options[frames'[i].of].name # None => container[frames'[i].of] # None
    BY DEF IInv, Contained
  <2> QED BY <2>1, <2>2, <2>4, <2>5, ZenonT(40) DEF Contained
<1> QED BY <1>10, <1>13, <1>14, <1>15, <1>16, <1>17, <1>18, <1>19, <1>20, <1>21, <1>22 DEF IInv

\* Page code throws: what has begun is given up, and counted requests may have ended without
\* having left the counter.
LEMMA ThrowKeeps ==
  ASSUME AjaxAssumption, Typed, IInv, CalleeThrows
  PROVE  Typed' /\ IInv'
<1>1. PICK L \in Nat \ {0} :
        /\ L = Len(frames) /\ DOMAIN frames = 1..L /\ frames[L].in = "page"
        /\ \A i \in 1..L : frames[i].of \in Requests
  BY FrameTyped DEF Typed, Top, Last, CalleeThrows
<1>2. PICK n \in 0..(L-1) : frames' = SubSeq(frames, 1, n)
  <2>1. frames \in Seq(Frames) /\ L - 1 \in 0..L
    BY <1>1 DEF Typed
  <2>2. Len(Rest) = L - 1
    BY <1>1, <2>1, Cut DEF Rest, Front
  <2> QED BY <2>2 DEF CalleeThrows
<1>3. /\ DOMAIN frames' = 1..n /\ Len(frames') = n /\ frames' \in Seq(Frames)
      /\ \A i \in 1..n : frames'[i] = frames[i]
  <2>1. frames \in Seq(Frames) /\ n \in 0..Len(frames)
    BY <1>1, <1>2 DEF Typed
  <2>2. frames' \in Seq(Frames) /\ Len(frames') = n /\ \A i \in 1..n : frames'[i] = frames[i]
    BY <1>2, <2>1, Unwound
  <2> QED BY <2>2
<1>4. Typed'
  BY <1>3 DEF Typed, CalleeThrows, request, jsonp
<1>5. /\ begun \in Nat /\ counted \subseteq Requests /\ threw' = TRUE
      /\ begun' = begun /\ options' = options /\ counted' = counted /\ deferred' = deferred
      /\ stage' = stage /\ active' = active /\ window' = window /\ previous' = previous
      /\ container' = container /\ loading' = loading /\ reopened' = reopened
      /\ shared' = shared /\ timers' = timers /\ callbacks' = callbacks
      /\ transport' = transport /\ completed' = completed
  BY DEF Typed, CalleeThrows, request, jsonp
<1> USE <1>1, <1>3, <1>5
<1>6. Unbegun'
  BY DEF IInv, Unbegun
<1>7. BegunOnce'
  BY DEF IInv, BegunOnce, Global
<1>8. DoneOnce'
  BY DEF IInv, DoneOnce
<1>9. EventsAgree'
  BY DEF IInv, EventsAgree
<1>10. CounterExact'
  <2>1. Open' \subseteq Open
    BY DEF Open
  <2>2. Cardinality(Open') <= Cardinality(Open)
    BY <2>1, OpenFinite, FS_Subset
  <2>3. Cardinality(Open) \in Nat /\ Cardinality(Open') \in Nat /\ active \in Int
    BY <1>4, <2>1, OpenFinite, FS_Subset, FS_CardinalityType DEF Typed
  <2> QED BY <2>2, <2>3 DEF IInv, CounterExact
<1>11. CountedOnes'
  BY DEF IInv, CountedOnes
<1>12. TimersSent'
  BY DEF IInv, TimersSent
<1>13. ScriptsSent'
  BY DEF IInv, ScriptsSent, Script, Sending
<1>14. OwnNames'
  BY DEF IInv, OwnNames, Live
<1>15. Contained'
  BY DEF IInv, Contained
<1> QED BY <1>4, <1>6, <1>7, <1>8, <1>9, <1>10, <1>11, <1>12, <1>13, <1>14, <1>15 DEF IInv

\* A request is begun: one whose name another one has that may still use it shares it.
LEMMA BeginKeeps ==
  ASSUME AjaxAssumption, Typed, IInv, NEW o \in Options, Begin(o)
  PROVE  Typed' /\ IInv'
<1> DEFINE r == begun + 1
           n == o.name
           L == Len(frames)
           f == Frame("ajax", r, "global", "page", FALSE)
           same == {q \in 1..begun : options[q].name = n /\ (q \in loading \/ deferred[q] = "pending")}
<1>1. /\ begun \in Nat /\ r \in Requests /\ begun' = r /\ 1..begun \subseteq Requests
      /\ r \in Nat /\ r > begun /\ Requests \subseteq Nat \ {0} /\ None \notin Requests
      /\ 1..begun' = 1..begun \cup {r}
  BY DEF Begin, Typed, AjaxAssumption
<1>2. /\ f \in Frames /\ f.op = "ajax" /\ f.of = r /\ f.at = "global" /\ f.in = "page"
  BY <1>1 DEF Frame, Frames, AjaxSteps
<1>3. /\ L \in Nat /\ DOMAIN frames = 1..L /\ \A i \in 1..L : frames[i].of \in Requests
      /\ \A i \in 1..L : frames[i].of <= begun
  BY FrameTyped DEF IInv, Unbegun
<1>4. /\ frames' \in Seq(Frames) /\ Len(frames') = L + 1 /\ DOMAIN frames' = 1..(L+1)
      /\ \A i \in 1..L : frames'[i] = frames[i]
      /\ frames'[L + 1] = f
  <2>1. frames \in Seq(Frames) /\ frames' = Append(frames, f)
    BY DEF Typed, Begin
  <2>2. /\ frames' \in Seq(Frames) /\ Len(frames') = L + 1
        /\ (\A i \in 1..L : frames'[i] = frames[i]) /\ frames'[L + 1] = f
    BY <1>2, <2>1, Pushed
  <2> QED BY <1>3, <2>2
<1>5. /\ options' \in [Requests -> Options] /\ options'[r] = o
      /\ \A q \in Requests : q # r => options'[q] = options[q]
      /\ \A q \in Requests : options[q] \in Options
  BY <1>1 DEF Begin, Typed
<1>6. n # None => n \in JsonpNames
  BY DEF JsonpNames
<1>7. /\ previous' \in [Requests -> Requests \cup {None}]
      /\ window' \in [JsonpNames -> Requests \cup {None}]
      /\ \A q \in Requests : q # r => previous'[q] = previous[q]
      /\ \A m \in JsonpNames : m # n => window'[m] = window[m]
  <2>1. CASE n = None
    BY <2>1 DEF Begin, Typed
  <2>2. CASE n # None
    <3>1. /\ previous' = [previous EXCEPT ![r] = window[n]]
          /\ window' = [window EXCEPT ![n] = r]
      BY <2>2 DEF Begin, InstallCallback
    <3>2. window[n] \in Requests \cup {None}
      BY <1>6, <2>2 DEF Typed
    <3>3. previous \in [Requests -> Requests \cup {None}] /\ window \in [JsonpNames -> Requests \cup {None}]
      BY DEF Typed
    <3> HIDE DEF n, r
    <3> QED BY <1>1, <3>1, <3>2, <3>3
  <2> QED BY <2>1, <2>2
<1>8. /\ n = None => previous' = previous /\ shared' = shared
      /\ n # None => previous'[r] = window[n] /\ window'[n] = r /\ same \subseteq shared'
                     /\ (same # {} => r \in shared')
  BY <1>1, <1>6 DEF Begin, Typed, InstallCallback
<1>9. shared \subseteq shared' /\ shared' \subseteq shared \cup 1..begun \cup {r}
  BY DEF Begin, InstallCallback
<1>10. /\ counted \subseteq 1..begun /\ loading \subseteq 1..begun /\ counted \subseteq Requests
       /\ counted' = counted /\ deferred' = deferred /\ completed' = completed
       /\ stage' = stage /\ active' = active /\ container' = container /\ loading' = loading
       /\ reopened' = reopened /\ threw' = threw /\ timers' = timers /\ callbacks' = callbacks
       /\ transport' = transport
  BY DEF Typed, Begin
<1>11. Typed'
  <2>1. shared' \subseteq Requests
    BY <1>1, <1>9 DEF Typed
  <2> QED BY <1>1, <1>4, <1>5, <1>7, <1>10, <2>1 DEF Typed
<1>12. \A i \in 1..L : ~Sending(frames[i])
  <2>1. frames # <<>> => L \in 1..L /\ frames[L].in = "page"
    BY <1>3 DEF Begin, PageActs, Top, Last, Typed
  <2>2. \A i \in 1..L : Sending(frames[i]) => i = L /\ frames[i].in = "jQuery"
    BY <1>3 DEF IInv, ScriptsSent
  <2>3. \A i \in 1..L : frames # <<>>
    BY <1>3 DEF Typed
  <2> QED BY <2>1, <2>2, <2>3
<1>13. \A w \in Requests : w <= begun => w \in 1..begun /\ w # r
  BY <1>1
<1>14. \A q \in Requests : q > begun => q \notin shared /\ previous[q] = None /\ deferred[q] = "pending" /\ q \notin reopened
  BY DEF IInv, Unbegun
<1> HIDE DEF r, n, L, f, same
<1> USE <1>1, <1>2, <1>3, <1>4, <1>10
<1>15. Unbegun'
  <2>1. ASSUME NEW i \in 1..(L+1)
        PROVE  frames'[i].of <= begun'
    <3>1. CASE i = L + 1
      BY <3>1
    <3>2. CASE i \in 1..L
      <4>1. frames[i].of \in Nat /\ frames[i].of <= begun
        BY <3>2
      <4> QED BY <3>2, <4>1
    <3> QED BY <3>1, <3>2
  <2>2. ASSUME NEW m \in JsonpNames, window'[m] # None
        PROVE  window'[m] <= begun'
    <3>1. CASE n = m /\ n # None
      BY <1>8, <3>1
    <3>2. CASE n # m
      <4>1. window'[m] = window[m]
        BY <1>7, <3>2
      <4>2. window[m] \in Nat /\ window[m] <= begun
        BY <2>2, <4>1 DEF IInv, Unbegun, Typed
      <4> QED BY <4>1, <4>2
    <3>3. m # None
      BY DEF JsonpNames
    <3> QED BY <3>1, <3>2, <3>3
  <2>3. ASSUME NEW q \in Requests, q > begun'
        PROVE  q > begun /\ q # r /\ q \notin shared' /\ previous'[q] = None
    <3>1. q \in Nat /\ begun \in Nat
      BY DEF AjaxAssumption, Typed
    <3>2. q > r /\ r \in Nat /\ r > begun
      BY <2>3
    <3>3. q > begun /\ q # r /\ q \notin 1..begun
      BY <3>1, <3>2
    <3> QED BY <1>7, <1>9, <1>14, <3>3
  <2> QED BY <2>1, <2>2, <2>3 DEF IInv, Unbegun
<1>16. BegunOnce'
  <2>1. \A q \in counted : q # r
    BY <1>13
  <2>2. \A i \in 1..L : frames[i].of # r
    BY <1>13
  <2>3. \A q \in counted : Global(q)'
    BY <1>5, <2>1 DEF IInv, BegunOnce, Global
  <2> QED BY <2>1, <2>2, <2>3 DEF IInv, BegunOnce
<1>17. DoneOnce'
  BY DEF IInv, DoneOnce
<1>18. EventsAgree'
  BY DEF IInv, EventsAgree
<1>19. CounterExact'
  <2>1. \A q \in counted : (\E i \in 1..(L+1) : Ends(frames'[i], q))
                             <=> \E i \in 1..L : Ends(frames[i], q)
    BY DEF Ends
  <2>2. Open' = Open
    BY <2>1 DEF Open
  <2> QED BY <2>2 DEF IInv, CounterExact
<1>20. CountedOnes'
  <2>1. \A q \in counted : (\E i \in 1..L : Completes(frames[i], q))
                             => \E i \in 1..(L+1) : Completes(frames'[i], q)
    BY DEF Completes
  <2>2. ~threw => \A q \in counted : stage'[q] = 2 =>
          q \in completed' \/ \E i \in 1..(L+1) : Completes(frames'[i], q)
    BY <2>1 DEF IInv, CountedOnes
  <2>3. \A i \in 1..(L+1) : frames'[i].op = "done" /\ frames'[i].at = "counter"
          => frames'[i].of \in counted
    BY DEF IInv, CountedOnes
  <2> QED BY <2>2, <2>3 DEF CountedOnes
<1>21. TimersSent'
  BY DEF IInv, TimersSent
<1>22. ScriptsSent'
  <2>1. \A i \in 1..L : ~Sending(frames[i])'
    <3>1. \A i \in 1..L : options'[frames[i].of] = options[frames[i].of]
      BY <1>5, <1>13
    <3> QED BY <1>12, <3>1 DEF Sending, Script
  <2>2. ASSUME NEW i \in 1..(L+1) PROVE ~Sending(frames[i])'
    <3>1. CASE i = L + 1
      BY <3>1 DEF Sending
    <3>2. CASE i \in 1..L
      BY <2>1, <3>2
    <3> QED BY <3>1, <3>2
  <2>3. ASSUME NEW q \in Requests, Script(q)'
        PROVE  q \notin reopened
    <3>1. CASE q = r
      BY <1>14, <3>1
    <3>2. CASE q # r
      BY <1>5, <2>3, <3>2 DEF IInv, ScriptsSent, Script
    <3> QED BY <3>1, <3>2
  <2> QED BY <2>2, <2>3 DEF ScriptsSent
<1>23. OwnNames'
  <2>1. ASSUME NEW w \in Requests, n # None, w = window[n], w \notin shared
        PROVE  w \in same
    <3>1. w # None /\ n \in JsonpNames
      BY <1>6, <2>1
    <3>2. w <= begun /\ deferred[w] = "pending" /\ options[w].name = n
      BY <2>1, <3>1 DEF IInv, Unbegun, OwnNames
    <3> QED BY <1>13, <2>1, <3>2 DEF same
  <2>2. ASSUME NEW q \in Requests, previous'[q] # None
        PROVE  previous'[q] \in shared'
    <3>1. CASE q # r \/ n = None
      <4>1. previous'[q] = previous[q]
        BY <1>7, <1>8, <3>1
      <4> QED BY <1>9, <2>2, <4>1 DEF IInv, OwnNames
    <3>2. CASE q = r /\ n # None
      <4>1. previous'[q] = window[n] /\ window[n] \in Requests
        BY <1>6, <1>8, <2>2, <3>2 DEF Typed
      <4> QED BY <1>8, <1>9, <2>1, <3>2, <4>1
    <3> QED BY <3>1, <3>2
  <2>3. ASSUME NEW m \in JsonpNames, window'[m] # None, window'[m] \notin shared'
        PROVE  deferred[window'[m]] = "pending" /\ options'[window'[m]].name = m
    <3>1. CASE m = n
      <4>1. window'[m] = r
        BY <1>8, <3>1 DEF JsonpNames
      <4> QED BY <1>5, <1>14, <3>1, <4>1 DEF n
    <3>2. CASE m # n
      <4>1. window'[m] = window[m] /\ window[m] \in Requests /\ window[m] \notin shared
        BY <1>7, <1>9, <2>3, <3>2 DEF Typed
      <4>2. window[m] <= begun /\ deferred[window[m]] = "pending" /\ options[window[m]].name = m
        BY <2>3, <4>1 DEF IInv, Unbegun, OwnNames
      <4> QED BY <1>5, <1>13, <4>1, <4>2
    <3> QED BY <3>1, <3>2
  <2>4. ASSUME NEW q \in 1..begun, options[q].name = n, n # None, Live(q)
        PROVE  q \in shared' /\ r \in shared'
    <3>1. q \in same
      BY <2>4 DEF same, Live
    <3> QED BY <1>8, <2>4, <3>1
  <2>5. ASSUME NEW q \in 1..begun', NEW p \in 1..begun', q # p, options'[q].name = options'[p].name,
               options'[q].name # None, Live(q), Live(p)
        PROVE  q \in shared' /\ p \in shared'
    <3>1. CASE q = r
      <4>1. p \in 1..begun /\ p # r /\ options'[p] = options[p]
        BY <1>5, <2>5, <3>1
      <4>2. options[p].name = n /\ n # None
        BY <1>5, <2>5, <3>1, <4>1 DEF n
      <4> QED BY <2>4, <2>5, <3>1, <4>1, <4>2
    <3>2. CASE p = r
      <4>1. q \in 1..begun /\ q # r /\ options'[q] = options[q]
        BY <1>5, <2>5, <3>2
      <4>2. options[q].name = n /\ n # None
        BY <1>5, <2>5, <3>2, <4>1 DEF n
      <4> QED BY <2>4, <2>5, <3>2, <4>1, <4>2
    <3>3. CASE q # r /\ p # r
      <4>1. q \in 1..begun /\ p \in 1..begun
        BY <3>3
      <4>2. options'[q] = options[q] /\ options'[p] = options[p]
        BY <1>5, <3>3, <4>1
      <4> QED BY <1>9, <2>5, <4>1, <4>2 DEF IInv, OwnNames
    <3> QED BY <3>1, <3>2, <3>3
  <2>6. \A q : Live(q)' <=> Live(q)
    BY DEF Live
  <2> QED BY <2>2, <2>3, <2>5, <2>6 DEF OwnNames
<1>24. Contained'
  <2>1. \A q \in Requests \ shared' : container[q] \in {None, q}
    BY <1>9 DEF IInv, Contained
  <2>2. \A q \in Requests : deferred[q] = "resolved" /\ options'[q].name # None => container[q] # None
    BY <1>5, <1>14 DEF IInv, Contained
  <2>3. \A i \in 1..L : options'[frames[i].of] = options[frames[i].of]
    BY <1>5, <1>13
  <2>4. \A i \in 1..(L+1) : frames'[i].op = "done" /\ frames'[i].ok
          /\ options'[frames'[i].of].name # None => container[frames'[i].of] # None
    BY <2>3 DEF IInv, Contained
  <2> QED BY <2>1, <2>2, <2>4 DEF Contained
<1> QED BY <1>11, <1>15, <1>16, <1>17, <1>18, <1>19, <1>20, <1>21, <1>22, <1>23, <1>24 DEF IInv

\* A script is evaluated: what a request that shares its name with no other one finds in its
\* container is its own answer.
LEMMA EvaluateKeeps ==
  ASSUME AjaxAssumption, Typed, IInv, NEW r \in Requests, Evaluate(r)
  PROVE  Typed' /\ IInv'
<1> DEFINE n == options[r].name
<1>1. /\ r \in loading /\ r \in 1..begun /\ loading' = loading \ {r} /\ begun \in Nat
      /\ Requests \subseteq Nat \ {0} /\ None \notin Requests /\ 1..begun \subseteq Requests
  BY DEF Evaluate, Typed, AjaxAssumption
<1>2. n # None => n \in JsonpNames
  BY DEF Typed, JsonpNames
<1>3. container' = container
        \/ /\ n # None /\ window[n] # None
           /\ container' = [container EXCEPT ![window[n]] = r]
  BY DEF Evaluate
<1>4. n # None /\ window[n] # None => window[n] \in Requests /\ window[n] <= begun
  BY <1>2 DEF Typed, IInv, Unbegun
<1>5. /\ container' \in [Requests -> Requests \cup {None}]
      /\ \A q \in Requests : \/ container'[q] = container[q]
                             \/ n # None /\ q = window[n] /\ container'[q] = r
  BY <1>3, <1>4 DEF Typed
<1>6. /\ begun' = begun /\ options' = options /\ counted' = counted /\ deferred' = deferred
      /\ completed' = completed /\ transport' = transport /\ frames' = frames
      /\ stage' = stage /\ active' = active /\ window' = window /\ previous' = previous
      /\ reopened' = reopened /\ callbacks' = callbacks
      /\ shared' = shared /\ threw' = threw /\ timers' = timers
  BY DEF Evaluate, request, history
<1>7. Typed'
  BY <1>1, <1>5, <1>6 DEF Typed
<1> HIDE DEF n
<1> USE <1>1, <1>6
<1>8. Unbegun'
  <2>1. \A q \in Requests : q > begun => container'[q] = None
    BY <1>4, <1>5 DEF IInv, Unbegun
  <2> QED BY <2>1 DEF IInv, Unbegun
<1>9. /\ BegunOnce' /\ DoneOnce' /\ EventsAgree' /\ TimersSent' /\ ScriptsSent'
  BY DEF IInv, BegunOnce, DoneOnce, EventsAgree, TimersSent, ScriptsSent, Sending, Script, Global
<1>10. CounterExact' /\ CountedOnes'
  BY DEF IInv, CounterExact, CountedOnes, Open, Ends, Completes
<1>11. OwnNames'
  BY DEF IInv, OwnNames, Live
<1>12. Contained'
  <2>1. ASSUME NEW q \in Requests \ shared
        PROVE  container'[q] \in {None, q}
    <3>1. CASE container'[q] = container[q]
      BY <3>1 DEF IInv, Contained
    <3>2. CASE n # None /\ q = window[n] /\ container'[q] = r
      <4>0. n \in JsonpNames /\ window[n] # None
        BY <1>2, <2>1, <3>2
      <4>1. q \in 1..begun /\ n \in JsonpNames /\ window[n] # None
        <5>1. q \in Nat \ {0} /\ q <= begun
          BY <1>4, <2>1, <3>2, <4>0
        <5> QED BY <4>0, <5>1
      <4>4. deferred[q] = "pending" /\ options[q].name = n
        BY <3>2, <4>1 DEF IInv, OwnNames
      <4>2. options[q].name = options[r].name /\ options[q].name # None /\ Live(q) /\ Live(r)
        BY <3>2, <4>4 DEF n, Live
      <4>3. q = r
        BY <4>1, <4>2 DEF IInv, OwnNames
      <4> QED BY <3>2, <4>3
    <3> QED BY <1>5, <3>1, <3>2
  <2>2. \A q \in Requests : container[q] # None => container'[q] # None
    BY <1>5
  <2>3. \A i \in DOMAIN frames : frames[i].of \in Requests
    BY FrameTyped
  <2> QED BY <2>1, <2>2, <2>3 DEF IInv, Contained
<1> QED BY <1>7, <1>8, <1>9, <1>10, <1>11, <1>12 DEF IInv

\* A transport is not to call back, or a timeout not to come, and nothing else changes.
LEMMA FewerKeeps ==
  ASSUME Typed, IInv, callbacks' \subseteq callbacks, timers' \subseteq timers,
         UNCHANGED <<begun, options, stage, transport, counted, deferred, completed, active,
                     jsonp, frames, history>>
  PROVE  Typed' /\ IInv'
<1>1. /\ begun' = begun /\ options' = options /\ counted' = counted /\ deferred' = deferred
      /\ completed' = completed /\ transport' = transport /\ frames' = frames
      /\ stage' = stage /\ active' = active /\ window' = window /\ previous' = previous
      /\ container' = container /\ loading' = loading /\ reopened' = reopened
      /\ shared' = shared /\ threw' = threw
  BY DEF jsonp, history
<1>2. Typed'
  BY <1>1 DEF Typed
<1>3. Unbegun' /\ TimersSent'
  BY <1>1 DEF IInv, Unbegun, TimersSent
<1>4. BegunOnce' /\ DoneOnce' /\ EventsAgree' /\ ScriptsSent'
  BY <1>1 DEF IInv, BegunOnce, DoneOnce, EventsAgree, ScriptsSent, Sending, Script, Global
<1>5. CounterExact' /\ CountedOnes'
  BY <1>1 DEF IInv, CounterExact, CountedOnes, Open, Ends, Completes
<1>6. OwnNames' /\ Contained'
  BY <1>1 DEF IInv, OwnNames, Live, Contained
<1> QED BY <1>2, <1>3, <1>4, <1>5, <1>6 DEF IInv

\* The frame of a request that is sent.
SendsNow(L, r) ==
  /\ L = Len(frames) /\ DOMAIN frames = 1..L /\ Top = frames[L]
  /\ frames[L].op = "ajax" /\ frames[L].at = "send" /\ frames[L].of = r
  /\ \A i \in 1..L : frames[i].of \in Requests

LEMMA Sent ==
  ASSUME AjaxAssumption, Typed, IInv, Step("ajax", "send")
  PROVE  /\ Top.of \in Requests /\ Top.of \in 1..begun
         /\ Script(Top.of) => stage[Top.of] # 2
         /\ \E L \in Nat \ {0} : SendsNow(L, Top.of)
<1>1. PICK L \in Nat \ {0} :
        /\ L = Len(frames) /\ DOMAIN frames = 1..L /\ Top = frames[L]
        /\ frames[L].op = "ajax" /\ frames[L].at = "send"
        /\ \A i \in 1..L : frames[i].of \in Requests
  BY FrameTyped DEF Typed, Top, Last, Step
<1>2. Top.of \in Requests /\ Top.of \in 1..begun
  <2>1. Top.of <= begun /\ begun \in Nat
    BY <1>1 DEF Typed, IInv, Unbegun
  <2>2. Top.of \in Requests
    BY <1>1
  <2>3. Top.of \in Nat \ {0}
    BY <2>2 DEF AjaxAssumption
  <2> QED BY <2>1, <2>2, <2>3
<1>3. Script(Top.of) => stage[Top.of] # 2
  BY <1>1 DEF IInv, ScriptsSent, Sending
<1> QED BY <1>1, <1>2, <1>3 DEF SendsNow

\* send has an answer at once, or throws: the request is done, maybe for the second time.  Or
\* the answer is to come.
SentDone(r, ok) ==
  /\ r = Top.of /\ (ok => ~Script(r))
  /\ reopened' = IF stage[r] = 2 THEN reopened \cup {r} ELSE reopened
  /\ stage' = [stage EXCEPT ![r] = 2] /\ transport' = transport \ {r} /\ timers' = timers \ {r}
  /\ frames' = Append(Rest, Frame("done", r, "settle", "jQuery", ok))
  /\ UNCHANGED <<begun, options, callbacks, counted, deferred, completed, active, jsonp,
                 shared, threw>>

SentWaits(r) ==
  /\ r = Top.of
  /\ reopened' = IF stage[r] = 2 THEN reopened \cup {r} ELSE reopened
  /\ stage' = [stage EXCEPT ![r] = 1] /\ callbacks' \subseteq callbacks \cup {r}
  /\ timers' \subseteq timers \cup {r} /\ frames' = Rest
  /\ loading' \subseteq loading \cup {r} /\ (Script(r) \/ loading' = loading)
  /\ UNCHANGED <<begun, options, transport, counted, deferred, completed, active, window, previous,
                 container, shared, threw>>

LEMMA SendEnds ==
  ASSUME AjaxAssumption, Typed, IInv, Step("ajax", "send"),
         NEW r, NEW ok \in BOOLEAN, SentDone(r, ok)
  PROVE  Typed' /\ IInv'
<1> DEFINE f == Frame("done", r, "settle", "jQuery", ok)
<1>1. /\ r \in Requests /\ r \in 1..begun /\ begun \in Nat /\ counted \subseteq Requests
      /\ timers \subseteq Requests /\ (Script(r) => stage[r] # 2) /\ (ok => ~Script(r))
  BY Sent DEF Typed, SentDone
<1>2. PICK L \in Nat \ {0} : SendsNow(L, r)
  BY Sent DEF SentDone
<1>3. f \in Frames /\ f.op = "done" /\ f.of = r /\ f.at = "settle" /\ f.ok = ok
  BY <1>1 DEF Frame, Frames, DoneSteps
<1> HIDE DEF f
<1>4. /\ frames' \in Seq(Frames) /\ Len(frames') = L /\ frames'[L] = f /\ DOMAIN frames' = 1..L
      /\ \A i \in 1..(L-1) : frames'[i] = frames[i]
  <2>1. frames \in Seq(Frames) /\ frames # <<>> /\ L = Len(frames) /\ frames' = Append(Rest, f)
    BY <1>2 DEF Typed, Step, SendsNow, f, SentDone
  <2>2. frames' \in Seq(Frames) /\ Len(frames') = L /\ frames'[L] = f
    BY <1>3, <2>1, Replaced
  <2>3. \A i \in 1..(L-1) : frames'[i] = frames[i]
    BY <1>3, <2>1, Replaced
  <2> QED BY <2>2, <2>3
<1>5. /\ begun' = begun /\ options' = options /\ counted' = counted /\ deferred' = deferred
      /\ completed' = completed /\ active' = active /\ window' = window /\ previous' = previous
      /\ container' = container /\ loading' = loading /\ callbacks' = callbacks
      /\ shared' = shared /\ threw' = threw
      /\ transport' = transport \ {r} /\ timers' = timers \ {r}
  BY DEF jsonp, SentDone
<1>6. /\ \A q \in Requests : stage'[q] = IF q = r THEN 2 ELSE stage[q]
      /\ reopened \subseteq reopened' /\ reopened' \subseteq reopened \cup {r}
      /\ r \notin reopened' => stage[r] # 2 /\ r \notin reopened
      /\ stage[r] # 2 => reopened' = reopened
      /\ stage' \in [Requests -> 0..2]
  BY <1>1 DEF Typed, SentDone
<1>7. Typed'
  BY <1>1, <1>4, <1>5, <1>6 DEF Typed
<1> USE <1>1, <1>2, <1>3, <1>4, <1>5 DEF SendsNow
<1>8. Unbegun'
  BY <1>6 DEF IInv, Unbegun
<1>9. BegunOnce'
  BY DEF IInv, BegunOnce, Global
<1>10. r \notin reopened' =>
         deferred[r] = "pending" /\ \A i \in 1..(L-1) : ~(frames[i].op = "done" /\ frames[i].of = r)
  BY <1>6 DEF IInv, DoneOnce
<1>11. DoneOnce'
  <2>1. \A q \in Requests \ reopened' : stage'[q] # 2 => deferred[q] = "pending"
    BY <1>6 DEF IInv, DoneOnce
  <2>2. ASSUME NEW i \in 1..L, frames'[i].op = "done", frames'[i].of \notin reopened'
        PROVE  /\ stage'[frames'[i].of] = 2
               /\ frames'[i].at = "settle" => deferred[frames'[i].of] = "pending"
               /\ \A j \in 1..L : frames'[j].op = "done" /\ frames'[j].of = frames'[i].of => i = j
    <3>1. CASE i = L
      BY <1>6, <1>10, <2>2, <3>1
    <3>2. CASE i \in 1..(L-1)
      <4>1. frames'[i] = frames[i] /\ frames[i].of \notin reopened /\ frames[i].of \in Requests
        BY <1>6, <2>2, <3>2
      <4>2. frames[i].of # r
        BY <1>10, <2>2, <3>2, <4>1
      <4>3. /\ stage[frames[i].of] = 2
            /\ frames[i].at = "settle" => deferred[frames[i].of] = "pending"
            /\ \A j \in 1..L : frames[j].op = "done" /\ frames[j].of = frames[i].of => i = j
        BY <2>2, <3>2, <4>1 DEF IInv, DoneOnce
      <4>4. stage'[frames[i].of] = 2
        BY <1>6, <4>1, <4>2, <4>3
      <4>5. \A k \in 1..L : frames'[k].op = "done" /\ frames'[k].of = frames[i].of => i = k
        BY <4>2, <4>3
      <4> QED BY <4>1, <4>3, <4>4, <4>5
    <3> QED BY <3>1, <3>2
  <2> QED BY <2>1, <2>2 DEF DoneOnce
<1>12. EventsAgree'
  BY <1>6 DEF IInv, EventsAgree
<1>13. CounterExact'
  <2> SUFFICES ASSUME reopened' = {}
               PROVE  /\ active >= Cardinality(Open')
                      /\ ~threw => active = Cardinality(Open')
    BY DEF CounterExact
  <2>1. stage[r] # 2 /\ reopened = {}
    BY <1>6
  <2>2. \A q \in counted : (\E i \in 1..L : Ends(frames'[i], q))
                             <=> q = r \/ \E i \in 1..L : Ends(frames[i], q)
    BY DEF Ends
  <2>3. Open' = Open
    BY <1>6, <2>1, <2>2 DEF Open
  <2> QED BY <2>1, <2>3 DEF IInv, CounterExact
<1>14. CountedOnes'
  <2>1. \A q \in counted : (\E i \in 1..L : Completes(frames'[i], q))
                             <=> q = r \/ \E i \in 1..L : Completes(frames[i], q)
    BY DEF Completes
  <2>2. ~threw => \A q \in counted : stage'[q] = 2 =>
          q \in completed \/ \E i \in 1..L : Completes(frames'[i], q)
    BY <1>6, <2>1 DEF IInv, CountedOnes
  <2>3. \A i \in 1..L : frames'[i].op = "done" /\ frames'[i].at = "counter"
          => frames'[i].of \in counted
    BY DEF IInv, CountedOnes
  <2> QED BY <2>2, <2>3 DEF CountedOnes
<1>15. TimersSent'
  BY <1>6 DEF IInv, TimersSent
<1>16. ScriptsSent'
  BY <1>6 DEF IInv, ScriptsSent, Script, Sending
<1>17. OwnNames'
  BY DEF IInv, OwnNames, Live
<1>18. Contained'
  <2>1. options[r].name # None => Script(r)
    BY DEF AjaxAssumption, Typed, Script
  <2> QED BY <2>1 DEF IInv, Contained
<1> QED BY <1>7, <1>8, <1>9, <1>11, <1>12, <1>13, <1>14, <1>15, <1>16, <1>17, <1>18 DEF IInv

LEMMA SendWaits ==
  ASSUME AjaxAssumption, Typed, IInv, Step("ajax", "send"), NEW r, SentWaits(r)
  PROVE  Typed' /\ IInv'
<1>1. /\ r \in Requests /\ r \in 1..begun /\ begun \in Nat /\ counted \subseteq Requests
      /\ timers \subseteq Requests /\ (Script(r) => stage[r] # 2)
  BY Sent DEF Typed, SentWaits
<1>2. PICK L \in Nat \ {0} : SendsNow(L, r)
  BY Sent DEF SentWaits
<1>3. /\ frames' \in Seq(Frames) /\ Len(frames') = L - 1 /\ DOMAIN frames' = 1..(L-1)
      /\ \A i \in 1..(L-1) : frames'[i] = frames[i]
  <2>1. frames \in Seq(Frames) /\ frames # <<>> /\ L = Len(frames)
    BY <1>2 DEF Typed, Step, SendsNow
  <2>2. frames' \in Seq(Frames) /\ Len(frames') = L - 1
    BY <2>1, Popped DEF SentWaits
  <2>3. \A i \in 1..(L-1) : frames'[i] = frames[i]
    BY <2>1, Popped DEF SentWaits
  <2> QED BY <2>2, <2>3
<1>4. /\ begun' = begun /\ options' = options /\ counted' = counted /\ deferred' = deferred
      /\ completed' = completed /\ active' = active /\ window' = window /\ previous' = previous
      /\ container' = container /\ transport' = transport
      /\ shared' = shared /\ threw' = threw
  BY DEF SentWaits
<1>17. /\ callbacks' \subseteq callbacks \cup {r} /\ timers' \subseteq timers \cup {r}
       /\ loading' \subseteq loading \cup {r} /\ (~Script(r) => loading' = loading)
  BY DEF SentWaits
<1>5. /\ \A q \in Requests : stage'[q] = IF q = r THEN 1 ELSE stage[q]
      /\ reopened \subseteq reopened' /\ reopened' \subseteq reopened \cup {r}
      /\ r \notin reopened' => stage[r] # 2 /\ r \notin reopened
      /\ stage[r] # 2 => reopened' = reopened
      /\ stage' \in [Requests -> 0..2]
  BY <1>1 DEF Typed, SentWaits
<1>6. Typed'
  <2>1. loading' \subseteq 1..begun
    BY <1>1, <1>17 DEF Typed
  <2> QED BY <1>1, <1>3, <1>4, <1>5, <1>17, <2>1 DEF Typed
<1> USE <1>1, <1>2, <1>3, <1>4 DEF SendsNow
<1>7. Unbegun'
  BY <1>5, <1>17 DEF IInv, Unbegun
<1>8. BegunOnce'
  <2>1. \A i \in 1..(L-1) : i \in 1..L /\ frames'[i] = frames[i]
    OBVIOUS
  <2>2. \A i, j \in DOMAIN frames' :
          frames'[i].op = "ajax" /\ frames'[j].op = "ajax" /\ frames'[i].of = frames'[j].of => i = j
    BY <2>1 DEF IInv, BegunOnce
  <2>3. \A i \in DOMAIN frames' :
          frames'[i].op = "ajax" /\ frames'[i].at = "global" => frames'[i].of \notin counted'
    BY <2>1 DEF IInv, BegunOnce
  <2>4. \A x \in counted' : Global(x)'
    BY DEF IInv, BegunOnce, Global
  <2> QED BY <2>2, <2>3, <2>4 DEF BegunOnce
<1>9. DoneOnce'
  <2>1. \A q \in Requests \ reopened' : stage'[q] # 2 => deferred[q] = "pending"
    BY <1>5 DEF IInv, DoneOnce
  <2>2. ASSUME NEW i \in 1..(L-1), frames'[i].op = "done", frames'[i].of \notin reopened'
        PROVE  /\ stage'[frames'[i].of] = 2
               /\ frames'[i].at = "settle" => deferred[frames'[i].of] = "pending"
               /\ \A k \in 1..(L-1) : frames'[k].op = "done" /\ frames'[k].of = frames'[i].of => i = k
    <3>0. i \in 1..L /\ frames'[i] = frames[i]
      OBVIOUS
    <3>1. /\ frames[i].op = "done" /\ frames[i].of \notin reopened' /\ frames[i].of \notin reopened
          /\ frames[i].of \in Requests
      BY <1>5, <2>2, <3>0
    <3>2. /\ stage[frames[i].of] = 2
          /\ frames[i].at = "settle" => deferred[frames[i].of] = "pending"
          /\ \A k \in 1..L : frames[k].op = "done" /\ frames[k].of = frames[i].of => i = k
      BY <3>0, <3>1 DEF IInv, DoneOnce
    <3>3. frames[i].of # r
      BY <1>5, <3>1, <3>2
    <3>4. stage'[frames[i].of] = 2
      BY <1>5, <3>1, <3>2, <3>3
    <3>5. \A k \in 1..(L-1) : frames'[k].op = "done" /\ frames'[k].of = frames[i].of => i = k
      BY <3>2
    <3> QED BY <3>0, <3>2, <3>4, <3>5
  <2> QED BY <2>1, <2>2 DEF DoneOnce
<1>10. EventsAgree'
  BY <1>5 DEF IInv, EventsAgree
<1>11. CounterExact'
  <2> SUFFICES ASSUME reopened' = {}
               PROVE  /\ active >= Cardinality(Open')
                      /\ ~threw => active = Cardinality(Open')
    BY DEF CounterExact
  <2>1. stage[r] # 2 /\ reopened = {}
    BY <1>5
  <2>2. \A q \in counted : (\E i \in 1..(L-1) : Ends(frames'[i], q))
                             <=> \E i \in 1..L : Ends(frames[i], q)
    BY DEF Ends
  <2>3. Open' = Open
    <3>1. \A q \in counted : stage'[q] # 2 <=> stage[q] # 2
      BY <1>5, <2>1
    <3> QED BY <2>2, <3>1 DEF Open
  <2> QED BY <2>1, <2>3 DEF IInv, CounterExact
<1>12. CountedOnes'
  <2>1. \A q \in counted : (\E i \in 1..(L-1) : Completes(frames'[i], q))
                             <=> \E i \in 1..L : Completes(frames[i], q)
    BY DEF Completes
  <2>2. ~threw => \A q \in counted : stage'[q] = 2 =>
          q \in completed \/ \E i \in 1..(L-1) : Completes(frames'[i], q)
    BY <1>5, <2>1 DEF IInv, CountedOnes
  <2>3. \A i \in 1..(L-1) : frames'[i].op = "done" /\ frames'[i].at = "counter"
          => frames'[i].of \in counted
    BY DEF IInv, CountedOnes
  <2> QED BY <2>2, <2>3 DEF CountedOnes
<1>13. TimersSent'
  BY <1>5, <1>17 DEF IInv, TimersSent
<1>14. ScriptsSent'
  BY <1>5 DEF IInv, ScriptsSent, Script, Sending
<1>15. OwnNames'
  <2>1. Script(r) => deferred[r] = "pending"
    BY DEF IInv, DoneOnce, ScriptsSent
  <2>2. \A q \in Requests : Live(q)' => Live(q)
    BY <1>17, <2>1 DEF Live
  <2>3. \A q \in 1..begun : q \in Requests
    BY DEF Typed
  <2> QED BY <2>2, <2>3 DEF IInv, OwnNames
<1>16. Contained'
  BY DEF IInv, Contained
<1> QED BY <1>6, <1>7, <1>8, <1>9, <1>10, <1>11, <1>12, <1>13, <1>14, <1>15, <1>16 DEF IInv
-----------------------------------------------------------------------------
LEMMA InitIInv ==
  ASSUME AjaxAssumption, AjaxInit
  PROVE  Typed /\ IInv
<1>1. frames = <<>> /\ DOMAIN frames = {} /\ counted = {} /\ timers = {} /\ begun = 0 /\ active = 0
  BY DEF AjaxInit
<1>2. Typed
  <2>1. 1..begun = {}
    BY <1>1
  <2>2. options \in [Requests -> Options]
    BY DEF AjaxInit, AjaxAssumption
  <2>3. frames \in Seq(Frames)
    BY <1>1
  <2>4. /\ stage \in [Requests -> 0..2] /\ deferred \in [Requests -> {"pending", "resolved", "rejected"}]
        /\ window \in [JsonpNames -> Requests \cup {None}] /\ previous \in [Requests -> Requests \cup {None}]
        /\ container \in [Requests -> Requests \cup {None}]
    BY DEF AjaxInit
  <2>5. /\ transport = {} /\ callbacks = {} /\ completed = {} /\ loading = {}
        /\ reopened = {} /\ shared = {} /\ threw \in BOOLEAN
    BY DEF AjaxInit
  <2> QED BY <1>1, <2>1, <2>2, <2>3, <2>4, <2>5 DEF Typed
<1>3. Open = {}
  BY <1>1 DEF Open
<1>4. CounterExact
  BY <1>1, <1>3, FS_EmptySet DEF CounterExact
<1>5. Unbegun /\ BegunOnce /\ DoneOnce /\ EventsAgree /\ CountedOnes /\ TimersSent /\ ScriptsSent
  BY <1>1 DEF AjaxInit, Unbegun, BegunOnce, DoneOnce, EventsAgree, CountedOnes, TimersSent, ScriptsSent
<1>6. OwnNames /\ Contained
  <2>1. 1..begun = {}
    BY <1>1
  <2> QED BY <1>1, <2>1 DEF AjaxInit, OwnNames, Contained
<1> QED BY <1>2, <1>4, <1>5, <1>6 DEF IInv

\* What is to call back, or to be timed out, was begun.
LEMMA Begun ==
  ASSUME AjaxAssumption, Typed, IInv, NEW r \in Requests,
         r \in callbacks \/ r \in timers \/ r <= begun
  PROVE  r \in 1..begun
<1>1. r \in Nat \ {0} /\ begun \in Nat
  BY DEF AjaxAssumption, Typed
<1>2. r <= begun
  BY <1>1 DEF IInv, Unbegun
<1> QED BY <1>1, <1>2

\* done with nothing that runs, or from page code.
LEMMA DoneByPage ==
  ASSUME AjaxAssumption, Typed, IInv, NEW r \in 1..begun, NEW status, PageActs,
         stage[r] # 2, Done(r, status, frames), callbacks' \subseteq callbacks,
         UNCHANGED <<begun, options, counted, deferred, completed, active, jsonp, history>>
  PROVE  Typed' /\ IInv'
<1> DEFINE n == Len(frames)
<1>1. n \in 0..Len(frames) /\ frames = SubSeq(frames, 1, n)
  BY DEF Typed
<1>2. \A i \in 1..n : ~Sending(frames[i])
  <2>1. \A i \in 1..n : frames # <<>>
    OBVIOUS
  <2>2. frames # <<>> => frames[n].in = "page"
    BY DEF PageActs, Top, Last
  <2>3. \A i \in 1..n : Sending(frames[i]) => i = n /\ frames[i].in = "jQuery"
    BY FrameTyped DEF IInv, ScriptsSent
  <2> QED BY <2>1, <2>2, <2>3
<1>3. \A i \in (n+1)..Len(frames) : frames[i].op = "ajax"
  BY <1>1
<1>4. Done(r, status, SubSeq(frames, 1, n))
  BY <1>1
<1> QED BY <1>1, <1>2, <1>3, <1>4, DoneKeeps

\* done in the place of the step of ajax that calls it.
LEMMA DoneByAjax ==
  ASSUME AjaxAssumption, Typed, IInv, frames # <<>>, Top.op = "ajax", NEW status,
         Done(Top.of, status, Rest), callbacks' \subseteq callbacks,
         UNCHANGED <<begun, options, counted, deferred, completed, active, jsonp, history>>
  PROVE  Typed' /\ IInv'
<1>1. CASE stage[Top.of] = 2
  <2>1. frames' = Rest /\ UNCHANGED <<stage, transport, timers>>
    BY <1>1 DEF Done
  <2> QED BY <2>1, DropKeeps
<1>2. CASE stage[Top.of] # 2
  <2>1. PICK L \in Nat \ {0} : /\ L = Len(frames) /\ DOMAIN frames = 1..L /\ Top = frames[L]
                              /\ Top.of \in Requests /\ Top.of <= begun
    BY FrameTyped DEF Typed, Top, Last, IInv, Unbegun
  <2> DEFINE n == L - 1
  <2>2. n \in 0..Len(frames) /\ Rest = SubSeq(frames, 1, n)
    BY <2>1 DEF Rest, Front
  <2>3. \A i \in 1..n : ~Sending(frames[i])
    BY <2>1 DEF IInv, ScriptsSent
  <2>4. \A i \in (n+1)..Len(frames) : frames[i].op = "ajax"
    BY <2>1
  <2>5. Top.of \in 1..begun
    BY <2>1, Begun
  <2> HIDE DEF n
  <2> QED BY <1>2, <2>2, <2>3, <2>4, <2>5, DoneKeeps
<1> QED BY <1>1, <1>2

\* The frame that goes on: what is being sent as a script is not done.
LEMMA ScriptTop ==
  ASSUME Typed, IInv, frames # <<>>
  PROVE  /\ Top \in Frames /\ Top.of \in Requests
         /\ Top.op = "ajax" /\ Script(Top.of) /\ Top.at \in {"beforeSend", "install", "transport", "send"}
              => Top.in = "jQuery" /\ stage[Top.of] # 2 /\ deferred[Top.of] = "pending"
         /\ Top.of \in counted => ~Script(Top.of)
<1>1. PICK L \in Nat \ {0} : /\ L = Len(frames) /\ DOMAIN frames = 1..L /\ Top = frames[L]
                            /\ Top \in Frames /\ Top.of \in Requests
  BY FrameTyped DEF Typed, Top, Last
<1>2. Top.op = "ajax" /\ Script(Top.of) /\ Top.at \in {"beforeSend", "install", "transport", "send"}
        => Top.in = "jQuery" /\ stage[Top.of] # 2 /\ deferred[Top.of] = "pending"
  BY <1>1 DEF IInv, ScriptsSent, Sending, DoneOnce
<1>3. Top.of \in counted => ~Script(Top.of)
  BY DEF IInv, BegunOnce, Global, Script
<1> QED BY <1>1, <1>2, <1>3

\* Every step of a call that runs keeps the invariant.
LEMMA RunsIInv ==
  ASSUME AjaxAssumption, Typed, IInv, Runs
  PROVE  Typed' /\ IInv'
<1> USE DEF Step
<1>1. CASE StartGlobals
  <2>1. CASE stage[Top.of] = 2
    <3>1. frames' = Rest /\ UNCHANGED <<active, counted>>
      BY <1>1, <2>1 DEF StartGlobals
    <3> QED BY <1>1, <3>1, DropKeeps DEF StartGlobals
  <2>2. CASE stage[Top.of] # 2 /\ ~Global(Top.of)
    <3>1. MovesTo("beforeSend", "jQuery") /\ UNCHANGED <<active, counted>>
      BY <1>1, <2>2 DEF StartGlobals, GoOn, MovesTo
    <3>2. Follows("beforeSend", "jQuery")
      BY <1>1, <2>2 DEF StartGlobals, Follows
    <3>3. completed \subseteq completed' /\ completed' \subseteq Requests
      BY <1>1 DEF StartGlobals, Typed
    <3> QED BY <1>1, <3>1, <3>2, <3>3, MoveKeeps DEF StartGlobals, AjaxSteps
  <2>3. CASE stage[Top.of] # 2 /\ Global(Top.of)
    <3>1. /\ counted' = counted \cup {Top.of} /\ active' = active + 1
          /\ \E who \in {"jQuery", "page"} : MovesTo("beforeSend", who)
      BY <1>1, <2>3 DEF StartGlobals, MayCall, CallsPage, GoOn, MovesTo
    <3> QED BY <1>1, <2>3, <3>1, CountKeeps DEF StartGlobals
  <2> QED BY <2>1, <2>2, <2>3
<1>2. CASE BeforeSend
  <2>1. frames # <<>> /\ Top.op = "ajax" /\ Top.at = "beforeSend" /\ Top.in = "jQuery"
    BY <1>2 DEF BeforeSend
  <2>2. PICK step \in {"allowed", "install"}, who \in {"jQuery", "page"} :
          MovesTo(step, who) /\ (step = "install" => who = "jQuery")
    BY <1>2 DEF BeforeSend, MayCall, CallsPage, GoOn, MovesTo
  <2>3. Follows(step, who)
    BY <2>1, <2>2, ScriptTop DEF Follows
  <2>4. completed \subseteq completed' /\ completed' \subseteq Requests
    BY <1>2 DEF BeforeSend, Typed, request
  <2> QED BY <1>2, <2>1, <2>2, <2>3, <2>4, MoveKeeps DEF BeforeSend, AjaxSteps, request
<1>3. CASE Install
  <2>1. frames # <<>> /\ Top.op = "ajax" /\ Top.at = "install" /\ Top.in = "jQuery"
    BY <1>3 DEF Install
  <2>2. PICK who \in {"jQuery", "page"} :
          MovesTo("transport", who) /\ (deferred[Top.of] = "pending" => who = "jQuery")
    BY <1>3 DEF Install, MayCall, CallsPage, GoOn, MovesTo
  <2>3. Follows("transport", who)
    BY <2>1, <2>2, ScriptTop DEF Follows
  <2>4. completed \subseteq completed' /\ completed' \subseteq Requests
    BY <1>3 DEF Install, Typed, request
  <2> QED BY <1>3, <2>1, <2>2, <2>3, <2>4, MoveKeeps DEF Install, AjaxSteps, request
<1>4. CASE GetTransport
  <2>1. frames # <<>> /\ Top.op = "ajax" /\ Top.at = "transport" /\ Top.in = "jQuery"
    BY <1>4 DEF GetTransport
  <2>2. CASE options[Top.of].transport = None
    <3>1. Done(Top.of, "none", Rest)
      BY <1>4, <2>2 DEF GetTransport
    <3> QED BY <1>4, <2>1, <3>1, DoneByAjax DEF GetTransport
  <2>3. CASE options[Top.of].transport # None
    <3>1. PICK who \in {"jQuery", "page"} :
            MovesTo("send", who) /\ (Top.of \notin counted => who = "jQuery")
      BY <1>4, <2>3 DEF GetTransport, MayCall, CallsPage, GoOn, MovesTo
    <3>2. Follows("send", who)
      BY <2>1, <3>1, ScriptTop DEF Follows
    <3>3. /\ completed \subseteq completed' /\ completed' \subseteq Requests
          /\ transport' \subseteq transport \cup {Top.of} /\ UNCHANGED <<stage, timers>>
      BY <1>4, <2>3 DEF GetTransport, Typed
    <3> QED BY <1>4, <2>1, <3>1, <3>2, <3>3, MoveKeeps DEF GetTransport, AjaxSteps
  <2> QED BY <2>2, <2>3
<1>5. CASE Send
  <2> DEFINE r == Top.of
  <2>1. Step("ajax", "send")
    BY <1>5 DEF Send
  <2>2. (\E ok \in BOOLEAN : SentDone(r, ok)) \/ SentWaits(r)
    BY <1>5 DEF Send, SendXhr, SendScript, SentDone, SentWaits, Script, jsonp
  <2> QED BY <2>1, <2>2, SendEnds, SendWaits
<1>6. ASSUME NEW sends \in BOOLEAN, Allowed(sends)
      PROVE  Typed' /\ IInv'
  <2>1. frames # <<>> /\ Top.op = "ajax" /\ Top.at = "allowed" /\ Top.in = "jQuery"
    BY <1>6 DEF Allowed
  <2>2. CASE sends /\ stage[Top.of] # 2
    <3>1. MovesTo("install", "jQuery") /\ UNCHANGED <<callbacks, stage, transport, timers>>
      BY <1>6, <2>2 DEF Allowed, GoOn, MovesTo
    <3>2. Follows("install", "jQuery")
      BY <2>1, <2>2 DEF Follows
    <3>3. completed \subseteq completed' /\ completed' \subseteq Requests
      BY <1>6 DEF Allowed, Typed
    <3> QED BY <1>6, <2>1, <3>1, <3>2, <3>3, MoveKeeps DEF Allowed, AjaxSteps
  <2>3. CASE ~(sends /\ stage[Top.of] # 2)
    <3>1. Done(Top.of, "abort", Rest) /\ callbacks' \subseteq callbacks
      BY <1>6, <2>3 DEF Allowed, AbortRequest, AbortTransport
    <3> QED BY <1>6, <2>1, <3>1, DoneByAjax DEF Allowed
  <2> QED BY <2>2, <2>3
<1>7. CASE Settle
  BY <1>7, SettleKeeps
<1>8. CASE OutcomeEvent
  <2>1. frames # <<>> /\ Top.op = "done" /\ Top.at = "event"
    BY <1>8 DEF OutcomeEvent
  <2>2. PICK who \in {"jQuery", "page"} : MovesTo("complete", who)
    BY <1>8 DEF OutcomeEvent, MayCall, CallsPage, GoOn, MovesTo
  <2>3. Follows("complete", who)
    BY <2>1 DEF Follows
  <2>4. completed \subseteq completed' /\ completed' \subseteq Requests
    BY <1>8 DEF OutcomeEvent, Typed, request
  <2> QED BY <1>8, <2>1, <2>2, <2>3, <2>4, MoveKeeps DEF OutcomeEvent, DoneSteps, request
<1>9. CASE Complete
  <2>1. frames # <<>> /\ Top.op = "done" /\ Top.at = "complete"
    BY <1>9 DEF Complete
  <2>2. PICK who \in {"jQuery", "page"} : MovesTo("ajaxComplete", who)
    BY <1>9 DEF Complete, MayCall, CallsPage, GoOn, MovesTo
  <2>3. /\ completed \subseteq completed' /\ completed' \subseteq Requests /\ Top.of \in completed'
    BY <1>9, <2>1, ScriptTop DEF Complete, Typed
  <2>4. Follows("ajaxComplete", who)
    BY <2>1, <2>3 DEF Follows
  <2> QED BY <1>9, <2>1, <2>2, <2>3, <2>4, MoveKeeps DEF Complete, DoneSteps
<1>10. CASE AjaxComplete
  <2>1. frames # <<>> /\ Top.op = "done" /\ Top.at = "ajaxComplete"
    BY <1>10 DEF AjaxComplete
  <2>2. CASE Top.of \in counted
    <3>1. MovesTo("counter", "page")
      BY <1>10, <2>2 DEF AjaxComplete, CallsPage, MovesTo
    <3>2. Follows("counter", "page")
      BY <2>1, <2>2 DEF Follows
    <3>3. completed \subseteq completed' /\ completed' \subseteq Requests
      BY <1>10 DEF AjaxComplete, Typed, request
    <3> QED BY <1>10, <2>1, <3>1, <3>2, <3>3, MoveKeeps DEF AjaxComplete, DoneSteps, request
  <2>3. CASE Top.of \notin counted
    <3>1. frames' = Rest
      BY <1>10, <2>3 DEF AjaxComplete
    <3> QED BY <1>10, <2>1, <2>3, <3>1, DropKeeps DEF AjaxComplete, request
  <2> QED BY <2>2, <2>3
<1>11. CASE Counter
  BY <1>11, CounterKeeps
<1>12. CASE Stopped
  <2>1. frames # <<>> /\ Top.op = "done" /\ Top.at = "stopped" /\ frames' = Rest
    BY <1>12 DEF Stopped
  <2> QED BY <1>12, <2>1, DropKeeps DEF Stopped, request
<1>13. CASE CalleeReturns
  <2> DEFINE step == Top.at
  <2>1. frames # <<>> /\ Top.in = "page" /\ MovesTo(step, "jQuery")
    BY <1>13 DEF CalleeReturns, GoOn, MovesTo
  <2>2. Top \in Frames /\ step \in AjaxSteps \cup DoneSteps
    BY <2>1, ScriptTop DEF Frames
  <2>3. Follows(step, "jQuery")
    BY <2>1, ScriptTop DEF Follows
  <2>4. completed \subseteq completed' /\ completed' \subseteq Requests
    BY <1>13 DEF CalleeReturns, Typed, request
  <2> HIDE DEF step
  <2> QED BY <1>13, <2>1, <2>2, <2>3, <2>4, MoveKeeps DEF CalleeReturns, request
<1> QED BY <1>1, <1>2, <1>3, <1>4, <1>5, <1>6, <1>7, <1>8, <1>9, <1>10, <1>11, <1>12, <1>13 DEF Runs

\* Every step keeps it.
LEMMA NextIInv ==
  ASSUME AjaxAssumption, Typed, IInv, [AjaxNext]_ajaxVars
  PROVE  Typed' /\ IInv'
<1>1. CASE Runs
  BY <1>1, RunsIInv
<1>2. CASE CalleeThrows
  BY <1>2, ThrowKeeps
<1>3. ASSUME NEW o \in Options, Begin(o)
      PROVE  Typed' /\ IInv'
  BY <1>3, BeginKeeps
<1>4. ASSUME NEW r \in Requests, Abort(r)
      PROVE  Typed' /\ IInv'
  <2>1. r \in 1..begun /\ PageActs /\ Done(r, "abort", frames) /\ callbacks' \subseteq callbacks
    BY <1>4, Begun DEF Abort, AbortRequest, AbortTransport
  <2>2. CASE stage[r] # 2
    BY <1>4, <2>1, <2>2, DoneByPage DEF Abort
  <2>3. CASE stage[r] = 2
    BY <1>4, <2>1, <2>3, FewerKeeps DEF Abort, Done
  <2> QED BY <2>2, <2>3
<1>5. ASSUME NEW r \in Requests, Answer(r) \/ ScriptLoads(r)
      PROVE  Typed' /\ IInv'
  <2>1. /\ r \in 1..begun /\ frames = <<>> /\ Done(r, "answer", frames) /\ callbacks' \subseteq callbacks
        /\ UNCHANGED <<begun, options, counted, deferred, completed, active, jsonp, history>>
    BY <1>5, Begun DEF Answer, ScriptLoads
  <2>2. CASE stage[r] # 2
    BY <2>1, <2>2, DoneByPage DEF PageActs
  <2>3. CASE stage[r] = 2
    BY <2>1, <2>3, FewerKeeps DEF Done
  <2> QED BY <2>2, <2>3
<1>6. ASSUME NEW r \in Requests, Evaluate(r)
      PROVE  Typed' /\ IInv'
  BY <1>6, EvaluateKeeps
<1>7. ASSUME NEW r \in Requests, Timeout(r)
      PROVE  Typed' /\ IInv'
  <2>1. r \in 1..begun /\ frames = <<>> /\ stage[r] # 2 /\ callbacks' \subseteq callbacks
    BY <1>7, Begun DEF Timeout, AbortTransport, IInv, TimersSent
  <2>2. Done(r, "timeout", frames)
    BY <1>7, <2>1 DEF Timeout
  <2> QED BY <1>7, <2>1, <2>2, DoneByPage DEF Timeout, PageActs
<1>8. CASE UNCHANGED ajaxVars
  BY <1>8, FewerKeeps DEF ajaxVars, request
<1> QED BY <1>1, <1>2, <1>3, <1>4, <1>5, <1>6, <1>7, <1>8 DEF AjaxNext
-----------------------------------------------------------------------------
LEMMA Invariance ==
  ASSUME AjaxAssumption
  PROVE  AjaxSpec => [](Typed /\ IInv)
<1>1. AjaxInit => Typed /\ IInv
  BY InitIInv
<1>2. Typed /\ IInv /\ [AjaxNext]_ajaxVars => (Typed /\ IInv)'
  BY NextIInv
<1> QED BY <1>1, <1>2, PTL DEF AjaxSpec

\* What the invariant says of the properties.
LEMMA StateParts ==
  ASSUME Typed, IInv
  PROVE  AjaxTypeOK /\ ActiveCounts /\ OutcomesAgree
<1>1. AjaxTypeOK
  <2>1. reopened = {} => active >= 0
    BY OpenFinite DEF IInv, CounterExact, Typed
  <2>2. counted \subseteq Requests
    BY DEF Typed
  <2> QED BY <2>1, <2>2 DEF Typed, AjaxTypeOK
<1>2. ActiveCounts
  <2> SUFFICES ASSUME reopened = {}, ~threw
               PROVE  ActiveCounts
    BY DEF ActiveCounts, CountsWhenIdle, StopsWhenQuiet
  <2>1. active = Cardinality(Open)
    BY DEF IInv, CounterExact
  <2>2. CountsWhenIdle
    <3>1. frames = <<>> => Open = {r \in counted : stage[r] # 2}
      BY DEF Open
    <3> QED BY <2>1, <3>1 DEF CountsWhenIdle
  <2>3. StopsWhenQuiet
    <3> SUFFICES ASSUME frames # <<>>, Top.at = "stopped", active = 0, NEW r \in counted
                 PROVE  stage[r] = 2 /\ r \in completed
      BY DEF StopsWhenQuiet
    <3>1. Open = {}
      BY <2>1, OpenFinite, FS_EmptySet
    <3>2. stage[r] = 2 /\ \A i \in DOMAIN frames : ~Ends(frames[i], r)
      BY <3>1 DEF Open
    <3>3. \A i \in DOMAIN frames : ~Completes(frames[i], r)
      BY <3>2 DEF Ends, Completes
    <3> QED BY <3>2, <3>3 DEF IInv, CountedOnes
  <2> QED BY <2>2, <2>3 DEF ActiveCounts
<1>3. OutcomesAgree
  <2>1. EventsAgree
    BY DEF IInv
  <2>2. NoTimerLeft
    BY DEF IInv, TimersSent, NoTimerLeft
  <2>3. OwnResponse
    BY DEF IInv, Contained, OwnResponse
  <2> QED BY <2>1, <2>2, <2>3 DEF OutcomesAgree
<1> QED BY <1>1, <1>2, <1>3

\* Requests, their options and everything that is kept of them have their types, and
\* jQuery.active is not negative unless a request was sent after it was done.
THEOREM AjaxTypeCorrect ==
  ASSUME AjaxAssumption
  PROVE  AjaxSpec => []AjaxTypeOK
<1>1. Typed /\ IInv => AjaxTypeOK
  BY StateParts
<1> QED BY <1>1, Invariance, PTL

\* ajax, done, abort, send: jQuery.active is the number of counted requests that are not done
\* whenever nothing runs, and ajaxStop comes when all of them are done and have run their
\* complete callbacks, unless a callback has thrown or a request was sent after its abort.
THEOREM ActiveCountsAlways ==
  ASSUME AjaxAssumption
  PROVE  AjaxSpec => []ActiveCounts
<1>1. Typed /\ IInv => ActiveCounts
  BY StateParts
<1> QED BY <1>1, Invariance, PTL

\* done, abort, timeout, jsonp: the event that tells of a request and its deferred say the
\* same, no timeout is left of a request that is done, and a jsonp request that succeeds has
\* the response of its own script unless another one has shared its name.
THEOREM OutcomesAgreeAlways ==
  ASSUME AjaxAssumption
  PROVE  AjaxSpec => []OutcomesAgree
<1>1. Typed /\ IInv => OutcomesAgree
  BY StateParts
<1> QED BY <1>1, Invariance, PTL
-----------------------------------------------------------------------------
\* What the tables hold.
Handlers == Filters \cup {"jsonp", "script"}
Senders  == Plugins \cup {"script", "xhr"}

\* An inspection that has begun and its place.
InspectionType == [of : TypeNames, at : Nat \ {0}]

\* The prefilter for jsonp and the transport for scripts are only registered for their types.
Tables ==
  /\ prefilters \in [TypeNames -> Seq(Handlers)] /\ transports \in [TypeNames -> Seq(Senders)]
  /\ \A t \in TypeNames : \A i \in DOMAIN prefilters[t] : prefilters[t][i] = "jsonp" => t \in {"json", "jsonp"}
  /\ \A t \in TypeNames : \A i \in DOMAIN transports[t] : transports[t][i] = "script" => t = "script"

\* Types of the variables.
Phases == {"idle", "prefilters", "transports", "convert", "success", "parsererror", "error"}

Shape ==
  /\ phase \in Phases /\ settings \in Asked /\ chain \in Seq(TypeNames) /\ converters \in Seq(Conversions)
  /\ inspections \in Seq(InspectionType) /\ inspected \subseteq TypeNames /\ ran \in Seq(TypeNames \X Nat)
  /\ selected \in Senders \cup {NoType} /\ current \in TypeNames /\ form \in TypeNames \cup {NoType}
  /\ place \in 0..Len(chain) /\ \A g \in given : g.form \in TypeNames

\* What has not begun yet.
Fresh ==
  /\ phase = "idle" => ran = <<>>
  /\ phase \in {"idle", "prefilters"} => selected = NoType /\ given = {} /\ place = 0
  /\ phase \notin {"prefilters", "transports"} => inspections = <<>>

\* The chain has the types that were asked for at its end; only one that was asked for alone
\* is changed there, by the prefilter for jsonp.
EndOfChain ==
  phase # "idle" =>
    /\ chain # <<>>
    /\ Last(chain) = Last(settings.types) \/ Last(settings.types) = "*"
         \/ (settings.types = <<"jsonp">> /\ Last(chain) = "json")

\* The chain never gets shorter; while it has one type, nothing was redirected, and only this
\* type and the catchall are inspected.
Alone ==
  phase = "prefilters" =>
    /\ Len(chain) >= Len(settings.types)
    /\ Len(chain) = 1 => \A k \in DOMAIN inspections : inspections[k].of \in {settings.types[1], "*"}

\* A place of an inspected type that its inspection, if it is still there, has passed.
Run(t, p) ==
  /\ t \in inspected /\ p \in DOMAIN prefilters[t]
  /\ \A k \in DOMAIN inspections : inspections[k].of = t => p < inspections[k].at

\* One inspection for a type, the one asked for first among the inspected; the history is Run.
Inspections ==
  phase = "prefilters" =>
    /\ \A j, k \in DOMAIN inspections : inspections[j].of = inspections[k].of => j = k
    /\ \A k \in DOMAIN inspections : inspections[k].of \in inspected /\ inspections[k].at <= Len(prefilters[inspections[k].of]) + 1
    /\ settings.types[1] \in inspected
    /\ inspections = <<>> => "*" \in inspected
    /\ \A t \in TypeNames, p \in Nat : (\E i \in DOMAIN ran : ran[i] = <<t, p>>) <=> Run(t, p)
    /\ \A i, j \in DOMAIN ran : ran[i] = ran[j] => i = j
 
\* Transports in the order they are asked, and how many of them were.
Candidates == transports[chain[1]] \o (IF chain[1] = "*" THEN <<>> ELSE transports["*"])
Tried ==
  IF Innermost.of = chain[1] THEN Innermost.at - 1 ELSE Len(transports[chain[1]]) + Innermost.at - 1

\* What is selected after the first n candidates.
FirstOf(n) ==
  IF selected = NoType THEN \A i \in 1..n : ~Serves(Candidates[i])
  ELSE /\ n > 0 /\ selected = Candidates[n] /\ Serves(selected)
       /\ \A i \in 1..(n - 1) : ~Serves(Candidates[i])

\* The search has one inspection; when it ends, its outcome is the one that is promised.
Search ==
  phase = "transports" =>
    /\ inspections # <<>> =>
       /\ Len(inspections) = 1 /\ Innermost.of \in {chain[1], "*"} /\ inspected = {chain[1], Innermost.of}
       /\ Innermost.at <= Len(transports[Innermost.of]) + 1
       /\ FirstOf(Tried)
    /\ inspections = <<>> => FirstThatServes

\* The transport for scripts is only found when the first type is script.
ScriptFirst == phase = "transports" /\ selected = "script" => chain[1] = "script"

\* The value is of the type that the conversion has come to.
Conversion ==
  phase \in {"convert", "success"} =>
    /\ place > 0 /\ current # "*" /\ form \in TypeNames
    /\ chain[place] \in {current, "*"} /\ IsA(form, current)
    /\ phase = "success" => place = Len(chain)

\* The inductive invariant.
TInv ==
  /\ Tables /\ Shape /\ Fresh /\ EndOfChain /\ Alone /\ Inspections
  /\ Search /\ ScriptFirst /\ Conversion /\ GivenItsType
-----------------------------------------------------------------------------
\* A set of numbers has a least one.
LEMMA LeastIn ==
  ASSUME NEW S, S \subseteq Nat, S # {}
  PROVE  Min(S) \in S /\ \A j \in S : Min(S) <= j
<1>1. PICK i \in S : \A j \in S : ~(<<j, i>> \in OpToRel(<, Nat))
  BY NatLessThanWellFounded, WFMin
<1>2. ASSUME NEW j \in S PROVE i <= j
  <2>1. ~(j < i)
    BY <1>1 DEF OpToRel
  <2> QED BY <2>1
<1> QED BY <1>2 DEF Min

\* The last element of a sequence, and what is in front of it.
LEMMA EndFacts ==
  ASSUME NEW S, NEW s \in Seq(S), s # <<>>
  PROVE  /\ Len(s) \in Nat \ {0} /\ Last(s) = s[Len(s)] /\ Last(s) \in S
         /\ Front(s) \in Seq(S) /\ Len(Front(s)) = Len(s) - 1
         /\ \A i \in 1..(Len(s) - 1) : Front(s)[i] = s[i]
<1>1. Len(s) \in Nat \ {0} /\ \A i \in 1..Len(s) : s[i] \in S
  OBVIOUS
<1>2. Last(s) = s[Len(s)] /\ Last(s) \in S
  BY <1>1 DEF Last
<1>3. /\ Front(s) \in Seq(S) /\ Len(Front(s)) = Len(s) - 1
      /\ \A i \in 1..(Len(s) - 1) : Front(s)[i] = s[i]
  <2>1. \A i \in 1..(Len(s) - 1) : s[i] \in S
    BY <1>1
  <2>2. PICK n \in Nat : Len(s) = n + 1
    BY <1>1
  <2>3. Len(s) - 1 = n /\ 1 \in Int /\ n \in Int
    BY <2>2
  <2> DEFINE r == SubSeq(s, 1, n)
  <2>4. /\ r \in Seq(S) /\ Len(r) = IF 1 <= n THEN n - 1 + 1 ELSE 0
        /\ \A i \in 1..(n - 1 + 1) : r[i] = s[1 + i - 1]
    BY <2>1, <2>3, SubSeqProperties
  <2>5. Front(s) = r
    BY <2>3 DEF Front
  <2> HIDE DEF r
  <2>6. Len(r) = n
    BY <2>4
  <2>7. ASSUME NEW i \in 1..n PROVE r[i] = s[i]
    <3>1. i \in 1..(n - 1 + 1) /\ 1 + i - 1 = i
      OBVIOUS
    <3> QED BY <2>4, <3>1
  <2> QED BY <2>3, <2>4, <2>5, <2>6, <2>7
<1> QED BY <1>1, <1>2, <1>3

\* The only element of a sequence.
LEMMA ItemIn ==
  ASSUME NEW S, NEW s \in Seq(S), Len(s) = 1
  PROVE  s[1] \in S /\ s # <<>>
OBVIOUS

\* The last element replaced.
LEMMA ReplacedEnd ==
  ASSUME NEW S, NEW s \in Seq(S), s # <<>>, NEW x \in S
  PROVE  LET r == Append(Front(s), x)
         IN  /\ r \in Seq(S) /\ Len(r) = Len(s) /\ r # <<>> /\ r[Len(s)] = x /\ Last(r) = x
             /\ \A i \in 1..(Len(s) - 1) : r[i] = s[i]
<1>1. /\ Len(s) \in Nat \ {0} /\ Front(s) \in Seq(S) /\ Len(Front(s)) = Len(s) - 1
      /\ \A i \in 1..(Len(s) - 1) : Front(s)[i] = s[i]
  BY EndFacts
<1> DEFINE r == Append(Front(s), x)
<1>2. r \in Seq(S) /\ Len(r) = Len(s) /\ r[Len(s)] = x /\ \A i \in 1..(Len(s) - 1) : r[i] = Front(s)[i]
  BY <1>1
<1>3. r # <<>> /\ Last(r) = x
  BY <1>1, <1>2 DEF Last
<1> QED BY <1>1, <1>2, <1>3

\* An element put in front leaves the end.
LEMMA InFront ==
  ASSUME NEW S, NEW s \in Seq(S), NEW x \in S
  PROVE  /\ <<x>> \o s \in Seq(S) /\ Len(<<x>> \o s) = Len(s) + 1 /\ (<<x>> \o s)[1] = x
         /\ <<x>> \o s # <<>> /\ (s # <<>> => Last(<<x>> \o s) = Last(s))
<1> DEFINE r == <<x>> \o s
<1>1. r \in Seq(S) /\ Len(r) = Len(s) + 1 /\ r[1] = x /\ \A i \in 1..Len(s) : r[i + 1] = s[i]
  OBVIOUS
<1>2. ASSUME s # <<>> PROVE Last(r) = Last(s)
  <2>1. Len(s) \in 1..Len(s)
    BY <1>2
  <2> QED BY <1>1, <2>1 DEF Last
<1> QED BY <1>1, <1>2

\* Two sequences in a row: each place is one of the first or one of the second.
LEMMA ConcatFacts ==
  ASSUME NEW S, NEW r \in Seq(S), NEW s \in Seq(S)
  PROVE  /\ r \o s \in Seq(S) /\ Len(r \o s) = Len(r) + Len(s)
         /\ \A i \in 1..Len(r) : (r \o s)[i] = r[i]
         /\ \A i \in 1..Len(s) : (r \o s)[Len(r) + i] = s[i]
         /\ \A i \in 1..Len(r \o s) : (\E j \in 1..Len(r) : i = j) \/ (\E j \in 1..Len(s) : i = Len(r) + j)
<1>1. r \o s \in Seq(S) /\ Len(r \o s) = Len(r) + Len(s) /\ Len(r) \in Nat /\ Len(s) \in Nat
  OBVIOUS
<1>2. \A i \in 1..Len(r) : (r \o s)[i] = r[i]
  OBVIOUS
<1>3. \A i \in 1..Len(s) : (r \o s)[Len(r) + i] = s[i]
  OBVIOUS
<1>4. ASSUME NEW i \in 1..Len(r \o s), i \notin 1..Len(r) PROVE \E j \in 1..Len(s) : i = Len(r) + j
  <2>1. i - Len(r) \in 1..Len(s) /\ i = Len(r) + (i - Len(r))
    BY <1>1, <1>4
  <2> QED BY <2>1
<1> QED BY <1>1, <1>2, <1>3, <1>4

\* Registering adds the function, and nothing else, to lists.
LEMMA AddToFacts ==
  ASSUME TypesAssumption, NEW H, NEW f \in H, NEW table \in [TypeNames -> Seq(H)], NEW x \in Expressions
  PROVE  /\ AddTo(table, x, f) \in [TypeNames -> Seq(H)]
         /\ \A t \in TypeNames : \A i \in DOMAIN AddTo(table, x, f)[t] :
              AddTo(table, x, f)[t][i] = f \/ \E j \in DOMAIN table[t] : AddTo(table, x, f)[t][i] = table[t][j]
<1>1. ASSUME NEW t \in TypeNames, NEW b \in BOOLEAN
      PROVE  Copies(x, t, b, f) \in Seq(H) /\ \A i \in 1..Len(Copies(x, t, b, f)) : Copies(x, t, b, f)[i] = f
  <2> DEFINE K == {k \in DOMAIN x : x[k] = [type |-> t, before |-> b]}
  <2>1. DOMAIN x = 1..Len(x) /\ Len(x) \in Nat
    BY DEF TypesAssumption
  <2>2. Cardinality(K) \in Nat
    <3>1. IsFiniteSet(1..Len(x)) /\ K \subseteq 1..Len(x)
      <4>1. 1 \in Int /\ Len(x) \in Int
        BY <2>1
      <4>2. IsFiniteSet(1..Len(x))
        BY <4>1, FS_Interval
      <4> QED BY <2>1, <4>2
    <3>2. IsFiniteSet(K)
      BY <3>1, FS_Subset
    <3> QED BY <3>2, FS_CardinalityType
  <2>3. Copies(x, t, b, f) = [i \in 1..Cardinality(K) |-> f]
    BY DEF Copies
  <2> HIDE DEF K
  <2> QED BY <2>2, <2>3
<1>2. ASSUME NEW t \in TypeNames
      PROVE  LET r == Copies(x, t, TRUE, f) \o table[t] \o Copies(x, t, FALSE, f)
             IN  r \in Seq(H) /\ \A i \in 1..Len(r) : r[i] = f \/ \E j \in 1..Len(table[t]) : r[i] = table[t][j]
  <2> DEFINE c == Copies(x, t, TRUE, f)
             d == Copies(x, t, FALSE, f)
  <2>1. /\ c \in Seq(H) /\ \A i \in 1..Len(c) : c[i] = f
        /\ d \in Seq(H) /\ \A i \in 1..Len(d) : d[i] = f
    BY <1>1
  <2>2. table[t] \in Seq(H)
    OBVIOUS
  <2> HIDE DEF c, d
  <2> DEFINE m == c \o table[t]
  <2>3. m \in Seq(H) /\ \A i \in 1..Len(m) : m[i] = f \/ \E j \in 1..Len(table[t]) : m[i] = table[t][j]
    BY <2>1, <2>2, ConcatFacts
  <2> HIDE DEF m
  <2>4. /\ m \o d \in Seq(H)
        /\ \A i \in 1..Len(m \o d) : (m \o d)[i] = f \/ \E j \in 1..Len(table[t]) : (m \o d)[i] = table[t][j]
    <3>1. /\ m \o d \in Seq(H)
          /\ \A i \in 1..Len(m) : (m \o d)[i] = m[i]
          /\ \A i \in 1..Len(d) : (m \o d)[Len(m) + i] = d[i]
          /\ \A i \in 1..Len(m \o d) : (\E j \in 1..Len(m) : i = j) \/ (\E j \in 1..Len(d) : i = Len(m) + j)
      BY <2>1, <2>3, ConcatFacts
    <3> QED BY <2>1, <2>3, <3>1
  <2> QED BY <2>4 DEF m, c, d
<1>3. AddTo(table, x, f) \in [TypeNames -> Seq(H)]
  BY <1>2 DEF AddTo
<1>4. ASSUME NEW t \in TypeNames
      PROVE  /\ DOMAIN AddTo(table, x, f)[t] = 1..Len(AddTo(table, x, f)[t]) /\ DOMAIN table[t] = 1..Len(table[t])
             /\ AddTo(table, x, f)[t] = Copies(x, t, TRUE, f) \o table[t] \o Copies(x, t, FALSE, f)
  <2>1. AddTo(table, x, f)[t] \in Seq(H) /\ table[t] \in Seq(H)
    BY <1>3
  <2>2. AddTo(table, x, f)[t] = Copies(x, t, TRUE, f) \o table[t] \o Copies(x, t, FALSE, f)
    BY DEF AddTo
  <2> QED BY <2>1, <2>2
<1>5. ASSUME NEW t \in TypeNames, NEW i \in DOMAIN AddTo(table, x, f)[t]
      PROVE  AddTo(table, x, f)[t][i] = f \/ \E j \in DOMAIN table[t] : AddTo(table, x, f)[t][i] = table[t][j]
  <2> DEFINE r == Copies(x, t, TRUE, f) \o table[t] \o Copies(x, t, FALSE, f)
  <2>1. \A k \in 1..Len(r) : r[k] = f \/ \E j \in 1..Len(table[t]) : r[k] = table[t][j]
    BY <1>2
  <2>2. AddTo(table, x, f)[t] = r
    BY <1>4
  <2>3. i \in 1..Len(r) /\ DOMAIN table[t] = 1..Len(table[t])
    BY <1>4, <2>2
  <2> QED BY <2>1, <2>2, <2>3
<1> QED BY <1>3, <1>5

\* A value of a type is one of the types that an equivalence leads to.
LEMMA IsAStep ==
  ASSUME NEW f, NEW t, IsA(f, t), NEW i \in DOMAIN converters, converters[i].same,
         converters[i].from \in {t, "*"}
  PROVE  IsA(f, converters[i].to)
<1>1. ASSUME NEW K \in SUBSET TypeNames, f \in K, ClosedUnder(K) PROVE converters[i].to \in K
  BY <1>1 DEF IsA, ClosedUnder
<1> QED BY <1>1 DEF IsA
-----------------------------------------------------------------------------
\* The tables of jQuery itself, nothing begun.
LEMMA InitTInv == ASSUME TypesAssumption, TypesInit PROVE TInv
<1> USE DEF TypesInit
<1>1. Tables
  <2>1. /\ "jsonp" \in Handlers /\ "script" \in Handlers /\ "script" \in Senders /\ "xhr" \in Senders
        /\ <<>> \in Seq(Handlers) /\ <<>> \in Seq(Senders)
    BY DEF Handlers, Senders
  <2>2. <<"jsonp">> \in Seq(Handlers) /\ <<"script">> \in Seq(Handlers) /\ <<"script">> \in Seq(Senders)
          /\ <<"xhr">> \in Seq(Senders)
    BY <2>1
  <2>3. prefilters \in [TypeNames -> Seq(Handlers)] /\ transports \in [TypeNames -> Seq(Senders)]
    BY <2>1, <2>2
  <2>4. ASSUME NEW t \in TypeNames, NEW i \in DOMAIN prefilters[t], prefilters[t][i] = "jsonp"
        PROVE  t \in {"json", "jsonp"}
    BY <2>4
  <2>5. ASSUME NEW t \in TypeNames, NEW i \in DOMAIN transports[t], transports[t][i] = "script"
        PROVE  t = "script"
    BY <2>5
  <2> QED BY <2>3, <2>4, <2>5 DEF Tables
<1>2. Shape
  <2>1. settings \in Asked
    BY DEF TypesAssumption
  <2>2. Defaults \in Seq(Conversions)
    BY DEF TypesAssumption, Defaults, Converter, Conversions
  <2> QED BY <2>1, <2>2 DEF Shape, Phases, TypesAssumption
<1>3. Fresh
  BY DEF Fresh
<1> QED BY <1>1, <1>2, <1>3 DEF TInv, EndOfChain, Alone, Inspections, Search, ScriptFirst, Conversion, GivenItsType

\* Functions of the page are neither the prefilter for jsonp nor the transport for scripts.
LEMMA RegisterKeeps ==
  ASSUME TypesAssumption, TInv, NEW x \in Expressions,
         \/ \E f \in Filters : AjaxPrefilter(x, f)
         \/ \E f \in Plugins : AjaxTransport(x, f)
  PROVE  TInv'
<1>1. /\ phase = "idle"
      /\ UNCHANGED <<settings, chain, converters, phase, inspections, inspected, ran, selected,
                     current, place, form, given>>
  BY DEF AjaxPrefilter, AjaxTransport
<1>2. Tables'
  <2>1. CASE \E f \in Filters : AjaxPrefilter(x, f)
    <3>1. PICK f \in Filters : prefilters' = AddTo(prefilters, x, f) /\ transports' = transports
      BY <2>1 DEF AjaxPrefilter
    <3>2. f \in Handlers /\ f # "jsonp"
      BY DEF Handlers, TypesAssumption
    <3> prefilters \in [TypeNames -> Seq(Handlers)]
      BY DEF TInv, Tables
    <3>3. AddTo(prefilters, x, f) \in [TypeNames -> Seq(Handlers)]
      BY <3>2, AddToFacts
    <3>4. \A t \in TypeNames : \A i \in DOMAIN AddTo(prefilters, x, f)[t] :
            AddTo(prefilters, x, f)[t][i] = f
              \/ \E j \in DOMAIN prefilters[t] : AddTo(prefilters, x, f)[t][i] = prefilters[t][j]
      BY <3>2, AddToFacts
    <3> QED BY <3>1, <3>2, <3>3, <3>4 DEF TInv, Tables
  <2>2. CASE \E f \in Plugins : AjaxTransport(x, f)
    <3>1. PICK f \in Plugins : transports' = AddTo(transports, x, f) /\ prefilters' = prefilters
      BY <2>2 DEF AjaxTransport
    <3>2. f \in Senders /\ f # "script"
      BY DEF Senders, TypesAssumption
    <3> transports \in [TypeNames -> Seq(Senders)]
      BY DEF TInv, Tables
    <3>3. AddTo(transports, x, f) \in [TypeNames -> Seq(Senders)]
      BY <3>2, AddToFacts
    <3>4. \A t \in TypeNames : \A i \in DOMAIN AddTo(transports, x, f)[t] :
            AddTo(transports, x, f)[t][i] = f
              \/ \E j \in DOMAIN transports[t] : AddTo(transports, x, f)[t][i] = transports[t][j]
      BY <3>2, AddToFacts
    <3> QED BY <3>1, <3>2, <3>3, <3>4 DEF TInv, Tables
  <2> QED BY <2>1, <2>2
<1>3. Shape' /\ Fresh'
  BY <1>1 DEF TInv, Shape, Fresh
<1>4. given' = {}
  BY <1>1 DEF TInv, Fresh
<1> QED BY <1>1, <1>2, <1>3, <1>4
        DEF TInv, EndOfChain, Alone, Inspections, Search, ScriptFirst, Conversion, GivenItsType

\* A request begins with one inspection, and nothing run.
LEMMA AskKeeps ==
  ASSUME TypesAssumption, TInv, NEW o \in Asked, Ask(o)
  PROVE  TInv'
<1> DEFINE first == o.types[1]
<1>1. /\ phase = "idle" /\ phase' = "prefilters" /\ settings' = o /\ chain' = o.types
      /\ converters' = Defaults \o o.converters
      /\ inspections' = <<Inspection(first)>> /\ inspected' = {first}
      /\ UNCHANGED <<prefilters, transports, registered, ran, selected, current, place, form, given>>
  BY DEF Ask, tables
<1>2. o.types \in Seq(TypeNames) /\ o.types # <<>> /\ o.converters \in Seq(Conversions)
  BY DEF TypesAssumption
<1>3. first \in TypeNames /\ Len(o.types) \in Nat
  BY <1>2
<1>4. Defaults \in Seq(Conversions)
  BY DEF TypesAssumption, Defaults, Converter, Conversions
<1>5. converters' \in Seq(Conversions)
  BY <1>1, <1>2, <1>4, ConcatFacts
<1>6. Inspection(first) = [of |-> first, at |-> 1] /\ Inspection(first) \in InspectionType
  BY <1>3 DEF Inspection, InspectionType
<1>7. inspections' \in Seq(InspectionType) /\ Len(inspections') = 1 /\ inspections'[1] = [of |-> first, at |-> 1]
  BY <1>1, <1>6
<1>8. ran = <<>> /\ place = 0 /\ selected = NoType /\ given = {}
  BY <1>1 DEF TInv, Fresh
<1> HIDE DEF first
<1>9. Tables'
  BY <1>1 DEF TInv, Tables
<1>10. Shape'
  BY <1>1, <1>2, <1>3, <1>5, <1>7, <1>8 DEF TInv, Shape, Phases
<1>11. Fresh' /\ EndOfChain'
  BY <1>1, <1>2, <1>8 DEF Fresh, EndOfChain
<1>12. Alone'
  <2>1. \A k \in DOMAIN inspections' : inspections'[k].of = settings'.types[1]
    BY <1>1, <1>7 DEF first
  <2> QED BY <1>1, <1>3, <2>1 DEF Alone
<1>13. Inspections'
  <2>1. ASSUME NEW t \in TypeNames, NEW p \in Nat PROVE ~Run(t, p)'
    <3>1. prefilters'[t] \in Seq(Handlers)
      BY <1>9 DEF Tables
    <3>2. p \in DOMAIN prefilters'[t] => ~(p < 1)
      BY <3>1
    <3>3. t \in inspected' => 1 \in DOMAIN inspections' /\ inspections'[1].of = t /\ inspections'[1].at = 1
      BY <1>1, <1>7
    <3> QED BY <3>2, <3>3 DEF Run
  <2>2. \A k \in DOMAIN inspections' : k = 1 /\ inspections'[k].of = first /\ inspections'[k].at = 1
    BY <1>7
  <2>3. Len(prefilters'[first]) \in Nat
    BY <1>3, <1>9 DEF Tables
  <2>4. inspections' # <<>> /\ ran' = <<>> /\ first \in inspected' /\ settings'.types[1] \in inspected'
    BY <1>1, <1>7, <1>8 DEF first
  <2> QED BY <1>1, <2>1, <2>2, <2>3, <2>4 DEF Inspections
<1>14. GivenItsType'
  BY <1>1, <1>8 DEF GivenItsType
<1> QED BY <1>1, <1>9, <1>10, <1>11, <1>12, <1>13, <1>14 DEF TInv, Search, ScriptFirst, Conversion
-----------------------------------------------------------------------------
\* A place of the list that is inspected is run: what a prefilter that stays, or one that
\* redirects, leaves behind.
LEMMA RunPrefilterKeeps ==
  ASSUME TypesAssumption, TInv, RunPrefilter
  PROVE  TInv'
<1> DEFINE n  == Len(inspections)
           t  == inspections[n].of
           p  == inspections[n].at
           f  == prefilters[t][p]
           to == Returned(f)
           types == IF IsJsonp(f) THEN [chain EXCEPT ![1] = "json"] ELSE chain
<1>1. /\ phase = "prefilters" /\ inspections # <<>> /\ Innermost.at <= Len(prefilters[Innermost.of])
      /\ ran' = Append(ran, <<Innermost.of, Innermost.at>>)
      /\ UNCHANGED <<prefilters, transports, registered, settings, phase, selected, current, place, form, given>>
  BY DEF RunPrefilter, Reaches, tables
<1>2. Tables /\ Shape /\ Fresh /\ EndOfChain /\ Alone /\ Inspections
  BY DEF TInv
<1>3. inspections \in Seq(InspectionType) /\ Innermost = inspections[n]
  BY <1>1, <1>2 DEF Shape, Innermost, Last
<1>a. n \in Nat \ {0} /\ n \in DOMAIN inspections /\ DOMAIN inspections = 1..n
  BY <1>1, <1>3
<1>b. inspections[n] \in InspectionType
  BY <1>3, <1>a
<1>c. t \in TypeNames /\ p \in Nat \ {0}
  BY <1>b DEF InspectionType
<1>4. p \in DOMAIN prefilters[t] /\ p <= Len(prefilters[t]) /\ prefilters[t] \in Seq(Handlers) /\ f \in Handlers
  BY <1>1, <1>2, <1>3, <1>c DEF Tables
<1>5. /\ chain \in Seq(TypeNames) /\ chain # <<>> /\ Len(chain) \in Nat \ {0} /\ Last(chain) = chain[Len(chain)]
      /\ converters \in Seq(Conversions) /\ inspected \subseteq TypeNames /\ ran \in Seq(TypeNames \X Nat)
  BY <1>1, <1>2, EndFacts DEF Shape, EndOfChain
<1>6. to \in TypeNames \cup {NoType}
  BY <1>4 DEF Returned, TypesAssumption, Handlers
<1>7. /\ to = NoType => chain' = types /\ inspections' = Passed /\ inspected' = inspected
      /\ to # NoType => Redirected(types, to)
      /\ converters' = IF IsJsonp(f) /\ ScriptJson \notin ToSet(converters)
                       THEN Append(converters, ScriptJson) ELSE converters
  BY <1>3 DEF RunPrefilter
<1>8. \/ /\ chain' = types /\ inspections' = Passed /\ inspected' = inspected
      \/ /\ to \in TypeNames \ inspected /\ chain' = <<to>> \o types /\ inspected' = inspected \cup {to}
         /\ inspections' = Append(Passed, Inspection(to))
  BY <1>6, <1>7 DEF Redirected
<1>9. /\ types \in Seq(TypeNames) /\ Len(types) = Len(chain) /\ types # <<>> /\ Last(types) = types[Len(chain)]
      /\ \A i \in 2..Len(chain) : types[i] = chain[i]
      /\ types[1] = IF IsJsonp(f) THEN "json" ELSE chain[1]
  <2>1. "json" \in TypeNames
    BY DEF TypesAssumption
  <2>2. types \in Seq(TypeNames) /\ Len(types) = Len(chain) /\ \A i \in 2..Len(chain) : types[i] = chain[i]
    BY <1>5, <2>1
  <2>3. types[1] = IF IsJsonp(f) THEN "json" ELSE chain[1]
    BY <1>5
  <2> HIDE DEF types
  <2> QED BY <1>5, <2>2, <2>3 DEF Last
<1>10. converters' \in Seq(Conversions)
  <2>1. ScriptJson \in Conversions
    BY DEF ScriptJson, Converter, Conversions, TypesAssumption
  <2> QED BY <1>5, <1>7, <2>1
<1>d. n = Len(inspections)
  OBVIOUS
<1>e. inspections[n].of = t /\ inspections[n].at = p /\ f = prefilters[t][p]
  OBVIOUS
<1> HIDE DEF n, t, p, f, to, types
<1> DEFINE passed == [inspections[n] EXCEPT !.at = @ + 1]
<1>11. /\ passed \in InspectionType /\ passed.of = t /\ passed.at = p + 1
  BY <1>b, <1>c, <1>e DEF InspectionType
<1>12. /\ Passed \in Seq(InspectionType) /\ Len(Passed) = n /\ Passed[n] = passed
       /\ \A k \in 1..(n - 1) : Passed[k] = inspections[k]
  <2>1. Passed = Append(Front(inspections), passed)
    BY <1>3 DEF Passed
  <2> HIDE DEF passed
  <2> QED BY <1>1, <1>3, <1>d, <1>11, <2>1, ReplacedEnd
<1> HIDE DEF passed
<1>13. Inspection(to) = [of |-> to, at |-> 1] /\ (to \in TypeNames => Inspection(to) \in InspectionType)
  BY DEF Inspection, InspectionType
<1>14. to \in TypeNames =>
         LET r == Append(Passed, Inspection(to))
         IN  /\ r \in Seq(InspectionType) /\ Len(r) = n + 1 /\ r[n + 1] = Inspection(to)
             /\ \A k \in 1..n : r[k] = Passed[k]
  <2> HIDE DEF Inspection
  <2> QED BY <1>a, <1>12, <1>13
\* The inspections below stay, the last one has passed a place, and one for to may be new.
<1> DEFINE m == Len(inspections')
<1>15. /\ inspections' \in Seq(InspectionType) /\ m \in {n, n + 1} /\ inspections'[n] = passed
       /\ \A k \in 1..(n - 1) : inspections'[k] = inspections[k]
  <2>1. CASE inspections' = Passed
    BY <1>12, <2>1
  <2>2. CASE to \in TypeNames /\ inspections' = Append(Passed, Inspection(to))
    <3>1. \A k \in 1..(n - 1) : k \in 1..n /\ n \in 1..n
      BY <1>a
    <3>2. n \in 1..n
      BY <1>a
    <3> QED BY <1>12, <1>14, <2>2, <3>1, <3>2
  <2> QED BY <1>8, <2>1, <2>2
<1>F. m = n + 1 => inspections'[n + 1].of = to /\ inspections'[n + 1].at = 1 /\ to \in TypeNames \ inspected
  <2>1. CASE inspections' = Passed
    BY <1>a, <1>12, <2>1
  <2>2. CASE to \in TypeNames \ inspected /\ inspections' = Append(Passed, Inspection(to))
    BY <1>13, <1>14, <2>2
  <2> QED BY <1>8, <2>1, <2>2
<1>G. inspected' = IF m = n + 1 THEN inspected \cup {to} ELSE inspected
  <2>1. CASE inspected' = inspected /\ inspections' = Passed
    BY <1>a, <1>12, <2>1
  <2>2. CASE to \in TypeNames /\ inspected' = inspected \cup {to} /\ inspections' = Append(Passed, Inspection(to))
    BY <1>14, <2>2
  <2> QED BY <1>8, <2>1, <2>2
<1>H. DOMAIN inspections' = 1..m
  BY <1>15
<1>I. inspections'[n].of = t /\ inspections'[n].at = p + 1
  BY <1>11, <1>15
<1>J. \A k \in 1..(n - 1) : inspections'[k] = inspections[k]
  BY <1>15
<1>K. m = n \/ m = n + 1
  BY <1>15
<1>L. inspections' # <<>>
  BY <1>a, <1>15
<1>16. /\ chain' \in Seq(TypeNames) /\ chain' # <<>> /\ Last(chain') = Last(types)
       /\ Len(chain') = IF m = n + 1 THEN Len(chain) + 1 ELSE Len(chain)
  <2>1. CASE chain' = types /\ inspections' = Passed
    <3>1. m # n + 1
      BY <1>a, <1>12, <2>1
    <3> HIDE DEF m
    <3> QED BY <1>9, <2>1, <3>1
  <2>2. CASE to \in TypeNames /\ chain' = <<to>> \o types /\ inspections' = Append(Passed, Inspection(to))
    <3>1. /\ <<to>> \o types \in Seq(TypeNames) /\ Len(<<to>> \o types) = Len(types) + 1
          /\ <<to>> \o types # <<>> /\ Last(<<to>> \o types) = Last(types)
      BY <1>9, <2>2, InFront
    <3>2. m = n + 1
      BY <1>14, <2>2
    <3> HIDE DEF m
    <3> QED BY <1>9, <2>2, <3>1, <3>2
  <2> QED BY <1>8, <2>1, <2>2
<1>M. Len(chain') = IF m = n + 1 THEN Len(chain) + 1 ELSE Len(chain)
  BY <1>16
<1> HIDE DEF m
<1>17. ran' \in Seq(TypeNames \X Nat) /\ Len(ran') = Len(ran) + 1 /\ ran'[Len(ran) + 1] = <<t, p>>
       /\ \A i \in 1..Len(ran) : ran'[i] = ran[i]
  BY <1>1, <1>3, <1>c, <1>e, <1>5
<1>18. Tables'
  BY <1>1, <1>2 DEF Tables
<1>19. Shape'
  <2>1. place = 0 /\ given = {}
    BY <1>1, <1>2 DEF Fresh
  <2>2. inspected' \subseteq TypeNames
    BY <1>5, <1>8
  <2>3. inspections' \in Seq(InspectionType) /\ ran' \in Seq(TypeNames \X Nat) /\ chain' \in Seq(TypeNames)
    BY <1>15, <1>16, <1>17
  <2>4. place' \in 0..Len(chain')
    BY <1>1, <1>16, <2>1
  <2> QED BY <1>1, <1>2, <1>10, <2>1, <2>2, <2>3, <2>4 DEF Shape
<1>20. Fresh'
  BY <1>1, <1>2 DEF Fresh
<1>21. EndOfChain'
  <2> DEFINE ok(c) == \/ Last(c) = Last(settings.types) \/ Last(settings.types) = "*"
                      \/ settings.types = <<"jsonp">> /\ Last(c) = "json"
  <2>1. ok(chain)
    BY <1>1, <1>2 DEF EndOfChain
  <2>2. ok(types)
    <3>1. CASE Len(chain) # 1 \/ ~IsJsonp(f)
      <4>1. types[Len(chain)] = chain[Len(chain)]
        BY <1>5, <1>9, <3>1
      <4> QED BY <1>5, <1>9, <2>1, <4>1
    <3>2. CASE Len(chain) = 1 /\ IsJsonp(f)
      <4>1. t \in {"json", "jsonp"}
        <5>1. prefilters[t][p] = "jsonp"
          BY <1>e, <3>2 DEF IsJsonp
        <5> QED BY <1>2, <1>c, <1>4, <5>1 DEF Tables
      <4>2. settings.types \in Seq(TypeNames) /\ settings.types # <<>> /\ Len(settings.types) = 1 /\ t = settings.types[1]
        <5>1. settings.types \in Seq(TypeNames) /\ settings.types # <<>>
          BY <1>2 DEF Shape, TypesAssumption
        <5>2. 1 >= Len(settings.types) /\ t \in {settings.types[1], "*"}
          BY <1>1, <1>2, <1>a, <1>e, <3>2 DEF Alone
        <5>3. Len(settings.types) \in Nat /\ Len(settings.types) # 0
          BY <5>1
        <5>4. Len(settings.types) = 1
          <6>1. PICK l \in Nat : l = Len(settings.types)
            BY <5>3
          <6>2. l # 0 /\ 1 >= l
            BY <5>2, <5>3, <6>1
          <6>3. l = 1
            BY <6>2
          <6> QED BY <6>1, <6>3
        <5>5. t = settings.types[1]
          BY <4>1, <5>2
        <5> QED BY <5>1, <5>4, <5>5
      <4>3. Last(types) = "json" /\ Last(settings.types) = t
        BY <1>5, <1>9, <3>2, <4>2 DEF Last
      <4>4. settings.types = <<t>>
        BY <4>2
      <4> QED BY <4>1, <4>3, <4>4
    <3> QED BY <3>1, <3>2
  <2> QED BY <1>1, <1>16, <2>2 DEF EndOfChain
<1>22. Alone'
  <2>1. Len(chain') >= Len(settings'.types)
    <3>1. settings.types \in Seq(TypeNames) /\ settings.types # <<>>
      BY <1>2 DEF Shape, TypesAssumption
    <3> QED BY <1>1, <1>2, <1>5, <1>16, <3>1 DEF Alone
  <2>2. ASSUME Len(chain') = 1, NEW k \in DOMAIN inspections' PROVE inspections'[k].of \in {settings'.types[1], "*"}
    <3>1. m = n /\ Len(chain) = 1
      <4>1. Len(chain) \in Nat /\ Len(chain) # 0
        BY <1>5
      <4>2. m # n + 1
        BY <1>M, <2>2, <4>1
      <4> QED BY <1>M, <1>K, <2>2, <4>2
    <3>2. k \in DOMAIN inspections /\ inspections'[k].of = inspections[k].of
      BY <1>a, <1>c, <1>e, <1>F, <1>G, <1>H, <1>I, <1>J, <1>K, <3>1
    <3> QED BY <1>1, <1>2, <3>1, <3>2 DEF Alone
  <2> QED BY <2>1, <2>2 DEF Alone
<1>23. Inspections'
  <2>1. \A k \in DOMAIN inspections : inspections[k].of \in inspected /\ inspections[k].at <= Len(prefilters[inspections[k].of]) + 1
    BY <1>1, <1>2 DEF Inspections
  <2>2. \A j, k \in DOMAIN inspections : inspections[j].of = inspections[k].of => j = k
    BY <1>1, <1>2 DEF Inspections
  <2>3. \A k \in 1..n : inspections'[k].of = inspections[k].of
    BY <1>a, <1>c, <1>e, <1>F, <1>G, <1>H, <1>I, <1>J, <1>K
  <2>4. ASSUME NEW j \in DOMAIN inspections', NEW k \in DOMAIN inspections', inspections'[j].of = inspections'[k].of
        PROVE  j = k
    <3>1. CASE j \in 1..n /\ k \in 1..n
      BY <1>a, <2>2, <2>3, <2>4, <3>1
    <3>2. CASE j = n + 1 /\ k = n + 1
      BY <3>2
    <3>3. ASSUME NEW i \in 1..n PROVE ~(m = n + 1 /\ inspections'[i].of = inspections'[n + 1].of)
      BY <1>a, <1>F, <2>1, <2>3
    <3> QED BY <1>a, <1>H, <1>K, <2>4, <3>1, <3>2, <3>3
  <2>5. ASSUME NEW k \in DOMAIN inspections'
        PROVE  inspections'[k].of \in inspected' /\ inspections'[k].at <= Len(prefilters'[inspections'[k].of]) + 1
    <3>1. CASE k \in 1..(n - 1)
      BY <1>1, <1>a, <1>c, <1>e, <1>F, <1>G, <1>H, <1>I, <1>J, <1>K, <2>1, <3>1
    <3>2. CASE k = n
      BY <1>1, <1>a, <1>c, <1>e, <1>4, <1>F, <1>G, <1>H, <1>I, <1>J, <1>K, <2>1, <3>2, SMTT(30)
    <3>3. CASE k = n + 1 /\ m = n + 1
      <4>1. Len(prefilters[to]) \in Nat
        BY <1>2, <1>F, <1>G, <1>H, <1>I, <1>J, <1>K, <3>3 DEF Tables
      <4> QED BY <1>1, <1>F, <1>G, <1>H, <1>I, <1>J, <1>K, <3>3, <4>1
    <3> QED BY <1>a, <1>c, <1>e, <1>F, <1>G, <1>H, <1>I, <1>J, <1>K, <3>1, <3>2, <3>3
  <2>6. settings'.types[1] \in inspected' /\ inspections' # <<>>
    <3>1. settings.types[1] \in inspected
      BY <1>1, <1>2 DEF Inspections
    <3> QED BY <1>1, <1>a, <1>c, <1>e, <1>F, <1>G, <1>H, <1>I, <1>J, <1>K, <3>1
  <2>7. ASSUME NEW u \in TypeNames, NEW q \in Nat
        PROVE  Run(u, q)' <=> Run(u, q) \/ (u = t /\ q = p)
    <3>1. CASE u = t
      <4>1. t \in inspected /\ t \in inspected' /\ prefilters'[t] = prefilters[t]
        BY <1>1, <1>a, <1>c, <1>e, <1>F, <1>G, <1>H, <1>I, <1>J, <1>K, <2>1
      <4>2. \A k \in DOMAIN inspections : inspections[k].of = t <=> k = n
        BY <1>a, <1>c, <1>e, <2>2
      <4>3. \A k \in DOMAIN inspections' : inspections'[k].of = t <=> k = n
        BY <1>a, <1>c, <1>e, <1>F, <1>G, <1>H, <1>I, <1>J, <1>K, <2>4
      <4>4. Run(u, q) <=> q \in DOMAIN prefilters[t] /\ q < p
        BY <1>a, <1>e, <3>1, <4>1, <4>2 DEF Run
      <4>5. Run(u, q)' <=> q \in DOMAIN prefilters[t] /\ q < p + 1
        <5>1. n \in DOMAIN inspections'
          BY <1>a, <1>H, <1>K
        <5>2. (\A k \in DOMAIN inspections' : inspections'[k].of = t => q < inspections'[k].at) <=> q < p + 1
          BY <1>I, <4>3, <5>1
        <5> QED BY <3>1, <4>1, <5>2 DEF Run
      <4>6. q < p + 1 <=> q < p \/ q = p
        BY <1>c
      <4> QED BY <1>4, <3>1, <4>4, <4>5, <4>6
    <3>2. CASE u # t /\ m = n + 1 /\ u = to
      <4>1. ~Run(u, q)
        BY <1>F, <1>G, <1>H, <1>I, <1>J, <1>K, <3>2 DEF Run
      <4>2. ~Run(u, q)'
        <5>1. n + 1 \in DOMAIN inspections' /\ inspections'[n + 1].of = u /\ inspections'[n + 1].at = 1
          BY <1>a, <1>c, <1>e, <1>F, <1>G, <1>H, <1>I, <1>J, <1>K, <3>2
        <5>2. \A r \in DOMAIN prefilters'[u] : ~(r < 1)
          BY <1>1, <1>2 DEF Tables
        <5> QED BY <5>1, <5>2 DEF Run
      <4> QED BY <3>2, <4>1, <4>2
    <3>3. CASE u # t /\ ~(m = n + 1 /\ u = to)
      <4>1. u \in inspected <=> u \in inspected'
        BY <1>a, <1>c, <1>e, <1>F, <1>G, <1>H, <1>I, <1>J, <1>K, <3>3
      <4>2. (\A k \in DOMAIN inspections : inspections[k].of = u => q < inspections[k].at)
              <=> (\A k \in DOMAIN inspections' : inspections'[k].of = u => q < inspections'[k].at)
        <5>1. \A k \in DOMAIN inspections : inspections[k].of = u => k \in 1..(n - 1)
          BY <1>a, <1>c, <1>e, <3>3
        <5>2. \A k \in DOMAIN inspections' : inspections'[k].of = u => k \in 1..(n - 1)
          BY <1>a, <1>c, <1>e, <1>F, <1>G, <1>H, <1>I, <1>J, <1>K, <3>3
        <5>3. \A k \in 1..(n - 1) : k \in DOMAIN inspections /\ k \in DOMAIN inspections'
          BY <1>a, <1>c, <1>e, <1>F, <1>G, <1>H, <1>I, <1>J, <1>K
        <5> QED BY <1>F, <1>G, <1>H, <1>I, <1>J, <1>K, <5>1, <5>2, <5>3
      <4> QED BY <1>1, <3>3, <4>1, <4>2 DEF Run
    <3> QED BY <3>1, <3>2, <3>3
  <2>8. \A u \in TypeNames, q \in Nat : (\E i \in DOMAIN ran : ran[i] = <<u, q>>) <=> Run(u, q)
    BY <1>1, <1>2 DEF Inspections
  <2>9. DOMAIN ran = 1..Len(ran) /\ DOMAIN ran' = 1..(Len(ran) + 1) /\ Len(ran) \in Nat
    BY <1>5, <1>17
  <2>10. ASSUME NEW u \in TypeNames, NEW q \in Nat
         PROVE  (\E i \in DOMAIN ran' : ran'[i] = <<u, q>>) <=> Run(u, q)'
    <3>1. (\E i \in DOMAIN ran' : ran'[i] = <<u, q>>)
            <=> (\E i \in DOMAIN ran : ran[i] = <<u, q>>) \/ <<u, q>> = <<t, p>>
      <4>1. ASSUME NEW i \in DOMAIN ran', ran'[i] = <<u, q>>
            PROVE  (\E j \in DOMAIN ran : ran[j] = <<u, q>>) \/ <<u, q>> = <<t, p>>
        <5>1. i \in DOMAIN ran \/ i = Len(ran) + 1
          BY <2>9
        <5> QED BY <1>17, <2>9, <4>1, <5>1
      <4>2. \A i \in DOMAIN ran : i \in DOMAIN ran' /\ ran'[i] = ran[i]
        BY <1>17, <2>9
      <4>3. Len(ran) + 1 \in DOMAIN ran' /\ ran'[Len(ran) + 1] = <<t, p>>
        BY <1>17, <2>9
      <4> QED BY <4>1, <4>2, <4>3
    <3>2. <<u, q>> = <<t, p>> <=> u = t /\ q = p
      OBVIOUS
    <3> QED BY <2>7, <2>8, <3>1, <3>2
  <2>11. ~Run(t, p)
    BY <1>a, <1>c, <1>e DEF Run
  <2>12. \A i \in DOMAIN ran : ran[i] # <<t, p>>
    BY <1>a, <1>c, <1>e, <2>8, <2>11
  <2>13. \A i, j \in DOMAIN ran : ran[i] = ran[j] => i = j
    BY <1>1, <1>2 DEF Inspections
  <2>14. \A i, j \in DOMAIN ran' : ran'[i] = ran'[j] => i = j
    BY <1>17, <2>9, <2>12, <2>13, SMTT(30)
  <2> QED BY <1>1, <2>4, <2>5, <2>6, <2>10, <2>14 DEF Inspections
<1>24. GivenItsType'
  BY <1>1, <1>2 DEF Fresh, GivenItsType
<1> QED BY <1>1, <1>18, <1>19, <1>20, <1>21, <1>22, <1>23, <1>24 DEF TInv, Search, ScriptFirst, Conversion
-----------------------------------------------------------------------------
\* What the second inspection goes through: the list of the first type, then the catchall's.
LEMMA CandidateFacts ==
  ASSUME TypesAssumption, Tables, chain[1] \in TypeNames
  PROVE  /\ Candidates \in Seq(Senders)
         /\ \A i \in 1..Len(transports[chain[1]]) : Candidates[i] = transports[chain[1]][i]
         /\ chain[1] = "*" => Len(Candidates) = Len(transports[chain[1]])
         /\ chain[1] # "*" =>
              /\ Len(Candidates) = Len(transports[chain[1]]) + Len(transports["*"])
              /\ \A i \in 1..Len(transports["*"]) :
                   Candidates[Len(transports[chain[1]]) + i] = transports["*"][i]
<1>1. "*" \in TypeNames /\ transports[chain[1]] \in Seq(Senders) /\ transports["*"] \in Seq(Senders)
  BY DEF TypesAssumption, Tables
<1>2. CASE chain[1] = "*"
  <2>1. Candidates = transports[chain[1]] \o <<>>
    BY <1>2 DEF Candidates
  <2>2. Candidates = transports[chain[1]]
    BY <1>1, <2>1
  <2> QED BY <1>1, <1>2, <2>2
<1>3. CASE chain[1] # "*"
  <2>1. Candidates = transports[chain[1]] \o transports["*"]
    BY <1>3 DEF Candidates
  <2> DEFINE r == transports[chain[1]]
             s == transports["*"]
  <2>2. r \in Seq(Senders) /\ s \in Seq(Senders) /\ Candidates = r \o s
    BY <1>1, <2>1
  <2> HIDE DEF r, s
  <2>3. /\ r \o s \in Seq(Senders) /\ Len(r \o s) = Len(r) + Len(s)
        /\ \A i \in 1..Len(r) : (r \o s)[i] = r[i]
        /\ \A i \in 1..Len(s) : (r \o s)[Len(r) + i] = s[i]
    BY <2>2, ConcatFacts
  <2>4. /\ Candidates \in Seq(Senders) /\ Len(Candidates) = Len(r) + Len(s)
        /\ \A i \in 1..Len(r) : Candidates[i] = r[i]
        /\ \A i \in 1..Len(s) : Candidates[Len(r) + i] = s[i]
    BY <2>2, <2>3
  <2> HIDE DEF Candidates
  <2> QED BY <1>3, <2>4 DEF r, s
<1> QED BY <1>2, <1>3

\* While transports are searched there is one inspection, and its place in all of the candidates
\* is the one after those that were tried.
LEMMA SearchFacts ==
  ASSUME TypesAssumption, TInv, phase = "transports", inspections # <<>>
  PROVE  /\ inspections \in Seq(InspectionType) /\ Len(inspections) = 1 /\ Innermost = inspections[1]
         /\ Innermost.of \in TypeNames /\ Innermost.at \in Nat /\ Innermost.at # 0
         /\ chain[1] \in TypeNames /\ chain # <<>>
         /\ Innermost.of = chain[1] \/ Innermost.of = "*"
         /\ inspected = {chain[1], Innermost.of}
         /\ Innermost.at <= Len(transports[Innermost.of]) + 1 /\ Len(transports[Innermost.of]) \in Nat
         /\ FirstOf(Tried) /\ Tried \in Nat /\ Len(Candidates) \in Nat
         /\ Tried <= Len(Candidates)
         /\ Innermost.at <= Len(transports[Innermost.of]) =>
              Tried + 1 <= Len(Candidates) /\ Candidates[Tried + 1] = transports[Innermost.of][Innermost.at]
         /\ Innermost.at = Len(transports[Innermost.of]) + 1 /\ Innermost.of = "*" => Tried = Len(Candidates)
<1>1. /\ inspections \in Seq(InspectionType) /\ Len(inspections) = 1 /\ (Innermost.of = chain[1] \/ Innermost.of = "*")
      /\ inspected = {chain[1], Innermost.of} /\ Innermost.at <= Len(transports[Innermost.of]) + 1 /\ FirstOf(Tried)
  BY DEF TInv, Shape, Search
<1>2. Innermost = inspections[1] /\ inspections[1] \in InspectionType
  BY <1>1 DEF Innermost, Last
<1>3. Innermost.of \in TypeNames /\ Innermost.at \in Nat /\ Innermost.at # 0
  BY <1>2 DEF InspectionType
<1>4. chain # <<>> /\ chain[1] \in TypeNames
  <2>1. chain # <<>> /\ chain \in Seq(TypeNames)
    BY DEF TInv, Shape, EndOfChain
  <2> QED BY <2>1
<1>5. /\ "*" \in TypeNames /\ Len(transports[chain[1]]) \in Nat /\ Len(transports["*"]) \in Nat
      /\ Len(transports[Innermost.of]) \in Nat
  <2>1. "*" \in TypeNames
    BY DEF TypesAssumption
  <2>2. \A t \in TypeNames : transports[t] \in Seq(Senders)
    BY DEF TInv, Tables
  <2>3. \A t \in TypeNames : Len(transports[t]) \in Nat
    BY <2>2
  <2> QED BY <1>3, <1>4, <2>1, <2>3
<1>6. /\ Candidates \in Seq(Senders)
      /\ \A i \in 1..Len(transports[chain[1]]) : Candidates[i] = transports[chain[1]][i]
      /\ chain[1] = "*" => Len(Candidates) = Len(transports[chain[1]])
      /\ chain[1] # "*" =>
           /\ Len(Candidates) = Len(transports[chain[1]]) + Len(transports["*"])
           /\ \A i \in 1..Len(transports["*"]) :
                Candidates[Len(transports[chain[1]]) + i] = transports["*"][i]
  BY <1>4, CandidateFacts DEF TInv
<1>7. Len(Candidates) \in Nat
  BY <1>6
<1> HIDE DEF Candidates
<1>8. CASE Innermost.of = chain[1]
  <2>1. Tried = Innermost.at - 1
    BY <1>8 DEF Tried
  <2>2. Tried \in Nat /\ Tried + 1 = Innermost.at
    BY <1>3, <2>1
  <2>3. Len(transports[chain[1]]) <= Len(Candidates)
    <3>1. CASE chain[1] = "*"
      BY <1>5, <1>6, <3>1
    <3>2. CASE chain[1] # "*"
      <4>1. Len(Candidates) = Len(transports[chain[1]]) + Len(transports["*"])
        BY <1>6, <3>2
      <4>2. PICK l \in Nat, k \in Nat : l = Len(transports[chain[1]]) /\ k = Len(transports["*"])
        BY <1>5
      <4>3. l <= l + k
        OBVIOUS
      <4> QED BY <4>1, <4>2, <4>3
    <3> QED BY <3>1, <3>2
  <2>4. Tried <= Len(transports[chain[1]])
    BY <1>1, <1>3, <1>5, <1>8, <2>1
  <2>5. Tried <= Len(Candidates)
    BY <1>5, <1>7, <2>2, <2>3, <2>4
  <2>6. ASSUME Innermost.at <= Len(transports[Innermost.of])
        PROVE  Tried + 1 <= Len(Candidates) /\ Candidates[Tried + 1] = transports[Innermost.of][Innermost.at]
    <3>1. Innermost.at \in 1..Len(transports[chain[1]])
      BY <1>3, <1>5, <1>8, <2>6
    <3> QED BY <1>3, <1>5, <1>6, <1>7, <1>8, <2>2, <2>3, <3>1
  <2>7. Innermost.at = Len(transports[Innermost.of]) + 1 /\ Innermost.of = "*" => Tried = Len(Candidates)
    BY <1>5, <1>6, <1>8, <2>1
  <2> QED BY <1>1, <1>2, <1>3, <1>4, <1>5, <1>7, <2>2, <2>5, <2>6, <2>7
<1>9. CASE Innermost.of # chain[1]
  <2>1. Tried = Len(transports[chain[1]]) + Innermost.at - 1 /\ Innermost.of = "*" /\ chain[1] # "*"
    BY <1>1, <1>9 DEF Tried
  <2>2. Tried \in Nat /\ Tried + 1 = Len(transports[chain[1]]) + Innermost.at
    BY <1>3, <1>5, <2>1
  <2>3. Len(Candidates) = Len(transports[chain[1]]) + Len(transports["*"])
    BY <1>6, <2>1
  <2>4. Innermost.at <= Len(transports["*"]) + 1
    BY <1>1, <2>1
  <2>5. Tried <= Len(Candidates)
    <3>1. PICK l \in Nat, k \in Nat, a \in Nat :
            l = Len(transports[chain[1]]) /\ k = Len(transports["*"]) /\ a = Innermost.at
      BY <1>3, <1>5
    <3>2. Tried = l + a - 1 /\ Len(Candidates) = l + k /\ a <= k + 1
      BY <2>1, <2>3, <2>4, <3>1
    <3>3. l + a - 1 <= l + k
      BY <3>2
    <3> QED BY <3>2, <3>3
  <2>6. ASSUME Innermost.at <= Len(transports[Innermost.of])
        PROVE  Tried + 1 <= Len(Candidates) /\ Candidates[Tried + 1] = transports[Innermost.of][Innermost.at]
    <3>1. Innermost.at \in 1..Len(transports["*"])
      BY <1>3, <1>5, <2>1, <2>6
    <3>2. Candidates[Len(transports[chain[1]]) + Innermost.at] = transports["*"][Innermost.at]
      BY <1>6, <2>1, <3>1
    <3>3. Candidates[Tried + 1] = transports[Innermost.of][Innermost.at]
      BY <2>1, <2>2, <3>2
    <3>4. Len(transports[chain[1]]) + Innermost.at <= Len(transports[chain[1]]) + Len(transports["*"])
      <4>1. PICK l \in Nat, k \in Nat, a \in Nat :
              l = Len(transports[chain[1]]) /\ k = Len(transports["*"]) /\ a = Innermost.at
        BY <1>3, <1>5
      <4>2. a <= k
        BY <3>1, <4>1
      <4>3. l + a <= l + k
        BY <4>2
      <4> QED BY <4>1, <4>3
    <3> QED BY <2>2, <2>3, <3>3, <3>4
  <2>7. Innermost.at = Len(transports[Innermost.of]) + 1 => Tried = Len(Candidates)
    BY <1>5, <2>1, <2>3
  <2> QED BY <1>1, <1>2, <1>3, <1>4, <1>5, <1>7, <2>2, <2>5, <2>6, <2>7
<1> QED BY <1>8, <1>9

\* A transport that is tried is the first one that serves if it serves and none before did.
LEMMA TryTransportKeeps ==
  ASSUME TypesAssumption, TInv, TryTransport
  PROVE  TInv'
<1> DEFINE f == transports[Innermost.of][Innermost.at]
<1>1. /\ phase = "transports" /\ selected = NoType /\ inspections # <<>> /\ Innermost.at <= Len(transports[Innermost.of])
      /\ selected' = (IF Serves(f) THEN f ELSE NoType) /\ inspections' = Passed
      /\ UNCHANGED <<prefilters, transports, registered, settings, chain, converters, phase, inspected,
                     ran, current, place, form, given>>
  BY DEF TryTransport, Searches, Reaches, tables
<1>2. /\ inspections \in Seq(InspectionType) /\ Len(inspections) = 1 /\ Innermost = inspections[1]
      /\ Innermost.of \in TypeNames /\ Innermost.at \in Nat /\ Innermost.at # 0
      /\ chain[1] \in TypeNames /\ chain # <<>>
      /\ Innermost.of = chain[1] \/ Innermost.of = "*"
      /\ inspected = {chain[1], Innermost.of}
      /\ Len(transports[Innermost.of]) \in Nat
      /\ FirstOf(Tried) /\ Tried \in Nat /\ Len(Candidates) \in Nat
      /\ Candidates[Tried + 1] = f
  BY <1>1, SearchFacts
<1>3. f \in Senders /\ (f = "script" => Innermost.of = "script")
  <2>1. Innermost.at \in DOMAIN transports[Innermost.of] /\ transports[Innermost.of] \in Seq(Senders)
    BY <1>1, <1>2 DEF TInv, Tables
  <2> QED BY <1>2, <2>1 DEF TInv, Tables
<1>4. f # NoType
  BY <1>3 DEF TypesAssumption, Senders
<1>5. /\ inspections' \in Seq(InspectionType) /\ Len(inspections') = 1
      /\ Innermost'.of = Innermost.of /\ Innermost'.at = Innermost.at + 1
  <2> DEFINE passed == [Innermost EXCEPT !.at = @ + 1]
  <2>1. Innermost \in InspectionType
    BY <1>2, ItemIn
  <2>2. passed \in InspectionType /\ passed.of = Innermost.of /\ passed.at = Innermost.at + 1
    BY <1>2, <2>1 DEF InspectionType
  <2>3. inspections' = Append(Front(inspections), passed)
    BY <1>1 DEF Passed
  <2> HIDE DEF passed
  <2>4. inspections' \in Seq(InspectionType) /\ Len(inspections') = 1 /\ Last(inspections') = passed
    BY <1>1, <1>2, <2>2, <2>3, ReplacedEnd
  <2> QED BY <2>2, <2>4 DEF Innermost
<1>6. Candidates' = Candidates
  BY <1>1 DEF Candidates
<1>7. Tried' = Tried + 1
  <2>1. Len(transports[chain[1]]) \in Nat
    BY <1>2 DEF TInv, Tables
  <2> QED BY <1>1, <1>2, <1>5, <2>1, SMTT(30) DEF Tried
<1>8. \A i \in 1..Tried : ~Serves(Candidates[i])
  BY <1>1, <1>2 DEF FirstOf
<1>9. selected' \in Senders \cup {NoType}
  BY <1>1, <1>3
<1>10. \A g : Serves(g)' <=> Serves(g)
  BY <1>1 DEF Serves
<1>d. f = transports[Innermost.of][Innermost.at]
  OBVIOUS
<1> HIDE DEF f, Serves
<1>11. FirstOf(Tried)'
  <2>1. CASE Serves(f)
    <3>1. selected' = f /\ selected' # NoType /\ Tried' > 0 /\ selected' = Candidates'[Tried'] /\ Serves(selected)'
      BY <1>1, <1>2, <1>4, <1>6, <1>7, <1>10, <2>1 DEF Serves
    <3>2. \A i \in 1..(Tried' - 1) : ~Serves(Candidates[i])'
      <4>1. Tried' - 1 = Tried
        BY <1>2, <1>7
      <4> QED BY <1>1, <1>6, <1>8, <4>1 DEF Serves
    <3> QED BY <3>1, <3>2 DEF FirstOf
  <2>2. CASE ~Serves(f)
    <3>1. \A i \in 1..Tried' : ~Serves(Candidates[i])
      <4>1. \A i \in 1..(Tried + 1) : i \in 1..Tried \/ i = Tried + 1
        BY <1>2
      <4> QED BY <1>2, <1>7, <1>8, <2>2, <4>1
    <3>2. \A i \in 1..Tried' : ~Serves(Candidates[i])'
      BY <1>1, <1>6, <3>1 DEF Serves
    <3> QED BY <1>1, <2>2, <3>2 DEF FirstOf
  <2> QED BY <2>1, <2>2
<1>12. Tables' /\ Shape' /\ Fresh'
  BY <1>1, <1>5, <1>9 DEF TInv, Tables, Shape, Fresh
<1>13. EndOfChain' /\ Alone' /\ Inspections' /\ Conversion' /\ GivenItsType'
  BY <1>1 DEF TInv, EndOfChain, Alone, Inspections, Conversion, GivenItsType, IsA, ClosedUnder
<1>14. Search'
  <2>1. Innermost'.at <= Len(transports'[Innermost'.of]) + 1
    BY <1>1, <1>2, <1>5
  <2>2. inspections' # <<>>
    BY <1>5, ItemIn
  <2> QED BY <1>1, <1>2, <1>5, <1>11, <2>1, <2>2 DEF Search
<1>15. ScriptFirst'
  <2>1. ASSUME selected' = "script" PROVE chain[1] = "script"
    <3>1. f = "script"
      BY <1>1, <2>1 DEF TypesAssumption
    <3> QED BY <1>2, <1>3, <3>1
  <2> QED BY <1>1, <2>1 DEF ScriptFirst
<1> QED BY <1>11, <1>12, <1>13, <1>14, <1>15 DEF TInv
-----------------------------------------------------------------------------
\* Places up to the n-th one.
LEMMA PlacesUpTo ==
  ASSUME NEW l \in Nat, NEW n \in Nat, n <= l
  PROVE  /\ n > 0 => n \in 1..l
         /\ \A i \in 1..l : i \in Nat /\ i # 0
         /\ \A m \in Nat : m <= n /\ m # 0 /\ m \notin 1..(n - 1) => m = n
OBVIOUS

\* When all of the candidates were tried, or one was selected, it is the first one that serves.
LEMMA SearchEnds ==
  ASSUME TypesAssumption, Len(Candidates) \in Nat, DOMAIN Candidates = 1..Len(Candidates),
         NEW n \in Nat, n <= Len(Candidates), FirstOf(n), selected # NoType \/ n = Len(Candidates)
  PROVE  LET serving == {i \in DOMAIN Candidates : Serves(Candidates[i])}
         IN  selected = IF serving = {} THEN NoType ELSE Candidates[Min(serving)]
<1> DEFINE serving == {i \in DOMAIN Candidates : Serves(Candidates[i])}
<1> HIDE DEF Candidates
<1>1. CASE selected = NoType
  <2>1. \A i \in DOMAIN Candidates : ~Serves(Candidates[i])
    <3> HIDE DEF Serves
    <3> QED BY <1>1 DEF FirstOf
  <2>2. serving = {}
    BY <2>1
  <2> QED BY <1>1, <2>2
<1>2. CASE selected # NoType
  <2>1. n > 0 /\ selected = Candidates[n] /\ Serves(Candidates[n]) /\ \A i \in 1..(n - 1) : ~Serves(Candidates[i])
    BY <1>2 DEF FirstOf
  <2>2. n \in DOMAIN Candidates /\ \A i \in DOMAIN Candidates : i \in Nat /\ i # 0
    <3>1. PICK l \in Nat : l = Len(Candidates)
      OBVIOUS
    <3>2. n <= l
      BY <3>1
    <3>3. n \in 1..l /\ \A i \in 1..l : i \in Nat /\ i # 0
      BY <2>1, <3>2, PlacesUpTo
    <3> QED BY <3>1, <3>3
  <2>3. n \in serving /\ \A i \in serving : i \in Nat /\ i # 0 /\ i \in DOMAIN Candidates /\ Serves(Candidates[i])
    <3> HIDE DEF Serves
    <3> QED BY <2>1, <2>2
  <2>4. Min(serving) \in serving /\ Min(serving) <= n
    <3> HIDE DEF serving
    <3>1. serving \subseteq Nat /\ serving # {}
      BY <2>3
    <3> QED BY <2>3, <3>1, LeastIn
  <2> HIDE DEF serving
  <2>5. Min(serving) \in Nat /\ Min(serving) # 0 /\ Serves(Candidates[Min(serving)])
    BY <2>3, <2>4
  <2>6. Min(serving) \notin 1..(n - 1)
    BY <2>1, <2>5
  <2>7. Min(serving) = n
    <3>1. PICK m \in Nat : m = Min(serving)
      BY <2>5
    <3>2. m <= n
      BY <2>4, <3>1
    <3>3. m \notin 1..(n - 1)
      BY <2>6, <3>1
    <3>4. m # 0
      BY <2>5, <3>1
    <3>5. m = n
      BY <3>2, <3>3, <3>4, PlacesUpTo
    <3> QED BY <3>1, <3>5
  <2>8. serving # {}
    BY <2>3
  <2> QED BY <2>1, <2>7, <2>8 DEF serving
<1> QED BY <1>1, <1>2

\* The end of an inspection of prefilters: what was run stays run, and the catchall, which
\* comes then unless it came before, has run nothing yet.
LEMMA ListEndsKeeps ==
  ASSUME TypesAssumption, TInv, ListEnds, phase = "prefilters"
  PROVE  TInv'
<1> DEFINE n == Len(inspections)
<1>1. /\ inspections # <<>>
      /\ \/ /\ "*" \notin inspected /\ inspections' = Append(Front(inspections), Inspection("*"))
            /\ inspected' = inspected \cup {"*"}
         \/ "*" \in inspected /\ inspections' = Front(inspections) /\ inspected' = inspected
      /\ UNCHANGED <<prefilters, transports, registered, settings, chain, converters, phase, ran,
                     selected, current, place, form, given>>
  BY DEF ListEnds, tables
<1>2. Tables /\ Shape /\ Fresh /\ EndOfChain /\ Alone /\ Inspections /\ GivenItsType
  BY DEF TInv
<1>3. /\ inspections \in Seq(InspectionType) /\ n \in Nat /\ n # 0 /\ DOMAIN inspections = 1..n /\ Innermost = inspections[n]
      /\ Front(inspections) \in Seq(InspectionType) /\ Len(Front(inspections)) = n - 1
      /\ \A k \in 1..(n - 1) : Front(inspections)[k] = inspections[k]
  <2>1. inspections \in Seq(InspectionType)
    BY <1>2 DEF Shape
  <2>2. /\ Len(inspections) \in Nat \ {0} /\ Last(inspections) = inspections[Len(inspections)]
        /\ Front(inspections) \in Seq(InspectionType) /\ Len(Front(inspections)) = Len(inspections) - 1
        /\ \A i \in 1..(Len(inspections) - 1) : Front(inspections)[i] = inspections[i]
    BY <1>1, <2>1, EndFacts
  <2>3. DOMAIN inspections = 1..Len(inspections) /\ Len(inspections) # 0
    BY <2>1, <2>2
  <2> QED BY <2>1, <2>2, <2>3 DEF Innermost
<1>4. inspections[n] \in InspectionType
  BY <1>3
<1>5. Innermost.of \in TypeNames /\ Innermost.at \in Nat
  BY <1>3, <1>4 DEF InspectionType
<1>6. prefilters \in [TypeNames -> Seq(Handlers)] /\ \A u \in TypeNames : Len(prefilters[u]) \in Nat
  <2>1. prefilters \in [TypeNames -> Seq(Handlers)]
    BY <1>2 DEF Tables
  <2>2. \A u \in TypeNames : prefilters[u] \in Seq(Handlers)
    BY <2>1
  <2> QED BY <2>1, <2>2
<1>7. ~(Innermost.at <= Len(prefilters[Innermost.of]))
  BY <1>1 DEF ListEnds, Reaches
<1>8. "*" \in TypeNames /\ Inspection("*") \in InspectionType /\ Inspection("*").of = "*" /\ Inspection("*").at = 1
  BY DEF TypesAssumption, Inspection, InspectionType
<1>9. \A u \in TypeNames : \A q \in DOMAIN prefilters[u] : q \in Nat /\ q <= Len(prefilters[u]) /\ ~(q < 1)
  BY <1>6
<1>10. /\ \A k \in DOMAIN inspections : inspections[k].of \in inspected /\ inspections[k].at <= Len(prefilters[inspections[k].of]) + 1
       /\ \A j, k \in DOMAIN inspections : inspections[j].of = inspections[k].of => j = k
       /\ settings.types[1] \in inspected
       /\ \A t \in TypeNames, q \in Nat : (\E i \in DOMAIN ran : ran[i] = <<t, q>>) <=> Run(t, q)
       /\ \A i, j \in DOMAIN ran : ran[i] = ran[j] => i = j
  BY <1>2 DEF Inspections
\* The places of the last inspection are all run.
<1>11. \A q \in DOMAIN prefilters[Innermost.of] : q < Innermost.at
  <2>1. ASSUME NEW q \in DOMAIN prefilters[Innermost.of] PROVE q < Innermost.at
    <3>1. PICK l \in Nat, a \in Nat : l = Len(prefilters[Innermost.of]) /\ a = Innermost.at
      BY <1>5, <1>6
    <3>2. q \in Nat /\ q <= l /\ ~(a <= l)
      BY <1>5, <1>7, <1>9, <3>1
    <3>3. q < a
      BY <3>2
    <3> QED BY <3>1, <3>3
  <2> QED BY <2>1
<1> HIDE DEF n, Inspection
\* Frames of the new list: the ones below, and one for the catchall if it is new.
<1>12. /\ inspections' \in Seq(InspectionType) /\ \A k \in 1..(n - 1) : k \in DOMAIN inspections' /\ inspections'[k] = inspections[k]
       /\ IF "*" \notin inspected
          THEN DOMAIN inspections' = 1..n /\ inspections'[n] = Inspection("*") /\ inspections' # <<>>
          ELSE DOMAIN inspections' = 1..(n - 1)
  <2>1. CASE "*" \notin inspected /\ inspections' = Append(Front(inspections), Inspection("*"))
    <3>1. /\ inspections' \in Seq(InspectionType) /\ Len(inspections') = n /\ inspections'[n] = Inspection("*")
          /\ \A k \in 1..(n - 1) : inspections'[k] = inspections[k]
      <4> DEFINE new == Append(Front(inspections), Inspection("*"))
      <4>1. /\ new \in Seq(InspectionType) /\ Len(new) = Len(inspections) /\ new[Len(inspections)] = Inspection("*")
            /\ \A i \in 1..(Len(inspections) - 1) : new[i] = inspections[i]
        BY <1>1, <1>3, <1>8, ReplacedEnd
      <4>2. inspections' = new
        BY <2>1
      <4> HIDE DEF new
      <4> QED BY <4>1, <4>2 DEF n
    <3>2. DOMAIN inspections' = 1..n /\ \A k \in 1..(n - 1) : k \in 1..n
      BY <1>3, <3>1
    <3>3. inspections' # <<>>
      BY <1>3, <3>1
    <3> QED BY <2>1, <3>1, <3>2, <3>3
  <2>2. CASE "*" \in inspected /\ inspections' = Front(inspections)
    <3>1. DOMAIN inspections' = 1..(n - 1)
      BY <1>3, <2>2
    <3> QED BY <1>3, <2>2, <3>1
  <2> QED BY <1>1, <2>1, <2>2
<1>13. inspected' = inspected \cup {"*"}
  BY <1>1
<1>14. \A k \in DOMAIN inspections' : k \in 1..(n - 1) \/ (k = n /\ "*" \notin inspected)
  BY <1>3, <1>12
<1>15. \A k \in 1..(n - 1) : k \in DOMAIN inspections /\ k # n
  BY <1>3
<1>16. Innermost.of \in inspected /\ n \in DOMAIN inspections
  BY <1>3, <1>10
<1>17. ASSUME NEW u \in TypeNames, NEW q \in Nat
       PROVE  Run(u, q)' <=> Run(u, q)
  <2>1. CASE q \notin DOMAIN prefilters[u]
    BY <1>1, <2>1 DEF Run
  <2>2. CASE q \in DOMAIN prefilters[u] /\ u = Innermost.of
    <3>1. Run(u, q)
      <4>1. \A k \in DOMAIN inspections : inspections[k].of = u => k = n
        BY <1>3, <1>10, <1>16, <2>2
      <4> QED BY <1>3, <1>11, <1>16, <2>2, <4>1 DEF Run
    <3>2. \A k \in DOMAIN inspections' : inspections'[k].of # u
      <4>1. \A k \in 1..(n - 1) : inspections[k].of # u
        BY <1>3, <1>10, <1>15, <1>16, <2>2
      <4>2. "*" \notin inspected => u # "*"
        BY <1>16, <2>2
      <4> QED BY <1>8, <1>12, <1>14, <4>1, <4>2
    <3>3. Run(u, q)'
      BY <1>1, <1>13, <1>16, <2>2, <3>2 DEF Run
    <3> QED BY <3>1, <3>3
  <2>3. CASE q \in DOMAIN prefilters[u] /\ u # Innermost.of /\ u = "*" /\ "*" \notin inspected
    <3>1. ~Run(u, q)
      BY <2>3 DEF Run
    <3>2. n \in DOMAIN inspections' /\ inspections'[n].of = u /\ inspections'[n].at = 1 /\ ~(q < 1)
      BY <1>3, <1>8, <1>9, <1>12, <2>3
    <3>3. ~Run(u, q)'
      BY <3>2 DEF Run
    <3> QED BY <3>1, <3>3
  <2>4. CASE q \in DOMAIN prefilters[u] /\ u # Innermost.of /\ ~(u = "*" /\ "*" \notin inspected)
    <3>1. u \in inspected <=> u \in inspected'
      BY <1>13, <2>4
    <3>2. \A k \in DOMAIN inspections : inspections[k].of = u => k \in 1..(n - 1)
      <4>1. \A k \in DOMAIN inspections : k \in 1..(n - 1) \/ k = n
        BY <1>3
      <4> QED BY <1>3, <2>4, <4>1
    <3>3. \A k \in DOMAIN inspections' : inspections'[k].of = u => k \in 1..(n - 1)
      BY <1>8, <1>12, <1>14, <2>4
    <3>4. (\A k \in DOMAIN inspections : inspections[k].of = u => q < inspections[k].at)
            <=> (\A k \in DOMAIN inspections' : inspections'[k].of = u => q < inspections'[k].at)
      BY <1>12, <1>15, <3>2, <3>3
    <3> QED BY <1>1, <3>1, <3>4 DEF Run
  <2> QED BY <2>1, <2>2, <2>3, <2>4
<1>18. Tables' /\ Fresh' /\ EndOfChain' /\ GivenItsType'
  BY <1>1, <1>2 DEF Tables, Fresh, EndOfChain, GivenItsType, IsA, ClosedUnder
<1>19. Shape'
  BY <1>1, <1>2, <1>8, <1>12, <1>13 DEF Shape
<1>20. Alone'
  <2>1. ASSUME Len(chain') = 1, NEW k \in DOMAIN inspections' PROVE inspections'[k].of \in {settings'.types[1], "*"}
    <3>1. \A j \in DOMAIN inspections : inspections[j].of \in {settings.types[1], "*"}
      BY <1>1, <1>2, <2>1 DEF Alone
    <3> QED BY <1>1, <1>8, <1>12, <1>14, <1>15, <3>1
  <2> QED BY <1>1, <1>2, <2>1 DEF Alone
<1>21. Inspections'
  <2>1. \A j, k \in DOMAIN inspections' : inspections'[j].of = inspections'[k].of => j = k
    <3>1. \A j, k \in 1..(n - 1) : inspections'[j].of = inspections'[k].of => j = k
      BY <1>10, <1>12, <1>15
    <3>2. "*" \notin inspected => \A j \in 1..(n - 1) : inspections'[j].of # "*"
      BY <1>10, <1>12, <1>15
    <3> QED BY <1>8, <1>12, <1>14, <3>1, <3>2
  <2>2. ASSUME NEW k \in DOMAIN inspections'
        PROVE  inspections'[k].of \in inspected' /\ inspections'[k].at <= Len(prefilters'[inspections'[k].of]) + 1
    <3>1. CASE k \in 1..(n - 1)
      BY <1>1, <1>10, <1>12, <1>13, <1>15, <3>1
    <3>2. CASE k = n /\ "*" \notin inspected
      <4>1. PICK l \in Nat : l = Len(prefilters["*"])
        BY <1>6, <1>8
      <4>2. 1 <= l + 1
        OBVIOUS
      <4> QED BY <1>1, <1>8, <1>12, <1>13, <3>2, <4>1, <4>2
    <3> QED BY <1>14, <3>1, <3>2
  <2>3. settings'.types[1] \in inspected' /\ "*" \in inspected'
    BY <1>1, <1>10, <1>13
  <2>4. \A t \in TypeNames, q \in Nat : (\E i \in DOMAIN ran' : ran'[i] = <<t, q>>) <=> Run(t, q)'
    BY <1>1, <1>10, <1>17
  <2> QED BY <1>1, <1>10, <2>1, <2>2, <2>3, <2>4 DEF Inspections
<1> QED BY <1>1, <1>18, <1>19, <1>20, <1>21 DEF TInv, Search, ScriptFirst, Conversion

\* The end of an inspection of transports: the catchall comes after the first type, and at the
\* end of both all of the candidates were tried, or one was selected.
LEMMA SearchListEndsKeeps ==
  ASSUME TypesAssumption, TInv, ListEnds, phase = "transports"
  PROVE  TInv'
<1>1. /\ inspections # <<>> /\ (selected # NoType \/ ~(Innermost.at <= Len(transports[Innermost.of])))
      /\ \/ /\ selected = NoType /\ "*" \notin inspected
            /\ inspections' = Append(Front(inspections), Inspection("*")) /\ inspected' = inspected \cup {"*"}
         \/ (selected # NoType \/ "*" \in inspected) /\ inspections' = Front(inspections) /\ inspected' = inspected
      /\ UNCHANGED <<prefilters, transports, registered, settings, chain, converters, phase, ran,
                     selected, current, place, form, given>>
  BY DEF ListEnds, tables, Searches, Reaches
<1>2. /\ inspections \in Seq(InspectionType) /\ Len(inspections) = 1 /\ Innermost = inspections[1]
      /\ Innermost.of \in TypeNames /\ Innermost.at \in Nat /\ Innermost.at # 0
      /\ chain[1] \in TypeNames /\ chain # <<>>
      /\ Innermost.of = chain[1] \/ Innermost.of = "*"
      /\ inspected = {chain[1], Innermost.of}
      /\ Innermost.at <= Len(transports[Innermost.of]) + 1 /\ Len(transports[Innermost.of]) \in Nat
      /\ FirstOf(Tried) /\ Tried \in Nat /\ Len(Candidates) \in Nat
      /\ Tried <= Len(Candidates)
      /\ Innermost.at = Len(transports[Innermost.of]) + 1 /\ Innermost.of = "*" => Tried = Len(Candidates)
  BY <1>1, SearchFacts
<1>3. selected = NoType => Innermost.at = Len(transports[Innermost.of]) + 1
  <2>1. ASSUME selected = NoType PROVE Innermost.at = Len(transports[Innermost.of]) + 1
    <3>1. PICK l \in Nat, a \in Nat : l = Len(transports[Innermost.of]) /\ a = Innermost.at
      BY <1>2
    <3>2. a <= l + 1 /\ ~(a <= l)
      BY <1>1, <1>2, <2>1, <3>1
    <3>3. a = l + 1
      BY <3>2
    <3> QED BY <3>1, <3>3
  <2> QED BY <2>1
<1>4. Front(inspections) \in Seq(InspectionType) /\ Len(Front(inspections)) = 0
  <2>1. Front(inspections) \in Seq(InspectionType) /\ Len(Front(inspections)) = Len(inspections) - 1
    BY <1>1, <1>2, EndFacts
  <2> QED BY <1>2, <2>1
<1>5. "*" \in TypeNames /\ Inspection("*") \in InspectionType /\ Inspection("*").of = "*" /\ Inspection("*").at = 1
  BY DEF TypesAssumption, Inspection, InspectionType
<1>6. Tables' /\ Fresh' /\ EndOfChain' /\ Alone' /\ Inspections' /\ ScriptFirst' /\ Conversion' /\ GivenItsType'
  BY <1>1 DEF TInv, Tables, Fresh, EndOfChain, Alone, Inspections, ScriptFirst, Conversion, GivenItsType, IsA, ClosedUnder
<1>7. Candidates' = Candidates
  BY <1>1 DEF Candidates
<1>8. CASE selected = NoType /\ "*" \notin inspected
  <2>1. inspections' = Append(Front(inspections), Inspection("*")) /\ inspected' = inspected \cup {"*"}
    BY <1>1, <1>8
  <2>2. inspections' \in Seq(InspectionType) /\ Len(inspections') = 1 /\ Last(inspections') = Inspection("*") /\ inspections' # <<>>
    <3> HIDE DEF Inspection
    <3> QED BY <1>1, <1>2, <1>5, <2>1, ReplacedEnd
  <2>3. Innermost'.of = "*" /\ Innermost'.at = 1
    BY <1>5, <2>2 DEF Innermost
  <2>4. Innermost.of = chain[1] /\ chain[1] # "*"
    BY <1>2, <1>8
  <2>5. Len(transports[chain[1]]) \in Nat /\ Len(transports["*"]) \in Nat
    BY <1>2, <1>5 DEF TInv, Tables
  <2>6. Tried' = Tried
    <3>1. Tried' = Len(transports[chain[1]]) + 1 - 1
      BY <1>1, <2>3, <2>4 DEF Tried
    <3>2. Tried = Innermost.at - 1
      BY <2>4 DEF Tried
    <3>3. Innermost.at = Len(transports[chain[1]]) + 1
      BY <1>3, <1>8, <2>4
    <3> QED BY <3>1, <3>2, <3>3
  <2>7. FirstOf(Tried)'
    <3>1. \A i \in 1..Tried : ~Serves(Candidates[i])
      BY <1>2, <1>8 DEF FirstOf
    <3>2. \A i \in 1..Tried' : ~Serves(Candidates[i])'
      <4> HIDE DEF Candidates
      <4> QED BY <1>1, <1>7, <2>6, <3>1 DEF Serves
    <3> QED BY <1>1, <1>8, <3>2 DEF FirstOf
  <2>8. Innermost'.at <= Len(transports'[Innermost'.of]) + 1
    BY <1>1, <2>3, <2>5
  <2>9. inspected' = {chain'[1], Innermost'.of}
    BY <1>1, <1>2, <2>1, <2>3, <2>4
  <2>10. Search'
    BY <2>2, <2>3, <2>7, <2>8, <2>9 DEF Search
  <2>11. inspected' \subseteq TypeNames
    BY <1>2, <1>5, <2>1
  <2>12. Shape'
    BY <1>1, <2>2, <2>11 DEF TInv, Shape
  <2> QED BY <1>6, <2>10, <2>12 DEF TInv
<1>9. CASE selected # NoType \/ "*" \in inspected
  <2>1. inspections' = Front(inspections) /\ inspected' = inspected
    BY <1>1, <1>9
  <2>2. inspections' = <<>>
    BY <1>4, <2>1
  <2>3. selected # NoType \/ Tried = Len(Candidates)
    <3>1. selected = NoType => Innermost.of = "*"
      BY <1>2, <1>9
    <3> QED BY <1>2, <1>3, <3>1
  <2>4. Candidates \in Seq(Senders)
    BY <1>2, CandidateFacts DEF TInv
  <2>5. DOMAIN Candidates = 1..Len(Candidates)
    <3> HIDE DEF Candidates
    <3> QED BY <2>4
  <2>6. LET serving == {i \in DOMAIN Candidates : Serves(Candidates[i])}
        IN  selected = IF serving = {} THEN NoType ELSE Candidates[Min(serving)]
    BY <1>2, <2>3, <2>5, SearchEnds
  <2>7. FirstThatServes'
    <3>1. {i \in DOMAIN Candidates : Serves(Candidates[i])}' = {i \in DOMAIN Candidates : Serves(Candidates[i])}
      <4> HIDE DEF Candidates
      <4> QED BY <1>1, <1>7 DEF Serves
    <3>2. LET serving == {i \in DOMAIN Candidates : Serves(Candidates[i])}'
          IN  selected' = IF serving = {} THEN NoType ELSE Candidates'[Min(serving)]
      BY <1>1, <1>7, <2>6, <3>1
    <3> QED BY <3>2 DEF FirstThatServes, Candidates
  <2>8. Shape' /\ Search'
    BY <1>1, <1>4, <2>1, <2>2, <2>7 DEF TInv, Shape, Search
  <2> QED BY <1>6, <2>8 DEF TInv
<1> QED BY <1>8, <1>9

\* The second inspection starts with no candidate tried.
LEMMA GetTransportKeeps ==
  ASSUME TypesAssumption, TInv, SearchTransports
  PROVE  TInv'
<1>1. /\ phase = "prefilters" /\ phase' = "transports"
      /\ inspections' = <<Inspection(chain[1])>> /\ inspected' = {chain[1]}
      /\ UNCHANGED <<prefilters, transports, registered, settings, chain, converters, ran,
                     selected, current, place, form, given>>
  BY DEF SearchTransports, tables
<1>2. chain \in Seq(TypeNames) /\ chain # <<>> /\ selected = NoType /\ given = {}
  BY <1>1 DEF TInv, Shape, EndOfChain, Fresh
<1>3. chain[1] \in TypeNames /\ Inspection(chain[1]) \in InspectionType
  <2>1. chain[1] \in TypeNames
    BY <1>2
  <2> QED BY <2>1 DEF Inspection, InspectionType
<1>4. /\ inspections' \in Seq(InspectionType) /\ Len(inspections') = 1 /\ inspections' # <<>>
      /\ Innermost'.of = chain[1] /\ Innermost'.at = 1
  BY <1>1, <1>3 DEF Innermost, Last, Inspection
<1>5. Tables' /\ Fresh' /\ EndOfChain' /\ Alone' /\ Inspections' /\ Conversion' /\ GivenItsType'
  BY <1>1, <1>2 DEF TInv, Tables, Fresh, EndOfChain, Alone, Inspections, Conversion, GivenItsType
<1>6. ScriptFirst'
  BY <1>1, <1>2 DEF ScriptFirst, TypesAssumption
<1>7. Shape'
  BY <1>1, <1>3, <1>4 DEF TInv, Shape, Phases
<1>8. Search'
  <2>1. Tried' = 0
    BY <1>1, <1>4 DEF Tried
  <2>2. FirstOf(Tried)'
    <3>1. \A i \in 1..Tried' : FALSE
      BY <2>1
    <3> QED BY <1>1, <1>2, <3>1 DEF FirstOf
  <2>3. Len(transports[chain[1]]) \in Nat
    BY <1>3 DEF TInv, Tables
  <2>4. 1 <= Len(transports[chain[1]]) + 1
    BY <2>3
  <2> QED BY <1>1, <1>4, <2>2, <2>4 DEF Search
<1> QED BY <1>5, <1>6, <1>7, <1>8 DEF TInv

\* A request that failed converts nothing.
LEMMA FailsKeeps == ASSUME TypesAssumption, TInv, Fails PROVE TInv'
<1>1. /\ phase = "transports" /\ inspections = <<>> /\ phase' = "error"
      /\ UNCHANGED <<prefilters, transports, registered, settings, chain, converters, inspections, inspected,
                     ran, selected, current, place, form, given>>
  BY DEF Fails, tables
<1>2. Tables' /\ Fresh' /\ EndOfChain' /\ GivenItsType'
  BY <1>1 DEF TInv, Tables, Fresh, EndOfChain, GivenItsType, IsA, ClosedUnder
<1>3. Shape'
  BY <1>1 DEF TInv, Shape, Phases
<1> QED BY <1>1, <1>2, <1>3 DEF TInv, Alone, Inspections, Search, ScriptFirst, Conversion
-----------------------------------------------------------------------------
\* What transports respond with has types, a star is none of them; only the transport for
\* scripts has no response.
LEMMA ResponsesFacts ==
  ASSUME TypesAssumption, NEW responses \in Responses
  PROVE  /\ responses \in Seq(TypeNames \ {"*"})
         /\ responses = <<>> => selected = "script"
<1> "script" \notin Plugins /\ "xhr" \notin Plugins
  BY DEF TypesAssumption
<1>1. CASE selected = "xhr"
  <2>1. responses = <<"text">> \/ responses = <<"xml", "text">>
    BY <1>1 DEF Responses
  <2>2. "text" \in TypeNames \ {"*"} /\ "xml" \in TypeNames \ {"*"}
    BY DEF TypesAssumption
  <2>3. <<"text">> \in Seq(TypeNames \ {"*"}) /\ <<"xml", "text">> \in Seq(TypeNames \ {"*"})
    BY <2>2
  <2>4. <<"text">> # <<>> /\ <<"xml", "text">> # <<>>
    OBVIOUS
  <2> QED BY <2>1, <2>3, <2>4
<1>2. CASE selected = "script"
  BY <1>2 DEF Responses
<1>3. CASE selected \in Plugins /\ selected # "xhr" /\ selected # "script"
  <2>1. responses = <<Brings[selected]>>
    BY <1>3 DEF Responses
  <2>2. Brings[selected] \in TypeNames \ {"*"}
    BY <1>3 DEF TypesAssumption
  <2> QED BY <2>1, <2>2
<1>4. CASE selected \notin Plugins /\ selected # "xhr" /\ selected # "script"
  BY <1>4 DEF Responses
<1> QED BY <1>1, <1>2, <1>3, <1>4

\* The expected types end as the chain does; if none is expected, the chain is of stars.
LEMMA ExpectedFacts ==
  ASSUME TypesAssumption, chain \in Seq(TypeNames), chain # <<>>, NEW ct \in ContentTypes
  PROVE  /\ Expected(ct) \in Seq(TypeNames)
         /\ Expected(ct) = <<>> \/ Last(Expected(ct)) = Last(chain) \/ Last(chain) = "*"
         /\ Expected(ct) = <<>> => Last(chain) = "*"
<1> DEFINE named == {i \in DOMAIN chain : chain[i] # "*"}
           rest  == IF named = {} THEN <<>> ELSE SubSeq(chain, Min(named), Len(chain))
<1>1. /\ Len(chain) \in Nat \ {0} /\ Last(chain) = chain[Len(chain)] /\ DOMAIN chain = 1..Len(chain)
      /\ Len(chain) \in DOMAIN chain /\ 1 \in DOMAIN chain
  <2>1. Len(chain) \in Nat \ {0} /\ Last(chain) = chain[Len(chain)]
    BY EndFacts
  <2> QED BY <2>1
<1>2. Expected(ct) = IF chain[1] # "*" \/ ct = NoType THEN rest ELSE <<ct>> \o rest
  BY DEF Expected
<1>3. ct # NoType => ct \in TypeNames
  BY DEF TypesAssumption
<1>4. CASE named = {}
  <2>1. chain[Len(chain)] = "*" /\ chain[1] = "*"
    BY <1>1, <1>4
  <2>2. rest = <<>>
    BY <1>4
  <2>3. Expected(ct) = <<>> \/ (ct \in TypeNames /\ Expected(ct) = <<ct>> \o <<>>)
    BY <1>2, <1>3, <2>2
  <2>4. Expected(ct) \in Seq(TypeNames)
    <3>1. <<>> \in Seq(TypeNames)
      OBVIOUS
    <3>2. ct \in TypeNames => <<ct>> \o <<>> \in Seq(TypeNames)
      BY <3>1, InFront
    <3> QED BY <2>3, <3>1, <3>2
  <2> QED BY <1>1, <2>1, <2>4
<1>5. CASE named # {}
  <2>1. named \subseteq Nat /\ named \subseteq DOMAIN chain
    BY <1>1
  <2>2. Min(named) \in named
    <3> HIDE DEF named
    <3> QED BY <1>5, <2>1, LeastIn
  <2>3. PICK a \in 1..Len(chain) : a = Min(named)
    BY <1>1, <2>1, <2>2
  <2>4. rest = SubSeq(chain, a, Len(chain))
    BY <1>5, <2>3
  <2> HIDE DEF named, rest
  <2>5. PICK l \in Nat : l = Len(chain)
    BY <1>1
  <2>6. a \in Int /\ l \in Int /\ a <= l /\ a \in 1..l
    BY <2>5
  <2>7. \A i \in a..l : chain[i] \in TypeNames
    BY <1>1, <2>5
  <2>8. /\ rest \in Seq(TypeNames) /\ Len(rest) = (IF a <= l THEN l - a + 1 ELSE 0)
        /\ \A i \in 1..(l - a + 1) : rest[i] = chain[a + i - 1]
    BY <2>4, <2>5, <2>6, <2>7, SubSeqProperties
  <2>9. Len(rest) = l - a + 1 /\ l - a + 1 \in Nat /\ l - a + 1 # 0 /\ l - a + 1 \in 1..(l - a + 1)
        /\ a + (l - a + 1) - 1 = l
    BY <2>6, <2>8
  <2>10. rest[l - a + 1] = chain[l]
    BY <2>8, <2>9
  <2>11. rest # <<>> /\ Last(rest) = Last(chain)
    BY <1>1, <2>5, <2>8, <2>9, <2>10 DEF Last
  <2>12. CASE Expected(ct) = rest
    BY <2>8, <2>11, <2>12
  <2>13. CASE ct \in TypeNames /\ Expected(ct) = <<ct>> \o rest
    <3>1. /\ <<ct>> \o rest \in Seq(TypeNames) /\ <<ct>> \o rest # <<>> /\ Last(<<ct>> \o rest) = Last(rest)
      BY <2>8, <2>11, <2>13, InFront
    <3> QED BY <2>11, <2>13, <3>1
  <2> QED BY <1>2, <1>3, <2>12, <2>13
<1> QED BY <1>4, <1>5

\* The response that is taken is one of those that came.
LEMMA FinalTypeFacts ==
  ASSUME NEW S, NEW responses \in Seq(S), responses # <<>>, NEW types
  PROVE  FinalType(responses, types) \in S
<1> DEFINE fit == {i \in DOMAIN responses : types = <<>> \/ Converts(responses[i], types[1])}
<1>1. DOMAIN responses \subseteq Nat /\ 1 \in DOMAIN responses /\ \A i \in DOMAIN responses : responses[i] \in S
  BY EndFacts
<1>2. fit # {} => Min(fit) \in DOMAIN responses
  <2>1. fit \subseteq Nat /\ fit \subseteq DOMAIN responses
    BY <1>1
  <2> HIDE DEF fit
  <2> QED BY <2>1, LeastIn
<1>3. \A x \in ToSet(responses) : x \in S
  BY <1>1 DEF ToSet
<1> HIDE DEF fit
<1>4. FinalType(responses, types) =
        IF types # <<>> /\ types[1] \in ToSet(responses) THEN types[1]
        ELSE IF fit # {} THEN responses[Min(fit)] ELSE responses[1]
  BY DEF FinalType, fit
<1> QED BY <1>1, <1>2, <1>3, <1>4

\* The conversion starts at the type that came; the chain keeps its end, unless it named none.
LEMMA AnswerKeeps ==
  ASSUME TypesAssumption, TInv, NEW responses \in Responses, NEW ct \in ContentTypes, Respond(responses, ct)
  PROVE  TInv'
<1> DEFINE types == Expected(ct)
           final == FinalType(responses, types)
<1>1. /\ phase = "transports" /\ inspections = <<>> /\ phase' = "convert" /\ place' = 1 /\ current' = chain'[1]
      /\ responses = <<>> => form' = chain[1] /\ chain' = chain
      /\ responses # <<>> =>
           /\ form' = final
           /\ chain' = IF types # <<>> /\ types[1] = final THEN types ELSE <<final>> \o types
      /\ UNCHANGED <<prefilters, transports, registered, settings, converters, inspections, inspected, ran,
                     selected, given>>
  BY DEF Respond, tables
<1>2. chain \in Seq(TypeNames) /\ chain # <<>>
  BY <1>1 DEF TInv, Shape, EndOfChain
<1>3. responses \in Seq(TypeNames \ {"*"}) /\ (responses = <<>> => selected = "script")
  BY ResponsesFacts
<1>4. /\ types \in Seq(TypeNames)
      /\ types = <<>> \/ Last(types) = Last(chain) \/ Last(chain) = "*"
      /\ types = <<>> => Last(chain) = "*"
  BY <1>2, ExpectedFacts
<1>5. responses # <<>> => final \in TypeNames \ {"*"}
  BY <1>3, FinalTypeFacts
<1> HIDE DEF types, final
<1>6. /\ chain' \in Seq(TypeNames) /\ chain' # <<>> /\ chain'[1] = form' /\ form' \in TypeNames /\ form' # "*"
      /\ Last(chain') = Last(chain) \/ Last(chain) = "*"
  <2>1. CASE responses = <<>>
    <3>1. chain[1] = "script"
      BY <1>1, <1>3, <2>1 DEF TInv, ScriptFirst
    <3> QED BY <1>1, <1>2, <2>1, <3>1 DEF TypesAssumption
  <2>2. CASE responses # <<>> /\ types # <<>> /\ types[1] = final
    BY <1>1, <1>4, <1>5, <2>2
  <2>3. CASE responses # <<>> /\ ~(types # <<>> /\ types[1] = final)
    <3>1. chain' = <<final>> \o types /\ form' = final /\ final \in TypeNames \ {"*"}
      BY <1>1, <1>5, <2>3
    <3>2. /\ chain' \in Seq(TypeNames) /\ chain'[1] = final /\ chain' # <<>>
          /\ types # <<>> => Last(chain') = Last(types)
      BY <1>4, <3>1, InFront
    <3> QED BY <1>4, <3>1, <3>2
  <2> QED BY <2>1, <2>2, <2>3
<1>7. Tables' /\ Fresh' /\ Alone' /\ Inspections' /\ Search' /\ ScriptFirst' /\ GivenItsType'
  BY <1>1 DEF TInv, Tables, Fresh, Alone, Inspections, Search, ScriptFirst, GivenItsType, IsA, ClosedUnder
<1>8. EndOfChain'
  <2>1. \/ Last(chain) = Last(settings.types) \/ Last(settings.types) = "*"
        \/ (settings.types = <<"jsonp">> /\ Last(chain) = "json")
    BY <1>1 DEF TInv, EndOfChain
  <2> QED BY <1>1, <1>6, <2>1 DEF EndOfChain
<1>9. Conversion'
  BY <1>1, <1>6 DEF Conversion, IsA
<1>10. Shape'
  <2>1. Len(chain') \in Nat /\ Len(chain') # 0
    BY <1>6
  <2>2. place' \in 0..Len(chain')
    BY <1>1, <2>1
  <2> QED BY <1>1, <1>6, <2>2 DEF TInv, Shape, Phases
<1> QED BY <1>7, <1>8, <1>9, <1>10 DEF TInv

\* The way from one type to the next is a converter that leads to it, or two that are linked.
LEMMA RouteFacts ==
  ASSUME converters \in Seq(Conversions), NEW prev, NEW next, Route(prev, next) # <<>>
  PROVE  \/ \E i \in DOMAIN converters :
              /\ Route(prev, next) = <<converters[i]>>
              /\ converters[i].from \in {prev, "*"} /\ converters[i].to = next
         \/ \E i, j \in DOMAIN converters :
              /\ Route(prev, next) = <<converters[i], converters[j]>>
              /\ converters[i].from \in {prev, "*"}
              /\ converters[j].from = converters[i].to /\ converters[j].to = next
<1> DEFINE direct == Lookup(prev, next)
           any    == Lookup("*", next)
           via    == {i \in DOMAIN converters :
                        converters[i].from \in {prev, "*"} /\ Lookup(converters[i].to, next) # {}}
           half   == converters[Min(via)]
           rest   == Lookup(half.to, next)
<1>1. DOMAIN converters \subseteq Nat
  OBVIOUS
<1>2. ASSUME NEW S, S \subseteq DOMAIN converters, S # {} PROVE Min(S) \in S
  BY <1>1, <1>2, LeastIn
<1>3. /\ direct \subseteq DOMAIN converters /\ any \subseteq DOMAIN converters
      /\ via \subseteq DOMAIN converters /\ rest \subseteq DOMAIN converters
  BY DEF Lookup
<1>4. Route(prev, next) = IF direct # {} THEN <<converters[Min(direct)]>>
                          ELSE IF any # {} THEN <<converters[Min(any)]>>
                          ELSE IF via # {} THEN <<half, converters[Min(rest)]>> ELSE <<>>
  BY DEF Route
<1>5. CASE direct # {}
  <2>1. Min(direct) \in direct
    <3> HIDE DEF direct
    <3> QED BY <1>2, <1>3, <1>5
  <2>2. /\ Min(direct) \in DOMAIN converters
        /\ converters[Min(direct)].from = prev /\ converters[Min(direct)].to = next
    BY <2>1 DEF Lookup
  <2> HIDE DEF direct, any, via, half, rest
  <2> QED BY <1>4, <1>5, <2>2
<1>6. CASE direct = {} /\ any # {}
  <2>1. Min(any) \in any
    <3> HIDE DEF any
    <3> QED BY <1>2, <1>3, <1>6
  <2>2. /\ Min(any) \in DOMAIN converters
        /\ converters[Min(any)].from = "*" /\ converters[Min(any)].to = next
    BY <2>1 DEF Lookup
  <2> HIDE DEF direct, any, via, half, rest
  <2> QED BY <1>4, <1>6, <2>2
<1>7. CASE direct = {} /\ any = {}
  <2>1. via # {}
    <3> HIDE DEF direct, any, via, half, rest
    <3> QED BY <1>4, <1>7
  <2>2. Min(via) \in via
    <3> HIDE DEF via
    <3> QED BY <1>2, <1>3, <2>1
  <2>3. Min(via) \in DOMAIN converters /\ half.from \in {prev, "*"} /\ rest # {}
    BY <2>2
  <2>4. Min(rest) \in rest
    <3> HIDE DEF rest
    <3> QED BY <1>2, <1>3, <2>3
  <2>5. /\ Min(rest) \in DOMAIN converters
        /\ converters[Min(rest)].from = half.to /\ converters[Min(rest)].to = next
    BY <2>4 DEF Lookup
  <2>6. half = converters[Min(via)]
    OBVIOUS
  <2> HIDE DEF direct, any, via, half, rest
  <2>7. Route(prev, next) = <<converters[Min(via)], converters[Min(rest)]>>
    BY <1>4, <1>7, <2>1, <2>6
  <2> QED BY <2>3, <2>5, <2>6, <2>7
<1> QED BY <1>5, <1>6, <1>7

\* A value of a type that a converter takes is, past it, of the type that it leads to.
LEMMA PastConverter ==
  ASSUME converters \in Seq(Conversions), NEW f \in TypeNames, NEW t, IsA(f, t), NEW i \in DOMAIN converters,
         converters[i].from \in {t, "*"}
  PROVE  LET g == IF converters[i].same THEN f ELSE converters[i].to
         IN  g \in TypeNames /\ IsA(g, converters[i].to)
<1>1. converters[i].to \in TypeNames /\ converters[i].same \in BOOLEAN
  <2>1. converters[i] \in Conversions
    OBVIOUS
  <2> QED BY <2>1 DEF Conversions
<1>2. CASE converters[i].same
  BY <1>2, IsAStep
<1>3. CASE ~converters[i].same
  BY <1>1, <1>3 DEF IsA
<1> QED BY <1>1, <1>2, <1>3

\* One type further: nothing to convert, a way of one or two converters, or a failure.
LEMMA ConvertKeeps ==
  ASSUME TypesAssumption, TInv, Convert
  PROVE  TInv'
<1> DEFINE next  == NextType
           route == Route(current, next)
           called == {i \in DOMAIN route : ~route[i].same}
<1>1. /\ phase = "convert" /\ place < Len(chain) /\ place' = place + 1 /\ current' = next
      /\ UNCHANGED <<prefilters, transports, registered, settings, chain, converters, inspections, inspected,
                     ran, selected>>
  BY DEF Convert, tables
<1>2. /\ chain \in Seq(TypeNames) /\ converters \in Seq(Conversions) /\ form \in TypeNames /\ current \in TypeNames
      /\ current # "*" /\ place \in Nat /\ IsA(form, current) /\ GivenItsType /\ \A g \in given : g.form \in TypeNames
  BY <1>1 DEF TInv, Shape, Conversion
<1>3. place + 1 \in DOMAIN chain /\ place + 1 \in Nat /\ place + 1 > 0 /\ place + 1 \in 0..Len(chain)
  <2>1. Len(chain) \in Nat /\ DOMAIN chain = 1..Len(chain)
    BY <1>2
  <2> QED BY <1>1, <1>2, <2>1
<1>4. next \in TypeNames /\ next # "*" /\ chain[place + 1] \in {next, "*"}
  BY <1>2, <1>3 DEF NextType
<1>5. \/ next = current /\ UNCHANGED <<phase, form, given>>
      \/ /\ route # <<>> /\ phase' = phase /\ form' = FormAt(route, Len(route) + 1)
         /\ given' = given \cup {[conv |-> route[i], form |-> FormAt(route, i)] : i \in called}
      \/ phase' = "parsererror" /\ UNCHANGED <<form, given>>
  BY <1>2 DEF Convert
<1> HIDE DEF next

\* Past the way the value is of the next type, and each converter on it was given its own.
<1>6. ASSUME route # <<>>, form' = FormAt(route, Len(route) + 1),
             given' = given \cup {[conv |-> route[i], form |-> FormAt(route, i)] : i \in called}
      PROVE  /\ form' \in TypeNames /\ IsA(form', next)
             /\ \A g \in given' : g.form \in TypeNames /\ (g.conv.from = "*" \/ IsA(g.form, g.conv.from))
  <2>1. ASSUME NEW i \in DOMAIN converters, route = <<converters[i]>>,
               converters[i].from \in {current, "*"}, converters[i].to = next
        PROVE  /\ form' \in TypeNames /\ IsA(form', next)
               /\ \A g \in given' : g.form \in TypeNames /\ (g.conv.from = "*" \/ IsA(g.form, g.conv.from))
    <3> DEFINE f == IF converters[i].same THEN form ELSE converters[i].to
    <3>1. f \in TypeNames /\ IsA(f, next)
      BY <1>2, <2>1, PastConverter
    <3>2. Len(route) = 1 /\ DOMAIN route = {1} /\ route[1] = converters[i]
      BY <2>1
    <3>3. FormAt(route, 1) = form /\ FormAt(route, 2) = f
      BY <3>2 DEF FormAt
    <3> HIDE DEF f, route
    <3>4. form' = f
      BY <1>6, <3>2, <3>3
    <3>5. ASSUME NEW g \in given' PROVE g \in given \/ (g.conv = converters[i] /\ g.form = form)
      <4>1. g \in given \/ \E k \in called : g = [conv |-> route[k], form |-> FormAt(route, k)]
        BY <1>6
      <4> QED BY <3>2, <3>3, <4>1
    <3> QED BY <1>2, <2>1, <3>1, <3>4, <3>5 DEF GivenItsType
  <2>2. ASSUME NEW i \in DOMAIN converters, NEW j \in DOMAIN converters,
               route = <<converters[i], converters[j]>>, converters[i].from \in {current, "*"},
               converters[j].from = converters[i].to, converters[j].to = next
        PROVE  /\ form' \in TypeNames /\ IsA(form', next)
               /\ \A g \in given' : g.form \in TypeNames /\ (g.conv.from = "*" \/ IsA(g.form, g.conv.from))
    <3> DEFINE f == IF converters[i].same THEN form ELSE converters[i].to
               h == IF converters[j].same THEN f ELSE converters[j].to
    <3>1. f \in TypeNames /\ IsA(f, converters[i].to)
      BY <1>2, <2>2, PastConverter
    <3>2. h \in TypeNames /\ IsA(h, next)
      <4> HIDE DEF f
      <4> QED BY <1>2, <2>2, <3>1, PastConverter
    <3>3. Len(route) = 2 /\ DOMAIN route = {1, 2} /\ route[1] = converters[i] /\ route[2] = converters[j]
      BY <2>2
    <3>4. FormAt(route, 1) = form /\ FormAt(route, 2) = f /\ FormAt(route, 3) = h
      BY <3>3 DEF FormAt
    <3> HIDE DEF f, h, route
    <3>5. form' = h
      BY <1>6, <3>3, <3>4
    <3>6. ASSUME NEW g \in given'
          PROVE  \/ g \in given
                 \/ g.conv = converters[i] /\ g.form = form
                 \/ g.conv = converters[j] /\ g.form = f
      <4>1. g \in given \/ \E k \in called : g = [conv |-> route[k], form |-> FormAt(route, k)]
        BY <1>6
      <4> QED BY <3>3, <3>4, <4>1
    <3> QED BY <1>2, <2>2, <3>1, <3>2, <3>5, <3>6 DEF GivenItsType
  <2> HIDE DEF called
  <2>3. \/ \E i \in DOMAIN converters :
             /\ route = <<converters[i]>>
             /\ converters[i].from \in {current, "*"} /\ converters[i].to = next
        \/ \E i, j \in DOMAIN converters :
             /\ route = <<converters[i], converters[j]>>
             /\ converters[i].from \in {current, "*"}
             /\ converters[j].from = converters[i].to /\ converters[j].to = next
    BY <1>2, <1>6, RouteFacts
  <2> HIDE DEF route
  <2> QED BY <2>1, <2>2, <2>3
<1> HIDE DEF route, called
<1>7. \/ phase' = "parsererror" \/ (phase' = phase /\ form' \in TypeNames /\ IsA(form', next))
  BY <1>2, <1>5, <1>6
<1>8. /\ form' \in TypeNames
      /\ \A g \in given' : g.form \in TypeNames /\ (g.conv.from = "*" \/ IsA(g.form, g.conv.from))
  BY <1>2, <1>5, <1>6 DEF GivenItsType
<1>9. Tables' /\ Fresh' /\ EndOfChain' /\ Alone' /\ Inspections' /\ Search' /\ ScriptFirst'
  BY <1>1, <1>5 DEF TInv, Tables, Fresh, EndOfChain, Alone, Inspections, Search, ScriptFirst
<1>10. GivenItsType'
  BY <1>1, <1>8 DEF GivenItsType, IsA, ClosedUnder
<1>11. Shape'
  <2>1. phase' \in Phases
    BY <1>1, <1>5 DEF Phases
  <2> QED BY <1>1, <1>3, <1>4, <1>8, <2>1 DEF TInv, Shape
<1>12. Conversion'
  BY <1>1, <1>3, <1>4, <1>7 DEF Conversion, IsA, ClosedUnder
<1> QED BY <1>9, <1>10, <1>11, <1>12 DEF TInv

\* Success comes at the end of the chain.
LEMMA SucceedKeeps == ASSUME TypesAssumption, TInv, Succeed PROVE TInv'
<1>1. /\ phase = "convert" /\ place = Len(chain) /\ phase' = "success"
      /\ UNCHANGED <<prefilters, transports, registered, settings, chain, converters, inspections, inspected,
                     ran, selected, current, place, form, given>>
  BY DEF Succeed, tables
<1>2. Tables' /\ Fresh' /\ EndOfChain' /\ GivenItsType' /\ Conversion'
  BY <1>1 DEF TInv, Tables, Fresh, EndOfChain, Conversion, GivenItsType, IsA, ClosedUnder
<1>3. Shape'
  BY <1>1 DEF TInv, Shape, Phases
<1> QED BY <1>1, <1>2, <1>3 DEF TInv, Alone, Inspections, Search, ScriptFirst
-----------------------------------------------------------------------------
\* One step for each action.
LEMMA NextTInv == ASSUME TypesAssumption, TInv, [TypesNext]_typesVars PROVE TInv'
<1>1. CASE UNCHANGED typesVars
  <2>1. UNCHANGED <<prefilters, transports, registered, settings, chain, converters, phase, inspections,
                    inspected, ran, selected, current, place, form, given>>
    BY <1>1 DEF typesVars, tables
  <2>2. Tables' /\ Shape' /\ Fresh' /\ EndOfChain' /\ Alone'
    BY <2>1 DEF TInv, Tables, Shape, Fresh, EndOfChain, Alone
  <2>3. Inspections'
    <3>1. \A t, p : Run(t, p)' <=> Run(t, p)
      BY <2>1 DEF Run
    <3> QED BY <2>1, <3>1 DEF TInv, Inspections
  <2>4. Search'
    <3>1. Tried' = Tried /\ Candidates' = Candidates /\ Innermost' = Innermost
      BY <2>1 DEF Tried, Candidates, Innermost
    <3>2. FirstOf(Tried)' <=> FirstOf(Tried)
      <4> HIDE DEF Tried, Candidates
      <4> QED BY <2>1, <3>1 DEF FirstOf, Serves
    <3>3. FirstThatServes' <=> FirstThatServes
      BY <2>1 DEF FirstThatServes, Serves
    <3> HIDE DEF Tried, Innermost
    <3> QED BY <2>1, <3>1, <3>2, <3>3 DEF TInv, Search
  <2>5. ScriptFirst' /\ Conversion' /\ GivenItsType'
    BY <2>1 DEF TInv, ScriptFirst, Conversion, GivenItsType, IsA, ClosedUnder
  <2> QED BY <2>2, <2>3, <2>4, <2>5 DEF TInv
<1>2. ASSUME NEW x \in Expressions,
             \/ \E f \in Filters : AjaxPrefilter(x, f)
             \/ \E f \in Plugins : AjaxTransport(x, f)
      PROVE  TInv'
  BY <1>2, RegisterKeeps
<1>3. ASSUME NEW o \in Asked, Ask(o) PROVE TInv'
  BY <1>3, AskKeeps
<1>4. CASE RunPrefilter
  BY <1>4, RunPrefilterKeeps
<1>5. CASE TryTransport
  BY <1>5, TryTransportKeeps
<1>6. CASE ListEnds
  <2>1. phase = "prefilters" \/ phase = "transports"
    BY <1>6 DEF ListEnds
  <2> QED BY <1>6, <2>1, ListEndsKeeps, SearchListEndsKeeps
<1>7. CASE SearchTransports
  BY <1>7, GetTransportKeeps
<1>8. CASE Fails
  BY <1>8, FailsKeeps
<1>9. ASSUME NEW responses \in Responses, NEW ct \in ContentTypes, Respond(responses, ct) PROVE TInv'
  BY <1>9, AnswerKeeps
<1>10. CASE Convert
  BY <1>10, ConvertKeeps
<1>11. CASE Succeed
  BY <1>11, SucceedKeeps
<1> QED BY <1>1, <1>2, <1>3, <1>4, <1>5, <1>6, <1>7, <1>8, <1>9, <1>10, <1>11 DEF TypesNext

\* The four promises from the invariant: with no inspection left, all places of the inspected types
\* have run; the others it says directly.
LEMMA TInvServes == ASSUME TypesAssumption, TInv PROVE TypesServed
<1>1. PrefiltersOnce
  <2> SUFFICES ASSUME phase = "prefilters", inspections = <<>>
               PROVE  /\ \A i, j \in DOMAIN ran : ran[i] = ran[j] => i = j
                      /\ {settings.types[1], "*"} \subseteq inspected
                      /\ ToSet(ran) = UNION {{<<t, i>> : i \in DOMAIN prefilters[t]} : t \in inspected}
    BY DEF PrefiltersOnce
  <2>1. /\ \A i, j \in DOMAIN ran : ran[i] = ran[j] => i = j
        /\ {settings.types[1], "*"} \subseteq inspected
        /\ \A t \in TypeNames, p \in Nat : (\E i \in DOMAIN ran : ran[i] = <<t, p>>) <=> Run(t, p)
    BY DEF TInv, Inspections
  <2>2. \A t \in TypeNames, p \in Nat : Run(t, p) <=> t \in inspected /\ p \in DOMAIN prefilters[t]
    BY DEF Run
  <2>3. ran \in Seq(TypeNames \X Nat) /\ inspected \subseteq TypeNames
    BY DEF TInv, Shape
  <2>4. \A t \in TypeNames : DOMAIN prefilters[t] \subseteq Nat
    BY DEF TInv, Tables
  <2>5. ASSUME NEW e \in ToSet(ran)
        PROVE  e \in UNION {{<<t, i>> : i \in DOMAIN prefilters[t]} : t \in inspected}
    <3>1. PICK i \in DOMAIN ran : e = ran[i]
      BY DEF ToSet
    <3>2. PICK t \in TypeNames, p \in Nat : e = <<t, p>>
      BY <2>3, <3>1
    <3>3. t \in inspected /\ p \in DOMAIN prefilters[t]
      BY <2>1, <2>2, <3>1, <3>2
    <3> QED BY <3>2, <3>3
  <2>6. ASSUME NEW t \in inspected, NEW p \in DOMAIN prefilters[t] PROVE <<t, p>> \in ToSet(ran)
    <3>1. t \in TypeNames /\ p \in Nat
      BY <2>3, <2>4
    <3>2. PICK i \in DOMAIN ran : ran[i] = <<t, p>>
      BY <2>1, <2>2, <3>1
    <3> QED BY <3>2 DEF ToSet
  <2> QED BY <2>1, <2>5, <2>6
<1>2. FirstThatServes
  <2>1. ASSUME phase = "transports", inspections = <<>> PROVE FirstThatServes
    BY <2>1 DEF TInv, Search
  <2>2. ASSUME ~(phase = "transports" /\ inspections = <<>>) PROVE FirstThatServes
    BY <2>2 DEF FirstThatServes
  <2> QED BY <2>1, <2>2
<1>3. OfTheTypeAsked
  <2> SUFFICES ASSUME phase = "success", Last(settings.types) # "*"
               PROVE  \/ IsA(form, Last(settings.types))
                      \/ settings.types = <<"jsonp">> /\ IsA(form, "json")
    BY DEF OfTheTypeAsked
  <2>1. /\ chain \in Seq(TypeNames) /\ chain # <<>> /\ place = Len(chain)
        /\ chain[place] \in {current, "*"} /\ IsA(form, current) /\ current # "*"
    BY DEF TInv, Shape, EndOfChain, Conversion
  <2>2. Last(chain) = chain[place]
    BY <2>1 DEF Last
  <2>3. Last(chain) = Last(settings.types) \/ (settings.types = <<"jsonp">> /\ Last(chain) = "json")
    BY DEF TInv, EndOfChain
  <2>4. Last(chain) # "*"
    BY <2>3
  <2>5. IsA(form, Last(chain))
    BY <2>1, <2>2, <2>4
  <2> QED BY <2>3, <2>5
<1>4. GivenItsType
  BY DEF TInv
<1> QED BY <1>1, <1>2, <1>3, <1>4 DEF TypesServed

\* Every prefilter meant for a request runs once however others redirect it, the first
\* transport that serves is used, every converter is given its own type, and a success handler
\* gets the type that was asked for.
THEOREM TypesServedHolds == ASSUME TypesAssumption PROVE TypesSpec => []TypesServed
<1>1. TypesInit => TInv
  BY InitTInv
<1>2. TInv /\ [TypesNext]_typesVars => TInv'
  BY NextTInv
<1>3. TInv => TypesServed
  BY TInvServes
<1> QED BY <1>1, <1>2, <1>3, PTL DEF TypesSpec

\* Inspections that have begun are of different types, so there are no more than types.
LEMMA TInvTypeOK == ASSUME TypesAssumption, TInv PROVE TypesTypeOK
<1>1. /\ chain \in Seq(TypeNames) /\ place \in 0..Len(chain) /\ current \in TypeNames /\ form \in TypeNames \cup {NoType}
      /\ inspected \subseteq TypeNames /\ inspections \in Seq(InspectionType)
  BY DEF TInv, Shape
<1>2. ToSet(chain) \subseteq TypeNames
  BY <1>1 DEF ToSet
<1>3. IsFiniteSet(TypeNames) /\ Cardinality(TypeNames) \in Nat /\ Cardinality(TypeNames) # 0
  <2>1. IsFiniteSet(TypeNames) /\ "*" \in TypeNames
    BY DEF TypesAssumption
  <2> QED BY <2>1, FS_CardinalityType, FS_EmptySet
<1>4. CASE phase = "prefilters"
  <2> DEFINE of == [k \in 1..Len(inspections) |-> inspections[k].of]
  <2>1. Len(inspections) \in Nat /\ DOMAIN inspections = 1..Len(inspections) /\ \A k \in 1..Len(inspections) : inspections[k] \in InspectionType
    BY <1>1
  <2>2. of \in [1..Len(inspections) -> TypeNames]
    BY <2>1 DEF InspectionType
  <2>3. \A j, k \in 1..Len(inspections) : of[j] = of[k] => j = k
    BY <1>4, <2>1 DEF TInv, Inspections
  <2>4. IsFiniteSet(1..Len(inspections)) /\ Cardinality(1..Len(inspections)) = Len(inspections)
    <3>1. PICK l \in Nat : l = Len(inspections)
      BY <2>1
    <3>2. IsFiniteSet(1..l) /\ Cardinality(1..l) = IF 1 > l THEN 0 ELSE l - 1 + 1
      BY FS_Interval
    <3>3. Cardinality(1..l) = l
      BY <3>2
    <3> QED BY <3>1, <3>2, <3>3
  <2> HIDE DEF of
  <2>5. ~(Cardinality(TypeNames) < Cardinality(1..Len(inspections)))
    BY <1>3, <2>2, <2>3, <2>4, FS_PigeonHole
  <2>6. Len(inspections) <= Cardinality(TypeNames)
    <3>1. PICK l \in Nat, c \in Nat : l = Len(inspections) /\ c = Cardinality(TypeNames)
      BY <1>3, <2>1
    <3>2. ~(c < l)
      BY <2>4, <2>5, <3>1
    <3>3. l <= c
      BY <3>2
    <3> QED BY <3>1, <3>3
  <2> QED BY <1>1, <1>2, <2>6 DEF TypesTypeOK
<1>5. CASE phase # "prefilters"
  <2>1. Len(inspections) = 0 \/ Len(inspections) = 1
    BY <1>5 DEF TInv, Search, Fresh
  <2>2. Len(inspections) <= Cardinality(TypeNames)
    <3>1. PICK c \in Nat : c = Cardinality(TypeNames) /\ c # 0
      BY <1>3
    <3>2. 0 <= c /\ 1 <= c
      BY <3>1
    <3> QED BY <2>1, <3>1, <3>2
  <2> QED BY <1>1, <1>2, <2>2 DEF TypesTypeOK
<1> QED BY <1>4, <1>5

\* The chain keeps naming types, and inspections are never nested deeper than there are types.
THEOREM TypesTypeCorrect == ASSUME TypesAssumption PROVE TypesSpec => []TypesTypeOK
<1>1. TypesInit => TInv
  BY InitTInv
<1>2. TInv /\ [TypesNext]_typesVars => TInv'
  BY NextTInv
<1>3. TInv => TypesTypeOK
  BY TInvTypeOK
<1> QED BY <1>1, <1>2, <1>3, PTL DEF TypesSpec
-----------------------------------------------------------------------------
\* Handlers and what belongs to them.
BoundType ==
  [lists : [EventKeys -> Seq(HandleObj)], delegates : [EventKeys -> Int],
   listens : SUBSET EventKeys, attaches : [Captured -> Int]]

InFrontOf(list, count) ==
  count \in 0..Len(list) /\ \A i \in 1..Len(list) : i <= count <=> list[i].sel # NoName

Wanting(t, held) == {k \in EventKeys : k[2] = t /\ held[k] # <<>>}

Agrees(m) ==
  /\ m \in BoundType
  /\ \A k \in EventKeys : InFrontOf(m.lists[k], m.delegates[k])
  /\ \A k \in EventKeys : k[2] \notin Captured => (k \in m.listens <=> m.lists[k] # <<>>)
  /\ \A t \in Captured : m.attaches[t] = Cardinality(Wanting(t, m.lists))

\* An event on its way.
Way(e) == {Path[e][i] : i \in DOMAIN Path[e]}

Spaces == {k[3] : k \in Triggerable} \cup {NoName}

QueueItem == [on : Targets, b : HandleObj]

EventType ==
  [trigger : BOOLEAN, target : Targets, type : EventTypes, ns : Spaces, action : BOOLEAN,
   path : Seq(Targets), at : {"capture", "handle", "inline", "action"},
   queue : Seq(QueueItem), in : {"jQuery", "handler", "inline"},
   on : Targets, stopped : Nat, prevented : BOOLEAN, sends : Seq(EventKeys), old : BOOLEAN]

Whose(f)  == <<f.target, f.type>>

OnItsWay(f, n) ==
  /\ \A i \in DOMAIN f.queue : f.queue[i].on \in Way(f.target) /\ f.queue[i].b.id <= n
  /\ \A i \in DOMAIN f.path : f.path[i] \in Way(f.target)
  /\ f.on \in Way(f.target)

InStep(f) ==
  /\ f.queue # <<>> => f.at = "inline"
  /\ f.at = "inline" => f.path # <<>>
  /\ f.in = "handler" => f.at = "inline"
  /\ f.in = "inline" => f.at = "handle"

Stops(f) ==
  f.stopped # 0 =>
    /\ \A i \in DOMAIN f.queue : PlaceIn(f.target, f.queue[i].on) <= f.stopped
    /\ f.at = "handle" => f.path = <<>>
    /\ f.in = "handler" => PlaceOf(f) <= f.stopped
    /\ f.at # "capture"

Acts(f) == Acting(f) => f.in = "jQuery" /\ f.trigger

FrameOK(f, n) == f \in EventType /\ OnItsWay(f, n) /\ InStep(f) /\ Stops(f) /\ Acts(f)

\* The events on the stack: st, with triggered, reset and the calls made.
SentFrames(st) ==
  \A i \in 2..Len(st) :
    ~st[i].trigger => Acting(st[i - 1])

LastActs(st, tr) ==
  \A i \in 1..Len(st) :
    Acting(st[i]) /\ (\A j \in (i + 1)..Len(st) : ~Acting(st[j])) => tr = st[i].type

Again(st, i, j) ==
  /\ Acting(st[i]) /\ ~st[j].trigger /\ Whose(st[j]) = Whose(st[i]) /\ st[j].queue # <<>>
  /\ \A m \in (i + 1)..(j - 1) : Acting(st[m]) => st[m].type = st[i].type

Stacked(st, tr, rs, n) ==
  /\ st \in Seq(EventType)
  /\ \A i \in 1..Len(st) : FrameOK(st[i], n)
  /\ SentFrames(st)
  /\ ~rs => LastActs(st, tr)
  /\ ~rs => \A j \in 1..Len(st) : \A i \in 1..(j - 1) : ~Again(st, i, j)

Ids ==
  /\ \A k \in EventKeys : \A i \in 1..Len(lists[k]) : lists[k][i].id \in 1..eventCalls
  /\ \A s \in spent : s[1].id <= eventCalls
  /\ spent \subseteq HandleObj \X EventKeys

EventsInv ==
  /\ Agrees(AllBound) /\ Ids /\ OneIsSpent
  /\ cleaned \subseteq Targets /\ muted \subseteq Inline
  /\ triggered \in EventTypes \cup {NoName} /\ eventCalls \in 0..EventCalls
  /\ Stacked(stack, triggered, reset, eventCalls)
-----------------------------------------------------------------------------
\* Induction: a set of numbers that has 0 and with each its successor has all of them.
LEMMA Least ==
  ASSUME NEW S, S \subseteq Nat, S # {}
  PROVE  \E i \in S : \A j \in S : i <= j
<1>1. PICK i \in S : \A j \in S : ~(<<j, i>> \in OpToRel(<, Nat))
  BY NatLessThanWellFounded, WFMin
<1>2. ASSUME NEW j \in S PROVE i <= j
  <2>1. ~(j < i)
    BY <1>1 DEF OpToRel
  <2> QED BY <2>1
<1> QED BY <1>2

LEMMA Climb ==
  ASSUME NEW S, S \subseteq Nat, 0 \in S, \A k \in S : k + 1 \in S
  PROVE  S = Nat
<1> SUFFICES ASSUME Nat \ S # {} PROVE FALSE
  OBVIOUS
<1>1. PICK m \in Nat \ S : \A k \in Nat \ S : m <= k
  BY Least, Nat \ S \subseteq Nat
<1>2. m # 0 /\ m - 1 \in Nat
  OBVIOUS
<1>3. m - 1 \in S
  BY <1>1, <1>2
<1>4. (m - 1) + 1 \in S
  BY <1>3
<1> QED BY <1>1, <1>4

\* What FlattenSeq joins has only members of the parts.
LEMMA FlattenIn ==
  ASSUME NEW M, NEW ss \in Seq(Seq(M))
  PROVE  FlattenSeq(ss) \in Seq(M)
<1> DEFINE N == Len(ss)
           Recurs(g, k) == g = [i \in 1..k |-> IF i = 1 THEN ss[i] ELSE g[i - 1] \o ss[i]]
           S == {k \in Nat : \E g : Recurs(g, k)}
<1>1. 0 \in S
  <2> DEFINE g == [i \in 1..0 |-> ss[i]]
  <2>1. Recurs(g, 0)
    OBVIOUS
  <2> HIDE DEF g, Recurs
  <2> QED BY <2>1
<1>2. ASSUME NEW k \in S PROVE k + 1 \in S
  <2>1. PICK g : Recurs(g, k)
    OBVIOUS
  <2> DEFINE next == IF k = 0 THEN ss[1] ELSE g[k] \o ss[k + 1]
             h == [i \in 1..(k + 1) |-> IF i = k + 1 THEN next ELSE g[i]]
  <2>2. \A i \in 1..k : g[i] = IF i = 1 THEN ss[i] ELSE g[i - 1] \o ss[i]
    BY <2>1
  <2>3. \A i \in 1..(k + 1) : h[i] = IF i = 1 THEN ss[i] ELSE h[i - 1] \o ss[i]
    <3> SUFFICES ASSUME NEW i \in 1..(k + 1)
                 PROVE  h[i] = IF i = 1 THEN ss[i] ELSE h[i - 1] \o ss[i]
      OBVIOUS
    <3>1. CASE i = k + 1
      BY <3>1
    <3>2. CASE i # k + 1
      BY <2>2, <3>2
    <3> QED BY <3>1, <3>2
  <2>4. Recurs(h, k + 1)
    BY <2>3
  <2> HIDE DEF h, Recurs
  <2> QED BY <2>4
<1>3. N \in S
  <2>1. S \subseteq Nat
    OBVIOUS
  <2> HIDE DEF S
  <2>2. S = Nat
    BY <1>1, <1>2, <2>1, Climb
  <2>3. N \in Nat
    OBVIOUS
  <2> QED BY <2>2, <2>3
<1>4. \E g : Recurs(g, N)
  BY <1>3
<1> DEFINE f == CHOOSE g : Recurs(g, N)
<1>5. Recurs(f, N)
  <2> HIDE DEF Recurs
  <2> QED BY <1>4
<1>6. FlattenSeq(ss) = IF N = 0 THEN ss ELSE f[N]
  BY DEF FlattenSeq
<1> HIDE DEF f
<1>7. \A i \in 1..N : f[i] = IF i = 1 THEN ss[i] ELSE f[i - 1] \o ss[i]
  BY <1>5
<1>8. \A i \in 1..N : ss[i] \in Seq(M)
  OBVIOUS
<1> HIDE DEF S, Recurs
<1> DEFINE T == {k \in Nat : k \in 1..N => f[k] \in Seq(M)}
<1>9. T \subseteq Nat /\ 0 \in T
  OBVIOUS
<1>10. ASSUME NEW k \in T PROVE k + 1 \in T
  <2> SUFFICES ASSUME k + 1 \in 1..N PROVE f[k + 1] \in Seq(M)
    OBVIOUS
  <2>1. CASE k = 0
    BY <1>7, <1>8, <2>1
  <2>2. CASE k # 0
    <3>1. k \in 1..N /\ k + 1 # 1 /\ k + 1 - 1 = k
      BY <2>2
    <3>2. f[k] \in Seq(M) /\ ss[k + 1] \in Seq(M)
      BY <3>1, <1>8
    <3>3. f[k + 1] = f[k] \o ss[k + 1]
      <4>1. f[k + 1] = IF k + 1 = 1 THEN ss[k + 1] ELSE f[k + 1 - 1] \o ss[k + 1]
        BY <1>7
      <4> QED BY <4>1, <3>1
    <3> QED BY <3>2, <3>3
  <2> QED BY <2>1, <2>2
<1>11. T = Nat
  <2> HIDE DEF T
  <2> QED BY <1>9, <1>10, Climb
<1>12. N \in Nat
  OBVIOUS
<1>13. N # 0 => f[N] \in Seq(M)
  BY <1>11, <1>12
<1>14. N = 0 => ss = <<>>
  OBVIOUS
<1> QED BY <1>6, <1>13, <1>14

\* Members of a sequence that have a property make a sequence of such members.
LEMMA ThoseOf ==
  ASSUME NEW M, NEW s \in Seq(M), NEW places, NEW K,
         \A i \in DOMAIN s : i \in places => s[i] \in K
  PROVE  Those(s, places) \in Seq(K)
<1> DEFINE parts == [i \in DOMAIN s |-> IF i \in places THEN <<s[i]>> ELSE <<>>]
<1>1. parts \in Seq(Seq(K))
  <2>1. Len(s) \in Nat /\ DOMAIN s = 1..Len(s)
    OBVIOUS
  <2>2. \A i \in 1..Len(s) : parts[i] \in Seq(K)
    OBVIOUS
  <2>3. parts = [i \in 1..Len(s) |-> parts[i]]
    BY <2>1
  <2> HIDE DEF parts
  <2> QED BY <2>1, <2>2, <2>3
<1>2. FlattenSeq(parts) \in Seq(K)
  BY <1>1, FlattenIn
<1> QED BY <1>2 DEF Those

\* remove goes through a list from its front.
PastOne(c, b, m) ==
  IF ~MeantBy(c, b) THEN [m EXCEPT !.list = Append(@, b)]
  ELSE IF b.sel # NoName THEN [m EXCEPT !.count = @ - 1]
  ELSE m

LEMMA StayingIs ==
  ASSUME NEW list \in Seq(HandleObj), NEW count, NEW c
  PROVE  /\ Staying(list, count, c)[0] = [list |-> <<>>, count |-> count]
         /\ \A i \in 1..Len(list) :
              Staying(list, count, c)[i] = PastOne(c, list[i], Staying(list, count, c)[i - 1])
<1> DEFINE N == Len(list)
           start == [list |-> <<>>, count |-> count]
           Then(m, i) == PastOne(c, list[i], m)
           Recurs(g, k) == g = [i \in 0..k |-> IF i = 0 THEN start ELSE Then(g[i - 1], i)]
           S == {k \in Nat : \E g : Recurs(g, k)}
<1>1. Staying(list, count, c) = CHOOSE g : Recurs(g, N)
  BY DEF Staying, PastOne
<1> HIDE DEF Then, start
<1>2. 0 \in S
  <2> DEFINE g == [i \in 0..0 |-> start]
  <2>1. Recurs(g, 0)
    OBVIOUS
  <2> HIDE DEF g, Recurs
  <2> QED BY <2>1
<1>3. ASSUME NEW k \in S PROVE k + 1 \in S
  <2>1. PICK g : Recurs(g, k)
    OBVIOUS
  <2> DEFINE h == [i \in 0..(k + 1) |-> IF i = k + 1 THEN Then(g[k], k + 1) ELSE g[i]]
  <2>2. \A i \in 0..k : g[i] = IF i = 0 THEN start ELSE Then(g[i - 1], i)
    BY <2>1
  <2>3. \A i \in 0..(k + 1) : h[i] = IF i = 0 THEN start ELSE Then(h[i - 1], i)
    <3> SUFFICES ASSUME NEW i \in 0..(k + 1)
                 PROVE  h[i] = IF i = 0 THEN start ELSE Then(h[i - 1], i)
      OBVIOUS
    <3>1. CASE i = k + 1
      BY <3>1
    <3>2. CASE i # k + 1
      BY <2>2, <3>2
    <3> QED BY <3>1, <3>2
  <2>4. Recurs(h, k + 1)
    BY <2>3
  <2> HIDE DEF h, Recurs
  <2> QED BY <2>4
<1>4. N \in S
  <2>1. S \subseteq Nat
    OBVIOUS
  <2> HIDE DEF S
  <2>2. S = Nat
    BY <1>2, <1>3, <2>1, Climb
  <2> QED BY <2>2
<1>5. \E g : Recurs(g, N)
  BY <1>4
<1> DEFINE f == CHOOSE g : Recurs(g, N)
<1>6. Recurs(f, N)
  <2> HIDE DEF Recurs
  <2> QED BY <1>5
<1> HIDE DEF f
<1>7. f[0] = start /\ \A i \in 1..N : f[i] = Then(f[i - 1], i)
  BY <1>6
<1>8. Staying(list, count, c) = f
  BY <1>1 DEF f
<1> HIDE DEF Recurs, S
<1> QED BY <1>7, <1>8 DEF Then, start

\* Of a list with its delegates in front remains one with its delegates in front, made of
\* handlers that are not meant, and delegateCount has kept count of them.
Remains(list, count, c, i, left) ==
  /\ left \in [list : Seq(HandleObj), count : Int] /\ Len(left.list) <= i
  /\ \A j \in 1..Len(left.list) :
       ~MeantBy(c, left.list[j]) /\ \E n \in 1..Len(list) : left.list[j] = list[n]
  /\ i <= count =>
       /\ left.count = count - i + Len(left.list)
       /\ \A j \in 1..Len(left.list) : left.list[j].sel # NoName
  /\ i >= count => InFrontOf(left.list, left.count)

LEMMA RemainsNext ==
  ASSUME NEW list \in Seq(HandleObj), NEW count, InFrontOf(list, count), NEW c,
         NEW k \in Nat, k + 1 <= Len(list), NEW m, Remains(list, count, c, k, m),
         NEW left, left = PastOne(c, list[k + 1], m)
  PROVE  Remains(list, count, c, k + 1, left)
<1> DEFINE b == list[k + 1]
           l == m.list
           n == m.count
<1>1. /\ b \in HandleObj /\ count \in 0..Len(list) /\ Len(list) \in Nat
      /\ k + 1 <= count <=> b.sel # NoName
  BY DEF InFrontOf
<1>2. /\ m \in [list : Seq(HandleObj), count : Int] /\ l \in Seq(HandleObj) /\ n \in Int
      /\ Len(l) \in Nat /\ Len(l) <= k
      /\ \A j \in 1..Len(l) : ~MeantBy(c, l[j]) /\ \E i \in 1..Len(list) : l[j] = list[i]
  BY DEF Remains
<1>3. k <= count => n = count - k + Len(l) /\ \A j \in 1..Len(l) : l[j].sel # NoName
  BY DEF Remains
<1>4. k >= count => n \in 0..Len(l) /\ \A j \in 1..Len(l) : j <= n <=> l[j].sel # NoName
  BY DEF Remains, InFrontOf
<1>5. CASE ~MeantBy(c, b)
  <2> DEFINE l2 == Append(l, b)
  <2>1. left = [m EXCEPT !.list = l2]
    BY <1>5 DEF PastOne
  <2>2. /\ l2 \in Seq(HandleObj) /\ Len(l2) = Len(l) + 1 /\ l2[Len(l) + 1] = b
        /\ \A j \in 1..Len(l) : l2[j] = l[j]
    BY <1>1, <1>2
  <2> HIDE DEF l2
  <2>3. left \in [list : Seq(HandleObj), count : Int] /\ left.list = l2 /\ left.count = n
    BY <1>2, <2>1, <2>2
  <2> HIDE DEF b, l, n
  <2>4. \A j \in 1..Len(l2) : j \in 1..Len(l) \/ j = Len(l) + 1
    BY <1>2, <2>2
  <2>5. \A j \in 1..Len(l2) : ~MeantBy(c, l2[j]) /\ \E i \in 1..Len(list) : l2[j] = list[i]
    <3>1. ~MeantBy(c, b) /\ \E i \in 1..Len(list) : b = list[i]
      BY <1>1, <1>5 DEF b
    <3> QED BY <1>2, <2>2, <2>4, <3>1
  <2>6. k + 1 <= count =>
          n = count - (k + 1) + Len(l2) /\ \A j \in 1..Len(l2) : l2[j].sel # NoName
    <3> SUFFICES ASSUME k + 1 <= count
                 PROVE  n = count - (k + 1) + Len(l2) /\ \A j \in 1..Len(l2) : l2[j].sel # NoName
      OBVIOUS
    <3>1. n = count - k + Len(l) /\ \A j \in 1..Len(l) : l[j].sel # NoName
      BY <1>1, <1>3
    <3>2. n = count - (k + 1) + Len(l2)
      BY <1>1, <1>2, <2>2, <3>1
    <3> QED BY <1>1, <2>2, <2>4, <3>1, <3>2
  <2>7. k + 1 >= count => InFrontOf(l2, n)
    <3> SUFFICES ASSUME k + 1 >= count PROVE InFrontOf(l2, n)
      OBVIOUS
    <3>1. CASE k + 1 = count
      <4>1. n = Len(l2) /\ \A j \in 1..Len(l2) : l2[j].sel # NoName
        BY <1>1, <1>2, <2>2, <2>6, <3>1
      <4> QED BY <4>1, <1>2, <2>2 DEF InFrontOf
    <3>2. CASE k >= count
      <4>1. n \in 0..Len(l) /\ \A j \in 1..Len(l) : j <= n <=> l[j].sel # NoName
        BY <1>4, <3>2
      <4>2. b.sel = NoName
        BY <1>1, <3>2
      <4>3. n \in 0..Len(l2) /\ ~(Len(l) + 1 <= n)
        BY <4>1, <1>2, <2>2
      <4> QED BY <4>1, <4>2, <4>3, <2>2, <2>4 DEF InFrontOf
    <3> QED BY <1>1, <3>1, <3>2
  <2>8. Len(l2) <= k + 1
    BY <1>2, <2>2
  <2> QED BY <2>3, <2>5, <2>6, <2>7, <2>8 DEF Remains
<1>6. CASE MeantBy(c, b) /\ b.sel # NoName
  <2>1. left = [m EXCEPT !.count = n - 1]
    BY <1>6 DEF PastOne
  <2>2. left \in [list : Seq(HandleObj), count : Int] /\ left.list = l /\ left.count = n - 1
    BY <1>2, <2>1
  <2> HIDE DEF b, l, n
  <2>3. n = count - k + Len(l) /\ \A j \in 1..Len(l) : l[j].sel # NoName
    BY <1>1, <1>3, <1>6
  <2>4. n - 1 = count - (k + 1) + Len(l) /\ Len(l) <= k + 1
    BY <2>3, <1>1, <1>2
  <2>5. k + 1 >= count => InFrontOf(l, n - 1)
    <3> SUFFICES ASSUME k + 1 >= count PROVE InFrontOf(l, n - 1)
      OBVIOUS
    <3>1. n - 1 = Len(l)
      BY <2>4, <1>1, <1>2, <1>6
    <3>2. Len(l) \in Nat /\ n - 1 \in 0..Len(l)
      BY <1>2, <3>1
    <3>3. \A j \in 1..Len(l) : j <= n - 1 /\ l[j].sel # NoName
      BY <2>3, <3>1, <3>2
    <3> QED BY <3>2, <3>3 DEF InFrontOf
  <2> QED BY <1>2, <2>2, <2>3, <2>4, <2>5 DEF Remains
<1>7. CASE MeantBy(c, b) /\ b.sel = NoName
  <2>1. left = m
    BY <1>7 DEF PastOne
  <2> HIDE DEF b
  <2>2. k >= count
    BY <1>1, <1>7
  <2>3. ~(k + 1 <= count) /\ Len(l) <= k + 1
    BY <2>2, <1>1, <1>2
  <2>4. InFrontOf(l, n)
    BY <1>4, <2>2 DEF InFrontOf
  <2> QED BY <1>2, <2>1, <2>3, <2>4 DEF Remains
<1> QED BY <1>5, <1>6, <1>7

LEMMA StayingRemains ==
  ASSUME NEW list \in Seq(HandleObj), NEW count, InFrontOf(list, count), NEW c
  PROVE  LET left == Staying(list, count, c)[Len(list)]
         IN  /\ left \in [list : Seq(HandleObj), count : Int] /\ InFrontOf(left.list, left.count)
             /\ \A j \in 1..Len(left.list) :
                  ~MeantBy(c, left.list[j]) /\ \E n \in 1..Len(list) : left.list[j] = list[n]
<1> DEFINE N == Len(list)
           f == Staying(list, count, c)
<1>1. /\ f[0] = [list |-> <<>>, count |-> count]
      /\ \A i \in 1..N : f[i] = PastOne(c, list[i], f[i - 1])
  BY StayingIs
<1> HIDE DEF f
<1>2. N \in Nat /\ count \in 0..N
  BY DEF InFrontOf
<1> DEFINE S == {k \in Nat : k <= N => Remains(list, count, c, k, f[k])}
<1>3. 0 \in S
  <2> DEFINE e == [list |-> <<>>, count |-> count]
  <2>1. /\ e \in [list : Seq(HandleObj), count : Int] /\ e.list = <<>> /\ e.count = count
        /\ Len(e.list) = 0
    BY <1>2
  <2> HIDE DEF e
  <2>2. 0 >= count => InFrontOf(e.list, e.count)
    BY <1>2, <2>1 DEF InFrontOf
  <2>3. Remains(list, count, c, 0, e)
    BY <1>2, <2>1, <2>2 DEF Remains
  <2> QED BY <1>1, <2>3 DEF e
<1>4. ASSUME NEW k \in S PROVE k + 1 \in S
  <2> SUFFICES ASSUME k + 1 <= N PROVE Remains(list, count, c, k + 1, f[k + 1])
    OBVIOUS
  <2>1. k \in Nat /\ k + 1 \in 1..N /\ k + 1 - 1 = k
    OBVIOUS
  <2>2. Remains(list, count, c, k, f[k])
    BY <1>2
  <2>3. f[k + 1] = PastOne(c, list[k + 1], f[k])
    <3>1. f[k + 1] = PastOne(c, list[k + 1], f[k + 1 - 1])
      BY <1>1, <2>1
    <3> QED BY <2>1, <3>1
  <2> QED BY <2>1, <2>2, <2>3, RemainsNext
<1>5. N \in S
  <2>1. S \subseteq Nat
    OBVIOUS
  <2> HIDE DEF S
  <2>2. S = Nat
    BY <1>3, <1>4, <2>1, Climb
  <2> QED BY <1>2, <2>2
<1>6. Remains(list, count, c, N, f[N])
  BY <1>5, <1>2
<1> QED BY <1>2, <1>6 DEF Remains, f
-----------------------------------------------------------------------------
LEMMA KeysFinite ==
  ASSUME EventsAssumption, NEW t, NEW held
  PROVE  IsFiniteSet(Wanting(t, held)) /\ Cardinality(Wanting(t, held)) \in Nat
<1>1. IsFiniteSet(EventKeys)
  BY FS_Product DEF EventsAssumption, EventKeys
<1>2. Wanting(t, held) \subseteq EventKeys
  BY DEF Wanting
<1> QED BY <1>1, <1>2, FS_Subset, FS_CardinalityType

LEMMA KeyOfIn ==
  ASSUME EventsAssumption, NEW b, b.at \in Targets, b.type \in EventTypes
  PROVE  KeyOf(b) \in EventKeys
<1>1. DelegateType(b.type) \in EventTypes
  BY DEF EventsAssumption
<1> QED BY <1>1 DEF KeyOf, EventKeys

\* A handler that is added: among the delegates as the last of them, or at the end.
Placed(list, count, b) ==
  IF b.sel = NoName THEN Append(list, b) ELSE InsertAt(list, count + 1, b)
Counted(count, b) == IF b.sel = NoName THEN count ELSE count + 1

LEMMA InsertAtIs ==
  ASSUME NEW s, NEW i, NEW n, n = i - 1, NEW x
  PROVE  InsertAt(s, i, x) = SubSeq(s, 1, n) \o <<x>> \o SubSeq(s, i, Len(s))
BY DEF InsertAt

LEMMA PlacedInFront ==
  ASSUME NEW list \in Seq(HandleObj), NEW count, InFrontOf(list, count), NEW b \in HandleObj
  PROVE  /\ Placed(list, count, b) \in Seq(HandleObj) /\ Placed(list, count, b) # <<>>
         /\ InFrontOf(Placed(list, count, b), Counted(count, b))
         /\ \A j \in 1..Len(Placed(list, count, b)) :
              \/ Placed(list, count, b)[j] = b
              \/ \E n \in 1..Len(list) : Placed(list, count, b)[j] = list[n]
<1> DEFINE N == Len(list)
           new == Placed(list, count, b)
<1>1. N \in Nat /\ count \in 0..N /\ \A i \in 1..N : i <= count <=> list[i].sel # NoName
  BY DEF InFrontOf
<1>2. CASE b.sel = NoName
  <2>1. /\ new \in Seq(HandleObj) /\ Len(new) = N + 1 /\ new[N + 1] = b
        /\ \A j \in 1..N : new[j] = list[j]
    BY <1>2 DEF Placed
  <2>2. \A j \in 1..Len(new) : j \in 1..N \/ j = N + 1
    BY <2>1, <1>1
  <2> HIDE DEF new, N
  <2>3. count \in 0..Len(new) /\ ~(N + 1 <= count) /\ Len(new) # 0
    BY <2>1, <1>1
  <2>4. InFrontOf(new, count)
    BY <2>1, <2>2, <2>3, <1>1, <1>2 DEF InFrontOf
  <2>5. new # <<>>
    BY <2>3
  <2>6. \A j \in 1..Len(new) : new[j] = b \/ \E n \in 1..N : new[j] = list[n]
    BY <2>1, <2>2
  <2>7. Counted(count, b) = count
    BY <1>2 DEF Counted
  <2> QED BY <2>1, <2>4, <2>5, <2>6, <2>7 DEF new, N
<1>3. CASE b.sel # NoName
  <2>0. new = SubSeq(list, 1, count) \o <<b>> \o SubSeq(list, count + 1, N)
    <3> DEFINE at == count + 1
    <3>1. new = InsertAt(list, at, b)
      BY <1>3 DEF Placed
    <3>2. count = at - 1
      BY <1>1
    <3> HIDE DEF new, at
    <3>3. new = SubSeq(list, 1, count) \o <<b>> \o SubSeq(list, at, Len(list))
      BY <3>1, <3>2, InsertAtIs, Zenon
    <3> QED BY <3>3, Zenon DEF at
  <2> DEFINE x == SubSeq(list, 1, count)
             y == SubSeq(list, count + 1, N)
  <2>a. x \in Seq(HandleObj) /\ Len(x) = count /\ \A j \in 1..count : x[j] = list[j]
    BY <1>1
  <2>b. /\ y \in Seq(HandleObj) /\ Len(y) = N - count
        /\ \A j \in 1..(N - count) : y[j] = list[count + j]
    BY <1>1
  <2>c. <<b>> \in Seq(HandleObj) /\ Len(<<b>>) = 1 /\ <<b>>[1] = b
    OBVIOUS
  <2> HIDE DEF x, y, N, new
  <2> DEFINE z == x \o <<b>>
  <2>d. /\ z \in Seq(HandleObj) /\ Len(z) = count + 1 /\ z[count + 1] = b
        /\ \A j \in 1..count : z[j] = list[j]
    BY <1>1, <2>a, <2>c
  <2>e. new = z \o y
    BY <2>0 DEF x, y
  <2> HIDE DEF z
  <2>1. new \in Seq(HandleObj) /\ Len(new) = N + 1
    <3>1. new \in Seq(HandleObj) /\ Len(new) = Len(z) + Len(y)
      BY <2>b, <2>d, <2>e, ConcatProperties
    <3>2. Len(z) + Len(y) = N + 1
      BY <2>b, <2>d, <1>1
    <3> QED BY <3>1, <3>2
  <2>2. \A j \in 1..(N + 1) : new[j] = IF j <= count + 1 THEN z[j] ELSE y[j - (count + 1)]
    BY <2>b, <2>d, <2>e, <1>1
  <2>3. \A j \in 1..count : new[j] = list[j]
    BY <2>2, <2>d, <1>1
  <2>4. new[count + 1] = b
    BY <2>2, <2>d, <1>1
  <2>5. \A j \in 1..(N + 1) : j > count + 1 => j - 1 \in 1..N /\ new[j] = list[j - 1]
    <3> SUFFICES ASSUME NEW j \in 1..(N + 1), j > count + 1
                 PROVE  j - 1 \in 1..N /\ new[j] = list[j - 1]
      OBVIOUS
    <3>1. /\ j - (count + 1) \in 1..(N - count) /\ count + (j - (count + 1)) = j - 1
          /\ ~(j <= count + 1) /\ j - 1 \in 1..N
      BY <1>1
    <3>2. new[j] = y[j - (count + 1)]
      BY <2>2, <3>1
    <3>3. y[j - (count + 1)] = list[count + (j - (count + 1))]
      BY <2>b, <3>1
    <3> QED BY <3>1, <3>2, <3>3
  <2>6. count + 1 \in 0..Len(new) /\ Len(new) # 0
    BY <2>1, <1>1
  <2>7. \A j \in 1..Len(new) : j \in 1..count \/ j = count + 1 \/ j > count + 1
    BY <1>1, <2>1
  <2>8. \A j \in 1..Len(new) : j <= count + 1 <=> new[j].sel # NoName
    <3> SUFFICES ASSUME NEW j \in 1..Len(new) PROVE j <= count + 1 <=> new[j].sel # NoName
      OBVIOUS
    <3>1. CASE j \in 1..count
      BY <3>1, <2>3, <1>1
    <3>2. CASE j = count + 1
      BY <3>2, <2>4, <1>1, <1>3
    <3>3. CASE j > count + 1
      <4>1. j - 1 \in 1..N /\ new[j] = list[j - 1] /\ ~(j - 1 <= count) /\ ~(j <= count + 1)
        BY <3>3, <2>1, <2>5, <1>1
      <4> QED BY <4>1, <1>1
    <3> QED BY <2>7, <3>1, <3>2, <3>3
  <2>9. \A j \in 1..Len(new) : new[j] = b \/ \E n \in 1..N : new[j] = list[n]
    <3> SUFFICES ASSUME NEW j \in 1..Len(new), new[j] # b
                 PROVE  \E n \in 1..N : new[j] = list[n]
      OBVIOUS
    <3>1. CASE j \in 1..count
      BY <3>1, <2>3, <1>1
    <3>2. CASE j > count + 1
      BY <3>2, <2>1, <2>5
    <3> QED BY <2>7, <2>4, <3>1, <3>2
  <2>10. new # <<>>
    BY <2>6
  <2>11. InFrontOf(new, count + 1)
    BY <2>6, <2>8 DEF InFrontOf
  <2>12. Counted(count, b) = count + 1
    BY <1>3 DEF Counted
  <2> QED BY <2>1, <2>9, <2>10, <2>11, <2>12 DEF new, N
<1> QED BY <1>2, <1>3

\* The handlers of r are b and those of m.
Gains(m, b, r) ==
  \A k \in EventKeys : \A i \in 1..Len(r.lists[k]) :
    r.lists[k][i] = b \/ \E n \in 1..Len(m.lists[k]) : r.lists[k][i] = m.lists[k][n]

\* What is bound agrees after another handler was added, which is the only new one.
LEMMA AddKeeps ==
  ASSUME EventsAssumption, NEW m, Agrees(m), NEW b \in HandleObj
  PROVE  Agrees(AddHandler(m, b)) /\ Gains(m, b, AddHandler(m, b))
<1> DEFINE k == KeyOf(b)
           l == m.lists[k]
           d == m.delegates[k]
           d2 == Counted(d, b)
           l2 == Placed(l, d, b)
           m1 == IF l = <<>> THEN Setup(m, k) ELSE m
           r == AddHandler(m, b)
<1>1. k \in EventKeys
  BY KeyOfIn DEF HandleObj
<1>2. /\ m \in BoundType /\ m.lists \in [EventKeys -> Seq(HandleObj)]
      /\ m.delegates \in [EventKeys -> Int] /\ m.listens \subseteq EventKeys /\ m.attaches \in [Captured -> Int]
      /\ \A x \in EventKeys : InFrontOf(m.lists[x], m.delegates[x])
      /\ \A x \in EventKeys : x[2] \notin Captured => (x \in m.listens <=> m.lists[x] # <<>>)
      /\ \A t \in Captured : m.attaches[t] = Cardinality(Wanting(t, m.lists))
  BY DEF Agrees, BoundType
<1>3. l \in Seq(HandleObj) /\ InFrontOf(l, d) /\ d \in Int
  BY <1>1, <1>2
<1> HIDE DEF l, d
<1>4. /\ l2 \in Seq(HandleObj) /\ l2 # <<>> /\ InFrontOf(l2, d2)
      /\ \A j \in 1..Len(l2) : l2[j] = b \/ \E n \in 1..Len(l) : l2[j] = l[n]
  BY <1>3, PlacedInFront
<1>5. d2 \in Int
  BY <1>3 DEF Counted
<1> DEFINE grows == l = <<>> /\ k[2] \in Captured
           heard == l = <<>> /\ k[2] \notin Captured
<1>6. /\ m1 \in BoundType /\ m1.lists = m.lists /\ m1.delegates = m.delegates
      /\ m1.listens = IF heard THEN m.listens \cup {k} ELSE m.listens
      /\ m1.attaches = IF grows THEN [m.attaches EXCEPT ![k[2]] = @ + 1] ELSE m.attaches
  <2> HIDE DEF k
  <2>1. CASE l # <<>>
    BY <2>1, <1>2
  <2>2. CASE grows
    <3>1. m1 = [m EXCEPT !.attaches = [m.attaches EXCEPT ![k[2]] = @ + 1]]
      BY <2>2, <1>2 DEF Setup, BoundType
    <3>2. [m.attaches EXCEPT ![k[2]] = @ + 1] \in [Captured -> Int]
      BY <2>2, <1>2
    <3> QED BY <3>1, <3>2, <2>2, <1>2 DEF BoundType
  <2>3. CASE heard
    <3>1. m1 = [m EXCEPT !.listens = m.listens \cup {k}]
      BY <2>3 DEF Setup
    <3> QED BY <3>1, <2>3, <1>1, <1>2 DEF BoundType
  <2> QED BY <2>1, <2>2, <2>3
<1>7. /\ r \in BoundType /\ r.lists = [m.lists EXCEPT ![k] = l2]
      /\ r.delegates = [m.delegates EXCEPT ![k] = d2]
      /\ r.listens = m1.listens /\ r.attaches = m1.attaches
  <2>1. r = IF b.sel = NoName THEN [m1 EXCEPT !.lists[k] = Append(@, b)]
            ELSE [m1 EXCEPT !.lists[k] = InsertAt(@, m.delegates[k] + 1, b), !.delegates[k] = @ + 1]
    BY DEF AddHandler, l
  <2> HIDE DEF k, m1, r
  <2>2. CASE b.sel = NoName
    <3>1. r = [m1 EXCEPT !.lists = [m.lists EXCEPT ![k] = l2]]
      <4>1. l2 = Append(m.lists[k], b)
        BY <2>2 DEF Placed, l
      <4> QED BY <2>1, <2>2, <1>6, <4>1 DEF BoundType
    <3>2. [m.delegates EXCEPT ![k] = d2] = m.delegates
      BY <2>2, <1>1, <1>2 DEF d, Counted
    <3>3. [m.lists EXCEPT ![k] = l2] \in [EventKeys -> Seq(HandleObj)]
      BY <1>1, <1>2, <1>4
    <3> HIDE DEF l2, d2
    <3> QED BY <3>1, <3>2, <3>3, <1>6 DEF BoundType
  <2>3. CASE b.sel # NoName
    <3>1. r = [m1 EXCEPT !.lists = [m.lists EXCEPT ![k] = l2], !.delegates = [m.delegates EXCEPT ![k] = d2]]
      <4>1. l2 = InsertAt(m.lists[k], m.delegates[k] + 1, b) /\ d2 = m.delegates[k] + 1
        BY <2>3 DEF Placed, Counted, l, d
      <4> QED BY <2>1, <2>3, <1>6, <4>1 DEF BoundType
    <3>2. [m.lists EXCEPT ![k] = l2] \in [EventKeys -> Seq(HandleObj)]
      BY <1>1, <1>2, <1>4
    <3>3. [m.delegates EXCEPT ![k] = d2] \in [EventKeys -> Int]
      BY <1>1, <1>2, <1>5
    <3> HIDE DEF l2, d2
    <3> QED BY <3>1, <3>2, <3>3, <1>6 DEF BoundType
  <2> QED BY <2>2, <2>3
<1> HIDE DEF r, m1, l2, d2
<1>8. \A x \in EventKeys : /\ r.lists[x] = IF x = k THEN l2 ELSE m.lists[x]
                           /\ r.delegates[x] = IF x = k THEN d2 ELSE m.delegates[x]
  <2> HIDE DEF k
  <2> QED BY <1>1, <1>2, <1>7
<1>a. l = m.lists[k]
  BY DEF l
<1> HIDE DEF k
<1>9. \A x \in EventKeys : InFrontOf(r.lists[x], r.delegates[x])
  BY <1>2, <1>4, <1>8
<1>10. \A x \in EventKeys : x[2] \notin Captured => (x \in r.listens <=> r.lists[x] # <<>>)
  BY <1>2, <1>4, <1>6, <1>7, <1>8, <1>a
<1>11. \A t \in Captured : r.attaches[t] = Cardinality(Wanting(t, r.lists))
  <2> SUFFICES ASSUME NEW t \in Captured
               PROVE  r.attaches[t] = Cardinality(Wanting(t, r.lists))
    OBVIOUS
  <2>1. Wanting(t, r.lists) = IF k[2] = t THEN Wanting(t, m.lists) \cup {k} ELSE Wanting(t, m.lists)
    BY <1>1, <1>4, <1>8 DEF Wanting
  <2>2. k \in Wanting(t, m.lists) <=> k[2] = t /\ l # <<>>
    BY <1>1, <1>a DEF Wanting
  <2>3. IsFiniteSet(Wanting(t, m.lists)) /\ m.attaches[t] = Cardinality(Wanting(t, m.lists))
    BY <1>2, KeysFinite
  <2>4. CASE grows /\ k[2] = t
    <3>1. Wanting(t, r.lists) = Wanting(t, m.lists) \cup {k} /\ k \notin Wanting(t, m.lists)
      BY <2>1, <2>2, <2>4
    <3>2. Cardinality(Wanting(t, r.lists)) = Cardinality(Wanting(t, m.lists)) + 1
      BY <2>3, <3>1, FS_AddElement
    <3>3. r.attaches[t] = m.attaches[t] + 1
      BY <2>4, <1>2, <1>6, <1>7
    <3> QED BY <3>2, <3>3, <2>3
  <2>5. CASE ~(grows /\ k[2] = t)
    <3>1. Wanting(t, r.lists) = Wanting(t, m.lists)
      BY <2>1, <2>2, <2>5
    <3>2. r.attaches[t] = m.attaches[t]
      BY <2>5, <1>2, <1>6, <1>7
    <3> QED BY <3>1, <3>2, <2>3
  <2> QED BY <2>4, <2>5
<1>12. \A x \in EventKeys : \A i \in 1..Len(r.lists[x]) :
         r.lists[x][i] = b \/ \E n \in 1..Len(m.lists[x]) : r.lists[x][i] = m.lists[x][n]
  BY <1>4, <1>8, <1>a
<1>13. Agrees(r)
  BY <1>7, <1>9, <1>10, <1>11 DEF Agrees
<1> QED BY <1>12, <1>13 DEF r, Gains

\* The handlers of r are those of m, and at these keys none that is meant.
Loses(m, ks, c, r) ==
  \A k \in EventKeys : \A i \in 1..Len(r.lists[k]) :
    /\ \E n \in 1..Len(m.lists[k]) : r.lists[k][i] = m.lists[k][n]
    /\ k \in ks => ~MeantBy(c, r.lists[k][i])

\* What is bound agrees after handlers were removed; what is left was there and is not meant.
LEMMA RemoveKeeps ==
  ASSUME EventsAssumption, NEW m, Agrees(m), NEW ks, ks \subseteq EventKeys, NEW c
  PROVE  Agrees(RemoveFrom(m, ks, c)) /\ Loses(m, ks, c, RemoveFrom(m, ks, c))
<1> DEFINE held == [k \in EventKeys |-> IF k \in ks THEN Left(m, k, c).list ELSE m.lists[k]]
           counts == [k \in EventKeys |-> IF k \in ks THEN Left(m, k, c).count ELSE m.delegates[k]]
           less == TakenOff(m, ks, c)
           gone == {k \in ks : m.lists[k] # <<>> /\ less.lists[k] = <<>>}
           off(t) == {k \in gone : k[2] = t}
           fewer == [t \in Captured |-> m.attaches[t] - Cardinality(off(t))]
           r == RemoveFrom(m, ks, c)
<1>1. /\ m \in BoundType /\ m.lists \in [EventKeys -> Seq(HandleObj)]
      /\ m.delegates \in [EventKeys -> Int] /\ m.listens \subseteq EventKeys /\ m.attaches \in [Captured -> Int]
      /\ \A x \in EventKeys : InFrontOf(m.lists[x], m.delegates[x])
      /\ \A x \in EventKeys : x[2] \notin Captured => (x \in m.listens <=> m.lists[x] # <<>>)
      /\ \A t \in Captured : m.attaches[t] = Cardinality(Wanting(t, m.lists))
  BY DEF Agrees, BoundType
<1>2. \A k \in EventKeys :
        /\ Left(m, k, c) \in [list : Seq(HandleObj), count : Int]
        /\ InFrontOf(Left(m, k, c).list, Left(m, k, c).count)
        /\ \A i \in 1..Len(Left(m, k, c).list) :
             /\ ~MeantBy(c, Left(m, k, c).list[i])
             /\ \E n \in 1..Len(m.lists[k]) : Left(m, k, c).list[i] = m.lists[k][n]
  <2> SUFFICES ASSUME NEW k \in EventKeys
               PROVE  /\ Left(m, k, c) \in [list : Seq(HandleObj), count : Int]
                      /\ InFrontOf(Left(m, k, c).list, Left(m, k, c).count)
                      /\ \A i \in 1..Len(Left(m, k, c).list) :
                           /\ ~MeantBy(c, Left(m, k, c).list[i])
                           /\ \E n \in 1..Len(m.lists[k]) : Left(m, k, c).list[i] = m.lists[k][n]
    OBVIOUS
  <2>1. m.lists[k] \in Seq(HandleObj) /\ InFrontOf(m.lists[k], m.delegates[k])
    BY <1>1
  <2> QED BY <2>1, StayingRemains DEF Left
<1>3. held \in [EventKeys -> Seq(HandleObj)] /\ counts \in [EventKeys -> Int]
  BY <1>1, <1>2
<1>4. less = [m EXCEPT !.lists = held, !.delegates = counts]
  <2> HIDE DEF less
  <2>1. less = [m EXCEPT !.lists = [k \in EventKeys |-> IF k \in ks THEN Left(m, k, c).list ELSE @[k]],
                         !.delegates = [k \in EventKeys |-> IF k \in ks THEN Left(m, k, c).count ELSE @[k]]]
    BY DEF less, TakenOff
  <2> QED BY <2>1, <1>1 DEF BoundType
<1>5. /\ \A k \in EventKeys : held[k] = IF k \in ks THEN Left(m, k, c).list ELSE m.lists[k]
      /\ \A k \in EventKeys : counts[k] = IF k \in ks THEN Left(m, k, c).count ELSE m.delegates[k]
  OBVIOUS
<1> HIDE DEF held, counts, less
<1>6. /\ less \in BoundType /\ less.lists = held /\ less.delegates = counts
      /\ less.listens = m.listens /\ less.attaches = m.attaches
  BY <1>1, <1>3, <1>4 DEF BoundType
<1>7. r = [less EXCEPT !.listens = m.listens \ gone, !.attaches = fewer]
  <2> HIDE DEF r
  <2>1. r = Teardown(less, gone)
    BY DEF r, RemoveFrom, less
  <2> QED BY <2>1, <1>6 DEF Teardown, BoundType
<1>8. \A k \in EventKeys :
        /\ InFrontOf(held[k], counts[k])
        /\ \A i \in 1..Len(held[k]) : /\ \E n \in 1..Len(m.lists[k]) : held[k][i] = m.lists[k][n]
                                      /\ k \in ks => ~MeantBy(c, held[k][i])
  <2> SUFFICES ASSUME NEW k \in EventKeys
               PROVE  /\ InFrontOf(held[k], counts[k])
                      /\ \A i \in 1..Len(held[k]) :
                           /\ \E n \in 1..Len(m.lists[k]) : held[k][i] = m.lists[k][n]
                           /\ k \in ks => ~MeantBy(c, held[k][i])
    OBVIOUS
  <2>1. CASE k \in ks
    BY <2>1, <1>2, <1>5
  <2>2. CASE k \notin ks
    <3>1. held[k] = m.lists[k] /\ counts[k] = m.delegates[k]
      BY <2>2, <1>5
    <3> QED BY <3>1, <2>2, <1>1
  <2> QED BY <2>1, <2>2
<1>9. \A k \in EventKeys : m.lists[k] = <<>> => held[k] = <<>>
  <2> SUFFICES ASSUME NEW k \in EventKeys, m.lists[k] = <<>> PROVE held[k] = <<>>
    OBVIOUS
  <2>1. Len(m.lists[k]) = 0 /\ held[k] \in Seq(HandleObj)
    BY <1>3
  <2>2. ~(1 \in 1..Len(held[k]))
    BY <1>8, <2>1
  <2>3. Len(held[k]) = 0
    BY <2>1, <2>2
  <2> QED BY <2>1, <2>3
<1>10. \A k \in EventKeys : k \in gone <=> m.lists[k] # <<>> /\ held[k] = <<>>
  BY <1>5, <1>6
<1>13. \A t \in Captured : fewer[t] = Cardinality(Wanting(t, held)) /\ fewer[t] \in Int
  <2> SUFFICES ASSUME NEW t \in Captured
               PROVE  fewer[t] = Cardinality(Wanting(t, held)) /\ fewer[t] \in Int
    OBVIOUS
  <2> DEFINE W == Wanting(t, m.lists)
             F == off(t)
  <2>1. IsFiniteSet(W) /\ Cardinality(W) \in Nat /\ m.attaches[t] = Cardinality(W)
    BY <1>1, KeysFinite
  <2>2. F \subseteq W /\ Wanting(t, held) = W \ F
    <3>1. gone \subseteq EventKeys
      OBVIOUS
    <3> HIDE DEF gone
    <3> QED BY <1>9, <1>10, <3>1 DEF Wanting
  <2>3. fewer[t] = m.attaches[t] - Cardinality(F)
    OBVIOUS
  <2> HIDE DEF W, F, fewer
  <2>4. IsFiniteSet(F) /\ W \cap F = F
    BY <2>1, <2>2, FS_Subset
  <2>5. Cardinality(W \ F) = Cardinality(W) - Cardinality(W \cap F)
    BY <2>1, FS_Difference
  <2>6. Cardinality(F) \in Nat
    BY <2>4, FS_CardinalityType
  <2>7. Cardinality(Wanting(t, held)) = Cardinality(W) - Cardinality(F)
    BY <2>2, <2>4, <2>5
  <2>8. fewer[t] = Cardinality(W) - Cardinality(F)
    BY <2>1, <2>3
  <2> QED BY <2>1, <2>6, <2>7, <2>8
<1>f. fewer \in [Captured -> Int]
  <2>1. fewer = [t \in Captured |-> fewer[t]]
    OBVIOUS
  <2> HIDE DEF fewer
  <2> QED BY <2>1, <1>13
<1> HIDE DEF fewer, r
<1>14. /\ r \in BoundType /\ r.lists = held /\ r.delegates = counts
       /\ r.listens = m.listens \ gone /\ r.attaches = fewer
  <2> HIDE DEF gone
  <2>1. m.listens \ gone \subseteq EventKeys
    BY <1>1
  <2> QED BY <2>1, <1>6, <1>7, <1>f DEF BoundType
<1> HIDE DEF gone
<1>15. \A k \in EventKeys : k[2] \notin Captured => (k \in r.listens <=> r.lists[k] # <<>>)
  BY <1>1, <1>9, <1>10, <1>14
<1>16. Agrees(r)
  BY <1>8, <1>13, <1>14, <1>15 DEF Agrees
<1> QED BY <1>8, <1>14, <1>16 DEF r, Loses

\* A binding as a call with this id makes it.
BoundBy(b, id) == [b EXCEPT !.id = id]

LEMMA AddedByIs ==
  ASSUME NEW m, NEW bs \in Seq(HandleObj), NEW id
  PROVE  /\ AddedBy(m, bs, id)[0] = m
         /\ \A i \in 1..Len(bs) :
              AddedBy(m, bs, id)[i] = AddHandler(AddedBy(m, bs, id)[i - 1], BoundBy(bs[i], id))
<1> DEFINE N == Len(bs)
           Then(x, i) == AddHandler(x, BoundBy(bs[i], id))
           Recurs(g, k) == g = [i \in 0..k |-> IF i = 0 THEN m ELSE Then(g[i - 1], i)]
           S == {k \in Nat : \E g : Recurs(g, k)}
<1>1. AddedBy(m, bs, id) = CHOOSE g : Recurs(g, N)
  BY DEF AddedBy, BoundBy
<1> HIDE DEF Then
<1>2. 0 \in S
  <2> DEFINE g == [i \in 0..0 |-> m]
  <2>1. Recurs(g, 0)
    OBVIOUS
  <2> HIDE DEF g, Recurs
  <2> QED BY <2>1
<1>3. ASSUME NEW k \in S PROVE k + 1 \in S
  <2>1. PICK g : Recurs(g, k)
    OBVIOUS
  <2> DEFINE h == [i \in 0..(k + 1) |-> IF i = k + 1 THEN Then(g[k], k + 1) ELSE g[i]]
  <2>2. \A i \in 0..k : g[i] = IF i = 0 THEN m ELSE Then(g[i - 1], i)
    BY <2>1
  <2>3. \A i \in 0..(k + 1) : h[i] = IF i = 0 THEN m ELSE Then(h[i - 1], i)
    <3> SUFFICES ASSUME NEW i \in 0..(k + 1)
                 PROVE  h[i] = IF i = 0 THEN m ELSE Then(h[i - 1], i)
      OBVIOUS
    <3>1. CASE i = k + 1
      BY <3>1
    <3>2. CASE i # k + 1
      BY <2>2, <3>2
    <3> QED BY <3>1, <3>2
  <2>4. Recurs(h, k + 1)
    BY <2>3
  <2> HIDE DEF h, Recurs
  <2> QED BY <2>4
<1>4. N \in S
  <2>1. S \subseteq Nat
    OBVIOUS
  <2> HIDE DEF S
  <2>2. S = Nat
    BY <1>2, <1>3, <2>1, Climb
  <2> QED BY <2>2
<1>5. \E g : Recurs(g, N)
  BY <1>4
<1> DEFINE f == CHOOSE g : Recurs(g, N)
<1>6. Recurs(f, N)
  <2> HIDE DEF Recurs
  <2> QED BY <1>5
<1> HIDE DEF f
<1>7. f[0] = m /\ \A i \in 1..N : f[i] = Then(f[i - 1], i)
  BY <1>6
<1>8. AddedBy(m, bs, id) = f
  BY <1>1 DEF f
<1> HIDE DEF Recurs, S
<1> QED BY <1>7, <1>8 DEF Then

\* What is bound agrees after a call has bound several handlers, the new ones all with its id.
FromOrNew(m, id, r) ==
  \A k \in EventKeys : \A i \in 1..Len(r.lists[k]) :
    r.lists[k][i].id = id \/ \E n \in 1..Len(m.lists[k]) : r.lists[k][i] = m.lists[k][n]

LEMMA AddedKeeps ==
  ASSUME EventsAssumption, NEW m, Agrees(m), NEW bs \in Seq(HandleObj), NEW id \in Nat
  PROVE  /\ Agrees(AddedBy(m, bs, id)[Len(bs)])
         /\ FromOrNew(m, id, AddedBy(m, bs, id)[Len(bs)])
<1>0. /\ AddedBy(m, bs, id)[0] = m
      /\ \A i \in 1..Len(bs) :
           AddedBy(m, bs, id)[i] = AddHandler(AddedBy(m, bs, id)[i - 1], BoundBy(bs[i], id))
  BY AddedByIs
<1> DEFINE N == Len(bs)
           f == AddedBy(m, bs, id)
<1>1. f[0] = m /\ \A i \in 1..N : f[i] = AddHandler(f[i - 1], BoundBy(bs[i], id))
  BY <1>0
<1> HIDE DEF f
<1> DEFINE S == {k \in Nat : k <= N => Agrees(f[k]) /\ FromOrNew(m, id, f[k])}
<1>2. 0 \in S
  <2>1. FromOrNew(m, id, m)
    BY DEF FromOrNew
  <2> QED BY <1>1, <2>1
<1>3. ASSUME NEW k \in S PROVE k + 1 \in S
  <2> SUFFICES ASSUME k + 1 <= N PROVE Agrees(f[k + 1]) /\ FromOrNew(m, id, f[k + 1])
    OBVIOUS
  <2> DEFINE b == BoundBy(bs[k + 1], id)
             r == AddHandler(f[k], b)
  <2>1. k \in Nat /\ k + 1 \in 1..N /\ k + 1 - 1 = k /\ k <= N
    OBVIOUS
  <2>2. Agrees(f[k]) /\ FromOrNew(m, id, f[k])
    BY <2>1
  <2>3. f[k + 1] = r
    <3>1. f[k + 1] = AddHandler(f[k + 1 - 1], b)
      BY <1>1, <2>1
    <3> QED BY <2>1, <3>1
  <2>4. b \in HandleObj /\ b.id = id
    <3>1. bs[k + 1] \in HandleObj
      BY <2>1
    <3> QED BY <3>1 DEF HandleObj, BoundBy
  <2>5. Agrees(r) /\ Gains(f[k], b, r)
    <3>1. Agrees(f[k]) /\ b \in HandleObj
      BY <2>2, <2>4
    <3> HIDE DEF b, S
    <3>2. Agrees(AddHandler(f[k], b)) /\ Gains(f[k], b, AddHandler(f[k], b))
      BY <3>1, AddKeeps, Zenon
    <3> QED BY <3>2 DEF r
  <2> HIDE DEF b, r, S
  <2>6. FromOrNew(m, id, r)
    BY <2>2, <2>4, <2>5 DEF FromOrNew, Gains
  <2> QED BY <2>3, <2>5, <2>6
<1>4. N \in S
  <2>1. S \subseteq Nat
    OBVIOUS
  <2> HIDE DEF S
  <2>2. S = Nat
    BY <1>2, <1>3, <2>1, Climb
  <2> QED BY <2>2
<1>5. N \in Nat
  OBVIOUS
<1> QED BY <1>4, <1>5 DEF f
-----------------------------------------------------------------------------
\* The ends of a stack.
LEMMA SeqEnds ==
  ASSUME NEW S, NEW st \in Seq(S), st # <<>>
  PROVE  /\ Len(st) \in Nat \ {0} /\ Last(st) = st[Len(st)] /\ Last(st) \in S
         /\ Front(st) \in Seq(S) /\ Len(Front(st)) = Len(st) - 1
         /\ \A i \in 1..(Len(st) - 1) : Front(st)[i] = st[i]
<1>1. Len(st) \in Nat \ {0} /\ \A i \in 1..Len(st) : st[i] \in S
  OBVIOUS
<1>2. Last(st) = st[Len(st)] /\ Last(st) \in S
  BY <1>1 DEF Last
<1>3. /\ Front(st) \in Seq(S) /\ Len(Front(st)) = Len(st) - 1
      /\ \A i \in 1..(Len(st) - 1) : Front(st)[i] = st[i]
  <2>1. \A i \in 1..(Len(st) - 1) : st[i] \in S
    BY <1>1
  <2>2. PICK n \in Nat : Len(st) = n + 1
    BY <1>1
  <2>3. Len(st) - 1 = n /\ 1 \in Int /\ n \in Int
    BY <2>2
  <2> DEFINE r == SubSeq(st, 1, n)
  <2>4. /\ r \in Seq(S) /\ Len(r) = IF 1 <= n THEN n - 1 + 1 ELSE 0
        /\ \A i \in 1..(n - 1 + 1) : r[i] = st[1 + i - 1]
    BY <2>1, <2>3, SubSeqProperties
  <2>5. Front(st) = r
    BY <2>3 DEF Front
  <2> HIDE DEF r
  <2>6. Len(r) = n
    BY <2>4
  <2>7. ASSUME NEW i \in 1..n PROVE r[i] = st[i]
    <3>1. i \in 1..(n - 1 + 1) /\ 1 + i - 1 = i
      OBVIOUS
    <3> QED BY <2>4, <3>1
  <2> QED BY <2>3, <2>4, <2>5, <2>6, <2>7
<1> QED BY <1>1, <1>2, <1>3

WithTop(st, f) == [st EXCEPT ![Len(st)] = f]

LEMMA Put ==
  ASSUME NEW S, NEW st \in Seq(S), st # <<>>, NEW f \in S
  PROVE  /\ WithTop(st, f) \in Seq(S) /\ Len(WithTop(st, f)) = Len(st) /\ WithTop(st, f) # <<>>
         /\ Last(WithTop(st, f)) = f /\ WithTop(st, f)[Len(st)] = f
         /\ \A i \in 1..(Len(st) - 1) : WithTop(st, f)[i] = st[i]
BY DEF Last, WithTop

LEMMA SeqPushed ==
  ASSUME NEW S, NEW st \in Seq(S), NEW f \in S
  PROVE  LET r == Append(st, f)
         IN  /\ r \in Seq(S) /\ Len(r) = Len(st) + 1 /\ r[Len(st) + 1] = f
             /\ \A i \in 1..Len(st) : r[i] = st[i]
OBVIOUS

LEMMA HandleIds ==
  ASSUME NEW q, q \in QueueItem
  PROVE  q.on \in Targets /\ q.b \in HandleObj /\ q.b.id \in Nat
<1>1. q.b \in HandleObj /\ q.on \in Targets
  BY DEF QueueItem
<1> QED BY <1>1 DEF HandleObj

LEMMA ItemOf ==
  ASSUME NEW S, NEW s \in Seq(S)
  PROVE  Len(s) \in Nat /\ DOMAIN s = 1..Len(s) /\ \A i \in DOMAIN s : s[i] \in S
OBVIOUS

\* A later number of calls.
LEMMA Later ==
  ASSUME NEW st, NEW tr, NEW rs, NEW n \in Nat, NEW n2 \in Nat, n <= n2, Stacked(st, tr, rs, n)
  PROVE  Stacked(st, tr, rs, n2)
<1>1. ASSUME NEW f, FrameOK(f, n) PROVE FrameOK(f, n2)
  <2>1. f.queue \in Seq(QueueItem)
    BY <1>1 DEF FrameOK, EventType
  <2>2. \A i \in DOMAIN f.queue : f.queue[i] \in QueueItem
    BY <2>1, ItemOf
  <2>3. \A i \in DOMAIN f.queue : f.queue[i].b.id \in Nat
    BY <2>2, HandleIds
  <2> QED BY <1>1, <2>3 DEF FrameOK, OnItsWay
<1> QED BY <1>1 DEF Stacked

\* The event at the top goes a step further.
LEMMA StackedPut ==
  ASSUME NEW st, NEW tr, NEW rs, NEW n, NEW f, NEW tr2, Stacked(st, tr, rs, n), st # <<>>,
         FrameOK(f, n), f.trigger = Last(st).trigger, Whose(f) = Whose(Last(st)),
         Acting(f) => rs \/ tr2 = f.type,
         ~Acting(f) => ~Acting(Last(st)) /\ tr2 = tr,
         \/ f.queue = <<>> \/ Last(st).queue # <<>>
         \/ rs \/ \A i \in 1..(Len(st) - 1) : ~Again(WithTop(st, f), i, Len(st))
  PROVE  Stacked(WithTop(st, f), tr2, rs, n)
<1>1. st \in Seq(EventType) /\ f \in EventType
  BY DEF Stacked, FrameOK
<1>0. /\ WithTop(st, f) \in Seq(EventType) /\ Len(WithTop(st, f)) = Len(st)
      /\ WithTop(st, f)[Len(st)] = f /\ \A i \in 1..(Len(st) - 1) : WithTop(st, f)[i] = st[i]
  BY <1>1, Put
<1> DEFINE N == Len(st)
           r == WithTop(st, f)
<1>2. N \in Nat \ {0} /\ Last(st) = st[N]
  BY <1>1, SeqEnds
<1>3. r \in Seq(EventType) /\ Len(r) = N /\ r[N] = f /\ \A i \in 1..(N - 1) : r[i] = st[i]
  BY <1>0
<1>4. \A i \in 1..N : i \in 1..(N - 1) \/ i = N
  BY <1>2
<1>w. Whose(r[N]) = Whose(st[N]) /\ r[N].trigger = st[N].trigger
  BY <1>2, <1>3
<1> HIDE DEF r, N
<1>5. \A i \in 1..N : FrameOK(r[i], n)
  BY <1>3, <1>4 DEF Stacked, N
<1>6. SentFrames(r)
  <2>1. ASSUME NEW i \in 2..N, ~r[i].trigger
        PROVE  Acting(r[i - 1])
    <3>1. i \in 1..N /\ i - 1 \in 1..(N - 1)
      BY <1>2
    <3>2. r[i - 1] = st[i - 1] /\ r[i].trigger = st[i].trigger
      BY <1>3, <1>4, <1>w, <3>1
    <3>3. Acting(st[i - 1])
      BY <2>1, <3>2 DEF Stacked, SentFrames, N
    <3> QED BY <3>2, <3>3
  <2> QED BY <1>3, <2>1 DEF SentFrames
<1>7. ASSUME ~rs PROVE LastActs(r, tr2)
  <2> SUFFICES ASSUME NEW i \in 1..N, Acting(r[i]), \A j \in (i + 1)..N : ~Acting(r[j])
               PROVE  tr2 = r[i].type
    BY <1>3 DEF LastActs
  <2>1. CASE i = N
    BY <1>3, <1>7, <2>1
  <2>2. CASE i \in 1..(N - 1)
    <3>1. N \in (i + 1)..N /\ ~Acting(f)
      BY <1>2, <1>3, <2>2
    <3>2. \A j \in (i + 1)..N : ~Acting(st[j])
      <4>1. ASSUME NEW j \in (i + 1)..N PROVE ~Acting(st[j])
        <5>1. j \in 1..(N - 1) \/ j = N
          BY <1>2
        <5> QED BY <1>2, <1>3, <3>1, <5>1
      <4> QED BY <4>1
    <3>3. r[i] = st[i] /\ tr2 = tr
      BY <1>3, <2>2, <3>1
    <3> QED BY <1>7, <2>2, <3>2, <3>3 DEF Stacked, LastActs, N
  <2> QED BY <1>4, <2>1, <2>2
<1>8. ASSUME ~rs, NEW j \in 1..N, NEW i \in 1..(j - 1) PROVE ~Again(r, i, j)
  <2>0. i \in 1..(N - 1) /\ \A m \in (i + 1)..(j - 1) : m \in 1..(N - 1)
    BY <1>2
  <2>1. r[i] = st[i] /\ \A m \in (i + 1)..(j - 1) : r[m] = st[m]
    BY <1>3, <2>0
  <2>2. ~Again(st, i, j)
    BY <1>8 DEF Stacked, N
  <2>3. CASE j \in 1..(N - 1)
    BY <1>3, <2>1, <2>2, <2>3 DEF Again
  <2>4. CASE j = N
    <3>1. r[j] = f /\ st[j] = Last(st)
      BY <1>2, <1>3, <2>4
    <3>2. CASE \A x \in 1..(Len(st) - 1) : ~Again(WithTop(st, f), x, Len(st))
      BY <2>0, <2>4, <3>2 DEF r, N
    <3>3. CASE f.queue = <<>>
      BY <3>1, <3>3 DEF Again
    <3>4. CASE Last(st).queue # <<>>
      BY <1>w, <2>1, <2>2, <2>4, <3>1, <3>4 DEF Again
    <3> QED BY <1>8, <3>2, <3>3, <3>4
  <2> QED BY <1>4, <2>3, <2>4
<1> QED BY <1>3, <1>5, <1>6, <1>7, <1>8 DEF Stacked, r

\* Another event begins, sent by a default action or alone unless it is triggered.
LEMMA StackedPush ==
  ASSUME NEW st, NEW tr, NEW rs, NEW n, NEW f, Stacked(st, tr, rs, n), FrameOK(f, n),
         ~Acting(f), f.queue = <<>>,
         f.trigger \/ st = <<>> \/ Acting(Last(st))
  PROVE  Stacked(Append(st, f), tr, rs, n)
<1> DEFINE N == Len(st)
           r == Append(st, f)
<1>1. st \in Seq(EventType) /\ f \in EventType /\ N \in Nat
  BY DEF Stacked, FrameOK
<1>3. r \in Seq(EventType) /\ Len(r) = N + 1 /\ r[N + 1] = f /\ \A i \in 1..N : r[i] = st[i]
  BY <1>1, SeqPushed, Zenon
<1>2. st # <<>> => N # 0 /\ Last(st) = st[N]
  BY <1>1, SeqEnds
<1>0. st = <<>> => N = 0
  OBVIOUS
<1>4. \A i \in 1..(N + 1) : i \in 1..N \/ i = N + 1
  BY <1>1
<1> HIDE DEF r, N
<1>5. \A i \in 1..(N + 1) : FrameOK(r[i], n)
  BY <1>3, <1>4 DEF Stacked, N
<1>6. SentFrames(r)
  <2>1. ASSUME NEW i \in 2..(N + 1), ~r[i].trigger
        PROVE  Acting(r[i - 1])
    <3>1. i \in 1..(N + 1) /\ i - 1 \in 1..N /\ N # 0
      BY <1>1
    <3>2. CASE i = N + 1
      <4>1. i - 1 = N /\ N \in 1..N
        BY <1>1, <3>1, <3>2
      <4>2. r[i] = f /\ r[i - 1] = Last(st)
        BY <1>0, <1>2, <1>3, <3>1, <3>2, <4>1
      <4> QED BY <1>0, <2>1, <3>1, <4>2
    <3>3. CASE i \in 1..N
      <4>1. r[i] = st[i] /\ r[i - 1] = st[i - 1] /\ i \in 2..N
        BY <1>1, <1>3, <3>1, <3>3
      <4> QED BY <2>1, <4>1 DEF Stacked, SentFrames, N
    <3> QED BY <1>4, <3>1, <3>2, <3>3
  <2> QED BY <1>3, <2>1 DEF SentFrames
<1>7. ASSUME ~rs PROVE LastActs(r, tr)
  <2> SUFFICES ASSUME NEW i \in 1..(N + 1), Acting(r[i]), \A j \in (i + 1)..(N + 1) : ~Acting(r[j])
               PROVE  tr = r[i].type
    BY <1>3 DEF LastActs
  <2>1. i \in 1..N /\ r[i] = st[i]
    BY <1>3, <1>4
  <2>2. ASSUME NEW j \in (i + 1)..N PROVE ~Acting(st[j])
    <3>1. j \in (i + 1)..(N + 1) /\ j \in 1..N
      BY <1>1
    <3> QED BY <1>3, <3>1
  <2> QED BY <1>7, <2>1, <2>2 DEF Stacked, LastActs, N
<1>8. ASSUME ~rs, NEW j \in 1..(N + 1), NEW i \in 1..(j - 1) PROVE ~Again(r, i, j)
  <2>1. CASE j = N + 1
    BY <1>3, <2>1 DEF Again
  <2>2. CASE j \in 1..N
    <3>1. i \in 1..N /\ \A m \in (i + 1)..(j - 1) : m \in 1..N
      BY <1>1, <2>2
    <3>2. r[i] = st[i] /\ r[j] = st[j] /\ \A m \in (i + 1)..(j - 1) : r[m] = st[m]
      BY <1>3, <2>2, <3>1
    <3>3. ~Again(st, i, j)
      BY <1>8, <2>2 DEF Stacked, N
    <3> QED BY <3>2, <3>3 DEF Again
  <2> QED BY <1>4, <2>1, <2>2
<1> QED BY <1>3, <1>5, <1>6, <1>7, <1>8 DEF Stacked, r

\* The event at the top ends; if it acted, triggered has been reset, and this counts if an
\* event below still acts.
LEMMA StackedPop ==
  ASSUME NEW st, NEW tr, NEW rs, NEW n, NEW tr2, NEW rs2, Stacked(st, tr, rs, n), st # <<>>,
         \/ ~Acting(Last(st)) /\ tr2 = tr /\ rs2 = rs
         \/ rs2 <=> \E i \in 1..(Len(st) - 1) : Acting(st[i])
  PROVE  Stacked(Front(st), tr2, rs2, n)
<1> DEFINE N == Len(st)
           r == Front(st)
<1>1. st \in Seq(EventType)
  BY DEF Stacked
<1>2. /\ N \in Nat \ {0} /\ Last(st) = st[N]
      /\ r \in Seq(EventType) /\ Len(r) = N - 1 /\ \A i \in 1..(N - 1) : r[i] = st[i]
  BY <1>1, SeqEnds
<1>3. \A i \in 1..(N - 1) : i \in 1..N
  BY <1>2
<1> HIDE DEF r, N
<1>5. \A i \in 1..(N - 1) : FrameOK(r[i], n)
  BY <1>2, <1>3 DEF Stacked, N
<1>6. SentFrames(r)
  <2>1. ASSUME NEW i \in 2..(N - 1), ~r[i].trigger
        PROVE  Acting(r[i - 1])
    <3>1. i \in 1..(N - 1) /\ i - 1 \in 1..(N - 1) /\ i \in 2..N
      BY <1>2
    <3>2. r[i - 1] = st[i - 1] /\ r[i] = st[i]
      BY <1>2, <3>1
    <3> QED BY <2>1, <3>1, <3>2 DEF Stacked, SentFrames, N
  <2> QED BY <1>2, <2>1 DEF SentFrames
<1>7. ASSUME ~rs2 PROVE LastActs(r, tr2)
  <2> SUFFICES ASSUME NEW i \in 1..(N - 1), Acting(r[i]), \A j \in (i + 1)..(N - 1) : ~Acting(r[j])
               PROVE  tr2 = r[i].type
    BY <1>2 DEF LastActs
  <2>1. r[i] = st[i] /\ i \in 1..N
    BY <1>2, <1>3
  <2>2. ~Acting(Last(st)) /\ tr2 = tr /\ rs2 = rs
    BY <1>7, <2>1 DEF N
  <2>3. ASSUME NEW j \in (i + 1)..N PROVE ~Acting(st[j])
    <3>1. j = N \/ (j \in (i + 1)..(N - 1) /\ j \in 1..(N - 1))
      BY <1>2
    <3> QED BY <1>2, <2>2, <3>1
  <2> QED BY <1>7, <2>1, <2>2, <2>3 DEF Stacked, LastActs, N
<1>8. ASSUME ~rs2, NEW j \in 1..(N - 1), NEW i \in 1..(j - 1) PROVE ~Again(r, i, j)
  <2>1. i \in 1..(N - 1) /\ j \in 1..N /\ \A m \in (i + 1)..(j - 1) : m \in 1..(N - 1)
    BY <1>2
  <2>2. r[i] = st[i] /\ r[j] = st[j] /\ \A m \in (i + 1)..(j - 1) : r[m] = st[m]
    BY <1>2, <2>1
  <2>3. CASE rs2 = rs
    <3>1. ~Again(st, i, j)
      BY <1>8, <2>1, <2>3 DEF Stacked, N
    <3> QED BY <2>2, <3>1 DEF Again
  <2>4. CASE rs2 <=> \E x \in 1..(Len(st) - 1) : Acting(st[x])
    BY <1>8, <2>1, <2>2, <2>4 DEF Again, N
  <2> QED BY <2>3, <2>4
<1> QED BY <1>2, <1>5, <1>6, <1>7, <1>8 DEF Stacked, r

-----------------------------------------------------------------------------
\* The place of an element on the way of an event.
LEMMA PlaceInIs ==
  ASSUME EventsAssumption, NEW e \in Targets, NEW x \in Way(e)
  PROVE  /\ PlaceIn(e, x) \in DOMAIN Path[e] /\ Path[e][PlaceIn(e, x)] = x
         /\ PlaceIn(e, x) \in 1..Len(Path[e]) /\ PlaceIn(e, x) \in Nat \ {0}
<1>1. \E i \in DOMAIN Path[e] : Path[e][i] = x
  BY DEF Way
<1>2. PlaceIn(e, x) \in DOMAIN Path[e] /\ Path[e][PlaceIn(e, x)] = x
  BY <1>1 DEF PlaceIn
<1>3. Path[e] \in Seq(Targets)
  BY DEF EventsAssumption
<1>4. Len(Path[e]) \in Nat /\ DOMAIN Path[e] = 1..Len(Path[e])
  BY <1>3, ItemOf
<1> HIDE DEF PlaceIn
<1> QED BY <1>2, <1>4

LEMMA TargetOnWay ==
  ASSUME EventsAssumption, NEW e \in Targets
  PROVE  e \in Way(e) /\ Way(e) \subseteq Targets /\ Path[e] \in Seq(Way(e))
<1>1. Path[e] \in Seq(Targets) /\ Path[e] # <<>> /\ Path[e][1] = e
  BY DEF EventsAssumption
<1>2. Len(Path[e]) \in Nat /\ DOMAIN Path[e] = 1..Len(Path[e]) /\ \A i \in DOMAIN Path[e] : Path[e][i] \in Targets
  BY <1>1, ItemOf
<1>3. 1 \in DOMAIN Path[e]
  BY <1>1, <1>2
<1>4. \A i \in DOMAIN Path[e] : Path[e][i] \in Way(e)
  BY DEF Way
<1>5. Path[e] \in Seq(Way(e))
  BY <1>1, <1>4
<1> QED BY <1>1, <1>2, <1>3, <1>5 DEF Way

\* A part of a sequence.
LEMMA PartIn ==
  ASSUME NEW S, NEW s \in Seq(S), NEW a \in Nat \ {0}, NEW z \in Nat, z <= Len(s)
  PROVE  SubSeq(s, a, z) \in Seq(S)
<1>1. \A i \in a..z : s[i] \in S
  OBVIOUS
<1> QED BY <1>1, SubSeqProperties

LEMMA BelowIn ==
  ASSUME EventsAssumption, NEW e \in Targets, NEW x \in Way(e)
  PROVE  Below(e, x) \in Seq(Way(e))
<1> DEFINE p == PlaceIn(e, x)
<1>1. p \in 1..Len(Path[e]) /\ p \in Nat \ {0} /\ Path[e] \in Seq(Way(e))
  BY PlaceInIs, TargetOnWay
<1>2. Below(e, x) = SubSeq(Path[e], 1, p - 1)
  BY DEF Below
<1> HIDE DEF p
<1>3. p - 1 \in Nat /\ p - 1 <= Len(Path[e]) /\ 1 \in Nat \ {0}
  BY <1>1
<1> QED BY <1>1, <1>2, <1>3, PartIn

LEMMA EntriesIn ==
  ASSUME NEW B, NEW K, NEW list \in Seq(B), NEW e, \A x \in B : [on |-> e, b |-> x] \in K
  PROVE  Entries(list, e) \in Seq(K)
<1>1. Len(list) \in Nat /\ DOMAIN list = 1..Len(list) /\ \A i \in DOMAIN list : list[i] \in B
  BY ItemOf
<1>2. Entries(list, e) = [i \in 1..Len(list) |-> [on |-> e, b |-> list[i]]]
  BY <1>1 DEF Entries
<1>3. \A i \in 1..Len(list) : [on |-> e, b |-> list[i]] \in K
  BY <1>1
<1> QED BY <1>1, <1>2, <1>3

\* What a dispatch may queue for an event on the way of e, after n calls.
Found(e, n) == {q \in QueueItem : q.on \in Way(e) /\ q.b.id <= n}

LEMMA FoundOnWay ==
  ASSUME NEW e, NEW n, NEW s
  PROVE  /\ s \in Seq(Found(e, n)) => /\ s \in Seq(QueueItem)
                                      /\ \A i \in DOMAIN s : s[i].on \in Way(e) /\ s[i].b.id <= n
         /\ s \in Seq(QueueItem) /\ (\A i \in DOMAIN s : s[i].on \in Way(e) /\ s[i].b.id <= n)
              => s \in Seq(Found(e, n))
<1>1. ASSUME s \in Seq(Found(e, n))
      PROVE  s \in Seq(QueueItem) /\ \A i \in DOMAIN s : s[i].on \in Way(e) /\ s[i].b.id <= n
  <2>1. Len(s) \in Nat /\ DOMAIN s = 1..Len(s) /\ \A i \in DOMAIN s : s[i] \in Found(e, n)
    BY <1>1, ItemOf
  <2>2. \A i \in DOMAIN s : s[i] \in QueueItem /\ s[i].on \in Way(e) /\ s[i].b.id <= n
    BY <2>1 DEF Found
  <2>3. s \in Seq(QueueItem)
    BY <1>1, <2>1, <2>2
  <2> QED BY <2>2, <2>3
<1>2. ASSUME s \in Seq(QueueItem), \A i \in DOMAIN s : s[i].on \in Way(e) /\ s[i].b.id <= n
      PROVE  s \in Seq(Found(e, n))
  <2>1. \A i \in DOMAIN s : s[i] \in QueueItem
    BY <1>2, ItemOf
  <2>2. \A i \in DOMAIN s : s[i] \in Found(e, n)
    BY <1>2, <2>1 DEF Found
  <2> QED BY <1>2, <2>2
<1> QED BY <1>1, <1>2

LEMMA HandlerQueueIn ==
  ASSUME EventsAssumption, NEW k \in EventKeys, NEW e \in Targets, k[1] \in Way(e), NEW n,
         lists \in [EventKeys -> Seq(HandleObj)], delegates[k] \in 0..Len(lists[k]),
         \A i \in 1..Len(lists[k]) : lists[k][i].id <= n
  PROVE  HandlerQueue(k, e) \in Seq(Found(e, n))
<1> DEFINE B == {b \in HandleObj : b.id <= n}
           list == lists[k]
           below == Below(e, k[1])
           Hits(cur) == {i \in 1..delegates[k] : <<list[i].sel, cur>> \in Matches}
           parts == [i \in DOMAIN below |-> Entries(Those(list, Hits(below[i])), below[i])]
           own == SubSeq(list, delegates[k] + 1, Len(list))
<1>1. HandlerQueue(k, e) = FlattenSeq(parts) \o Entries(own, k[1])
  BY DEF HandlerQueue
<1>2. list \in Seq(HandleObj)
  OBVIOUS
<1> HIDE DEF list
<1>3. list \in Seq(B) /\ \A i \in DOMAIN list : list[i] \in B
  <2>1. Len(list) \in Nat /\ DOMAIN list = 1..Len(list) /\ \A i \in DOMAIN list : list[i] \in HandleObj
    BY <1>2, ItemOf
  <2>2. \A i \in DOMAIN list : list[i] \in B
    BY <2>1 DEF list
  <2> HIDE DEF B
  <2> QED BY <1>2, <2>2
<1>4. \A x \in Way(e) : \A b \in B : [on |-> x, b |-> b] \in Found(e, n)
  BY TargetOnWay DEF Found, QueueItem
<1> HIDE DEF B
<1>5. \A x \in Way(e) : \A s \in Seq(B) : Entries(s, x) \in Seq(Found(e, n))
  <2>1. ASSUME NEW x \in Way(e), NEW s \in Seq(B) PROVE Entries(s, x) \in Seq(Found(e, n))
    <3>1. \A b \in B : [on |-> x, b |-> b] \in Found(e, n)
      BY <1>4
    <3> QED BY <3>1, EntriesIn
  <2> QED BY <2>1
<1>6. below \in Seq(Way(e))
  BY BelowIn
<1> HIDE DEF below
<1>7. parts \in Seq(Seq(Found(e, n)))
  <2>1. Len(below) \in Nat /\ DOMAIN below = 1..Len(below) /\ \A i \in DOMAIN below : below[i] \in Way(e)
    BY <1>6, ItemOf
  <2>2. ASSUME NEW i \in DOMAIN below
        PROVE  Entries(Those(list, Hits(below[i])), below[i]) \in Seq(Found(e, n))
    <3> DEFINE places == Hits(below[i])
    <3> HIDE DEF places
    <3>1. Those(list, places) \in Seq(B)
      BY <1>3, ThoseOf
    <3>2. Entries(Those(list, places), below[i]) \in Seq(Found(e, n))
      BY <1>5, <2>1, <3>1
    <3> QED BY <3>2 DEF places
  <2> HIDE DEF Hits
  <2> QED BY <2>1, <2>2
<1>8. own \in Seq(B)
  <2>1. delegates[k] + 1 \in Nat \ {0} /\ Len(list) \in Nat
    BY <1>2
  <2> QED BY <1>3, <2>1, PartIn
<1> HIDE DEF parts, own
<1>9. FlattenSeq(parts) \in Seq(Found(e, n))
  BY <1>7, FlattenIn
<1>10. Entries(own, k[1]) \in Seq(Found(e, n))
  BY <1>5, <1>8
<1> QED BY <1>1, <1>9, <1>10, ConcatProperties

LEMMA SelectedIn ==
  ASSUME NEW e, NEW n, NEW queue \in Seq(Found(e, n)), NEW ns
  PROVE  Selected(queue, ns) \in Seq(Found(e, n))
<1> DEFINE places == {i \in DOMAIN queue : ns \in {NoName, queue[i].b.ns} \/
                                            (ns = "!" /\ queue[i].b.ns = NoName)}
<1>1. Selected(queue, ns) = Those(queue, places)
  BY DEF Selected
<1>2. \A i \in DOMAIN queue : queue[i] \in Found(e, n)
  BY ItemOf
<1> HIDE DEF places
<1>3. \A i \in DOMAIN queue : i \in places => queue[i] \in Found(e, n)
  BY <1>2
<1> QED BY <1>1, <1>3, ThoseOf

-----------------------------------------------------------------------------
\* The fields of an event.
LEMMA FrameFields ==
  ASSUME EventsAssumption, NEW c, NEW n, FrameOK(c, n)
  PROVE  /\ c \in EventType /\ c.trigger \in BOOLEAN /\ c.target \in Targets /\ c.type \in EventTypes
         /\ c.ns \in Spaces /\ c.action \in BOOLEAN /\ c.path \in Seq(Targets) /\ c.on \in Targets
         /\ c.at \in {"capture", "handle", "inline", "action"}
         /\ c.in \in {"jQuery", "handler", "inline"} /\ c.stopped \in Nat
         /\ c.queue \in Seq(QueueItem) /\ c.sends \in Seq(EventKeys) /\ c.on \in Way(c.target)
         /\ PlaceOf(c) \in Nat \ {0} /\ Whose(c) \in EventKeys
         /\ c.queue \in Seq(Found(c.target, n))
<1>1. c \in EventType /\ OnItsWay(c, n)
  BY DEF FrameOK
<1>2. /\ c.trigger \in BOOLEAN /\ c.target \in Targets /\ c.type \in EventTypes
      /\ c.ns \in Spaces /\ c.action \in BOOLEAN /\ c.path \in Seq(Targets) /\ c.on \in Targets
      /\ c.at \in {"capture", "handle", "inline", "action"}
      /\ c.in \in {"jQuery", "handler", "inline"} /\ c.stopped \in Nat
      /\ c.queue \in Seq(QueueItem) /\ c.sends \in Seq(EventKeys)
  BY <1>1 DEF EventType
<1>3. c.on \in Way(c.target) /\ \A i \in DOMAIN c.queue : c.queue[i].on \in Way(c.target) /\ c.queue[i].b.id <= n
  BY <1>1 DEF OnItsWay
<1>4. PlaceOf(c) \in Nat \ {0}
  BY <1>2, <1>3, PlaceInIs DEF PlaceOf
<1>5. Whose(c) \in EventKeys
  BY <1>2 DEF Whose, EventKeys
<1>6. c.queue \in Seq(Found(c.target, n))
  BY <1>2, <1>3, FoundOnWay
<1> QED BY <1>1, <1>2, <1>3, <1>4, <1>5, <1>6

\* An event that begins.
LEMMA EventBegins ==
  ASSUME EventsAssumption, NEW trigger \in BOOLEAN, NEW e \in Targets, NEW t \in EventTypes,
         NEW ns \in Spaces, NEW action \in BOOLEAN, NEW n \in Nat
  PROVE  LET f == Event(trigger, e, t, ns, action)
             g == [f EXCEPT !.path = <<e>>]
         IN  /\ FrameOK(f, n) /\ ~Acting(f) /\ f.queue = <<>> /\ f.trigger = trigger /\ Whose(f) = <<e, t>>
             /\ FrameOK(g, n) /\ ~Acting(g) /\ g.queue = <<>> /\ g.trigger = trigger
<1>1. e \in Way(e) /\ Path[e] \in Seq(Targets) /\ \A i \in DOMAIN Path[e] : Path[e][i] \in Way(e)
  BY TargetOnWay, ItemOf DEF EventsAssumption
<1>2. ASSUME NEW p \in Seq(Targets), \A i \in DOMAIN p : p[i] \in Way(e), NEW x,
             x = [trigger |-> trigger, target |-> e, type |-> t, ns |-> ns, action |-> action,
                  path |-> p, at |-> "capture",
                  queue |-> <<>>, in |-> "jQuery", on |-> e, stopped |-> 0, prevented |-> ~action,
                  sends |-> <<>>, old |-> FALSE]
      PROVE  /\ FrameOK(x, n) /\ ~Acting(x) /\ x.queue = <<>> /\ x.trigger = trigger /\ Whose(x) = <<e, t>>
             /\ x.target = e /\ x.stopped = 0 /\ x.at = "capture"
  <2>1. /\ x.trigger = trigger /\ x.target = e /\ x.type = t /\ x.path = p /\ x.at = "capture"
        /\ x.queue = <<>> /\ x.in = "jQuery" /\ x.on = e /\ x.stopped = 0 /\ x.sends = <<>>
    BY <1>2
  <2>2. x \in EventType
    <3>1. <<>> \in Seq(QueueItem) /\ <<>> \in Seq(EventKeys) /\ 0 \in Nat /\ FALSE \in BOOLEAN
      OBVIOUS
    <3>2. PICK prevented \in BOOLEAN : prevented = ~action
      OBVIOUS
    <3>3. x = [trigger |-> trigger, target |-> e, type |-> t, ns |-> ns, action |-> action,
               path |-> p, at |-> "capture",
               queue |-> <<>>, in |-> "jQuery", on |-> e, stopped |-> 0, prevented |-> prevented,
               sends |-> <<>>, old |-> FALSE]
      BY <1>2, <3>2, Zenon
    <3> QED BY <3>1, <3>3 DEF EventType
  <2>3. DOMAIN <<>> = {}
    OBVIOUS
  <2>4. OnItsWay(x, n)
    BY <1>1, <1>2, <2>1, <2>3 DEF OnItsWay
  <2>5. InStep(x) /\ Stops(x) /\ Acts(x) /\ ~Acting(x)
    BY <2>1, <2>3 DEF InStep, Stops, Acts, Acting
  <2> QED BY <2>1, <2>2, <2>4, <2>5 DEF FrameOK, Whose
<1>3. <<e>> \in Seq(Targets) /\ \A i \in DOMAIN <<e>> : <<e>>[i] \in Way(e)
  BY <1>1
<1> DEFINE f == Event(trigger, e, t, ns, action)
           g == [f EXCEPT !.path = <<e>>]
           p == IF t \in NoBubble THEN <<e>> ELSE Path[e]
<1>4. p \in Seq(Targets) /\ \A i \in DOMAIN p : p[i] \in Way(e)
  BY <1>1, <1>3
<1>5. /\ FrameOK(f, n) /\ ~Acting(f) /\ f.queue = <<>> /\ f.trigger = trigger /\ Whose(f) = <<e, t>>
      /\ f.target = e /\ f.stopped = 0 /\ f.at = "capture"
  <2> HIDE DEF p
  <2>1. f = [trigger |-> trigger, target |-> e, type |-> t, ns |-> ns, action |-> action,
                  path |-> p, at |-> "capture",
                  queue |-> <<>>, in |-> "jQuery", on |-> e, stopped |-> 0, prevented |-> ~action,
                  sends |-> <<>>, old |-> FALSE]
    BY DEF Event, p
  <2> HIDE DEF f
  <2> QED BY <1>2, <1>4, <2>1
<1>6. FrameOK(g, n) /\ ~Acting(g) /\ g.queue = <<>> /\ g.trigger = trigger
  <2> HIDE DEF f
  <2>1. f \in EventType /\ f.target = e /\ f.on \in Way(e)
    BY <1>5 DEF FrameOK, OnItsWay
  <2>2. /\ g.trigger = f.trigger /\ g.target = f.target /\ g.type = f.type /\ g.path = <<e>>
        /\ g.at = f.at /\ g.queue = f.queue /\ g.in = f.in /\ g.on = f.on /\ g.stopped = f.stopped
        /\ g.sends = f.sends /\ g \in EventType
    BY <1>3, <2>1 DEF EventType
  <2> HIDE DEF g
  <2>3. OnItsWay(g, n)
    BY <1>3, <1>5, <2>1, <2>2 DEF FrameOK, OnItsWay
  <2>4. InStep(g) /\ Acts(g) /\ ~Acting(g) /\ Stops(g)
    BY <1>5, <2>2 DEF FrameOK, InStep, Acts, Acting, Whose, Stops
  <2> QED BY <1>5, <2>2, <2>3, <2>4 DEF FrameOK
<1> QED BY <1>5, <1>6

\* The steps of an event, each with the event as it was and as it is then.
LEMMA Captured1 ==
  ASSUME EventsAssumption, NEW c, NEW n, FrameOK(c, n), c.at = "capture"
  PROVE  LET f == [c EXCEPT !.at = "handle"]
         IN  /\ FrameOK(f, n) /\ ~Acting(f) /\ f.queue = <<>> /\ f.trigger = c.trigger
             /\ Whose(f) = Whose(c)
<1> DEFINE f == [c EXCEPT !.at = "handle"]
<1>1. c \in EventType
  BY DEF FrameOK
<1>2. /\ f.trigger = c.trigger /\ f.target = c.target /\ f.type = c.type /\ f.path = c.path
      /\ f.at = "handle" /\ f.queue = c.queue /\ f.in = c.in /\ f.on = c.on /\ f.stopped = c.stopped
      /\ f.sends = c.sends /\ f \in EventType
  BY <1>1 DEF EventType
<1> HIDE DEF f
<1>3. c.queue = <<>> /\ c.in = "jQuery" /\ c.stopped = 0
  BY <1>1 DEF FrameOK, InStep, Stops, EventType
<1>4. OnItsWay(f, n)
  BY <1>2 DEF FrameOK, OnItsWay
<1>5. InStep(f) /\ Stops(f) /\ Acts(f) /\ ~Acting(f)
  BY <1>2, <1>3 DEF FrameOK, InStep, Stops, Acts, Acting, Whose
<1> QED BY <1>2, <1>3, <1>4, <1>5 DEF FrameOK, Whose, f

LEMMA Handled ==
  ASSUME EventsAssumption, NEW c, NEW n, FrameOK(c, n), c.at = "handle", c.in = "jQuery",
         c.path # <<>>, NEW q \in Seq(Found(c.target, n))
  PROVE  LET f == [c EXCEPT !.at = "inline", !.on = Head(c.path), !.queue = q]
         IN  /\ FrameOK(f, n) /\ ~Acting(f) /\ f.trigger = c.trigger
             /\ Whose(f) = Whose(c) /\ f.queue = q
<1> DEFINE f == [c EXCEPT !.at = "inline", !.on = Head(c.path), !.queue = q]
<1>1. /\ c \in EventType /\ c.path \in Seq(Targets) /\ \A i \in DOMAIN c.path : c.path[i] \in Way(c.target)
  BY DEF FrameOK, OnItsWay, EventType
<1>2. Head(c.path) \in Targets /\ Head(c.path) \in Way(c.target)
  <2>1. Head(c.path) = c.path[1] /\ 1 \in DOMAIN c.path
    BY <1>1
  <2> QED BY <1>1, <2>1
<1>3. q \in Seq(QueueItem) /\ \A i \in DOMAIN q : q[i].on \in Way(c.target) /\ q[i].b.id <= n
  BY FoundOnWay
<1>4. /\ f.trigger = c.trigger /\ f.target = c.target /\ f.type = c.type /\ f.path = c.path
      /\ f.at = "inline" /\ f.queue = q /\ f.in = c.in /\ f.on = Head(c.path) /\ f.stopped = c.stopped
      /\ f.sends = c.sends /\ f \in EventType
  BY <1>1, <1>2, <1>3 DEF EventType
<1> HIDE DEF f
<1>5. c.stopped = 0
  BY DEF FrameOK, Stops
<1>6. OnItsWay(f, n)
  BY <1>2, <1>3, <1>4 DEF FrameOK, OnItsWay
<1>7. InStep(f) /\ Stops(f) /\ Acts(f) /\ ~Acting(f)
  BY <1>4, <1>5 DEF FrameOK, InStep, Stops, Acts, Acting, Whose
<1> QED BY <1>4, <1>6, <1>7 DEF FrameOK, Whose, f

LEMMA HandlerRuns ==
  ASSUME EventsAssumption, NEW c, NEW n, FrameOK(c, n), c.in = "jQuery", c.queue # <<>>
  PROVE  LET f == [c EXCEPT !.in = "handler", !.on = Head(c.queue).on, !.queue = Tail(@)]
         IN  /\ FrameOK(f, n) /\ ~Acting(f) /\ ~Acting(c) /\ f.trigger = c.trigger /\ Whose(f) = Whose(c)
             /\ Head(c.queue) \in QueueItem /\ Head(c.queue).b.id <= n
             /\ <<Head(c.path), c.type>> \in EventKeys
<1> DEFINE f == [c EXCEPT !.in = "handler", !.on = Head(c.queue).on, !.queue = Tail(@)]
           h == Head(c.queue)
           q == Tail(c.queue)
<1>1. /\ c \in EventType /\ c.queue \in Seq(Found(c.target, n)) /\ c.path \in Seq(Targets)
      /\ c.queue \in Seq(QueueItem) /\ c.type \in EventTypes
  BY FrameFields
<1>2. c.at = "inline" /\ c.path # <<>>
  BY DEF FrameOK, InStep
<1>3. <<Head(c.path), c.type>> \in EventKeys
  <2>1. Head(c.path) \in Targets
    BY <1>1, <1>2
  <2> QED BY <1>1, <2>1 DEF EventKeys
<1>4. /\ h = c.queue[1] /\ 1 \in DOMAIN c.queue
      /\ \A i \in DOMAIN q : i + 1 \in DOMAIN c.queue /\ q[i] = c.queue[i + 1]
  BY <1>1
<1>5. h \in Found(c.target, n) /\ q \in Seq(Found(c.target, n))
  BY <1>1, HeadTailProperties
<1>6. h \in QueueItem /\ h.on \in Way(c.target) /\ h.b.id <= n
  BY <1>5 DEF Found
<1>7. q \in Seq(QueueItem) /\ \A i \in DOMAIN q : q[i].on \in Way(c.target) /\ q[i].b.id <= n
  BY <1>5, FoundOnWay
<1>8. h.on \in Targets
  BY <1>6 DEF QueueItem
<1>9. f = [c EXCEPT !.in = "handler", !.on = h.on, !.queue = q]
  OBVIOUS
<1> HIDE DEF f, h, q
<1>10. /\ f.trigger = c.trigger /\ f.target = c.target /\ f.type = c.type /\ f.path = c.path
       /\ f.at = c.at /\ f.queue = q /\ f.in = "handler" /\ f.on = h.on /\ f.stopped = c.stopped
       /\ f.sends = c.sends /\ f \in EventType
  BY <1>1, <1>7, <1>8, <1>9 DEF EventType
<1>11. OnItsWay(f, n)
  BY <1>6, <1>7, <1>10 DEF FrameOK, OnItsWay
<1>12. InStep(f) /\ Acts(f) /\ ~Acting(f)
  BY <1>2, <1>10 DEF FrameOK, InStep, Acts, Acting, Whose
<1>13. Stops(f)
  <2> SUFFICES ASSUME c.stopped # 0
               PROVE  /\ \A i \in DOMAIN q : PlaceIn(c.target, q[i].on) <= c.stopped
                      /\ PlaceIn(c.target, h.on) <= c.stopped
    BY <1>2, <1>10 DEF Stops, PlaceOf
  <2>1. \A i \in DOMAIN c.queue : PlaceIn(c.target, c.queue[i].on) <= c.stopped
    BY DEF FrameOK, Stops
  <2> HIDE DEF PlaceIn
  <2> QED BY <1>4, <2>1
<1> QED BY <1>2, <1>3, <1>6, <1>10, <1>11, <1>12, <1>13 DEF FrameOK, Whose, f, h, Acting

LEMMA InlineRuns ==
  ASSUME EventsAssumption, NEW c, NEW n, FrameOK(c, n), c.in = "jQuery", c.at = "inline",
         c.queue = <<>>, NEW p \in {<<>>, Tail(c.path)}, c.stopped # 0 => p = <<>>,
         NEW w \in {"inline", "jQuery"}
  PROVE  LET f == [c EXCEPT !.at = "handle", !.on = Head(c.path), !.path = p, !.in = w]
         IN  /\ FrameOK(f, n) /\ ~Acting(f) /\ f.trigger = c.trigger /\ Whose(f) = Whose(c)
             /\ f.queue = <<>>
<1> DEFINE f == [c EXCEPT !.at = "handle", !.on = Head(c.path), !.path = p, !.in = w]
           h == Head(c.path)
<1>1. /\ c \in EventType /\ c.path \in Seq(Targets) /\ \A i \in DOMAIN c.path : c.path[i] \in Way(c.target)
      /\ c.path # <<>>
  BY DEF FrameOK, OnItsWay, EventType, InStep
<1>2. h \in Targets /\ h \in Way(c.target)
  <2>1. Head(c.path) = c.path[1] /\ 1 \in DOMAIN c.path
    BY <1>1
  <2> QED BY <1>1, <2>1
<1>3. p \in Seq(Targets) /\ \A i \in DOMAIN p : p[i] \in Way(c.target)
  <2>1. CASE p = <<>>
    BY <2>1
  <2>2. CASE p = Tail(c.path)
    <3>1. \A i \in DOMAIN p : i + 1 \in DOMAIN c.path /\ p[i] = c.path[i + 1]
      BY <1>1, <2>2
    <3> QED BY <1>1, <2>2, <3>1
  <2> QED BY <2>1, <2>2
<1> HIDE DEF h
<1>4. /\ f.trigger = c.trigger /\ f.target = c.target /\ f.type = c.type /\ f.path = p
      /\ f.at = "handle" /\ f.queue = c.queue /\ f.in = w /\ f.on = h /\ f.stopped = c.stopped
      /\ f.sends = c.sends /\ f \in EventType
  BY <1>1, <1>2, <1>3 DEF EventType, h
<1> HIDE DEF f
<1>6. OnItsWay(f, n)
  BY <1>2, <1>3, <1>4 DEF FrameOK, OnItsWay
<1>7. InStep(f) /\ Stops(f) /\ Acts(f) /\ ~Acting(f)
  BY <1>4 DEF FrameOK, InStep, Stops, Acts, Acting, Whose
<1> QED BY <1>4, <1>6, <1>7 DEF FrameOK, Whose, f, h

\* A handler returns: the event keeps the place it was stopped at, and what still runs.
ReturnsTo(c, pr, stops, now) ==
  [c EXCEPT !.in = "jQuery", !.prevented = pr,
            !.stopped = IF stops /\ @ = 0 THEN PlaceOf(c) ELSE @,
            !.queue = QueueLeft(c, stops \/ c.stopped # 0, now)]

LEMMA ReturnedTo ==
  ASSUME EventsAssumption, NEW c, NEW n, FrameOK(c, n), c.in = "handler",
         NEW pr \in BOOLEAN, NEW stops \in BOOLEAN, NEW now \in BOOLEAN, now => stops
  PROVE  LET f == ReturnsTo(c, pr, stops, now)
         IN  /\ FrameOK(f, n) /\ ~Acting(f) /\ ~Acting(c) /\ f.trigger = c.trigger
             /\ Whose(f) = Whose(c) /\ (f.queue # <<>> => c.queue # <<>>)
<1> DEFINE s == IF stops /\ c.stopped = 0 THEN PlaceOf(c) ELSE c.stopped
           same == {i \in DOMAIN c.queue : c.queue[i].on = c.on}
           q == QueueLeft(c, stops \/ c.stopped # 0, now)
           f == [c EXCEPT !.in = "jQuery", !.prevented = pr, !.stopped = s, !.queue = q]
           Here == {x \in Found(c.target, n) : x.on = c.on}
<1>1. /\ c \in EventType /\ c.stopped \in Nat /\ PlaceOf(c) \in Nat \ {0}
      /\ c.queue \in Seq(Found(c.target, n)) /\ c.queue \in Seq(QueueItem)
  BY FrameFields
<1>2. c.at = "inline" /\ c.path # <<>>
  BY DEF FrameOK, InStep
<1>3. c.stopped # 0 => PlaceOf(c) <= c.stopped
  BY DEF FrameOK, Stops
<1> HIDE DEF PlaceOf
<1>4. s \in Nat /\ (s # 0 => PlaceOf(c) <= s) /\ (s # 0 => stops \/ c.stopped # 0)
  BY <1>1, <1>3
<1>5. Those(c.queue, same) \in Seq(Here)
  <2>1. \A i \in DOMAIN c.queue : c.queue[i] \in Found(c.target, n)
    BY <1>1, ItemOf
  <2>2. \A i \in DOMAIN c.queue : i \in same => c.queue[i] \in Here
    BY <2>1
  <2> HIDE DEF same, Here
  <2> QED BY <1>1, <2>2, ThoseOf
<1>6. \/ q = <<>> \/ q = Those(c.queue, same)
      \/ q = c.queue /\ s = 0
  BY <1>4 DEF QueueLeft
<1>7. c.queue = <<>> => Those(c.queue, same) = <<>>
  <2> SUFFICES ASSUME c.queue = <<>> PROVE Those(c.queue, same) = <<>>
    OBVIOUS
  <2>1. c.queue \in Seq({}) /\ \A i \in DOMAIN c.queue : i \in same => c.queue[i] \in {}
    OBVIOUS
  <2> HIDE DEF same
  <2>2. Those(c.queue, same) \in Seq({})
    BY <2>1, ThoseOf
  <2> QED BY <2>2
<1> HIDE DEF q, s, same
<1>8. /\ q \in Seq(QueueItem) /\ \A i \in DOMAIN q : q[i].on \in Way(c.target) /\ q[i].b.id <= n
      /\ q # <<>> /\ s # 0 => \A i \in DOMAIN q : q[i].on = c.on
      /\ q # <<>> => c.queue # <<>>
  <2>1. CASE q = <<>>
    BY <2>1
  <2>2. CASE q = Those(c.queue, same)
    <3>1. \A i \in DOMAIN q : q[i] \in Here
      BY <1>5, <2>2, ItemOf
    <3>2. \A i \in DOMAIN q : q[i] \in Found(c.target, n) /\ q[i].on = c.on
      BY <3>1
    <3>3. q \in Seq(Found(c.target, n))
      <4>1. Len(q) \in Nat /\ DOMAIN q = 1..Len(q) /\ q \in Seq(Here)
        BY <1>5, <2>2
      <4> HIDE DEF Here
      <4> QED BY <3>2, <4>1
    <3> QED BY <1>7, <2>2, <3>2, <3>3, FoundOnWay
  <2>3. CASE q = c.queue /\ s = 0
    BY <1>1, <2>3, FoundOnWay
  <2> QED BY <1>6, <2>1, <2>2, <2>3
<1>10. /\ f.trigger = c.trigger /\ f.target = c.target /\ f.type = c.type /\ f.path = c.path
       /\ f.at = c.at /\ f.queue = q /\ f.in = "jQuery" /\ f.on = c.on /\ f.stopped = s
       /\ f.sends = c.sends /\ f \in EventType
  BY <1>1, <1>4, <1>8 DEF EventType
<1>f. f = ReturnsTo(c, pr, stops, now)
  BY DEF s, q, ReturnsTo
<1> HIDE DEF f
<1>11. OnItsWay(f, n)
  BY <1>8, <1>10 DEF FrameOK, OnItsWay
<1>12. InStep(f) /\ Acts(f) /\ ~Acting(f) /\ ~Acting(c)
  BY <1>2, <1>10 DEF FrameOK, InStep, Acts, Acting, Whose
<1>13. Stops(f)
  <2> SUFFICES ASSUME s # 0 PROVE \A i \in DOMAIN q : PlaceIn(c.target, q[i].on) <= s
    BY <1>2, <1>10 DEF Stops
  <2> SUFFICES ASSUME NEW i \in DOMAIN q PROVE PlaceIn(c.target, q[i].on) <= s
    OBVIOUS
  <2>1. q # <<>>
    OBVIOUS
  <2> QED BY <1>4, <1>8, <2>1 DEF PlaceOf
<1> QED BY <1>8, <1>10, <1>11, <1>12, <1>13, <1>f DEF FrameOK, Whose

LEMMA InlineReturned ==
  ASSUME EventsAssumption, NEW c, NEW n, FrameOK(c, n), c.in = "inline",
         NEW pr \in BOOLEAN, NEW stops \in BOOLEAN
  PROVE  LET f == [c EXCEPT !.in = "jQuery", !.prevented = pr,
                            !.stopped = IF stops /\ @ = 0 THEN PlaceOf(c) ELSE @,
                            !.path = IF stops THEN <<>> ELSE @]
         IN  /\ FrameOK(f, n) /\ ~Acting(f) /\ ~Acting(c) /\ f.trigger = c.trigger
             /\ Whose(f) = Whose(c) /\ f.queue = <<>>
<1> DEFINE s == IF stops /\ c.stopped = 0 THEN PlaceOf(c) ELSE c.stopped
           p == IF stops THEN <<>> ELSE c.path
           f == [c EXCEPT !.in = "jQuery", !.prevented = pr, !.stopped = s, !.path = p]
<1>1. /\ c \in EventType /\ c.stopped \in Nat /\ PlaceOf(c) \in Nat \ {0} /\ c.path \in Seq(Targets)
  BY FrameFields
<1>2. c.at = "handle" /\ c.queue = <<>>
  BY DEF FrameOK, InStep
<1>3. c.stopped # 0 => c.path = <<>>
  BY <1>2 DEF FrameOK, Stops
<1>4. s \in Nat /\ (s # 0 => p = <<>>) /\ p \in Seq(Targets)
  BY <1>1, <1>3
<1>5. \A i \in DOMAIN p : p[i] \in Way(c.target)
  BY DEF FrameOK, OnItsWay
<1>f. f = [c EXCEPT !.in = "jQuery", !.prevented = pr,
                    !.stopped = IF stops /\ @ = 0 THEN PlaceOf(c) ELSE @,
                    !.path = IF stops THEN <<>> ELSE @]
  OBVIOUS
<1> HIDE DEF s, p
<1>10. /\ f.trigger = c.trigger /\ f.target = c.target /\ f.type = c.type /\ f.path = p
       /\ f.at = c.at /\ f.queue = c.queue /\ f.in = "jQuery" /\ f.on = c.on /\ f.stopped = s
       /\ f.sends = c.sends /\ f \in EventType
  BY <1>1, <1>4 DEF EventType
<1> HIDE DEF f
<1>11. OnItsWay(f, n)
  BY <1>5, <1>10 DEF FrameOK, OnItsWay
<1>12. InStep(f) /\ Acts(f) /\ ~Acting(f) /\ ~Acting(c) /\ Stops(f)
  BY <1>2, <1>4, <1>10 DEF FrameOK, InStep, Acts, Acting, Whose, Stops
<1> QED BY <1>2, <1>10, <1>11, <1>12, <1>f DEF FrameOK, Whose

LEMMA Thrown ==
  ASSUME EventsAssumption, NEW c, NEW n, FrameOK(c, n), c.in # "jQuery"
  PROVE  LET f == [c EXCEPT !.in = "jQuery", !.queue = <<>>]
         IN  /\ FrameOK(f, n) /\ ~Acting(f) /\ ~Acting(c) /\ f.trigger = c.trigger
             /\ Whose(f) = Whose(c) /\ f.queue = <<>>
<1> DEFINE f == [c EXCEPT !.in = "jQuery", !.queue = <<>>]
<1>1. c \in EventType /\ <<>> \in Seq(QueueItem)
  BY DEF FrameOK
<1>2. /\ f.trigger = c.trigger /\ f.target = c.target /\ f.type = c.type /\ f.path = c.path
      /\ f.at = c.at /\ f.queue = <<>> /\ f.in = "jQuery" /\ f.on = c.on /\ f.stopped = c.stopped
      /\ f.sends = c.sends /\ f \in EventType
  BY <1>1 DEF EventType
<1>f. f = [c EXCEPT !.in = "jQuery", !.queue = <<>>]
  OBVIOUS
<1> HIDE DEF f
<1>3. OnItsWay(f, n)
  BY <1>2 DEF FrameOK, OnItsWay
<1>4. InStep(f) /\ Stops(f) /\ Acts(f) /\ ~Acting(f) /\ ~Acting(c)
  BY <1>2 DEF FrameOK, InStep, Stops, Acts, Acting, Whose
<1> QED BY <1>2, <1>3, <1>4, <1>f DEF FrameOK, Whose

BeginsAction(c, old, sent) == [c EXCEPT !.at = "action", !.old = old, !.sends = sent]

LEMMA ActionBegins ==
  ASSUME EventsAssumption, NEW c, NEW n, FrameOK(c, n), c.in = "jQuery", c.at = "handle", c.trigger,
         c.path = <<>>, NEW old \in BOOLEAN, NEW sent \in {<<>>, Sends[Whose(c)]}
  PROVE  LET f == BeginsAction(c, old, sent)
         IN  /\ FrameOK(f, n) /\ Acting(f) /\ ~Acting(c) /\ f.trigger = c.trigger
             /\ Whose(f) = Whose(c) /\ f.queue = <<>> /\ f.type = c.type
<1> DEFINE f == [c EXCEPT !.at = "action", !.old = old, !.sends = sent]
<1>1. c \in EventType /\ Whose(c) \in EventKeys
  BY FrameFields
<1>2. sent \in Seq(EventKeys)
  <2>1. Sends[Whose(c)] \in Seq(EventKeys) /\ <<>> \in Seq(EventKeys)
    BY <1>1 DEF EventsAssumption
  <2> QED BY <2>1
<1>3. c.queue = <<>> /\ c.stopped # 0 => c.path = <<>>
  BY DEF FrameOK, InStep, Stops
<1>4. /\ f.trigger = c.trigger /\ f.target = c.target /\ f.type = c.type /\ f.path = c.path
      /\ f.at = "action" /\ f.queue = c.queue /\ f.in = "jQuery" /\ f.on = c.on /\ f.stopped = c.stopped
      /\ f.sends = sent /\ f \in EventType
  BY <1>1, <1>2 DEF EventType
<1>f. f = BeginsAction(c, old, sent)
  BY DEF BeginsAction
<1> HIDE DEF f
<1>5. OnItsWay(f, n)
  BY <1>4 DEF FrameOK, OnItsWay
<1>6. InStep(f) /\ Stops(f) /\ Acting(f) /\ ~Acting(c) /\ f.queue = <<>>
  BY <1>3, <1>4 DEF FrameOK, InStep, Stops, Acting
<1>7. Acts(f)
  BY <1>4 DEF Acts
<1> QED BY <1>4, <1>5, <1>6, <1>7, <1>f DEF FrameOK, Whose

LEMMA SendsNext ==
  ASSUME EventsAssumption, NEW c, NEW n, FrameOK(c, n), Acting(c), c.sends # <<>>
  PROVE  LET f == [c EXCEPT !.sends = Tail(@)]
         IN  /\ FrameOK(f, n) /\ Acting(f) /\ f.trigger = c.trigger
             /\ Whose(f) = Whose(c) /\ f.queue = <<>> /\ f.type = c.type
             /\ Head(c.sends) \in EventKeys
<1> DEFINE f == [c EXCEPT !.sends = Tail(@)]
           t == Tail(c.sends)
<1>1. c \in EventType /\ c.sends \in Seq(EventKeys)
  BY FrameFields
<1>3. Head(c.sends) \in EventKeys
  BY <1>1
<1>4. t \in Seq(EventKeys)
  BY <1>1
<1>f. f = [c EXCEPT !.sends = t]
  OBVIOUS
<1> HIDE DEF f, t
<1>5. /\ f.trigger = c.trigger /\ f.target = c.target /\ f.type = c.type /\ f.path = c.path
      /\ f.at = c.at /\ f.queue = c.queue /\ f.in = c.in /\ f.on = c.on /\ f.stopped = c.stopped
      /\ f.sends = t /\ f \in EventType
  BY <1>1, <1>4, <1>f DEF EventType
<1>6. OnItsWay(f, n)
  BY <1>5 DEF FrameOK, OnItsWay
<1>7. InStep(f) /\ Stops(f) /\ Acting(f) /\ f.queue = <<>>
  BY <1>5 DEF FrameOK, InStep, Stops, Acting, PlaceOf
<1>8. Acts(f)
  BY <1>5 DEF FrameOK, Acts, Acting
<1> QED BY <1>3, <1>5, <1>6, <1>7, <1>8, <1>f DEF FrameOK, Whose, t

LEMMA Prevented ==
  ASSUME NEW c, NEW n, FrameOK(c, n)
  PROVE  LET f == [c EXCEPT !.prevented = TRUE]
         IN  /\ FrameOK(f, n) /\ (Acting(f) <=> Acting(c)) /\ f.trigger = c.trigger
             /\ Whose(f) = Whose(c) /\ f.queue = c.queue /\ f.type = c.type
<1> DEFINE f == [c EXCEPT !.prevented = TRUE]
<1>1. c \in EventType
  BY DEF FrameOK
<1>2. /\ f.trigger = c.trigger /\ f.target = c.target /\ f.type = c.type /\ f.path = c.path
      /\ f.at = c.at /\ f.queue = c.queue /\ f.in = c.in /\ f.on = c.on /\ f.stopped = c.stopped
      /\ f.sends = c.sends /\ f \in EventType
  BY <1>1 DEF EventType
<1>f. f = [c EXCEPT !.prevented = TRUE]
  OBVIOUS
<1> HIDE DEF f
<1>3. OnItsWay(f, n)
  BY <1>2 DEF FrameOK, OnItsWay
<1>4. InStep(f) /\ Stops(f) /\ Acts(f) /\ (Acting(f) <=> Acting(c))
  BY <1>2 DEF FrameOK, InStep, Stops, Acts, Acting, Whose, PlaceOf
<1> QED BY <1>2, <1>3, <1>4, <1>f DEF FrameOK, Whose

-----------------------------------------------------------------------------
\* What is bound, as the invariant has it, and what is left of the invariant.
Bound == Agrees(AllBound) /\ Ids /\ OneIsSpent
Others ==
  /\ cleaned \subseteq Targets /\ muted \subseteq Inline
  /\ triggered \in EventTypes \cup {NoName} /\ eventCalls \in 0..EventCalls
OnStack == Stacked(stack, triggered, reset, eventCalls)

LEMMA InvIs ==
  EventsInv <=> Bound /\ Others /\ OnStack
BY DEF EventsInv, Bound, Others, OnStack

LEMMA BoundStays ==
  ASSUME Bound, UNCHANGED <<bindings, spent>>, eventCalls' \in Nat, eventCalls \in Nat,
         eventCalls <= eventCalls'
  PROVE  Bound'
<1>1. lists' = lists /\ spent' = spent /\ AllBound' = AllBound
  BY DEF bindings, AllBound
<1>2. Agrees(AllBound)'
  BY <1>1 DEF Bound, Agrees
<1>3. Agrees(AllBound) /\ lists \in [EventKeys -> Seq(HandleObj)]
  BY DEF Bound, Agrees, BoundType, AllBound
<1>4. Ids'
  <2>1. \A k \in EventKeys : \A i \in 1..Len(lists'[k]) : lists'[k][i].id \in 1..eventCalls'
    BY <1>1 DEF Bound, Ids
  <2>2. spent' \subseteq HandleObj \X EventKeys
    BY <1>1 DEF Bound, Ids
  <2>3. \A s \in spent : s[1].id \in Nat
    <3>1. \A s \in spent : s[1] \in HandleObj
      BY DEF Bound, Ids
    <3> QED BY <3>1 DEF HandleObj
  <2>4. \A s \in spent' : s[1].id <= eventCalls'
    BY <1>1, <2>3 DEF Bound, Ids
  <2> QED BY <2>1, <2>2, <2>4 DEF Ids
<1>5. OneIsSpent'
  BY <1>1 DEF Bound, OneIsSpent
<1> QED BY <1>2, <1>4, <1>5 DEF Bound

\* What is bound as m is.
LEMMA BoundAsIs ==
  ASSUME NEW m, Agrees(m), BoundAs(m)
  PROVE  AllBound' = m /\ lists' = m.lists /\ Agrees(AllBound)'
<1>1. m \in BoundType
  BY DEF Agrees
<1>2. m = [lists |-> m.lists, delegates |-> m.delegates, listens |-> m.listens, attaches |-> m.attaches]
  BY <1>1 DEF BoundType
<1>3. AllBound' = m
  BY <1>2 DEF AllBound, BoundAs
<1> QED BY <1>3 DEF Agrees, BoundAs

LEMMA ListsAre ==
  ASSUME Bound
  PROVE  /\ Agrees(AllBound) /\ AllBound.lists = lists /\ AllBound.delegates = delegates
         /\ lists \in [EventKeys -> Seq(HandleObj)]
         /\ \A k \in EventKeys : lists[k] \in Seq(HandleObj) /\ Len(lists[k]) \in Nat
                                 /\ DOMAIN lists[k] = 1..Len(lists[k])
                                 /\ delegates[k] \in 0..Len(lists[k])
<1>1. Agrees(AllBound) /\ AllBound.lists = lists /\ AllBound.delegates = delegates
  BY DEF Bound, AllBound
<1>2. lists \in [EventKeys -> Seq(HandleObj)]
  BY <1>1 DEF Agrees, BoundType
<1>3. \A k \in EventKeys : delegates[k] \in 0..Len(lists[k])
  BY <1>1 DEF Agrees, InFrontOf
<1>4. \A k \in EventKeys : lists[k] \in Seq(HandleObj)
  BY <1>2
<1> QED BY <1>1, <1>2, <1>3, <1>4, ItemOf

\* Handlers were removed: the rest is as before.
LEMMA BoundLess ==
  ASSUME EventsAssumption, Bound, NEW ks, ks \subseteq EventKeys, NEW c,
         BoundAs(RemoveFrom(AllBound, ks, c)),
         eventCalls' \in Nat, eventCalls \in Nat, eventCalls <= eventCalls'
  PROVE  /\ Agrees(AllBound)'
         /\ \A k \in EventKeys : \A i \in 1..Len(lists'[k]) :
              /\ lists'[k][i].id \in 1..eventCalls'
              /\ \E n \in 1..Len(lists[k]) : lists'[k][i] = lists[k][n]
              /\ k \in ks => ~MeantBy(c, lists'[k][i])
         /\ spent' = spent => Bound'
<1> DEFINE r == RemoveFrom(AllBound, ks, c)
<1>1. Agrees(AllBound) /\ AllBound.lists = lists
  BY ListsAre
<1>2. Agrees(r) /\ Loses(AllBound, ks, c, r)
  BY <1>1, RemoveKeeps
<1> HIDE DEF r
<1>3. Agrees(AllBound)' /\ lists' = r.lists
  BY <1>2, BoundAsIs DEF r
<1>4. ASSUME NEW k \in EventKeys, NEW i \in 1..Len(lists'[k])
      PROVE  /\ lists'[k][i].id \in 1..eventCalls'
             /\ \E n \in 1..Len(lists[k]) : lists'[k][i] = lists[k][n]
             /\ k \in ks => ~MeantBy(c, lists'[k][i])
  <2>1. /\ \E n \in 1..Len(lists[k]) : lists'[k][i] = lists[k][n]
        /\ k \in ks => ~MeantBy(c, lists'[k][i])
    BY <1>1, <1>2, <1>3 DEF Loses
  <2>2. PICK n \in 1..Len(lists[k]) : lists'[k][i] = lists[k][n]
    BY <2>1
  <2>3. lists[k][n].id \in 1..eventCalls
    BY DEF Bound, Ids
  <2> QED BY <2>1, <2>2, <2>3
<1>5. ASSUME spent' = spent PROVE Bound'
  <2>1. \A s \in spent : s[1].id \in Nat
    <3>1. \A s \in spent : s[1] \in HandleObj
      BY DEF Bound, Ids
    <3> QED BY <3>1 DEF HandleObj
  <2>2. \A s \in spent' : s[1].id <= eventCalls'
    BY <1>5, <2>1 DEF Bound, Ids
  <2>3. Ids'
    BY <1>4, <1>5, <2>2 DEF Bound, Ids
  <2>4. OneIsSpent'
    <3>1. ASSUME NEW k \in EventKeys, NEW i \in DOMAIN lists'[k] PROVE <<lists'[k][i], k>> \notin spent'
      <4>1. i \in 1..Len(lists'[k])
        <5>1. lists' \in [EventKeys -> Seq(HandleObj)]
          BY <1>2, <1>3 DEF Agrees, BoundType
        <5>2. lists'[k] \in Seq(HandleObj)
          BY <5>1
        <5> QED BY <5>2
      <4>2. PICK n \in 1..Len(lists[k]) : lists'[k][i] = lists[k][n]
        BY <1>4, <4>1
      <4>3. n \in DOMAIN lists[k]
        BY ListsAre
      <4> QED BY <1>5, <4>2, <4>3 DEF Bound, OneIsSpent
    <3> QED BY <3>1 DEF OneIsSpent
  <2> QED BY <1>3, <2>3, <2>4 DEF Bound
<1> QED BY <1>3, <1>4, <1>5

\* Calls of the page and of the user.
LEMMA CallIs ==
  ASSUME EventsAssumption, EventsInv, Calls
  PROVE  /\ eventCalls \in Nat /\ eventCalls' \in Nat /\ eventCalls <= eventCalls'
         /\ eventCalls' = eventCalls + 1 /\ eventCalls' \in 0..EventCalls /\ Bound /\ Others /\ OnStack
<1>1. EventCalls \in Nat /\ Bound /\ Others /\ OnStack
  BY InvIs DEF EventsAssumption
<1> QED BY <1>1 DEF Calls, Others

LEMMA StackStays ==
  ASSUME OnStack, UNCHANGED <<stack, triggered, reset>>, eventCalls \in Nat, eventCalls' \in Nat,
         eventCalls <= eventCalls'
  PROVE  OnStack'
<1>1. Stacked(stack, triggered, reset, eventCalls')
  BY Later DEF OnStack
<1> QED BY <1>1 DEF OnStack

LEMMA BindKeeps ==
  ASSUME EventsAssumption, EventsInv, NEW bs \in Bindable, Bind(bs)
  PROVE  EventsInv'
<1>1. /\ Calls /\ BoundAs(AddedBy(AllBound, bs, eventCalls + 1)[Len(bs)])
      /\ UNCHANGED <<cleaned, triggered, muted, stack, spent, reset>>
  BY DEF Bind
<1>2. /\ eventCalls \in Nat /\ eventCalls' \in Nat /\ eventCalls <= eventCalls'
      /\ eventCalls' = eventCalls + 1 /\ eventCalls' \in 0..EventCalls /\ Bound /\ Others /\ OnStack
  BY <1>1, CallIs
<1>3. bs \in Seq(HandleObj)
  BY DEF EventsAssumption
<1> DEFINE id == eventCalls + 1
           r == AddedBy(AllBound, bs, id)[Len(bs)]
<1>4. id = eventCalls' /\ id \in Nat
  BY <1>2
<1>5. Agrees(AllBound) /\ AllBound.lists = lists
  BY <1>2, ListsAre
<1> HIDE DEF id
<1>6. Agrees(r) /\ FromOrNew(AllBound, id, r)
  BY <1>3, <1>4, <1>5, AddedKeeps
<1>7. BoundAs(r)
  BY <1>1 DEF id
<1> HIDE DEF r
<1>8. Agrees(AllBound)' /\ lists' = r.lists
  BY <1>6, <1>7, BoundAsIs
<1>9. \A k \in EventKeys : \A i \in 1..Len(lists'[k]) :
        lists'[k][i].id = id \/ \E n \in 1..Len(lists[k]) : lists'[k][i] = lists[k][n]
  BY <1>5, <1>6, <1>8 DEF FromOrNew
<1>10. \A s \in spent : s[1].id \in Nat /\ s[1].id <= eventCalls
  <2>1. \A s \in spent : s[1] \in HandleObj
    BY <1>2 DEF Bound, Ids
  <2> QED BY <1>2, <2>1 DEF Bound, Ids, HandleObj
<1>11. Ids'
  <2>1. \A k \in EventKeys : \A i \in 1..Len(lists[k]) : lists[k][i].id \in 1..eventCalls
    BY <1>2 DEF Bound, Ids
  <2>2. \A k \in EventKeys : \A i \in 1..Len(lists'[k]) : lists'[k][i].id \in 1..eventCalls'
    BY <1>2, <1>4, <1>9, <2>1
  <2>3. \A s \in spent' : s[1].id <= eventCalls'
    BY <1>1, <1>2, <1>10
  <2> QED BY <1>1, <1>2, <2>2, <2>3 DEF Bound, Ids
<1>12. OneIsSpent'
  <2>1. ASSUME NEW k \in EventKeys, NEW i \in DOMAIN lists'[k] PROVE <<lists'[k][i], k>> \notin spent
    <3>1. i \in 1..Len(lists'[k])
      <4>1. lists' \in [EventKeys -> Seq(HandleObj)]
        BY <1>6, <1>8 DEF Agrees, BoundType
      <4>2. lists'[k] \in Seq(HandleObj)
        BY <4>1
      <4> QED BY <4>2
    <3>2. CASE lists'[k][i].id = id
      <4>1. ASSUME <<lists'[k][i], k>> \in spent PROVE FALSE
        <5>1. <<lists'[k][i], k>>[1].id <= eventCalls
          BY <1>10, <4>1
        <5> QED BY <1>2, <1>4, <3>2, <5>1
      <4> QED BY <4>1
    <3>3. CASE \E n \in 1..Len(lists[k]) : lists'[k][i] = lists[k][n]
      <4>1. PICK n \in 1..Len(lists[k]) : lists'[k][i] = lists[k][n]
        BY <3>3
      <4>2. n \in DOMAIN lists[k]
        BY <1>2, ListsAre
      <4> QED BY <1>2, <4>1, <4>2 DEF Bound, OneIsSpent
    <3> QED BY <1>9, <3>1, <3>2, <3>3
  <2> QED BY <1>1, <2>1 DEF OneIsSpent
<1>13. Others'
  BY <1>1, <1>2 DEF Others
<1>14. OnStack'
  BY <1>1, <1>2, StackStays
<1> QED BY <1>8, <1>11, <1>12, <1>13, <1>14 DEF EventsInv, Others, OnStack

\* off, and the removal of an element.
LEMMA RemoveHandlersKeeps ==
  ASSUME EventsAssumption, EventsInv, Calls, NEW c, c.at \in Targets, c.type \in EventTypes \cup {Every},
         BoundAs(RemoveHandlers(AllBound, c)), UNCHANGED spent
  PROVE  Bound'
<1>1. /\ eventCalls \in Nat /\ eventCalls' \in Nat /\ eventCalls <= eventCalls' /\ Bound
  BY CallIs
<1> DEFINE ks == IF c.type = Every THEN {c.at} \X EventTypes ELSE {KeyOf(c)}
<1>2. ks \subseteq EventKeys
  <2>1. CASE c.type = Every
    BY <2>1 DEF EventKeys
  <2>2. CASE c.type # Every
    <3>1. KeyOf(c) \in EventKeys
      BY <2>2, KeyOfIn
    <3> QED BY <2>2, <3>1
  <2> QED BY <2>1, <2>2
<1>3. BoundAs(RemoveFrom(AllBound, ks, c))
  BY DEF RemoveHandlers
<1> HIDE DEF ks
<1> QED BY <1>1, <1>2, <1>3, BoundLess

LEMMA UnbindKeeps ==
  ASSUME EventsAssumption, EventsInv, NEW c \in Removable, Unbind(c)
  PROVE  EventsInv'
<1>1. /\ Calls /\ BoundAs(RemoveHandlers(AllBound, c))
      /\ UNCHANGED <<cleaned, triggered, muted, stack, spent, reset>>
  BY DEF Unbind
<1>2. /\ eventCalls \in Nat /\ eventCalls' \in Nat /\ eventCalls <= eventCalls'
      /\ eventCalls' \in 0..EventCalls /\ Others /\ OnStack
  BY <1>1, CallIs
<1>3. Bound'
  BY <1>1, RemoveHandlersKeeps DEF EventsAssumption
<1>4. Others'
  BY <1>1, <1>2 DEF Others
<1>5. OnStack'
  BY <1>1, <1>2, StackStays
<1> QED BY <1>3, <1>4, <1>5 DEF EventsInv, Others, OnStack, Bound

LEMMA RemoveElementKeeps ==
  ASSUME EventsAssumption, EventsInv, NEW e \in Targets, RemoveElement(e)
  PROVE  EventsInv'
<1> DEFINE c == Everything(e)
<1>1. /\ Calls /\ BoundAs(RemoveHandlers(AllBound, c)) /\ cleaned' = cleaned \cup {e}
      /\ UNCHANGED <<triggered, muted, stack, spent, reset>>
  BY DEF RemoveElement
<1>2. /\ eventCalls \in Nat /\ eventCalls' \in Nat /\ eventCalls <= eventCalls'
      /\ eventCalls' \in 0..EventCalls /\ Others /\ OnStack
  BY <1>1, CallIs
<1>3. c.at \in Targets /\ c.type \in EventTypes \cup {Every}
  BY DEF Everything
<1> HIDE DEF c
<1>4. Bound'
  BY <1>1, <1>3, RemoveHandlersKeeps
<1>5. Others'
  BY <1>1, <1>2 DEF Others
<1>6. OnStack'
  BY <1>1, <1>2, StackStays
<1> QED BY <1>4, <1>5, <1>6 DEF EventsInv, Others, OnStack, Bound

-----------------------------------------------------------------------------
\* The event at the top of the stack.
LEMMA CurrentIs ==
  ASSUME EventsAssumption, EventsInv, stack # <<>>
  PROVE  /\ Bound /\ Others /\ OnStack /\ stack \in Seq(EventType) /\ eventCalls \in Nat
         /\ Current = Last(stack) /\ FrameOK(Current, eventCalls)
         /\ Len(stack) \in Nat \ {0} /\ stack[Len(stack)] = Current
<1>1. Bound /\ Others /\ OnStack
  BY InvIs
<1>2. stack \in Seq(EventType) /\ eventCalls \in Nat
  BY <1>1 DEF OnStack, Stacked, Others, EventsAssumption
<1>3. Len(stack) \in Nat \ {0} /\ Last(stack) = stack[Len(stack)]
  BY <1>2, SeqEnds
<1>4. FrameOK(stack[Len(stack)], eventCalls)
  BY <1>1, <1>3 DEF OnStack, Stacked
<1> QED BY <1>1, <1>2, <1>3, <1>4 DEF Current

\* A step that leaves alone what is bound and the calls made.
Apart == UNCHANGED <<bindings, eventCalls, spent>>

LEMMA ApartKeeps ==
  ASSUME EventsAssumption, EventsInv, Apart, OnStack', muted' \subseteq Inline,
         triggered' \in EventTypes \cup {NoName}
  PROVE  EventsInv'
<1>1. Bound /\ Others /\ eventCalls \in Nat
  BY InvIs DEF Others, EventsAssumption
<1>2. eventCalls' = eventCalls /\ UNCHANGED <<bindings, spent>> /\ cleaned' = cleaned
  BY DEF Apart, bindings
<1>3. Bound'
  BY <1>1, <1>2, BoundStays
<1>4. Others'
  BY <1>1, <1>2 DEF Others
<1> QED BY <1>3, <1>4 DEF EventsInv, Others, OnStack, Bound

\* The event at the top becomes f, as StackedPut has it.
LEMMA PutKeeps ==
  ASSUME EventsAssumption, EventsInv, stack # <<>>, NEW f, PutEvent(f), FrameOK(f, eventCalls),
         f.trigger = Current.trigger, Whose(f) = Whose(Current), ~Acting(f), ~Acting(Current),
         \/ f.queue = <<>> \/ Current.queue # <<>>
         \/ reset \/ \A i \in 1..(Len(stack) - 1) : ~Again(WithTop(stack, f), i, Len(stack)),
         UNCHANGED <<triggered, eventCalls, reset>>
  PROVE  OnStack'
<1>1. OnStack /\ Current = Last(stack)
  BY CurrentIs
<1>2. stack' = WithTop(stack, f)
  BY DEF PutEvent, WithTop
<1>3. Stacked(WithTop(stack, f), triggered, reset, eventCalls)
  BY <1>1, StackedPut DEF OnStack
<1> QED BY <1>2, <1>3 DEF OnStack

LEMMA InApart ==
  ASSUME EventsInv, UNCHANGED <<bindings, triggered, muted, eventCalls, spent, reset>>
  PROVE  /\ Apart /\ UNCHANGED <<triggered, eventCalls, reset>>
         /\ muted' \subseteq Inline /\ triggered' \in EventTypes \cup {NoName}
<1>1. Others
  BY InvIs
<1> QED BY <1>1 DEF Apart, Others

\* An event is sent or triggered by a call.
LEMMA NewEventKeeps ==
  ASSUME EventsAssumption, EventsInv, Calls, NEW f, FrameOK(f, eventCalls'), ~Acting(f),
         f.queue = <<>>, f.trigger \/ stack = <<>>, PushEvent(f),
         UNCHANGED <<bindings, triggered, muted, spent, reset>>
  PROVE  EventsInv'
<1>1. /\ eventCalls \in Nat /\ eventCalls' \in Nat /\ eventCalls <= eventCalls'
      /\ eventCalls' \in 0..EventCalls /\ Bound /\ Others /\ OnStack
  BY CallIs
<1>2. Stacked(stack, triggered, reset, eventCalls')
  BY <1>1, Later DEF OnStack
<1>3. Stacked(Append(stack, f), triggered, reset, eventCalls')
  BY <1>2, StackedPush
<1>4. OnStack'
  BY <1>3 DEF OnStack, PushEvent
<1>5. Bound'
  BY <1>1, BoundStays
<1>6. Others'
  BY <1>1 DEF Others, bindings
<1> QED BY <1>4, <1>5, <1>6 DEF EventsInv, Others, OnStack, Bound

LEMMA TriggerBegins ==
  ASSUME EventsAssumption, NEW e \in Targets, NEW t \in EventTypes, NEW ns \in Spaces,
         NEW action \in BOOLEAN, NEW n \in Nat
  PROVE  LET f == Event(TRUE, e, t, ns, action)
             g == [f EXCEPT !.path = <<e>>]
         IN  /\ FrameOK(f, n) /\ ~Acting(f) /\ f.queue = <<>> /\ f.trigger
             /\ FrameOK(g, n) /\ ~Acting(g) /\ g.queue = <<>> /\ g.trigger
<1>1. PICK trigger \in BOOLEAN : trigger = TRUE
  OBVIOUS
<1> DEFINE f == Event(trigger, e, t, ns, action)
           g == [f EXCEPT !.path = <<e>>]
<1>2. /\ FrameOK(f, n) /\ ~Acting(f) /\ f.queue = <<>> /\ f.trigger = trigger
      /\ FrameOK(g, n) /\ ~Acting(g) /\ g.queue = <<>> /\ g.trigger = trigger
  BY EventBegins
<1> QED BY <1>1, <1>2, Zenon

LEMMA NativeKeeps ==
  ASSUME EventsAssumption, EventsInv, NEW k \in Triggerable, Native(k[1], k[2])
  PROVE  EventsInv'
<1> DEFINE f == Event(FALSE, k[1], k[2], NoName, TRUE)
<1>1. /\ Calls /\ stack = <<>> /\ PushEvent(f)
      /\ UNCHANGED <<bindings, triggered, muted, spent, reset>>
  BY DEF Native
<1>2. k[1] \in Targets /\ k[2] \in EventTypes /\ NoName \in Spaces /\ eventCalls' \in Nat
  BY <1>1, CallIs DEF EventsAssumption, Spaces
<1>3. FrameOK(f, eventCalls') /\ ~Acting(f) /\ f.queue = <<>>
  BY <1>2, EventBegins
<1> HIDE DEF f
<1> QED BY <1>1, <1>3, NewEventKeeps

LEMMA TriggerKeeps ==
  ASSUME EventsAssumption, EventsInv, NEW k \in Triggerable, NEW only \in BOOLEAN,
         Trigger(k[1], k[2], k[3], only)
  PROVE  EventsInv'
<1>0. PICK action \in BOOLEAN : action = ~only
  OBVIOUS
<1>p. PICK e, t, ns : e = k[1] /\ t = k[2] /\ ns = k[3]
  OBVIOUS
<1> DEFINE f == Event(TRUE, e, t, ns, action)
           g == [f EXCEPT !.path = <<e>>]
<1>1. /\ Calls /\ PushEvent(IF only THEN g ELSE f)
      /\ UNCHANGED <<bindings, triggered, muted, spent, reset>>
  BY <1>0, <1>p, Zenon DEF Trigger
<1>2. e \in Targets /\ t \in EventTypes /\ ns \in Spaces /\ eventCalls' \in Nat
  BY <1>1, <1>p, CallIs DEF EventsAssumption, Spaces
<1>3. /\ FrameOK(f, eventCalls') /\ ~Acting(f) /\ f.queue = <<>> /\ f.trigger
      /\ FrameOK(g, eventCalls') /\ ~Acting(g) /\ g.queue = <<>> /\ g.trigger
  BY <1>2, TriggerBegins
<1> HIDE DEF f, g
<1>4. CASE only
  BY <1>1, <1>3, <1>4, NewEventKeeps
<1>5. CASE ~only
  BY <1>1, <1>3, <1>5, NewEventKeeps
<1> QED BY <1>4, <1>5

LEMMA CaptureKeeps ==
  ASSUME EventsAssumption, EventsInv, Capture
  PROVE  EventsInv'
<1> DEFINE f == [Current EXCEPT !.at = "handle"]
           g == Event(TRUE, Current.target, DelegateType(Current.type), NoName, TRUE)
<1>1. /\ stack # <<>> /\ Current.in = "jQuery" /\ Current.at = "capture"
      /\ \/ stack' = Append(WithTop(stack, f), g)
         \/ PutEvent(f)
      /\ UNCHANGED <<bindings, triggered, muted, eventCalls, spent, reset>>
  BY DEF Capture, WithTop
<1>2. /\ OnStack /\ stack \in Seq(EventType) /\ eventCalls \in Nat
      /\ Current = Last(stack) /\ FrameOK(Current, eventCalls)
  BY <1>1, CurrentIs
<1>3. /\ FrameOK(f, eventCalls) /\ ~Acting(f) /\ f.queue = <<>> /\ f.trigger = Current.trigger
      /\ Whose(f) = Whose(Current)
  BY <1>1, <1>2, Captured1
<1>4. ~Acting(Current)
  BY <1>1 DEF Acting
<1> HIDE DEF f
<1>5. CASE PutEvent(f)
  BY <1>1, <1>3, <1>4, <1>5, PutKeeps, InApart, ApartKeeps
<1>6. CASE stack' = Append(WithTop(stack, f), g)
  <2>1. Stacked(WithTop(stack, f), triggered, reset, eventCalls)
    BY <1>1, <1>2, <1>3, <1>4, StackedPut DEF OnStack
  <2>2. FrameOK(g, eventCalls) /\ ~Acting(g) /\ g.queue = <<>> /\ g.trigger
    <3>1. Current.target \in Targets /\ Current.type \in EventTypes
      BY <1>2, FrameFields
    <3>2. DelegateType(Current.type) \in EventTypes /\ NoName \in Spaces
      BY <3>1 DEF EventsAssumption, Spaces
    <3> QED BY <1>2, <3>1, <3>2, TriggerBegins
  <2> HIDE DEF g
  <2>3. Stacked(Append(WithTop(stack, f), g), triggered, reset, eventCalls)
    BY <2>1, <2>2, StackedPush
  <2>4. OnStack'
    BY <1>1, <1>6, <2>3 DEF OnStack
  <2> QED BY <1>1, <2>4, InApart, ApartKeeps
<1> QED BY <1>1, <1>5, <1>6

\* The event of a trigger's default action does not run the same handlers again.
LEMMA NotAgain ==
  ASSUME EventsAssumption, EventsInv, stack # <<>>, ~Acting(Current), ~reset,
         NEW i \in 1..(Len(stack) - 1), Acting(stack[i]), ~Current.trigger,
         Whose(Current) = Whose(stack[i]),
         \A m \in (i + 1)..(Len(stack) - 1) : Acting(stack[m]) => stack[m].type = stack[i].type
  PROVE  triggered = Current.type
<1> DEFINE n == Len(stack)
           b == stack[n - 1]
<1>1. OnStack /\ n \in Nat \ {0} /\ stack[n] = Current
  BY CurrentIs
<1>2. n \in 2..n /\ n - 1 \in 1..n /\ i \in 1..n /\ (n - 1 = i \/ n - 1 \in (i + 1)..(n - 1))
  BY <1>1
<1>0. b.type = stack[i].type \/ ~Acting(b)
  BY <1>2
<1> HIDE DEF n
<1>3. Acting(b)
  BY <1>1, <1>2 DEF OnStack, Stacked, SentFrames, n
<1>4. triggered = b.type
  <2>1. ASSUME NEW j \in (n - 1 + 1)..n PROVE ~Acting(stack[j])
    <3>1. j = n
      BY <1>1
    <3> QED BY <1>1, <3>1
  <2>2. LastActs(stack, triggered)
    BY <1>1 DEF OnStack, Stacked
  <2> QED BY <1>2, <1>3, <2>1, <2>2 DEF LastActs, n
<1> QED BY <1>0, <1>3, <1>4 DEF Whose

LEMMA HandleKeeps ==
  ASSUME EventsAssumption, EventsInv, Handle
  PROVE  EventsInv'
<1> DEFINE k == <<Head(Current.path), Current.type>>
           runs == (IF Current.trigger THEN lists[k] # <<>> ELSE k \in listens) /\ Handles(k)
           found == Selected(HandlerQueue(k, Current.target), Current.ns)
           q == IF runs THEN found ELSE <<>>
           f == [Current EXCEPT !.at = "inline", !.on = Head(Current.path), !.queue = q]
<1>1. /\ stack # <<>> /\ Current.in = "jQuery" /\ Current.at = "handle"
      /\ Current.queue = <<>> /\ Current.path # <<>> /\ PutEvent(f)
      /\ UNCHANGED <<bindings, triggered, muted, eventCalls, spent, reset>>
  BY DEF Handle
<1>2. /\ Bound /\ OnStack /\ eventCalls \in Nat /\ FrameOK(Current, eventCalls)
  BY <1>1, CurrentIs
<1>3. /\ Current.target \in Targets /\ Current.type \in EventTypes /\ Current.path \in Seq(Targets)
      /\ \A i \in DOMAIN Current.path : Current.path[i] \in Way(Current.target)
  BY <1>2, FrameFields DEF FrameOK, OnItsWay
<1>4. k \in EventKeys /\ k[1] \in Way(Current.target)
  <2>1. Head(Current.path) = Current.path[1] /\ 1 \in DOMAIN Current.path
    BY <1>1, <1>3
  <2>2. Head(Current.path) \in Targets
    BY <1>1, <1>3
  <2> QED BY <1>3, <2>1, <2>2 DEF EventKeys
<1>5. found \in Seq(Found(Current.target, eventCalls))
  <2> DEFINE key == k
  <2>1. key \in EventKeys /\ key[1] \in Way(Current.target)
    BY <1>4
  <2> HIDE DEF key
  <2>2. /\ lists \in [EventKeys -> Seq(HandleObj)] /\ delegates[key] \in 0..Len(lists[key])
        /\ lists[key] \in Seq(HandleObj)
    BY <1>2, <2>1, ListsAre
  <2>3. \A i \in 1..Len(lists[key]) : lists[key][i].id <= eventCalls
    BY <1>2, <2>1 DEF Bound, Ids
  <2>4. HandlerQueue(key, Current.target) \in Seq(Found(Current.target, eventCalls))
    BY <1>3, <2>1, <2>2, <2>3, HandlerQueueIn
  <2> QED BY <2>4, SelectedIn DEF key
<1>6. Handles(k) => triggered # Current.type
  BY DEF Handles
<1>q. q = found \/ q = <<>>
  OBVIOUS
<1>r. q # <<>> => triggered # Current.type
  BY <1>6
<1> HIDE DEF k, found, q, runs
<1>7. q \in Seq(Found(Current.target, eventCalls)) /\ (q # <<>> => triggered # Current.type)
  <2>1. CASE q = found
    BY <1>5, <1>r, <2>1
  <2>2. CASE q = <<>>
    BY <2>2
  <2> QED BY <1>q, <2>1, <2>2
<1>8. /\ FrameOK(f, eventCalls) /\ ~Acting(f) /\ f.trigger = Current.trigger
      /\ Whose(f) = Whose(Current) /\ f.queue = q
  BY <1>1, <1>2, <1>7, Handled, ZenonT(40)
<1>9. ~Acting(Current)
  BY <1>1 DEF Acting
<1> HIDE DEF f
<1>10. f.queue = <<>> \/ reset \/ \A i \in 1..(Len(stack) - 1) : ~Again(WithTop(stack, f), i, Len(stack))
  <2> SUFFICES ASSUME ~reset, NEW i \in 1..(Len(stack) - 1), Again(WithTop(stack, f), i, Len(stack))
               PROVE  FALSE
    OBVIOUS
  <2>1. /\ WithTop(stack, f)[Len(stack)] = f
        /\ \A m \in 1..(Len(stack) - 1) : WithTop(stack, f)[m] = stack[m]
    <3>1. f \in EventType /\ stack \in Seq(EventType)
      BY <1>1, <1>8, CurrentIs DEF FrameOK
    <3> QED BY <1>1, <3>1, Put
  <2>2. \A m \in (i + 1)..(Len(stack) - 1) : m \in 1..(Len(stack) - 1)
    OBVIOUS
  <2>3. /\ Acting(stack[i]) /\ ~Current.trigger /\ Whose(Current) = Whose(stack[i]) /\ q # <<>>
        /\ \A m \in (i + 1)..(Len(stack) - 1) : Acting(stack[m]) => stack[m].type = stack[i].type
    BY <1>8, <2>1, <2>2 DEF Again
  <2>4. triggered = Current.type
    BY <1>1, <1>9, <2>3, NotAgain
  <2> QED BY <1>7, <2>3, <2>4
<1> QED BY <1>1, <1>8, <1>9, <1>10, PutKeeps, InApart, ApartKeeps

\* A handler runs; one bound with one is spent, and none that is left here is meant with it.
LEMMA RunHandlerKeeps ==
  ASSUME EventsAssumption, EventsInv, RunHandler
  PROVE  EventsInv'
<1> DEFINE q == Head(Current.queue)
           k == <<Head(Current.path), Current.type>>
           f == [Current EXCEPT !.in = "handler", !.on = Head(Current.queue).on, !.queue = Tail(@)]
<1>1. /\ stack # <<>> /\ Current.in = "jQuery" /\ Current.queue # <<>> /\ PutEvent(f)
      /\ UNCHANGED <<cleaned, triggered, muted, eventCalls, reset>>
      /\ \/ q.b.one /\ BoundAs(RemoveFrom(AllBound, {k}, SpentBy(q.b))) /\ spent' = spent \cup {<<q.b, k>>}
         \/ UNCHANGED <<lists, delegates, listens, attaches, spent>>
  BY DEF RunHandler
<1>2. /\ Bound /\ Others /\ OnStack /\ eventCalls \in Nat /\ FrameOK(Current, eventCalls)
  BY <1>1, CurrentIs
<1>3. /\ FrameOK(f, eventCalls) /\ ~Acting(f) /\ ~Acting(Current) /\ f.trigger = Current.trigger
      /\ Whose(f) = Whose(Current)
      /\ q \in QueueItem /\ q.b.id <= eventCalls /\ k \in EventKeys
  BY <1>1, <1>2, HandlerRuns
<1> HIDE DEF f
<1>4. OnStack'
  BY <1>1, <1>3, PutKeeps
<1>5. Others'
  BY <1>1, <1>2 DEF Others
<1> DEFINE b == q.b
<1>6. b \in HandleObj /\ b.id <= eventCalls
  BY <1>3, HandleIds
<1> HIDE DEF b, k, q
<1>7. Bound'
  <2>1. CASE UNCHANGED <<lists, delegates, listens, attaches, spent>>
    BY <1>1, <1>2, <2>1, BoundStays DEF bindings
  <2>2. CASE BoundAs(RemoveFrom(AllBound, {k}, SpentBy(b))) /\ spent' = spent \cup {<<b, k>>}
    <3>1. {k} \subseteq EventKeys /\ eventCalls' \in Nat /\ eventCalls <= eventCalls'
      BY <1>1, <1>2, <1>3
    <3>2. /\ Agrees(AllBound)'
          /\ \A x \in EventKeys : \A i \in 1..Len(lists'[x]) :
               /\ lists'[x][i].id \in 1..eventCalls'
               /\ \E n \in 1..Len(lists[x]) : lists'[x][i] = lists[x][n]
               /\ x \in {k} => ~MeantBy(SpentBy(b), lists'[x][i])
      BY <1>2, <2>2, <3>1, BoundLess
    <3>3. Ids'
      <4>1. spent' \subseteq HandleObj \X EventKeys
        BY <1>2, <1>3, <1>6, <2>2 DEF Bound, Ids
      <4>2. \A s \in spent' : s[1].id <= eventCalls'
        <5>1. <<b, k>>[1].id <= eventCalls
          BY <1>6
        <5> QED BY <1>1, <1>2, <2>2, <5>1 DEF Bound, Ids
      <4> QED BY <3>2, <4>1, <4>2 DEF Ids
    <3>4. MeantBy(SpentBy(b), b)
      BY DEF MeantBy, SpentBy
    <3>5. OneIsSpent'
      <4>1. ASSUME NEW x \in EventKeys, NEW i \in DOMAIN lists'[x] PROVE <<lists'[x][i], x>> \notin spent'
        <5>1. i \in 1..Len(lists'[x])
          <6>1. lists' \in [EventKeys -> Seq(HandleObj)]
            BY <3>2 DEF Agrees, BoundType, AllBound
          <6>2. lists'[x] \in Seq(HandleObj)
            BY <6>1
          <6> QED BY <6>2
        <5>2. PICK n \in 1..Len(lists[x]) : lists'[x][i] = lists[x][n]
          BY <3>2, <5>1
        <5>3. <<lists[x][n], x>> \notin spent
          <6>1. n \in DOMAIN lists[x]
            BY <1>2, ListsAre
          <6> QED BY <1>2, <6>1 DEF Bound, OneIsSpent
        <5>4. <<lists'[x][i], x>> # <<b, k>>
          <6>1. ASSUME lists'[x][i] = b, x = k PROVE FALSE
            <7>1. ~MeantBy(SpentBy(b), lists'[x][i])
              BY <3>2, <5>1, <6>1
            <7> QED BY <3>4, <6>1, <7>1
          <6> QED BY <6>1
        <5> QED BY <2>2, <5>2, <5>3, <5>4
      <4> QED BY <4>1 DEF OneIsSpent
    <3> QED BY <3>2, <3>3, <3>5 DEF Bound
  <2> QED BY <1>1, <2>1, <2>2 DEF b
<1> QED BY <1>4, <1>5, <1>7 DEF EventsInv, Others, OnStack, Bound

LEMMA InlineHandlerKeeps ==
  ASSUME EventsAssumption, EventsInv, InlineHandler
  PROVE  EventsInv'
<1> DEFINE p == IF Current.stopped # 0 THEN <<>> ELSE Tail(Current.path)
           w == IF <<Head(Current.path), Current.type>> \in Inline \ muted THEN "inline" ELSE "jQuery"
           f == [Current EXCEPT !.at = "handle", !.on = Head(Current.path), !.path = p, !.in = w]
<1>1. /\ stack # <<>> /\ Current.in = "jQuery" /\ Current.at = "inline" /\ Current.queue = <<>>
      /\ PutEvent(f)
      /\ UNCHANGED <<bindings, triggered, muted, eventCalls, spent, reset>>
  BY DEF InlineHandler
<1>2. FrameOK(Current, eventCalls)
  BY <1>1, CurrentIs
<1>3. p \in {<<>>, Tail(Current.path)} /\ (Current.stopped # 0 => p = <<>>) /\ w \in {"inline", "jQuery"}
  OBVIOUS
<1> HIDE DEF p, w
<1>4. FrameOK(f, eventCalls) /\ ~Acting(f) /\ f.trigger = Current.trigger /\ Whose(f) = Whose(Current)
      /\ f.queue = <<>>
  BY <1>1, <1>2, <1>3, InlineRuns
<1>5. ~Acting(Current)
  BY <1>1 DEF Acting
<1> HIDE DEF f
<1> QED BY <1>1, <1>4, <1>5, PutKeeps, InApart, ApartKeeps

LEMMA ReturnKeeps ==
  ASSUME EventsAssumption, EventsInv, NEW prevents \in BOOLEAN, NEW stops \in BOOLEAN,
         NEW now \in BOOLEAN, Return(prevents, stops, now)
  PROVE  EventsInv'
<1>0. PICK pr \in BOOLEAN : pr = (Current.prevented \/ prevents)
  OBVIOUS
<1> DEFINE f == ReturnsTo(Current, pr, stops, now)
<1>1. /\ stack # <<>> /\ Current.in = "handler" /\ (now => stops) /\ PutEvent(f)
      /\ UNCHANGED <<bindings, triggered, muted, eventCalls, spent, reset>>
  BY <1>0, Zenon DEF Return, ReturnsTo
<1>2. FrameOK(Current, eventCalls)
  BY <1>1, CurrentIs
<1>3. /\ FrameOK(f, eventCalls) /\ ~Acting(f) /\ ~Acting(Current) /\ f.trigger = Current.trigger
      /\ Whose(f) = Whose(Current) /\ (f.queue # <<>> => Current.queue # <<>>)
  BY <1>1, <1>2, ReturnedTo, Zenon
<1> HIDE DEF f
<1> QED BY <1>1, <1>3, PutKeeps, InApart, ApartKeeps

LEMMA ReturnInlineKeeps ==
  ASSUME EventsAssumption, EventsInv, NEW false \in BOOLEAN, NEW stops \in BOOLEAN,
         ReturnInline(false, stops)
  PROVE  EventsInv'
<1>0. PICK pr \in BOOLEAN : pr = (Current.prevented \/ (false /\ ~Current.trigger))
  OBVIOUS
<1> DEFINE f == [Current EXCEPT !.in = "jQuery", !.prevented = pr,
                                !.stopped = IF stops /\ @ = 0 THEN PlaceOf(Current) ELSE @,
                                !.path = IF stops THEN <<>> ELSE @]
<1>1. /\ stack # <<>> /\ Current.in = "inline" /\ PutEvent(f)
      /\ UNCHANGED <<bindings, triggered, muted, eventCalls, spent, reset>>
  BY <1>0, Zenon DEF ReturnInline
<1>2. FrameOK(Current, eventCalls)
  BY <1>1, CurrentIs
<1>3. /\ FrameOK(f, eventCalls) /\ ~Acting(f) /\ ~Acting(Current) /\ f.trigger = Current.trigger
      /\ Whose(f) = Whose(Current) /\ f.queue = <<>>
  BY <1>1, <1>2, InlineReturned, ZenonT(40)
<1> HIDE DEF f
<1> QED BY <1>1, <1>3, PutKeeps, InApart, ApartKeeps

\* The event at the top ends without having acted.
LEMMA PopKeeps ==
  ASSUME EventsAssumption, EventsInv, stack # <<>>, ~Acting(Current)
  PROVE  Stacked(Front(stack), triggered, reset, eventCalls)
<1>1. OnStack /\ Current = Last(stack)
  BY CurrentIs
<1> QED BY <1>1, StackedPop DEF OnStack

LEMMA HandlerThrowsKeeps ==
  ASSUME EventsAssumption, EventsInv, HandlerThrows
  PROVE  EventsInv'
<1> DEFINE f == [Current EXCEPT !.in = "jQuery", !.queue = <<>>]
<1>1. /\ stack # <<>> /\ Current.in # "jQuery" /\ (stack' = Front(stack) \/ PutEvent(f))
      /\ UNCHANGED <<bindings, triggered, muted, eventCalls, spent, reset>>
  BY DEF HandlerThrows
<1>2. FrameOK(Current, eventCalls)
  BY <1>1, CurrentIs
<1>3. /\ FrameOK(f, eventCalls) /\ ~Acting(f) /\ ~Acting(Current) /\ f.trigger = Current.trigger
      /\ Whose(f) = Whose(Current) /\ f.queue = <<>>
  BY <1>1, <1>2, Thrown
<1> HIDE DEF f
<1>4. CASE PutEvent(f)
  BY <1>1, <1>3, <1>4, PutKeeps, InApart, ApartKeeps
<1>5. CASE stack' = Front(stack)
  <2>1. OnStack'
    BY <1>1, <1>3, <1>5, PopKeeps DEF OnStack
  <2> QED BY <1>1, <2>1, InApart, ApartKeeps
<1> QED BY <1>1, <1>4, <1>5

LEMMA InOrNot ==
  ASSUME NEW x, NEW S
  PROVE  \E old \in BOOLEAN : old = (x \in S)
<1>1. CASE x \in S
  <2>1. (x \in S) = TRUE
    BY <1>1
  <2> WITNESS TRUE \in BOOLEAN
  <2> QED BY <2>1, Zenon
<1>2. CASE x \notin S
  <2>1. (x \in S) = FALSE
    BY <1>2
  <2> WITNESS FALSE \in BOOLEAN
  <2> QED BY <2>1, Zenon
<1> QED BY <1>1, <1>2

LEMMA DefaultActionKeeps ==
  ASSUME EventsAssumption, EventsInv, DefaultAction
  PROVE  EventsInv'
<1> DEFINE k == Whose(Current)
           sent == IF Current.target \in cleaned THEN <<>> ELSE Sends[k]
<1>0. PICK old \in BOOLEAN : old = (k \in Inline \ muted)
  BY InOrNot, Zenon
<1> DEFINE f == BeginsAction(Current, old, sent)
<1>1. /\ stack # <<>> /\ Current.in = "jQuery" /\ Current.at = "handle" /\ Current.path = <<>>
      /\ Current.trigger
      /\ muted' = muted \cup ({k} \cap Inline) /\ triggered' = Current.type
      /\ UNCHANGED <<bindings, eventCalls, spent, reset>>
  BY DEF DefaultAction, Arrived, Whose
<1>a. PutEvent(f)
  BY <1>0, Zenon DEF DefaultAction, Whose, BeginsAction
<1>2. /\ OnStack /\ Others /\ Current = Last(stack) /\ FrameOK(Current, eventCalls)
  BY <1>1, CurrentIs
<1>3. sent \in {<<>>, Sends[k]}
  OBVIOUS
<1> HIDE DEF sent
<1>4. /\ FrameOK(f, eventCalls) /\ Acting(f) /\ ~Acting(Current) /\ f.trigger = Current.trigger
      /\ Whose(f) = Whose(Current) /\ f.queue = <<>> /\ f.type = Current.type
  BY <1>1, <1>2, <1>3, ActionBegins, ZenonT(30)
<1>5. stack' = WithTop(stack, f)
  BY <1>a DEF PutEvent, WithTop
<1> HIDE DEF f, k
<1>6. Stacked(WithTop(stack, f), triggered', reset, eventCalls)
  BY <1>1, <1>2, <1>4, StackedPut DEF OnStack
<1>7. OnStack'
  BY <1>1, <1>5, <1>6 DEF OnStack
<1>8. /\ Apart /\ muted' \subseteq Inline /\ triggered' \in EventTypes \cup {NoName}
  <2>1. Current.type \in EventTypes
    BY <1>2, FrameFields
  <2> QED BY <1>1, <1>2, <2>1 DEF Apart, Others
<1> QED BY <1>7, <1>8, ApartKeeps

LEMMA ActionSendsKeeps ==
  ASSUME EventsAssumption, EventsInv, ActionSends
  PROVE  EventsInv'
<1> DEFINE s == Head(Current.sends)
           f == [Current EXCEPT !.sends = Tail(@)]
           g == Event(FALSE, s[1], s[2], NoName, TRUE)
<1>1. /\ stack # <<>> /\ Acting(Current) /\ Current.sends # <<>>
      /\ stack' = Append([stack EXCEPT ![Len(stack)].sends = Tail(@)], g)
      /\ UNCHANGED <<bindings, triggered, muted, eventCalls, spent, reset>>
  BY DEF ActionSends
<1>2. /\ OnStack /\ stack \in Seq(EventType) /\ eventCalls \in Nat /\ Current = Last(stack)
      /\ FrameOK(Current, eventCalls) /\ Len(stack) \in Nat \ {0} /\ stack[Len(stack)] = Current
  BY <1>1, CurrentIs
<1>3. [stack EXCEPT ![Len(stack)].sends = Tail(@)] = WithTop(stack, f)
  BY <1>2 DEF WithTop
<1>4. /\ FrameOK(f, eventCalls) /\ Acting(f) /\ f.trigger = Current.trigger
      /\ Whose(f) = Whose(Current) /\ f.queue = <<>> /\ f.type = Current.type
      /\ s \in EventKeys
  BY <1>1, <1>2, SendsNext
<1> HIDE DEF f, s
<1>5. ~reset => triggered = f.type
  <2> SUFFICES ASSUME ~reset PROVE triggered = Current.type
    BY <1>4
  <2>1. LastActs(stack, triggered)
    BY <1>2 DEF OnStack, Stacked
  <2>2. Len(stack) \in 1..Len(stack) /\ \A j \in (Len(stack) + 1)..Len(stack) : ~Acting(stack[j])
    BY <1>2
  <2> QED BY <1>1, <1>2, <2>1, <2>2 DEF LastActs
<1>6. Stacked(WithTop(stack, f), triggered, reset, eventCalls)
  BY <1>1, <1>2, <1>4, <1>5, StackedPut DEF OnStack
<1>7. /\ FrameOK(g, eventCalls) /\ ~Acting(g) /\ g.queue = <<>> /\ Whose(g) = s
  <2>1. s[1] \in Targets /\ s[2] \in EventTypes /\ NoName \in Spaces /\ s = <<s[1], s[2]>>
    BY <1>4 DEF EventKeys, Spaces
  <2> QED BY <1>2, <2>1, EventBegins, ZenonT(40)
<1> HIDE DEF g
<1>8. Last(WithTop(stack, f)) = f
  <2>1. f \in EventType
    BY <1>4 DEF FrameOK
  <2> QED BY <1>1, <1>2, <2>1, Put
<1>9. Stacked(Append(WithTop(stack, f), g), triggered, reset, eventCalls)
  BY <1>4, <1>6, <1>7, <1>8, StackedPush
<1>10. OnStack'
  BY <1>1, <1>3, <1>9 DEF OnStack
<1> QED BY <1>1, <1>10, InApart, ApartKeeps

LEMMA ActionDoneKeeps ==
  ASSUME EventsAssumption, EventsInv, ActionDone
  PROVE  EventsInv'
<1>1. /\ stack # <<>> /\ stack' = Front(stack) /\ triggered' = NoName
      /\ reset' = \E i \in 1..(Len(stack) - 1) : Acting(stack[i])
      /\ muted' \subseteq muted
      /\ UNCHANGED <<bindings, eventCalls, spent>>
  BY DEF ActionDone
<1>2. OnStack /\ Others
  BY <1>1, CurrentIs
<1>3. Stacked(Front(stack), NoName, reset', eventCalls)
  <2>1. reset' <=> \E i \in 1..(Len(stack) - 1) : Acting(stack[i])
    BY <1>1
  <2> QED BY <1>1, <1>2, <2>1, StackedPop DEF OnStack
<1>4. OnStack'
  BY <1>1, <1>3 DEF OnStack
<1>5. Apart /\ muted' \subseteq Inline /\ triggered' \in EventTypes \cup {NoName}
  BY <1>1, <1>2 DEF Apart, Others
<1> QED BY <1>4, <1>5, ApartKeeps

LEMMA EventEndsKeeps ==
  ASSUME EventsAssumption, EventsInv, EventEnds
  PROVE  EventsInv'
<1> DEFINE rest == Front(stack)
           f == [Last(rest) EXCEPT !.prevented = TRUE]
<1>1. /\ stack # <<>> /\ Current.at = "handle"
      /\ \/ rest # <<>> /\ stack' = [rest EXCEPT ![Len(rest)].prevented = TRUE]
         \/ stack' = rest
      /\ UNCHANGED <<bindings, triggered, muted, eventCalls, spent, reset>>
  BY DEF EventEnds, Arrived
<1>2. ~Acting(Current)
  BY <1>1 DEF Acting
<1>3. Stacked(rest, triggered, reset, eventCalls)
  BY <1>1, <1>2, PopKeeps
<1> HIDE DEF rest
<1>4. CASE stack' = rest
  <2>1. OnStack'
    BY <1>1, <1>3, <1>4 DEF OnStack
  <2> QED BY <1>1, <2>1, InApart, ApartKeeps
<1>5. CASE rest # <<>> /\ stack' = [rest EXCEPT ![Len(rest)].prevented = TRUE]
  <2>1. /\ rest \in Seq(EventType) /\ Len(rest) \in Nat \ {0} /\ Last(rest) = rest[Len(rest)]
    BY <1>3, <1>5, SeqEnds DEF Stacked
  <2>2. FrameOK(Last(rest), eventCalls)
    BY <1>3, <2>1 DEF Stacked
  <2>3. [rest EXCEPT ![Len(rest)].prevented = TRUE] = WithTop(rest, f)
    BY <2>1 DEF WithTop
  <2>4. /\ FrameOK(f, eventCalls) /\ (Acting(f) <=> Acting(Last(rest))) /\ f.trigger = Last(rest).trigger
        /\ Whose(f) = Whose(Last(rest)) /\ f.queue = Last(rest).queue /\ f.type = Last(rest).type
    BY <2>2, Prevented
  <2> HIDE DEF f
  <2>5. Acting(f) => reset \/ triggered = f.type
    <3> SUFFICES ASSUME Acting(f), ~reset PROVE triggered = Last(rest).type
      BY <2>4
    <3>1. LastActs(rest, triggered)
      BY <1>3 DEF Stacked
    <3>2. Len(rest) \in 1..Len(rest) /\ \A j \in (Len(rest) + 1)..Len(rest) : ~Acting(rest[j])
      BY <2>1
    <3> QED BY <2>1, <2>4, <3>1, <3>2 DEF LastActs
  <2>6. Stacked(WithTop(rest, f), triggered, reset, eventCalls)
    BY <1>3, <1>5, <2>4, <2>5, StackedPut
  <2>7. OnStack'
    BY <1>1, <1>5, <2>3, <2>6 DEF OnStack
  <2> QED BY <1>1, <2>7, InApart, ApartKeeps
<1> QED BY <1>1, <1>4, <1>5

-----------------------------------------------------------------------------
LEMMA StartsInv ==
  ASSUME EventsAssumption, EventsInit
  PROVE  EventsInv
<1>1. /\ \A k \in EventKeys : lists[k] = <<>> /\ delegates[k] = 0
      /\ lists = [k \in EventKeys |-> <<>>] /\ delegates = [k \in EventKeys |-> 0]
      /\ listens = {} /\ attaches = [t \in Captured |-> 0] /\ stack = <<>> /\ spent = {} /\ eventCalls = 0
  BY DEF EventsInit
<1>2. AllBound \in BoundType
  <2>1. <<>> \in Seq(HandleObj)
    OBVIOUS
  <2>2. lists \in [EventKeys -> Seq(HandleObj)] /\ delegates \in [EventKeys -> Int]
    BY <1>1, <2>1
  <2>3. attaches \in [Captured -> Int]
    BY <1>1
  <2> QED BY <1>1, <2>2, <2>3 DEF AllBound, BoundType
<1>3. \A k \in EventKeys : InFrontOf(lists[k], delegates[k])
  BY <1>1 DEF InFrontOf
<1>4. \A t \in Captured : attaches[t] = Cardinality(Wanting(t, lists))
  <2> SUFFICES ASSUME NEW t \in Captured PROVE attaches[t] = Cardinality(Wanting(t, lists))
    OBVIOUS
  <2>1. Wanting(t, lists) = {} /\ attaches[t] = 0
    BY <1>1 DEF Wanting
  <2> QED BY <2>1, FS_EmptySet
<1>5. Agrees(AllBound)
  BY <1>1, <1>2, <1>3, <1>4 DEF Agrees, AllBound
<1>6. Ids /\ OneIsSpent
  BY <1>1 DEF Ids, OneIsSpent
<1>7. Stacked(stack, triggered, reset, eventCalls)
  BY <1>1 DEF Stacked, SentFrames, LastActs
<1>8. Others
  BY DEF EventsInit, Others, EventsAssumption
<1> QED BY <1>5, <1>6, <1>7, <1>8 DEF EventsInv, Others

LEMMA NextInv ==
  ASSUME EventsAssumption, EventsInv, [EventsNext]_eventVars
  PROVE  EventsInv'
<1>1. CASE \E bs \in Bindable : Bind(bs)
  BY <1>1, BindKeeps
<1>2. CASE \E c \in Removable : Unbind(c)
  BY <1>2, UnbindKeeps
<1>3. CASE \E e \in Targets : RemoveElement(e)
  BY <1>3, RemoveElementKeeps
<1>4. CASE \E k \in Triggerable : Native(k[1], k[2])
  BY <1>4, NativeKeeps
<1>5. CASE \E k \in Triggerable, only \in BOOLEAN : Trigger(k[1], k[2], k[3], only)
  BY <1>5, TriggerKeeps, Zenon
<1>6. CASE \E prevents, stops, now \in BOOLEAN : Return(prevents, stops, now)
  BY <1>6, ReturnKeeps, Zenon
<1>7. CASE \E false, stops \in BOOLEAN : ReturnInline(false, stops)
  BY <1>7, ReturnInlineKeeps, Zenon
<1>8. CASE UNCHANGED eventVars
  <2>1. /\ UNCHANGED <<bindings, triggered, muted, eventCalls, spent, reset>> /\ stack' = stack
    BY <1>8 DEF eventVars
  <2>2. OnStack'
    BY <2>1, InvIs DEF OnStack
  <2> QED BY <2>1, <2>2, InApart, ApartKeeps
<1> QED
  BY <1>1, <1>2, <1>3, <1>4, <1>5, <1>6, <1>7, <1>8, CaptureKeeps, HandleKeeps, RunHandlerKeeps,
     InlineHandlerKeeps, HandlerThrowsKeeps, DefaultActionKeeps, ActionSendsKeeps, ActionDoneKeeps,
     EventEndsKeeps, Zenon DEF EventsNext

LEMMA EventsInvariant ==
  ASSUME EventsAssumption
  PROVE  EventsSpec => []EventsInv
<1>1. EventsInit => EventsInv
  BY StartsInv
<1>2. EventsInv /\ [EventsNext]_eventVars => EventsInv'
  BY NextInv
<1> QED BY <1>1, <1>2, PTL DEF EventsSpec

\* Every state of the model has its type: what jQuery.event keeps for the elements, the
\* handlers with the number of the call that made each, and the values that steer it.
THEOREM EventsTypeCorrect ==
  ASSUME EventsAssumption
  PROVE  EventsSpec => []EventsTypeOK
<1>1. EventsInv => EventsTypeOK
  <2> SUFFICES ASSUME EventsInv PROVE EventsTypeOK
    OBVIOUS
  <2>1. Bound /\ Others
    BY InvIs
  <2>2. \A k \in EventKeys : DOMAIN lists[k] = 1..Len(lists[k]) /\ delegates[k] \in Nat
    BY <2>1, ListsAre
  <2>3. /\ listens \subseteq EventKeys /\ attaches \in [Captured -> Int]
        /\ \A t \in Captured : attaches[t] = Cardinality(Wanting(t, lists))
        /\ delegates \in [EventKeys -> Int]
    BY <2>1 DEF Bound, Agrees, BoundType, AllBound
  <2>4. attaches \in [Captured -> Nat]
    <3>1. \A t \in Captured : attaches[t] \in Nat
      BY <2>3, KeysFinite
    <3> QED BY <2>3, <3>1
  <2>5. delegates \in [EventKeys -> Nat]
    BY <2>2, <2>3
  <2>6. \A k \in EventKeys : \A i \in DOMAIN lists[k] : lists[k][i].id \in 1..eventCalls
    BY <2>1, <2>2 DEF Bound, Ids
  <2> QED BY <2>1, <2>3, <2>4, <2>5, <2>6 DEF Others, EventsTypeOK
<1> QED BY <1>1, EventsInvariant, PTL

\* However handlers bind, unbind, trigger and remove elements while events run: the browser
\* calls jQuery for exactly the elements and types that have handlers, the document captures
\* focus and blur exactly while some element has a handler for focusin and focusout, and the delegates of a list
\* are the ones in front, as many as delegateCount says.
THEOREM HandlersAgreeAlways ==
  ASSUME EventsAssumption
  PROVE  EventsSpec => []HandlersAgree
<1>1. EventsInv => HandlersAgree
  <2> SUFFICES ASSUME EventsInv PROVE HandlersAgree
    OBVIOUS
  <2>1. Bound
    BY InvIs
  <2>2. ListensIffHandled
    <3>1. \A t \in Captured : attaches[t] = Cardinality(Wanting(t, lists))
      BY <2>1 DEF Bound, Agrees, AllBound
    <3> QED BY <2>1, <3>1 DEF Bound, Agrees, AllBound, ListensIffHandled, Wanting
  <2>3. DelegatesInFront
    <3>1. \A k \in EventKeys : DOMAIN lists[k] = 1..Len(lists[k])
      BY <2>1, ListsAre
    <3> QED BY <2>1, <3>1 DEF Bound, Agrees, AllBound, InFrontOf, DelegatesInFront
  <2> QED BY <2>2, <2>3 DEF HandlersAgree
<1> QED BY <1>1, EventsInvariant, PTL

\* While handlers bind, unbind and trigger: a handler bound with one is unbound for every
\* event after its own, none above the element that stopped an event runs, and the event of
\* a trigger's default action does not run the same handlers again.
THEOREM EventsReachOnceAlways ==
  ASSUME EventsAssumption
  PROVE  EventsSpec => []EventsReachOnce
<1>1. EventsInv => EventsReachOnce
  <2> SUFFICES ASSUME EventsInv PROVE EventsReachOnce
    OBVIOUS
  <2>1. Bound /\ OnStack
    BY InvIs
  <2>2. OneIsSpent
    BY <2>1 DEF Bound
  <2>3. StopsAbove
    <3> SUFFICES ASSUME stack # <<>>, Current.in = "handler", Current.stopped # 0
                 PROVE  PlaceOf(Current) <= Current.stopped
      BY DEF StopsAbove
    <3>1. FrameOK(Current, eventCalls)
      BY CurrentIs
    <3> QED BY <3>1 DEF FrameOK, Stops
  <2>4. TriggersOnce
    <3> SUFFICES ASSUME NEW i \in DOMAIN stack, NEW j \in DOMAIN stack,
                        i < j, Acting(stack[i]), ~stack[j].trigger,
                        stack[j].target = stack[i].target, stack[j].type = stack[i].type, ~reset,
                        \A n \in (i + 1)..(j - 1) : Acting(stack[n]) => stack[n].type = stack[i].type
                 PROVE  stack[j].queue = <<>>
      BY DEF TriggersOnce
    <3>1. stack \in Seq(EventType)
      BY <2>1 DEF OnStack, Stacked
    <3>2. j \in 1..Len(stack) /\ i \in 1..(j - 1)
      <4>1. DOMAIN stack = 1..Len(stack) /\ Len(stack) \in Nat
        BY <3>1, ItemOf
      <4> QED BY <4>1
    <3>3. ~Again(stack, i, j)
      BY <2>1, <3>2 DEF OnStack, Stacked
    <3> QED BY <3>3 DEF Again, Whose
  <2> QED BY <2>2, <2>3, <2>4 DEF EventsReachOnce
<1> QED BY <1>1, EventsInvariant, PTL
=============================================================================
