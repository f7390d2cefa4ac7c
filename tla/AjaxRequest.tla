---------------------------- MODULE AjaxRequest ----------------------------
(***************************************************************************)
(* Requests of jQuery 1.7: ajax, its done and abort, the transports for    *)
(* XMLHttpRequest and for scripts, jsonp, the timeout and the counter that *)
(* ajaxStart and ajaxStop go by.  What has begun is a stack of frames; the *)
(* callbacks that they call are page code, which begins and aborts         *)
(* requests before it returns, or throws.  The browser and the server are  *)
(* external; headers, addresses and data are left out.                     *)
(***************************************************************************)
EXTENDS Integers, FiniteSets, SequencesExt

CONSTANTS
  Requests,    \* numbers, the order in which they are begun
  Options,     \* their options: [transport, async, timeout, global, beforeSend, name]
  None         \* no request; no transport; no name of a jsonp callback

VARIABLES
  begun,       \* requests that were begun
  options,     \* options of each
  stage,       \* state: 0, 1 when it is sent, 2 when it is done
  transport,   \* requests that have one
  callbacks,   \* requests whose transport is to call back
  timers,      \* requests with a timeout that is to come
  counted,     \* fireGlobals
  deferred,    \* pending, resolved or rejected
  completed,   \* requests whose complete callbacks were fired
  active,      \* jQuery.active
  window,      \* by the name of a callback, the request that has installed it
  previous,    \* what it has found there
  container,   \* the jsonp request whose answer each has got
  loading,     \* requests whose script is still to be evaluated
  frames,      \* what has begun: [op, of, at, in, ok]
  reopened,    \* history: requests that were sent after they were done
  shared,      \* history: jsonp requests begun while another one had the same name
  threw        \* history: an exception has passed

request  == <<options, stage, transport, callbacks, timers, counted, deferred, completed>>
jsonp    == <<window, previous, container, loading>>
history  == <<reopened, shared, threw>>
ajaxVars == <<begun, request, active, jsonp, frames, history>>

JsonpNames == {o.name : o \in Options} \ {None}

\* Requests are numbered from 1; the jsonp requests are those of another domain, which are
\* sent as scripts.
AjaxAssumption ==
  /\ Requests \subseteq Nat \ {0} /\ None \notin Requests
  /\ Options # {} /\ \A o \in Options : o.name # None => o.transport = "script"

AjaxInit ==
  /\ begun = 0 /\ options = [r \in Requests |-> CHOOSE o \in Options : TRUE]
  /\ stage = [r \in Requests |-> 0] /\ transport = {} /\ callbacks = {} /\ timers = {}
  /\ counted = {} /\ deferred = [r \in Requests |-> "pending"] /\ completed = {} /\ active = 0
  /\ window = [n \in JsonpNames |-> None] /\ previous = [r \in Requests |-> None]
  /\ container = [r \in Requests |-> None] /\ loading = {} /\ frames = <<>>
  /\ reopened = {} /\ shared = {} /\ threw = FALSE

AjaxTypeOK ==
  /\ options \in [Requests -> Options] /\ stage \in [Requests -> 0..2]
  /\ transport \cup callbacks \cup timers \cup counted \cup completed \subseteq Requests
  /\ deferred \in [Requests -> {"pending", "resolved", "rejected"}]
  /\ active \in Int /\ (reopened = {} => active >= 0)
  /\ \A n \in JsonpNames : window[n] \in Requests \cup {None}
  /\ previous \in [Requests -> Requests \cup {None}]
  /\ container \in [Requests -> Requests \cup {None}]
-----------------------------------------------------------------------------
Frame(op, r, at, in, ok) == [op |-> op, of |-> r, at |-> at, in |-> in, ok |-> ok]

Top  == Last(frames)
Rest == Front(frames)
Step(op, at) == frames # <<>> /\ Top.op = op /\ Top.at = at /\ Top.in = "jQuery"

\* Page code runs: a script, or a callback.
PageActs == frames # <<>> => Top.in = "page"

\* The call goes on at the next step; or calls page code before it does.
GoOn(at)       == frames' = Append(Rest, [Top EXCEPT !.at = at, !.in = "jQuery"])
CallsPage(at)   == frames' = Append(Rest, [Top EXCEPT !.at = at, !.in = "page"])
MayCall(c, at) == IF c THEN CallsPage(at) ELSE GoOn(at)

\* Mutant: a jsonp answer converts though no callback was called.
OutcomesUnconverted(r, status) == IF status = "answer" THEN BOOLEAN ELSE {FALSE}

\* Whether the request succeeds: an answer may be an error or may not convert; a jsonp answer
\* converts only if a callback has put a response into the container.
Outcomes(r, status) ==
  IF status = "answer" /\ (options[r].name # None => container[r] # None)
  THEN BOOLEAN ELSE {FALSE}

\* Mutant: done may be called again.
DoneAgain(r, status, stack) ==
  /\ stage' = [stage EXCEPT ![r] = 2] /\ transport' = transport \ {r} /\ timers' = timers \ {r}
  /\ \E ok \in Outcomes(r, status) :
       frames' = Append(stack, Frame("done", r, "settle", "jQuery", ok))

\* Mutant: the timeout is not cleared.
DoneUncleared(r, status, stack) ==
  IF stage[r] = 2 THEN frames' = stack /\ UNCHANGED <<stage, transport, timers>>
  ELSE /\ stage' = [stage EXCEPT ![r] = 2] /\ transport' = transport \ {r} /\ UNCHANGED timers
       /\ \E ok \in Outcomes(r, status) :
            frames' = Append(stack, Frame("done", r, "settle", "jQuery", ok))

\* done, called once.
Done(r, status, stack) ==
  IF stage[r] = 2 THEN frames' = stack /\ UNCHANGED <<stage, transport, timers>>
  ELSE /\ stage' = [stage EXCEPT ![r] = 2]
       /\ transport' = transport \ {r} /\ timers' = timers \ {r}
       /\ \E ok \in Outcomes(r, status) :
            frames' = Append(stack, Frame("done", r, "settle", "jQuery", ok))

\* The abort of a transport: it does not call back.
AbortTransport(r) == callbacks' = callbacks \ {r}

\* abort, of the transport too if there is one.
AbortRequest(r, stack) ==
  /\ IF r \in transport THEN AbortTransport(r) ELSE UNCHANGED callbacks
  /\ Done(r, "abort", stack)
-----------------------------------------------------------------------------
\* The prefilter for jsonp: the function of the request takes the place of what has its name.
InstallCallback(r, n) ==
  /\ previous' = [previous EXCEPT ![r] = window[n]]
  /\ window' = [window EXCEPT ![n] = r]
  /\ shared' = LET same == {q \in 1..begun : options[q].name = n
                              /\ (q \in loading \/ deferred[q] = "pending")}
               IN  IF same = {} THEN shared ELSE shared \cup same \cup {r}

\* ajax, up to the prefilters, to which the page adds its own.
Begin(o) ==
  /\ PageActs /\ begun + 1 \in Requests /\ begun' = begun + 1
  /\ LET r == begun + 1
         n == o.name
     IN  /\ options' = [options EXCEPT ![r] = o]
         /\ frames' = Append(frames, Frame("ajax", r, "global", "page", FALSE))
         /\ IF n = None THEN UNCHANGED <<window, previous, shared>> ELSE InstallCallback(r, n)
  /\ UNCHANGED <<stage, transport, callbacks, timers, counted, deferred, completed, active,
                 container, loading, reopened, threw>>

\* abort by page code, which has the request from a prefilter on.
Abort(r) ==
  /\ PageActs /\ r <= begun /\ AbortRequest(r, frames)
  /\ UNCHANGED <<begun, options, counted, deferred, completed, active, jsonp, history>>

\* The prefilter for scripts takes the request out of the global events.
Global(r) == options[r].global /\ options[r].transport # "script"

\* Mutant: a request that was aborted in a prefilter is counted before it ends.
StartCounted ==
  /\ Step("ajax", "global")
  /\ IF ~Global(Top.of) THEN UNCHANGED <<active, counted>>
     ELSE counted' = counted \cup {Top.of} /\ active' = active + 1
  /\ IF stage[Top.of] = 2 THEN frames' = Rest
     ELSE MayCall(Global(Top.of) /\ active = 0, "beforeSend")
  /\ UNCHANGED <<begun, options, stage, transport, callbacks, timers, deferred, completed,
                 jsonp, history>>

\* A request that was aborted in a prefilter ends here; the first one of a new set is told.
StartGlobals ==
  /\ Step("ajax", "global")
  /\ IF stage[Top.of] = 2 THEN frames' = Rest /\ UNCHANGED <<active, counted>>
     ELSE IF ~Global(Top.of) THEN GoOn("beforeSend") /\ UNCHANGED <<active, counted>>
     ELSE /\ counted' = counted \cup {Top.of} /\ active' = active + 1
          /\ MayCall(active = 0, "beforeSend")
  /\ UNCHANGED <<begun, options, stage, transport, callbacks, timers, deferred, completed,
                 jsonp, history>>

BeforeSend ==
  /\ Step("ajax", "beforeSend")
  /\ MayCall(options[Top.of].beforeSend, IF options[Top.of].beforeSend THEN "allowed" ELSE "install")
  /\ UNCHANGED <<begun, request, active, jsonp, history>>

\* beforeSend returned false, or has aborted the request.
Allowed(sends) ==
  /\ Step("ajax", "allowed")
  /\ IF sends /\ stage[Top.of] # 2
     THEN GoOn("install") /\ UNCHANGED <<callbacks, stage, transport, timers>>
     ELSE AbortRequest(Top.of, Rest)
  /\ UNCHANGED <<begun, options, counted, deferred, completed, active, jsonp, history>>

\* The callbacks of the options run at once if the request is done already.
Install ==
  /\ Step("ajax", "install") /\ MayCall(deferred[Top.of] # "pending", "transport")
  /\ UNCHANGED <<begun, request, active, jsonp, history>>

\* Mutant: nothing is done without a transport.
GetSomeTransport ==
  /\ Step("ajax", "transport")
  /\ IF options[Top.of].transport = None
     THEN frames' = Rest /\ UNCHANGED <<stage, transport, timers>>
     ELSE /\ transport' = transport \cup {Top.of}
          /\ MayCall(Top.of \in counted, "send") /\ UNCHANGED <<stage, timers>>
  /\ UNCHANGED <<begun, options, callbacks, counted, deferred, completed, active, jsonp, history>>

\* Without a transport the request is done.
GetTransport ==
  /\ Step("ajax", "transport")
  /\ IF options[Top.of].transport = None
     THEN Done(Top.of, "none", Rest)
     ELSE /\ transport' = transport \cup {Top.of}
          /\ MayCall(Top.of \in counted, "send") /\ UNCHANGED <<stage, timers>>
  /\ UNCHANGED <<begun, options, callbacks, counted, deferred, completed, active, jsonp, history>>

\* send of an XMLHttpRequest: the browser refuses it, or there is an answer at once, or one
\* is to come.
SendXhr(r) == IF options[r].async THEN {"throws", "answer", "waits"} ELSE {"throws", "answer"}

\* send of a script, which is put into the document.
SendScript(r) == {"waits"}

\* The request is sent, whether it is done by now or not; send throws if an abort has taken
\* the transport away.
Send ==
  /\ Step("ajax", "send")
  /\ LET r     == Top.of
         o     == options[r]
         sends == IF r \notin transport THEN {"throws"}
                  ELSE IF o.transport = "xhr" THEN SendXhr(r) ELSE SendScript(r)
     IN  /\ reopened' = IF stage[r] = 2 THEN reopened \cup {r} ELSE reopened
         /\ \/ \E status \in sends \ {"waits"}, ok \in BOOLEAN :
                 /\ status = "throws" => ~ok
                 /\ stage' = [stage EXCEPT ![r] = 2] /\ transport' = transport \ {r}
                 /\ timers' = timers \ {r} /\ UNCHANGED <<callbacks, loading>>
                 /\ frames' = Append(Rest, Frame("done", r, "settle", "jQuery", ok))
            \/ /\ "waits" \in sends
               /\ stage' = [stage EXCEPT ![r] = 1] /\ callbacks' = callbacks \cup {r}
               /\ timers' = IF o.async /\ o.timeout THEN timers \cup {r} ELSE timers
               /\ loading' = IF o.transport = "script" THEN loading \cup {r} ELSE loading
               /\ frames' = Rest /\ UNCHANGED transport
  /\ UNCHANGED <<begun, options, counted, deferred, completed, active, window, previous, container,
                 shared, threw>>
-----------------------------------------------------------------------------
\* The browser: an XMLHttpRequest is answered or fails.
Answer(r) ==
  /\ frames = <<>> /\ r \in callbacks /\ options[r].transport = "xhr"
  /\ callbacks' = callbacks \ {r} /\ Done(r, "answer", <<>>)
  /\ UNCHANGED <<begun, options, counted, deferred, completed, active, jsonp, history>>

\* A script is evaluated, though it was taken out of the document; a jsonp script may call
\* the function that has the name now.
Evaluate(r) ==
  /\ frames = <<>> /\ r \in loading /\ loading' = loading \ {r}
  /\ LET n == options[r].name
     IN  \/ n # None /\ window[n] # None /\ container' = [container EXCEPT ![window[n]] = r]
         \/ UNCHANGED container
  /\ UNCHANGED <<begun, request, active, window, previous, frames, history>>

\* Its load event, with which it always succeeds; a script that fails has none.
ScriptLoads(r) ==
  /\ frames = <<>> /\ r \in callbacks /\ options[r].transport = "script" /\ r \notin loading
  /\ callbacks' = callbacks \ {r} /\ Done(r, "answer", <<>>)
  /\ UNCHANGED <<begun, options, counted, deferred, completed, active, jsonp, history>>

Timeout(r) ==
  /\ frames = <<>> /\ r \in timers
  /\ IF r \in transport THEN AbortTransport(r) ELSE UNCHANGED callbacks
  /\ IF stage[r] = 2 THEN timers' = timers \ {r} /\ UNCHANGED <<stage, transport, frames>>
                     ELSE Done(r, "timeout", <<>>)
  /\ UNCHANGED <<begun, options, counted, deferred, completed, active, jsonp, history>>
-----------------------------------------------------------------------------
\* When a jsonp request is settled, the name of its callback goes back to what was there, and
\* a function that was there gets the response.
RestoreCallback(r, n) ==
  /\ window' = [window EXCEPT ![n] = previous[r]]
  /\ container' = IF previous[r] # None /\ container[r] # None
                  THEN [container EXCEPT ![previous[r]] = container[r]]
                  ELSE container

\* The rest of done.  The deferred is settled once.
Settle ==
  /\ Step("done", "settle")
  /\ LET r == Top.of
         n == options[r].name
     IN  IF deferred[r] # "pending"
         THEN GoOn("event") /\ UNCHANGED <<deferred, window, container>>
         ELSE /\ deferred' = [deferred EXCEPT ![r] = IF Top.ok THEN "resolved" ELSE "rejected"]
              /\ CallsPage("event")
              /\ IF n = None THEN UNCHANGED <<window, container>> ELSE RestoreCallback(r, n)
  /\ UNCHANGED <<begun, options, stage, transport, callbacks, timers, counted, completed, active,
                 previous, loading, history>>

\* Mutant: the counter comes before the complete callbacks.
EventThenCounter ==
  /\ Step("done", "event")
  /\ MayCall(Top.of \in counted, IF Top.of \in counted THEN "counter" ELSE "complete")
  /\ UNCHANGED <<begun, request, active, jsonp, history>>

\* ajaxSuccess or ajaxError.
OutcomeEvent ==
  /\ Step("done", "event") /\ MayCall(Top.of \in counted, "complete")
  /\ UNCHANGED <<begun, request, active, jsonp, history>>

Complete ==
  /\ Step("done", "complete")
  /\ MayCall(Top.of \notin completed, "ajaxComplete") /\ completed' = completed \cup {Top.of}
  /\ UNCHANGED <<begun, options, stage, transport, callbacks, timers, counted, deferred, active,
                 jsonp, history>>

AjaxComplete ==
  /\ Step("done", "ajaxComplete")
  /\ IF Top.of \in counted THEN CallsPage("counter") ELSE frames' = Rest
  /\ UNCHANGED <<begun, request, active, jsonp, history>>

\* The last of a set is followed by ajaxStop.
Counter ==
  /\ Step("done", "counter") /\ active' = active - 1
  /\ IF active = 1 THEN CallsPage("stopped") ELSE frames' = Rest
  /\ UNCHANGED <<begun, request, jsonp, history>>

Stopped ==
  /\ Step("done", "stopped") /\ frames' = Rest
  /\ UNCHANGED <<begun, request, active, jsonp, history>>

\* Page code returns to jQuery, or throws: what has begun is given up, up to the page code
\* that catches it.
CalleeReturns ==
  /\ frames # <<>> /\ Top.in = "page" /\ GoOn(Top.at)
  /\ UNCHANGED <<begun, request, active, jsonp, history>>

CalleeThrows ==
  /\ frames # <<>> /\ Top.in = "page" /\ threw' = TRUE
  /\ \E n \in 0..Len(Rest) : (n > 0 => frames[n].in = "page") /\ frames' = SubSeq(frames, 1, n)
  /\ UNCHANGED <<begun, request, active, jsonp, reopened, shared>>

Runs ==
  \/ StartGlobals \/ BeforeSend \/ Install \/ GetTransport \/ Send
  \/ \E sends \in BOOLEAN : Allowed(sends)
  \/ Settle \/ OutcomeEvent \/ Complete \/ AjaxComplete \/ Counter \/ Stopped \/ CalleeReturns

AjaxNext ==
  \/ Runs \/ CalleeThrows
  \/ \E o \in Options : Begin(o)
  \/ \E r \in Requests : Abort(r) \/ Answer(r) \/ Evaluate(r) \/ ScriptLoads(r) \/ Timeout(r)

\* What has begun goes on, timeouts come, and the browser ends what it was sent, except that
\* a script may never load.
AjaxSpec ==
  /\ AjaxInit /\ [][AjaxNext]_ajaxVars /\ WF_ajaxVars(Runs)
  /\ \A r \in Requests : WF_ajaxVars(Answer(r)) /\ WF_ajaxVars(Timeout(r))
-----------------------------------------------------------------------------
Closed(r) == stage[r] = 2 /\ \A i \in DOMAIN frames : frames[i].of # r

\* When nothing runs, jQuery.active is the number of requests with global events that are
\* not done, whatever was aborted, timed out or begun from callbacks, unless one threw or a
\* request was sent after it had been aborted.
CountsWhenIdle ==
  frames = <<>> /\ reopened = {} /\ ~threw =>
    active = Cardinality({r \in counted : stage[r] # 2})

\* When ajaxStop is triggered, every request that was counted is done, and its complete
\* callbacks have run.
StopsWhenQuiet ==
  frames # <<>> /\ Top.at = "stopped" /\ Top.in = "page" /\ reopened = {} /\ ~threw =>
    \A r \in counted : active = 0 => stage[r] = 2 /\ r \in completed

\* jQuery.active is the number of counted requests that have not ended, and ajaxStop comes
\* when nothing of a set is left.
ActiveCounts == CountsWhenIdle /\ StopsWhenQuiet

\* The global event of a request says what its deferred says.
EventsAgree ==
  \A i \in DOMAIN frames :
    frames[i].op = "done" /\ frames[i].of \notin reopened /\ frames[i].at # "settle" =>
      deferred[frames[i].of] = (IF frames[i].ok THEN "resolved" ELSE "rejected")

\* No timeout is left of a request that is done.
NoTimerLeft == frames = <<>> => \A r \in timers : stage[r] = 1

\* A jsonp request that succeeds has the response of its own script, unless another one used
\* its name before its script was evaluated.
OwnResponse ==
  \A r \in Requests \ shared :
    deferred[r] = "resolved" /\ options[r].name # None => container[r] = r

\* A request ends once: its outcome and the events that tell it agree, no timeout is left of
\* it, and a jsonp request that succeeds has its own response.
OutcomesAgree == EventsAgree /\ NoTimerLeft /\ OwnResponse

\* jquery-1.7.js:7722 says of jQuery.active "Counter for holding the number of active
\* queries": when nothing runs and nothing has thrown, it is the number of requests that
\* were counted and are not done.
ActiveIsTheNumber ==
  frames = <<>> /\ ~threw => active = Cardinality({r \in counted : stage[r] # 2})

\* Every request of an XMLHttpRequest, and every one that has a timeout, is completed.
AllComplete ==
  \A r \in Requests :
    (begun >= r /\ (options[r].transport # "script" \/ options[r].timeout))
      ~> (r \in completed \/ threw)
=============================================================================
