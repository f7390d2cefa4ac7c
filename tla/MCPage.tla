------------------------------- MODULE MCPage -------------------------------
(* What a page waits for, for TLC: its ready functions, its effects, its    *)
(* requests.  The three only share the stack of the page's calls and the    *)
(* timeouts of the browser.  A behaviour is one of one part, the others     *)
(* rest.                                                                    *)
EXTENDS DocumentReady, TLC

CONSTANTS
  Elements, Durations, Properties, e1, e2, MaxCalls,
  Requests, None

VARIABLES
  scene,
  arrays, queue, run, items, fxTimers, interval, delays, marks, defer, deferrals, promises,
  fxFrames, script, calls, loose, robbed, spoiled,
  begun, options, stage, transport, callbacks, ajaxTimers, counted, deferred, completed, active,
  window, previous, container, loading, frames, reopened, shared, threw
-----------------------------------------------------------------------------
Page(kinds, on, max) == [calls |-> kinds, on |-> on, max |-> max]

PageScripts == {
  Page({"animation", "stop"}, {e1, e2}, 3),
  Page({"animation", "unqueued", "delay", "clearQueue", "stop", "promise", "function"}, {e1}, 2),
  Page({"function", "stop", "promise"}, {e1}, 4),
  Page({"delay", "unqueued", "stop", "promise"}, {e1}, 3)}

F == INSTANCE Effects WITH
       FxElements <- Elements, Scripts <- PageScripts, EffectCalls <- MaxCalls,
       fxScript <- script, fxCalls <- calls
-----------------------------------------------------------------------------
Request(kind, async, timeout, global, beforeSend, name) ==
  [transport |-> kind, async |-> async, timeout |-> timeout, global |-> global,
   beforeSend |-> beforeSend, name |-> name]

\* Requests with and without a timeout, and one without a transport.
Asked == {
  Request("xhr", TRUE, TRUE, TRUE, FALSE, None), Request("script", TRUE, TRUE, FALSE, FALSE, "cb"),
  Request("xhr", TRUE, FALSE, FALSE, FALSE, None), Request(None, TRUE, FALSE, FALSE, FALSE, None)}

A == INSTANCE AjaxRequest WITH
       Options <- Asked, timers <- ajaxTimers
-----------------------------------------------------------------------------
effects  == <<arrays, queue, run, items, fxTimers, interval, delays, marks, defer, deferrals,
              promises, fxFrames, script, calls, loose, robbed, spoiled>>
requests == <<begun, options, stage, transport, callbacks, ajaxTimers, counted, deferred,
              completed, active, window, previous, container, loading, frames, reopened, shared,
              threw>>
pageVars == <<scene, vars, effects, requests>>

\* A step of one part.
OfReady(act)   == scene = "ready" /\ act /\ UNCHANGED <<scene, effects, requests>>
OfEffects(act) == scene = "effects" /\ act /\ UNCHANGED <<scene, vars, requests>>
OfAjax(act)    == scene = "ajax" /\ act /\ UNCHANGED <<scene, vars, effects>>

PageInit ==
  /\ scene \in {"ready", "effects", "ajax"} /\ Init /\ F!EffectsInit /\ A!AjaxInit
  /\ scene # "ready" => browser = "w3c"
  /\ scene # "effects" => script = CHOOSE s \in PageScripts : TRUE

PageNext == OfReady(Next) \/ OfEffects(F!EffectsNext) \/ OfAjax(A!AjaxNext)

\* The fairness of each part.
PageFairness ==
  /\ WF_pageVars(OfReady(ParseBody)) /\ WF_pageVars(OfReady(Interactive))
  /\ WF_pageVars(OfReady(Complete)) /\ WF_pageVars(OfReady(DOMContentLoaded))
  /\ WF_pageVars(OfReady(ReadyStateChange)) /\ WF_pageVars(OfReady(Load))
  /\ WF_pageVars(OfReady(Timer)) /\ WF_pageVars(OfReady(Calls))
  /\ WF_pageVars(OfEffects(F!EffectsRun)) /\ WF_pageVars(OfEffects(F!Tick))
  /\ WF_pageVars(OfAjax(A!Runs))
  /\ \A r \in Requests : WF_pageVars(OfAjax(A!Answer(r))) /\ WF_pageVars(OfAjax(A!Timeout(r)))

PageSpec == PageInit /\ [][PageNext]_pageVars /\ PageFairness
-----------------------------------------------------------------------------
\* What was begun ends: every queue runs empty, every promise of effects is resolved and
\* every request is completed.
WhatBeganEnds == F!QueuesDrain /\ F!PromisesResolve /\ A!AllComplete
=============================================================================
