-------------------------- MODULE PublicCallbacks --------------------------
(***************************************************************************)
(* One list that a page creates with jQuery.Callbacks and any flags, and   *)
(* every method of it, called from scripts or from the callbacks that a    *)
(* fire has called.  The page makes at most PublicOps calls; what a list   *)
(* is fired with is the number of the call.                                *)
(***************************************************************************)
EXTENDS Integers, FiniteSets, SequencesExt

CONSTANTS
  FlagSets,    \* what jQuery.Callbacks can be called with; a list is named by its flags
  Callbacks, PublicOps,
  Undefined, Nobody, True

VARIABLES
  public,        \* the variables of each list
  publicFrames,  \* the fires that have begun and not ended
  chosen,        \* the list
  publicOps,     \* calls the page has made
  batch,         \* history: the fire that runs
  shut,          \* history: disabled; or the value the list was locked with
  disturbed      \* history: an exception left the fire, or the list was emptied in one

publicVars == <<public, publicFrames, chosen, publicOps, batch, shut, disturbed>>

CB == INSTANCE CallbackLists WITH
        Lists <- FlagSets, Flags <- [k \in FlagSets |-> k],
        NoValue <- Undefined, NoCallback <- Nobody, Plain <- True,
        cb <- public, fires <- publicFrames

PublicAssumption ==
  /\ Nobody \notin Callbacks /\ Undefined \notin Nat /\ True \notin Nat \cup {Undefined}

\* Whether the fire began with the whole list, what it has called and was not removed
\* since, whether it was halted.
Batch(whole) == [whole |-> whole, heard |-> {}, halted |-> FALSE]

PublicInit ==
  /\ chosen \in FlagSets /\ public = [k \in FlagSets |-> CB!NewList(<<>>)] /\ publicFrames = <<>>
  /\ publicOps = 0 /\ batch = Batch(FALSE) /\ shut = Undefined /\ disturbed = FALSE

PublicCalls ==
  CB!PageRuns /\ publicOps < PublicOps /\ publicOps' = publicOps + 1 /\ UNCHANGED chosen

Begins == Len(publicFrames') > Len(publicFrames)

PublicAdd(f) ==
  /\ PublicCalls /\ CB!Goto(CB!Add(CB!Now, chosen, f))
  /\ batch' = IF Begins THEN Batch(FALSE) ELSE batch
  /\ UNCHANGED <<shut, disturbed>>

PublicRemove(f) ==
  /\ PublicCalls
  /\ public' = [public EXCEPT ![chosen] = IF @.on THEN CB!Removed(@, f) ELSE @]
  /\ batch' = [batch EXCEPT !.heard = @ \ {f}]
  /\ UNCHANGED <<publicFrames, shut, disturbed>>

PublicEmpty ==
  /\ PublicCalls /\ public' = [public EXCEPT ![chosen] = CB!Emptied(@)]
  /\ disturbed' = (disturbed \/ public[chosen].firing)
  /\ UNCHANGED <<publicFrames, batch, shut>>

PublicDisable ==
  /\ PublicCalls /\ public' = [public EXCEPT ![chosen] = CB!Disabled(@)] /\ shut' = True
  /\ UNCHANGED <<publicFrames, batch, disturbed>>

PublicLock ==
  /\ PublicCalls /\ public' = [public EXCEPT ![chosen] = CB!Locked(@)]
  /\ shut' = IF shut # Undefined THEN shut
             ELSE IF CB!Remembers(public[chosen]) THEN public[chosen].memory ELSE True
  /\ UNCHANGED <<publicFrames, batch, disturbed>>

PublicFire ==
  /\ PublicCalls /\ CB!Goto(CB!FireWith(CB!Now, chosen, publicOps))
  /\ batch' = IF Begins THEN Batch(TRUE) ELSE batch
  /\ UNCHANGED <<shut, disturbed>>

CallNext ==
  /\ CB!Call /\ batch' = [batch EXCEPT !.heard = @ \cup {CB!NextCallback}]
  /\ UNCHANGED <<chosen, publicOps, shut, disturbed>>

ReturnFrom(false) ==
  /\ CB!Returns(false)
  /\ batch' = [batch EXCEPT !.halted = false /\ "stopOnFalse" \in chosen]
  /\ UNCHANGED <<chosen, publicOps, shut, disturbed>>

PublicFireEnds ==
  /\ CB!EndFire
  /\ batch' = Batch(TRUE)
  /\ UNCHANGED <<chosen, publicOps, shut, disturbed>>

ThrowOut == CB!Throw /\ disturbed' = TRUE /\ UNCHANGED <<chosen, publicOps, batch, shut>>

PublicNext ==
  \/ \E f \in Callbacks : PublicAdd(f) \/ PublicRemove(f)
  \/ PublicEmpty \/ PublicDisable \/ PublicLock \/ PublicFire
  \/ CallNext \/ PublicFireEnds \/ ThrowOut
  \/ \E false \in BOOLEAN : ReturnFrom(false)

PublicSpec == PublicInit /\ [][PublicNext]_publicVars
-----------------------------------------------------------------------------
\* Whatever callbacks add and remove while a fire calls them, it neither calls one twice
\* nor passes one over: in a list without duplicates a callback is called again in a fire
\* only when it was removed and added again, and a fire of the whole list that nothing
\* halted has called all that the list holds when it ends.  A list that was emptied while
\* it fired, or that an exception left firing, promises nothing.
EachOnce ==
  [][/\ CallNext /\ "unique" \in chosen /\ ~disturbed => CB!NextCallback \notin batch.heard
     /\ PublicFireEnds /\ batch.whole /\ ~batch.halted /\ ~disturbed =>
          ToSet(public[chosen].list) \subseteq batch.heard
    ]_publicVars

\* A list that was disabled calls nothing any more, and one that was locked calls with
\* nothing but the value it had then, also when callbacks do it to the list that calls
\* them and when it is emptied, filled or fired afterwards.  Emptied while it fires, even
\* a disabled list goes on: empty makes it a list again under the loop.
ShutStays ==
  [][CallNext /\ shut # Undefined /\ ~disturbed => shut # True /\ CB!TopFire.value = shut]_publicVars

\* Whatever callbacks do to the list of jQuery.Callbacks that is calling them, a fire calls
\* none twice and, unless it is halted, passes none over; after disable nothing is called,
\* after lock only with the value the list had then.
CalledWhileListed == EachOnce /\ ShutStays
=============================================================================
