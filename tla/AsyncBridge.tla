----------------------------- MODULE AsyncBridge -----------------------------
(***************************************************************************)
(* The asynchronous request bridge: AsyncSession._execute_async registers  *)
(* a future and a defensive timer, RequestAsync starts a goroutine, the    *)
(* goroutine calls _on_async_response on a thread of its own, and that     *)
(* hands the C response to the event loop, which unpacks and frees it.     *)
(* The reply races with the defensive timer, with cancellation by the      *)
(* user, with AsyncSession.close() and with the closing of the loop.       *)
(*                                                                         *)
(* The event loop is one thread: a coroutine between two awaits, a ready   *)
(* callback and a timer callback exclude one another.  Everything else     *)
(* (goroutine callbacks, close()) interleaves with it at every step.       *)
(***************************************************************************)
EXTENDS Naturals, Sequences

CONSTANTS Reqs,           \* request ids; each is used once (_next_request_id)
          Owned           \* the requests made through the session that is closed

ASSUME BridgeAssumption == Owned \subseteq Reqs

VARIABLES
    sub,        \* where _execute_async stands, per request
    pend,       \* _pending_requests
    fut,        \* the future
    timer,      \* the defensive timer
    gor,        \* where the goroutine and its callback stand
    reply,      \* the ResponseResult* the callback was given
    got,        \* the callback popped the entry (future is not None)
    frees,      \* how often FreeResponse ran on the reply
    queue,      \* the loop's ready queue: call_soon_threadsafe appends
    loopClosed, \* loop.close() was called
    closed,     \* _session._closed
    closer,     \* where AsyncSession.close() stands
    toCancel    \* ... its to_cancel

vars == <<sub, pend, fut, timer, gor, reply, got, frees, queue, loopClosed,
          closed, closer, toCancel>>
reqVars   == <<sub, fut, timer>>
goVars    == <<gor, reply, got>>
closeVars == <<closed, closer, toCancel>>

Settled == {"result", "error", "cancelled"}
Done(r) == fut[r] \in Settled

\* Callbacks the loop can find in its ready queue.
CancelTimer(r) == [do |-> "cancelTimer", req |-> r]  \* timeout_handle.cancel
Fail(r)        == [do |-> "fail", req |-> r]         \* _apply_future_state(exc)
Resolve(r)     == [do |-> "resolve", req |-> r]      \* _resolve_async_response
Callbacks == [do : {"cancelTimer", "fail", "resolve"}, req : Reqs]

In(c, q)  == \E i \in DOMAIN q : q[i] = c
Queued(c) == In(c, queue)

\* call_soon_threadsafe raises RuntimeError on a closed loop; every caller but
\* CbSchedule swallows that.
Enqueue(c) == queue' = IF loopClosed THEN queue ELSE Append(queue, c)

\* The loop thread is inside a coroutine that has not reached its await.
Submitting == {"checked", "registered", "dispatched", "inCallback"}
LoopFree == ~loopClosed /\ \A r \in Reqs : sub[r] \notin Submitting
-----------------------------------------------------------------------------
Init ==
    /\ sub = [r \in Reqs |-> "new"]
    /\ pend = {} /\ toCancel = {} /\ queue = << >>
    /\ fut = [r \in Reqs |-> "none"]
    /\ timer = [r \in Reqs |-> "none"]
    /\ gor = [r \in Reqs |-> "none"]
    /\ reply = [r \in Reqs |-> "none"]
    /\ got = [r \in Reqs |-> FALSE]
    /\ frees = [r \in Reqs |-> 0]
    /\ loopClosed = FALSE /\ closed = FALSE /\ closer = "idle"
-----------------------------------------------------------------------------
(* _execute_async, on the loop thread.                                     *)

\* The closed test; then the options are resolved and built, without an
\* await, and may be refused (an unusable value, a library that is too old).
Check(r) ==
    /\ LoopFree /\ sub[r] = "new"
    /\ \E next \in {"checked", "raised"} :
         /\ closed /\ r \in Owned => next = "raised"
         /\ sub' = [sub EXCEPT ![r] = next]
    /\ UNCHANGED <<pend, fut, timer, goVars, frees, queue, loopClosed, closeVars>>

\* Mutant: the defensive timer is armed only for requests with a timeout.
RegisterNoTimer(r) ==
    /\ sub[r] = "checked"
    /\ sub' = [sub EXCEPT ![r] = "registered"]
    /\ fut' = [fut EXCEPT ![r] = "pending"]
    /\ \E tm \in {"armed", "none"} : timer' = [timer EXCEPT ![r] = tm]
    /\ pend' = pend \cup {r}
    /\ UNCHANGED <<goVars, frees, queue, loopClosed, closeVars>>

\* create_future, call_later and the registry entry, under _pending_lock.
Register(r) ==
    /\ sub[r] = "checked"
    /\ sub' = [sub EXCEPT ![r] = "registered"]
    /\ fut' = [fut EXCEPT ![r] = "pending"]
    /\ timer' = [timer EXCEPT ![r] = "armed"]
    /\ pend' = pend \cup {r}
    /\ UNCHANGED <<goVars, frees, queue, loopClosed, closeVars>>

\* RequestAsync copies the options and starts the goroutine, which runs before
\* the call has returned.
Dispatch(r) ==
    /\ sub[r] = "registered"
    /\ gor' = [gor EXCEPT ![r] = "running"]
    /\ sub' = [sub EXCEPT ![r] = "dispatched"]
    /\ UNCHANGED <<pend, fut, timer, reply, got, frees, queue, loopClosed, closeVars>>

\* The deep copy panics: the deferred recover calls the callback on this very
\* thread, with an error result (NULL if malloc fails), and RequestAsync returns 0.
DispatchPanics(r) ==
    /\ sub[r] = "registered"
    /\ gor' = [gor EXCEPT ![r] = "pop"]
    /\ \E res \in {"held", "null"} : reply' = [reply EXCEPT ![r] = res]
    /\ sub' = [sub EXCEPT ![r] = "inCallback"]
    /\ UNCHANGED <<pend, fut, timer, got, frees, queue, loopClosed, closeVars>>

\* RequestAsync returned 0: the coroutine awaits its future.
Await(r) ==
    /\ sub[r] = "dispatched" \/ (sub[r] = "inCallback" /\ gor[r] = "done")
    /\ sub' = [sub EXCEPT ![r] = "awaiting"]
    /\ UNCHANGED <<pend, fut, timer, goVars, frees, queue, loopClosed, closeVars>>

\* Mutant: the timer is cancelled and the entry stays registered.
DispatchFailsKeeps(r) ==
    /\ sub[r] \in {"registered", "dispatched"}
    /\ sub' = [sub EXCEPT ![r] = "raised"]
    /\ Enqueue(CancelTimer(r))
    /\ UNCHANGED <<pend, fut, timer, goVars, frees, loopClosed, closeVars>>

\* RequestAsync returned non-zero, or the call raised: before Go took over, or
\* (an interrupt) when the goroutine was already running.  The entry and the
\* timer are dropped (_drop_pending_request) and nobody awaits the future.
DispatchFails(r) ==
    /\ sub[r] \in {"registered", "dispatched"}
    /\ sub' = [sub EXCEPT ![r] = "raised"]
    /\ pend' = pend \ {r}
    /\ IF r \in pend THEN Enqueue(CancelTimer(r)) ELSE UNCHANGED queue
    /\ UNCHANGED <<fut, timer, goVars, frees, loopClosed, closeVars>>

\* The awaiting task is cancelled; the registry is not told.
UserCancel(r) ==
    /\ LoopFree /\ sub[r] = "awaiting" /\ ~Done(r)
    /\ fut' = [fut EXCEPT ![r] = "cancelled"]
    /\ UNCHANGED <<sub, pend, timer, goVars, frees, queue, loopClosed, closeVars>>
-----------------------------------------------------------------------------
(* The goroutine and _on_async_response, on a thread of their own.         *)

\* executeRequestFromConfig returned (or panicked): the callback is called with
\* a response, or with NULL when no memory was left for one.
GoReplies(r) ==
    /\ gor[r] = "running"
    /\ gor' = [gor EXCEPT ![r] = "pop"]
    /\ \E res \in {"held", "null"} : reply' = [reply EXCEPT ![r] = res]
    /\ UNCHANGED <<reqVars, pend, got, frees, queue, loopClosed, closeVars>>

\* The goroutine never comes back.
GoHangs(r) ==
    /\ gor[r] = "running"
    /\ gor' = [gor EXCEPT ![r] = "hung"]
    /\ UNCHANGED <<reqVars, pend, reply, got, frees, queue, loopClosed, closeVars>>

CbPop(r) ==
    /\ gor[r] = "pop"
    /\ got' = [got EXCEPT ![r] = r \in pend]
    /\ pend' = pend \ {r}
    /\ gor' = [gor EXCEPT ![r] = "cancel"]
    /\ UNCHANGED <<reqVars, reply, frees, queue, loopClosed, closeVars>>

CbCancelTimer(r) ==
    /\ gor[r] = "cancel"
    /\ gor' = [gor EXCEPT ![r] = "check"]
    /\ IF got[r] THEN Enqueue(CancelTimer(r)) ELSE UNCHANGED queue
    /\ UNCHANGED <<reqVars, pend, reply, got, frees, loopClosed, closeVars>>

\* Mutant: a late callback just returns.
CbTooLateLeaks(r) ==
    /\ gor[r] = "check" /\ (~got[r] \/ Done(r))
    /\ gor' = [gor EXCEPT ![r] = "done"]
    /\ UNCHANGED <<reqVars, pend, reply, got, frees, queue, loopClosed, closeVars>>

\* Nobody waits any more: the callback frees the response itself.
CbTooLate(r) ==
    /\ gor[r] = "check" /\ (~got[r] \/ Done(r))
    /\ gor' = [gor EXCEPT ![r] = "done"]
    /\ frees' = [frees EXCEPT ![r] = IF reply[r] = "held" THEN @ + 1 ELSE @]
    /\ UNCHANGED <<reqVars, pend, reply, got, queue, loopClosed, closeVars>>

CbNull(r) ==
    /\ gor[r] = "check" /\ got[r] /\ ~Done(r) /\ reply[r] = "null"
    /\ gor' = [gor EXCEPT ![r] = "done"]
    /\ Enqueue(Fail(r))
    /\ UNCHANGED <<reqVars, pend, reply, got, frees, loopClosed, closeVars>>

\* ffi.gc binds FreeResponse to the wrapper the loop will drop.
CbBind(r) ==
    /\ gor[r] = "check" /\ got[r] /\ ~Done(r) /\ reply[r] = "held"
    /\ gor' = [gor EXCEPT ![r] = "schedule"]
    /\ UNCHANGED <<reqVars, pend, reply, got, frees, queue, loopClosed, closeVars>>

\* Mutant: the response is freed as soon as the loop was told.
CbScheduleFrees(r) ==
    /\ gor[r] = "schedule" /\ ~loopClosed
    /\ gor' = [gor EXCEPT ![r] = "done"]
    /\ Enqueue(Resolve(r))
    /\ frees' = [frees EXCEPT ![r] = @ + 1]
    /\ UNCHANGED <<reqVars, pend, reply, got, loopClosed, closeVars>>

CbSchedule(r) ==
    /\ gor[r] = "schedule" /\ ~loopClosed
    /\ gor' = [gor EXCEPT ![r] = "done"]
    /\ Enqueue(Resolve(r))
    /\ UNCHANGED <<reqVars, pend, reply, got, frees, loopClosed, closeVars>>

\* call_soon_threadsafe raised.  ffi.release runs the destructor that ffi.gc
\* bound, which is FreeResponse; then FreeResponse is called once more.
CbScheduleRaises(r) ==
    /\ gor[r] = "schedule" /\ loopClosed
    /\ gor' = [gor EXCEPT ![r] = "done"]
    /\ frees' = [frees EXCEPT ![r] = @ + 2]
    /\ UNCHANGED <<reqVars, pend, reply, got, queue, loopClosed, closeVars>>
-----------------------------------------------------------------------------
(* The event loop.                                                         *)

\* Mutant: no done() test.
SettleAlways(r, outcomes) == \E o \in outcomes : fut' = [fut EXCEPT ![r] = o]

\* _apply_future_state and _resolve_async_response test done() first.
Settle(r, outcomes) ==
    IF Done(r) THEN UNCHANGED fut
               ELSE \E o \in outcomes : fut' = [fut EXCEPT ![r] = o]

\* One callback of the ready queue.  The wrapper of a resolve is dropped when
\* it returns, which frees the response.
LoopRuns ==
    /\ LoopFree /\ queue # << >>
    /\ queue' = Tail(queue)
    /\ LET c == Head(queue) IN
          \/ /\ c.do = "cancelTimer"
             /\ timer' = [timer EXCEPT ![c.req] = "off"]
             /\ UNCHANGED <<fut, frees>>
          \/ /\ c.do = "fail"
             /\ Settle(c.req, {"error"})
             /\ UNCHANGED <<timer, frees>>
          \/ /\ c.do = "resolve"
             /\ Settle(c.req, {"result", "error"})
             /\ frees' = [frees EXCEPT ![c.req] = @ + 1]
             /\ UNCHANGED timer
    /\ UNCHANGED <<sub, pend, goVars, loopClosed, closeVars>>

\* Mutant: the entry is dropped and the future forgotten.
TimerSilent(r) ==
    /\ LoopFree /\ timer[r] = "armed"
    /\ timer' = [timer EXCEPT ![r] = "off"]
    /\ pend' = pend \ {r}
    /\ UNCHANGED <<sub, fut, goVars, frees, queue, loopClosed, closeVars>>

\* Mutant: the future is failed and the entry left to the callback.
TimerKeeps(r) ==
    /\ LoopFree /\ timer[r] = "armed"
    /\ timer' = [timer EXCEPT ![r] = "off"]
    /\ IF r \in pend THEN Enqueue(Fail(r)) ELSE UNCHANGED queue
    /\ UNCHANGED <<sub, pend, fut, goVars, frees, loopClosed, closeVars>>

\* _on_zombie_timeout
TimerFires(r) ==
    /\ LoopFree /\ timer[r] = "armed"
    /\ timer' = [timer EXCEPT ![r] = "off"]
    /\ pend' = pend \ {r}
    /\ IF r \in pend THEN Enqueue(Fail(r)) ELSE UNCHANGED queue
    /\ UNCHANGED <<sub, fut, goVars, frees, loopClosed, closeVars>>

\* loop.close() clears the ready queue: the wrappers in it are collected.
LoopCloses ==
    /\ LoopFree
    /\ loopClosed' = TRUE
    /\ queue' = << >>
    /\ frees' = [r \in Reqs |->
                   IF Queued(Resolve(r))
                     THEN frees[r] + 1 ELSE frees[r]]
    /\ UNCHANGED <<reqVars, pend, goVars, closeVars>>
-----------------------------------------------------------------------------
(* AsyncSession.close(), from any thread.                                  *)

CloseMark ==
    /\ closer = "idle"
    /\ closed' = TRUE
    /\ closer' = "marked"
    /\ UNCHANGED <<reqVars, pend, goVars, frees, queue, loopClosed, toCancel>>

ClosePop ==
    /\ closer = "marked"
    /\ toCancel' = pend \cap Owned
    /\ pend' = pend \ Owned
    /\ closer' = "failing"
    /\ UNCHANGED <<reqVars, goVars, frees, queue, loopClosed, closed>>

\* One iteration of the loop over to_cancel.
CloseFail(r) ==
    /\ closer = "failing" /\ r \in toCancel
    /\ toCancel' = toCancel \ {r}
    /\ queue' = IF loopClosed THEN queue
                ELSE IF Done(r) THEN Append(queue, CancelTimer(r))
                ELSE Append(Append(queue, CancelTimer(r)), Fail(r))
    /\ UNCHANGED <<reqVars, pend, goVars, frees, loopClosed, closed, closer>>

CloseEnd ==
    /\ closer = "failing" /\ toCancel = {}
    /\ closer' = "idle"
    /\ UNCHANGED <<reqVars, pend, goVars, frees, queue, loopClosed, closed, toCancel>>
-----------------------------------------------------------------------------
SubmitStep(r) ==
    \/ Register(r) \/ Dispatch(r) \/ DispatchPanics(r)
    \/ Await(r) \/ DispatchFails(r)

CallbackStep(r) ==
    \/ CbPop(r) \/ CbCancelTimer(r) \/ CbTooLate(r) \/ CbNull(r) \/ CbBind(r)
    \/ CbSchedule(r) \/ CbScheduleRaises(r)

CloseStep == CloseMark \/ ClosePop \/ (\E r \in Reqs : CloseFail(r)) \/ CloseEnd

Next ==
    \/ \E r \in Reqs : \/ Check(r) \/ SubmitStep(r) \/ UserCancel(r)
                       \/ GoReplies(r) \/ GoHangs(r) \/ CallbackStep(r)
                       \/ TimerFires(r)
    \/ LoopRuns \/ LoopCloses
    \/ CloseStep

Spec == Init /\ [][Next]_vars

(* Every thread runs when it can: the coroutine, the callback threads, the *)
(* loop with its timers, and close() once it was called.  Nothing is       *)
(* assumed of the engine: a goroutine may never reply (no fairness on      *)
(* GoReplies), and callers need not submit, cancel or close anything.      *)
Fairness ==
    /\ \A r \in Reqs : /\ WF_vars(SubmitStep(r)) /\ WF_vars(CallbackStep(r))
                       /\ WF_vars(TimerFires(r)) /\ WF_vars(CloseFail(r))
    /\ WF_vars(LoopRuns)
    /\ WF_vars(ClosePop) /\ WF_vars(CloseEnd)

FairSpec == Spec /\ Fairness
-----------------------------------------------------------------------------
(* Correctness.                                                            *)

(* Types; a registry entry always carries a future and a timer handle.     *)
TypeOK ==
    /\ sub \in [Reqs -> Submitting \cup {"new", "awaiting", "raised"}]
    /\ fut \in [Reqs -> Settled \cup {"none", "pending"}]
    /\ timer \in [Reqs -> {"none", "armed", "off"}]
    /\ gor \in [Reqs -> {"none", "running", "hung", "pop", "cancel", "check",
                         "schedule", "done"}]
    /\ reply \in [Reqs -> {"none", "held", "null"}]
    /\ got \in [Reqs -> BOOLEAN]
    /\ frees \in [Reqs -> Nat]
    /\ queue \in Seq(Callbacks)
    /\ loopClosed \in BOOLEAN /\ closed \in BOOLEAN
    /\ closer \in {"idle", "marked", "failing"}
    /\ toCancel \in SUBSET Reqs
    /\ pend \in SUBSET {r \in Reqs : fut[r] # "none" /\ timer[r] # "none"}

(* No wake-up is lost: while a caller waits for a future, somebody is      *)
(* still bound to settle it - the registry (for the callback, the timer    *)
(* and close() to find), a callback or close() that already popped the     *)
(* entry, or the loop's queue.                                             *)
NoLostFuture ==
    \A r \in Reqs :
        sub[r] = "awaiting" /\ ~Done(r) /\ ~loopClosed =>
            \/ r \in pend
            \/ got[r] /\ gor[r] \in {"cancel", "check", "schedule"}
            \/ r \in toCancel
            \/ Queued(Fail(r)) \/ Queued(Resolve(r))

(* A request that is still registered has its defensive timer running, so  *)
(* that an engine that never answers cannot hold it for ever, whatever     *)
(* cancellations of other timers are on their way through the queue.       *)
RescueArmed == \A r \in pend : ~loopClosed => timer[r] = "armed"

(* The C response is freed at most once, and not before the loop, which    *)
(* still has to unpack it, is done with it ("release the GC binding via    *)
(* ffi.release() to prevent double-free", _core.py:3800).                  *)
FreedOnce ==
    \A r \in Reqs : frees[r] <= 1 /\ (Queued(Resolve(r)) => frees[r] = 0)

(* FreedOnce, for as long as the program has not closed the loop: the      *)
(* callback, the timer, close() and cancellation share one owner at most.  *)
FreedOnceWhileOpen == ~loopClosed => FreedOnce

(* No response is leaked, whoever came first: when its callback has        *)
(* returned it is freed, or the loop still holds the wrapper that will     *)
(* free it, and closing the loop collects the wrappers.                    *)
NoLeak ==
    \A r \in Reqs : gor[r] = "done" /\ reply[r] = "held"
                       => frees[r] >= 1 \/ Queued(Resolve(r))

(* The caller's view, as AsyncPromise describes it.                        *)
Observed == [r \in Reqs |-> IF sub[r] = "awaiting" THEN fut[r]
                            ELSE IF sub[r] = "raised" THEN "rejected" ELSE "idle"]

Promise == INSTANCE AsyncPromise WITH state <- Observed, shut <- loopClosed

(* Every call settles exactly once, even if the engine never replies: the  *)
(* bridge implements AsyncPromise, liveness included.                      *)
KeepsPromise == Promise!Spec

(* "_pending_requests entry would leak the Future + keep_alive forever":   *)
(* no entry stays, also when its future was cancelled or its goroutine     *)
(* hangs, unless the loop whose timer would remove it is gone.             *)
RegistryDrains == \A r \in Reqs : r \in pend ~> r \notin pend \/ loopClosed
=============================================================================
