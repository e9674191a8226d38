-------------------------- MODULE AsyncBridgeProofs --------------------------
(***************************************************************************)
(* Proofs about AsyncBridge for any set of requests: types, no lost        *)
(* wake-up, the defensive timer, and (for programs that do not close the   *)
(* loop under their requests) a single FreeResponse per response; and that *)
(* the bridge implements the safety part of AsyncPromise.                  *)
(***************************************************************************)
EXTENDS AsyncBridge, SequenceTheorems, TLAPS

USE BridgeAssumption

-----------------------------------------------------------------------------
(* The ready queue, seen as the set of callbacks it holds.                 *)

Once(c, q) == \A i, j \in DOMAIN q : q[i] = c /\ q[j] = c => i = j

LEMMA AppendIn ==
  ASSUME NEW S, NEW q \in Seq(S), NEW c \in S
  PROVE  /\ Append(q, c) \in Seq(S)
         /\ \A d : In(d, Append(q, c)) <=> In(d, q) \/ d = c
         /\ \A d : Once(d, q) /\ (d = c => ~In(c, q)) => Once(d, Append(q, c))
<1> DEFINE n == Len(q)
           a == Append(q, c)
<1>1. a \in Seq(S) /\ n \in Nat /\ DOMAIN q = 1..n /\ DOMAIN a = 1..(n + 1) OBVIOUS
<1>2. (\A i \in 1..n : a[i] = q[i]) /\ a[n + 1] = c OBVIOUS
<1> HIDE DEF n, a
<1>3. ASSUME NEW d PROVE In(d, a) <=> In(d, q) \/ d = c
  BY <1>1, <1>2 DEF In
<1>4. ASSUME NEW d, Once(d, q), d = c => ~In(c, q) PROVE Once(d, a)
  <2> SUFFICES ASSUME NEW i \in DOMAIN a, NEW j \in DOMAIN a, a[i] = d, a[j] = d
               PROVE  i = j
    BY DEF Once
  <2>1. CASE i \in 1..n /\ j \in 1..n BY <1>1, <1>2, <1>4, <2>1 DEF Once
  <2>2. CASE i = n + 1 /\ j = n + 1 BY <2>2
  <2>3. CASE (i \in 1..n /\ j = n + 1) \/ (i = n + 1 /\ j \in 1..n)
    BY <1>1, <1>2, <1>4, <2>3 DEF In
  <2> QED BY <1>1, <2>1, <2>2, <2>3
<1> QED BY <1>1, <1>3, <1>4 DEF a

LEMMA TailIn ==
  ASSUME NEW S, NEW q \in Seq(S), q # << >>
  PROVE  /\ Tail(q) \in Seq(S)
         /\ Head(q) \in S /\ In(Head(q), q)
         /\ \A d : In(d, Tail(q)) => In(d, q)
         /\ \A d : In(d, q) => d = Head(q) \/ In(d, Tail(q))
         /\ \A d : Once(d, q) => Once(d, Tail(q))
         /\ Once(Head(q), q) => ~In(Head(q), Tail(q))
<1> DEFINE n == Len(q)
           t == Tail(q)
           h == Head(q)
<1>1. /\ t \in Seq(S) /\ h \in S /\ h = q[1] /\ n \in Nat /\ n > 0
      /\ DOMAIN q = 1..n /\ DOMAIN t = 1..(n - 1)
  OBVIOUS
<1>2. \A i \in 1..(n - 1) : t[i] = q[i + 1] OBVIOUS
<1> HIDE DEF n, t, h
<1>3. 1 \in DOMAIN q /\ In(h, q) BY <1>1 DEF In
<1>4. ASSUME NEW d, In(d, t) PROVE In(d, q)
  <2> PICK i \in DOMAIN t : t[i] = d BY <1>4 DEF In
  <2>1. i + 1 \in DOMAIN q /\ q[i + 1] = d BY <1>1, <1>2
  <2> QED BY <2>1 DEF In
<1>5. ASSUME NEW d, In(d, q), d # h PROVE In(d, t)
  <2> PICK i \in DOMAIN q : q[i] = d BY <1>5 DEF In
  <2>1. i - 1 \in DOMAIN t /\ t[i - 1] = q[(i - 1) + 1] BY <1>1, <1>2, <1>5
  <2> QED BY <1>1, <2>1 DEF In
<1>6. ASSUME NEW d, Once(d, q) PROVE Once(d, t)
  <2> SUFFICES ASSUME NEW i \in DOMAIN t, NEW j \in DOMAIN t, t[i] = d, t[j] = d
               PROVE  i = j
    BY DEF Once
  <2>1. i + 1 \in DOMAIN q /\ j + 1 \in DOMAIN q /\ q[i + 1] = d /\ q[j + 1] = d
    BY <1>1, <1>2
  <2>2. i + 1 = j + 1 BY <1>6, <2>1 DEF Once
  <2> QED BY <1>1, <2>2
<1>7. ASSUME Once(h, q), In(h, t) PROVE FALSE
  <2> PICK i \in DOMAIN t : t[i] = h BY <1>7 DEF In
  <2>1. i + 1 \in DOMAIN q /\ q[i + 1] = h /\ q[1] = h BY <1>1, <1>2
  <2>2. i + 1 = 1 BY <1>3, <1>7, <2>1 DEF Once
  <2> QED BY <1>1, <2>2
<1> QED BY <1>1, <1>3, <1>4, <1>5, <1>6, <1>7 DEF t, h

\* What call_soon_threadsafe does to the queue.
LEMMA EnqueueIn ==
  ASSUME queue \in Seq(Callbacks), NEW c \in Callbacks, Enqueue(c)
  PROVE  /\ queue' \in Seq(Callbacks)
         /\ \A d : Queued(d)' => Queued(d) \/ d = c
         /\ \A d : Queued(d) => Queued(d)'
         /\ ~loopClosed => Queued(c)'
<1>1. CASE loopClosed BY <1>1 DEF Enqueue, Queued
<1>2. CASE ~loopClosed BY <1>2, AppendIn DEF Enqueue, Queued
<1> QED BY <1>1, <1>2
-----------------------------------------------------------------------------
(* The inductive invariant.                                                *)

\* A request that is not registered yet is known to nobody.
Fresh ==
    \A r \in Reqs : sub[r] \in {"new", "checked"} =>
        /\ gor[r] = "none" /\ ~got[r] /\ r \notin pend /\ r \notin toCancel
        /\ ~Queued(CancelTimer(r))

\* The future is pending until the coroutine awaits it.
Unsettled ==
    /\ \A r \in Reqs : sub[r] \in {"registered", "dispatched", "inCallback"}
                         => fut[r] = "pending"
    /\ \A r \in Reqs : sub[r] = "registered" => gor[r] = "none"
    /\ \A r \in Reqs : sub[r] = "awaiting" => fut[r] # "none"

\* Whoever pops an entry is its only owner, and only an owner cancels the timer.
Owner ==
    \A r \in pend : /\ ~got[r] /\ r \notin toCancel
                    /\ ~Queued(CancelTimer(r))
                    /\ ~loopClosed => timer[r] = "armed"

\* NoLostFuture, from the moment of registration.
Awaited == {"registered", "dispatched", "inCallback", "awaiting"}
Bound ==
    \A r \in Reqs :
        sub[r] \in Awaited /\ ~Done(r) /\ ~loopClosed =>
            \/ r \in pend
            \/ got[r] /\ gor[r] \in {"cancel", "check", "schedule"}
            \/ r \in toCancel
            \/ Queued(Fail(r)) \/ Queued(Resolve(r))

\* A coroutine between two awaits keeps the loop from being closed.
Running == \A r \in Reqs : sub[r] \in Submitting => ~loopClosed

CloserIdle == closer # "failing" => toCancel = {}

Inv == TypeOK /\ Fresh /\ Unsettled /\ Owner /\ Bound /\ CloserIdle /\ Running

LEMMA Tags ==
  ASSUME NEW r \in Reqs, NEW s
  PROVE  /\ CancelTimer(r) \in Callbacks /\ Fail(r) \in Callbacks /\ Resolve(r) \in Callbacks
         /\ CancelTimer(r) # Fail(s) /\ CancelTimer(r) # Resolve(s) /\ Fail(r) # Resolve(s)
         /\ CancelTimer(r) = CancelTimer(s) => r = s
         /\ Fail(r) = Fail(s) => r = s
         /\ Resolve(r) = Resolve(s) => r = s
  BY DEF CancelTimer, Fail, Resolve, Callbacks

LEMMA InvInit == Init => Inv
<1> SUFFICES ASSUME Init PROVE Inv OBVIOUS
<1>1. \A d : ~Queued(d) BY DEF Init, Queued, In
<1>2. queue \in Seq(Callbacks) BY DEF Init
<1>3. got \in [Reqs -> BOOLEAN] /\ frees \in [Reqs -> Nat] BY DEF Init
<1>4. TypeOK BY <1>2, <1>3 DEF Init, TypeOK, Submitting, Settled
<1> QED BY <1>1, <1>4 DEF Init, Inv, Fresh, Unsettled, Owner, Bound, CloserIdle, Running, Awaited

\* Steps that leave the ready queue alone.
LEMMA InvQuiet ==
  ASSUME Inv, NEW r \in Reqs,
         \/ Check(r) \/ Register(r) \/ Dispatch(r) \/ DispatchPanics(r) \/ Await(r)
         \/ UserCancel(r) \/ GoReplies(r) \/ GoHangs(r) \/ CbPop(r) \/ CbTooLate(r)
         \/ CbBind(r) \/ CbScheduleRaises(r)
  PROVE  Inv'
<1>0. UNCHANGED queue
  BY DEF Check, Register, Dispatch, DispatchPanics, Await, UserCancel, GoReplies,
         GoHangs, CbPop, CbTooLate, CbBind, CbScheduleRaises
<1>1. \A d : Queued(d)' <=> Queued(d) BY <1>0 DEF Queued
<1> USE <1>1 DEF Inv, TypeOK, Fresh, Unsettled, Owner, Bound, CloserIdle, Running, Done,
        Submitting, Settled, Awaited, LoopFree, reqVars, goVars, closeVars
<1>2. CASE Check(r) BY <1>2 DEF Check
<1>3. CASE Register(r) BY <1>3 DEF Register
<1>4. CASE Dispatch(r)
  <2>1. TypeOK' BY <1>4 DEF Dispatch
  <2>2. Fresh' BY <1>4 DEF Dispatch
  <2>3. Unsettled' BY <1>4 DEF Dispatch
  <2>4. Owner' BY <1>4 DEF Dispatch
  <2>5. Bound' BY <1>4 DEF Dispatch
  <2>6. CloserIdle' /\ Running' BY <1>4 DEF Dispatch
  <2> QED BY <2>1, <2>2, <2>3, <2>4, <2>5, <2>6
<1>5. CASE DispatchPanics(r)
  <2>1. TypeOK' BY <1>5 DEF DispatchPanics
  <2>2. Fresh' BY <1>5 DEF DispatchPanics
  <2>3. Unsettled' BY <1>5 DEF DispatchPanics
  <2>4. Owner' BY <1>5 DEF DispatchPanics
  <2>5. Bound' BY <1>5 DEF DispatchPanics
  <2>6. CloserIdle' /\ Running' BY <1>5 DEF DispatchPanics
  <2> QED BY <2>1, <2>2, <2>3, <2>4, <2>5, <2>6
<1>6. CASE Await(r) BY <1>6 DEF Await
<1>7. CASE UserCancel(r) BY <1>7 DEF UserCancel
<1>8. CASE GoReplies(r)
  <2>1. TypeOK' BY <1>8 DEF GoReplies
  <2>2. Fresh' BY <1>8 DEF GoReplies
  <2>3. Unsettled' BY <1>8 DEF GoReplies
  <2>4. Owner' BY <1>8 DEF GoReplies
  <2>5. Bound' BY <1>8 DEF GoReplies
  <2>6. CloserIdle' /\ Running' BY <1>8 DEF GoReplies
  <2> QED BY <2>1, <2>2, <2>3, <2>4, <2>5, <2>6
<1>9. CASE GoHangs(r) BY <1>9 DEF GoHangs
<1>10. CASE CbPop(r)
  <2>1. TypeOK' BY <1>10 DEF CbPop
  <2>2. Fresh' BY <1>10 DEF CbPop
  <2>3. Unsettled' BY <1>10 DEF CbPop
  <2>4. Owner' BY <1>10 DEF CbPop
  <2>5. Bound' BY <1>10 DEF CbPop
  <2>6. CloserIdle' /\ Running' BY <1>10 DEF CbPop
  <2> QED BY <2>1, <2>2, <2>3, <2>4, <2>5, <2>6
<1>11. CASE CbTooLate(r) BY <1>11 DEF CbTooLate
<1>12. CASE CbBind(r) BY <1>12 DEF CbBind
<1>13. CASE CbScheduleRaises(r) BY <1>13 DEF CbScheduleRaises
<1> QED BY <1>2, <1>3, <1>4, <1>5, <1>6, <1>7, <1>8, <1>9, <1>10, <1>11, <1>12, <1>13

\* Steps that append one callback, or none.
LEMMA InvEnqueue ==
  ASSUME Inv, NEW r \in Reqs,
         \/ DispatchFails(r) \/ CbCancelTimer(r) \/ CbNull(r) \/ CbSchedule(r)
         \/ TimerFires(r)
  PROVE  Inv'
<1>0. queue \in Seq(Callbacks) BY DEF Inv, TypeOK
<1> USE DEF Inv, TypeOK, Fresh, Unsettled, Owner, Bound, CloserIdle, Running, Done,
        Submitting, Settled, Awaited, LoopFree, reqVars, goVars, closeVars
<1>1. CASE DispatchFails(r)
  <2>1. CASE r \in pend
    <3>1. /\ queue' \in Seq(Callbacks)
          /\ \A d : Queued(d)' => Queued(d) \/ d = CancelTimer(r)
          /\ \A d : Queued(d) => Queued(d)'
      BY <1>0, <1>1, <2>1, Tags, EnqueueIn DEF DispatchFails
    <3>2. \A s \in Reqs : s # r => CancelTimer(s) # CancelTimer(r) BY Tags
    <3> QED BY <1>1, <2>1, <3>1, <3>2 DEF DispatchFails
  <2>2. CASE r \notin pend
    <3>1. queue' = queue /\ \A d : Queued(d)' <=> Queued(d)
      BY <1>1, <2>2 DEF DispatchFails, Queued
    <3> QED BY <1>1, <2>2, <3>1 DEF DispatchFails
  <2> QED BY <2>1, <2>2
<1>2. CASE CbCancelTimer(r)
  <2>1. CASE got[r]
    <3>1. /\ queue' \in Seq(Callbacks)
          /\ \A d : Queued(d)' => Queued(d) \/ d = CancelTimer(r)
          /\ \A d : Queued(d) => Queued(d)'
      BY <1>0, <1>2, <2>1, Tags, EnqueueIn DEF CbCancelTimer
    <3>2. \A s \in Reqs : s # r => CancelTimer(s) # CancelTimer(r) BY Tags
    <3>3. r \notin pend BY <2>1
    <3> QED BY <1>2, <2>1, <3>1, <3>2, <3>3 DEF CbCancelTimer
  <2>2. CASE ~got[r]
    <3>1. queue' = queue /\ \A d : Queued(d)' <=> Queued(d)
      BY <1>2, <2>2 DEF CbCancelTimer, Queued
    <3> QED BY <1>2, <2>2, <3>1 DEF CbCancelTimer
  <2> QED BY <2>1, <2>2
<1>3. CASE CbNull(r)
  <2>1. /\ queue' \in Seq(Callbacks)
        /\ \A d : Queued(d)' => Queued(d) \/ d = Fail(r)
        /\ \A d : Queued(d) => Queued(d)'
        /\ ~loopClosed => Queued(Fail(r))'
    BY <1>0, <1>3, Tags, EnqueueIn DEF CbNull
  <2>2. \A s \in Reqs : CancelTimer(s) # Fail(r) BY Tags
  <2> QED BY <1>3, <2>1, <2>2 DEF CbNull
<1>4. CASE CbSchedule(r)
  <2>1. /\ queue' \in Seq(Callbacks)
        /\ \A d : Queued(d)' => Queued(d) \/ d = Resolve(r)
        /\ \A d : Queued(d) => Queued(d)'
        /\ ~loopClosed => Queued(Resolve(r))'
    BY <1>0, <1>4, Tags, EnqueueIn DEF CbSchedule
  <2>2. \A s \in Reqs : CancelTimer(s) # Resolve(r) BY Tags
  <2> QED BY <1>4, <2>1, <2>2 DEF CbSchedule
<1>5. CASE TimerFires(r)
  <2>1. CASE r \in pend
    <3>1. /\ queue' \in Seq(Callbacks)
          /\ \A d : Queued(d)' => Queued(d) \/ d = Fail(r)
          /\ \A d : Queued(d) => Queued(d)'
          /\ Queued(Fail(r))'
      BY <1>0, <1>5, <2>1, Tags, EnqueueIn DEF TimerFires
    <3>2. \A s \in Reqs : CancelTimer(s) # Fail(r) BY Tags
    <3> QED BY <1>5, <2>1, <3>1, <3>2 DEF TimerFires
  <2>2. CASE r \notin pend
    <3>1. queue' = queue /\ \A d : Queued(d)' <=> Queued(d)
      BY <1>5, <2>2 DEF TimerFires, Queued
    <3> QED BY <1>5, <2>2, <3>1 DEF TimerFires
  <2> QED BY <2>1, <2>2
<1> QED BY <1>1, <1>2, <1>3, <1>4, <1>5

LEMMA InvLoopRuns ==
  ASSUME Inv, LoopRuns PROVE Inv'
<1> DEFINE c == Head(queue)
<1>1. /\ queue' \in Seq(Callbacks) /\ c \in Callbacks /\ Queued(c)
      /\ \A d : Queued(d)' => Queued(d)
      /\ \A d : Queued(d) => d = c \/ Queued(d)'
  BY TailIn DEF Inv, TypeOK, LoopRuns, Queued
<1>2. c.req \in Reqs BY <1>1 DEF Callbacks
<1>3. /\ c.do = "cancelTimer" => c = CancelTimer(c.req)
      /\ c.do = "fail" => c = Fail(c.req)
      /\ c.do = "resolve" => c = Resolve(c.req)
  BY <1>1 DEF Callbacks, CancelTimer, Fail, Resolve
<1>4. \/ c.do = "cancelTimer" /\ timer' = [timer EXCEPT ![c.req] = "off"] /\ UNCHANGED fut
      \/ c.do = "fail" /\ Settle(c.req, {"error"}) /\ UNCHANGED timer
      \/ c.do = "resolve" /\ Settle(c.req, {"result", "error"}) /\ UNCHANGED timer
  BY DEF LoopRuns
<1>5. LoopFree /\ UNCHANGED <<sub, pend, goVars, loopClosed, closeVars>>
      /\ frees' \in [Reqs -> Nat]
  BY <1>2 DEF LoopRuns, Inv, TypeOK
<1>6. \A s \in Reqs : \A t \in Reqs :
         /\ CancelTimer(s) # Fail(t) /\ CancelTimer(s) # Resolve(t) /\ Fail(s) # Resolve(t)
         /\ Fail(s) = Fail(t) => s = t
         /\ Resolve(s) = Resolve(t) => s = t
  BY Tags
<1> HIDE DEF c
<1> USE DEF Inv, TypeOK, Fresh, Unsettled, Owner, Bound, CloserIdle, Running, Done,
        Submitting, Settled, Awaited, LoopFree, goVars, closeVars
<1>7. CASE c.do = "cancelTimer"
  <2>1. c = CancelTimer(c.req) /\ c.req \notin pend BY <1>1, <1>2, <1>3, <1>7
  <2>2. timer' = [timer EXCEPT ![c.req] = "off"] /\ UNCHANGED fut BY <1>4, <1>7
  <2>3. \A s \in Reqs : Queued(Fail(s)) \/ Queued(Resolve(s))
                          => Queued(Fail(s))' \/ Queued(Resolve(s))'
    BY <1>1, <1>2, <1>6, <2>1
  <2> QED BY <1>1, <1>2, <1>5, <2>1, <2>2, <2>3
<1>8. CASE c.do \in {"fail", "resolve"}
  <2>1. UNCHANGED timer /\ fut' \in [Reqs -> Settled \cup {"none", "pending"}]
    BY <1>2, <1>4, <1>8 DEF Settle
  <2>2. fut'[c.req] \in Settled /\ \A s \in Reqs : s # c.req => fut'[s] = fut[s]
    BY <1>2, <1>4, <1>8 DEF Settle
  <2>3. \A s \in Reqs : s # c.req /\ (Queued(Fail(s)) \/ Queued(Resolve(s)))
                          => Queued(Fail(s))' \/ Queued(Resolve(s))'
    BY <1>1, <1>2, <1>3, <1>6, <1>8
  <2>4. \A s \in Reqs : sub[s] \in {"registered", "dispatched", "inCallback"} => FALSE
    BY <1>5
  <2> QED BY <1>1, <1>2, <1>5, <2>1, <2>2, <2>3, <2>4
<1> QED BY <1>4, <1>7, <1>8

LEMMA InvClose ==
  ASSUME Inv, CloseStep PROVE Inv'
<1> USE DEF Inv, TypeOK, Fresh, Unsettled, Owner, Bound, CloserIdle, Running, Done,
        Submitting, Settled, Awaited, reqVars, goVars, closeVars
<1>1. CASE CloseMark BY <1>1 DEF CloseMark, Queued
<1>2. CASE ClosePop BY <1>2 DEF ClosePop, Queued
<1>3. ASSUME NEW r \in Reqs, CloseFail(r) PROVE Inv'
  <2> DEFINE q == Append(queue, CancelTimer(r))
  <2>0. queue \in Seq(Callbacks) /\ CancelTimer(r) \in Callbacks /\ Fail(r) \in Callbacks
    BY Tags
  <2>1. q \in Seq(Callbacks) /\ \A d : In(d, q) <=> In(d, queue) \/ d = CancelTimer(r)
    BY <2>0, AppendIn
  <2> HIDE DEF q
  <2>2. /\ Append(q, Fail(r)) \in Seq(Callbacks)
        /\ \A d : In(d, Append(q, Fail(r))) <=> In(d, q) \/ d = Fail(r)
    BY <2>0, <2>1, AppendIn
  <2>3. queue' = queue \/ queue' = q \/ queue' = Append(q, Fail(r))
    BY <1>3 DEF CloseFail, q
  <2>4. ~loopClosed /\ ~Done(r) => queue' = Append(q, Fail(r)) BY <1>3 DEF CloseFail, q
  <2>5. /\ queue' \in Seq(Callbacks)
        /\ \A d : Queued(d)' => Queued(d) \/ d = CancelTimer(r) \/ d = Fail(r)
        /\ \A d : Queued(d) => Queued(d)'
        /\ ~loopClosed /\ ~Done(r) => Queued(Fail(r))'
    BY <2>0, <2>1, <2>2, <2>3, <2>4 DEF Queued
  <2>6. \A s \in Reqs : /\ CancelTimer(s) # Fail(r)
                        /\ s # r => CancelTimer(s) # CancelTimer(r)
    BY Tags
  <2>7. r \notin pend /\ sub[r] \notin {"new", "checked"} BY <1>3 DEF CloseFail
  <2> QED BY <1>3, <2>5, <2>6, <2>7 DEF CloseFail
<1>4. CASE CloseEnd BY <1>4 DEF CloseEnd, Queued
<1> QED BY <1>1, <1>2, <1>3, <1>4 DEF CloseStep

LEMMA InvNext == Inv /\ [Next]_vars => Inv'
<1> SUFFICES ASSUME Inv, [Next]_vars PROVE Inv' OBVIOUS
<1>1. ASSUME NEW r \in Reqs, \/ Check(r) \/ SubmitStep(r) \/ UserCancel(r)
                             \/ GoReplies(r) \/ GoHangs(r) \/ CallbackStep(r)
                             \/ TimerFires(r)
      PROVE Inv'
  BY <1>1, InvQuiet, InvEnqueue DEF SubmitStep, CallbackStep
<1>2. CASE LoopRuns BY <1>2, InvLoopRuns
<1>3. CASE LoopCloses
  <2>1. queue' = << >> /\ \A d : ~Queued(d)' BY <1>3 DEF LoopCloses, Queued, In
  <2>2. frees' \in [Reqs -> Nat] BY <1>3 DEF LoopCloses, Inv, TypeOK
  <2> QED BY <1>3, <2>1, <2>2
          DEF LoopCloses, LoopFree, Inv, TypeOK, Fresh, Unsettled, Owner, Bound,
              CloserIdle, Running, Done, reqVars, goVars, closeVars
<1>4. CASE CloseStep BY <1>4, InvClose
<1>5. CASE UNCHANGED vars
  BY <1>5 DEF vars, Inv, TypeOK, Fresh, Unsettled, Owner, Bound, CloserIdle, Running, Done, Queued
<1> QED BY <1>1, <1>2, <1>3, <1>4, <1>5 DEF Next

LEMMA InvAlways == Spec => []Inv
  BY InvInit, InvNext, PTL DEF Spec

(* The state of the bridge is well typed in every execution.               *)
THEOREM TypeCorrect == Spec => []TypeOK
<1>1. Inv => TypeOK BY DEF Inv
<1> QED BY <1>1, InvAlways, PTL

(* No awaited future is ever forgotten, for any number of requests.        *)
THEOREM NoWakeUpLost == Spec => []NoLostFuture
<1>1. Inv => NoLostFuture BY DEF Inv, Bound, NoLostFuture, Awaited
<1> QED BY <1>1, InvAlways, PTL

(* A registered request always has its defensive timer running.            *)
THEOREM TimerAlwaysArmed == Spec => []RescueArmed
<1>1. Inv => RescueArmed BY DEF Inv, Owner, RescueArmed
<1> QED BY <1>1, InvAlways, PTL
-----------------------------------------------------------------------------
(* Memory.  A response belongs to its callback thread until it is bound to *)
(* a wrapper, then to the one queue entry that holds the wrapper.          *)

OneOwner ==
    \A r \in Reqs :
        /\ gor[r] # "done" => frees[r] = 0 /\ ~Queued(Resolve(r))
        /\ frees[r] <= 1
        /\ Queued(Resolve(r)) => frees[r] = 0
        /\ Once(Resolve(r), queue)

\* A step that moves no response.
LEMMA OneOwnerSame ==
  ASSUME OneOwner, UNCHANGED frees,
         \A r \in Reqs : gor[r] = "done" => gor'[r] = "done",
         \A r \in Reqs : Queued(Resolve(r))' => Queued(Resolve(r)),
         \A r \in Reqs : Once(Resolve(r), queue')
  PROVE  OneOwner'
  BY DEF OneOwner

LEMMA OneOwnerAppend ==
  ASSUME OneOwner, queue \in Seq(Callbacks), NEW c \in Callbacks,
         \A r \in Reqs : c # Resolve(r), queue' = queue \/ queue' = Append(queue, c)
  PROVE  \A r \in Reqs : /\ Queued(Resolve(r))' => Queued(Resolve(r))
                         /\ Once(Resolve(r), queue')
<1>1. CASE queue' = queue BY <1>1 DEF OneOwner, Queued
<1>2. CASE queue' = Append(queue, c) BY <1>2, AppendIn DEF OneOwner, Queued
<1> QED BY <1>1, <1>2

LEMMA OneOwnerNext ==
  ASSUME Inv, ~loopClosed => OneOwner, [Next]_vars, ~loopClosed' PROVE OneOwner'
<1>11. ~loopClosed /\ OneOwner
  BY DEF Next, vars, SubmitStep, CallbackStep, CloseStep, Check, Register,
         Dispatch, DispatchPanics, Await, DispatchFails, UserCancel, GoReplies, GoHangs,
         CbPop, CbCancelTimer, CbTooLate, CbNull, CbBind, CbSchedule, CbScheduleRaises,
         TimerFires, LoopRuns, LoopCloses, CloseMark, ClosePop, CloseFail, CloseEnd
<1> USE <1>11
<1>0. queue \in Seq(Callbacks) BY DEF Inv, TypeOK
<1>1. ASSUME UNCHANGED <<queue, frees>>,
             \A r \in Reqs : gor[r] = "done" => gor'[r] = "done"
      PROVE  OneOwner'
  BY <1>1, OneOwnerSame DEF OneOwner, Queued, Once
<1>2. \A r \in Reqs : /\ CancelTimer(r) \in Callbacks /\ Fail(r) \in Callbacks
                      /\ \A s \in Reqs : CancelTimer(r) # Resolve(s) /\ Fail(r) # Resolve(s)
  BY Tags
<1>3. ASSUME NEW r \in Reqs, SubmitStep(r) \/ Check(r) \/ UserCancel(r) PROVE OneOwner'
  <2>1. CASE DispatchFails(r)
    BY <1>0, <1>2, <2>1, OneOwnerAppend, OneOwnerSame DEF DispatchFails, Enqueue, goVars, Queued, OneOwner, Once
  <2>2. CASE \/ Register(r) \/ Dispatch(r) \/ DispatchPanics(r) \/ Await(r) \/ Check(r)
             \/ UserCancel(r)
    BY <1>1, <2>2 DEF Register, Dispatch, DispatchPanics, Await, Check, UserCancel,
                      goVars, Inv, TypeOK, Unsettled
  <2> QED BY <1>3, <2>1, <2>2 DEF SubmitStep
<1>4. ASSUME NEW r \in Reqs, GoReplies(r) \/ GoHangs(r) PROVE OneOwner'
  BY <1>1, <1>4 DEF GoReplies, GoHangs, Inv, TypeOK
<1>5. ASSUME NEW r \in Reqs, CallbackStep(r) PROVE OneOwner'
  <2>1. CASE CbPop(r) \/ CbBind(r) BY <1>1, <2>1 DEF CbPop, CbBind, Inv, TypeOK
  <2>2. CASE CbCancelTimer(r) \/ CbNull(r)
    <3>1. UNCHANGED frees /\ \A s \in Reqs : gor[s] = "done" => gor'[s] = "done"
      BY <2>2 DEF CbCancelTimer, CbNull, Inv, TypeOK
    <3>2. \E c \in {CancelTimer(r), Fail(r)} : queue' = queue \/ queue' = Append(queue, c)
      BY <2>2 DEF CbCancelTimer, CbNull, Enqueue
    <3> QED BY <1>0, <1>2, <3>1, <3>2, OneOwnerAppend, OneOwnerSame
  <2>3. CASE CbTooLate(r)
    BY <2>3 DEF CbTooLate, OneOwner, Queued, Inv, TypeOK
  <2>4. CASE CbSchedule(r)
    <3>1. queue' = Append(queue, Resolve(r)) /\ UNCHANGED frees
          /\ gor[r] # "done" /\ gor' = [gor EXCEPT ![r] = "done"]
      BY <2>4 DEF CbSchedule, Enqueue
    <3>2. /\ \A d : Queued(d)' <=> Queued(d) \/ d = Resolve(r)
          /\ \A d : Once(d, queue) /\ (d = Resolve(r) => ~Queued(Resolve(r)))
                       => Once(d, queue')
      BY <1>0, <3>1, Tags, AppendIn DEF Queued
    <3>3. \A s \in Reqs : s # r => Resolve(s) # Resolve(r) BY Tags
    <3>4. \A s \in Reqs : Once(Resolve(s), queue') BY <3>1, <3>2, <3>3 DEF OneOwner
    <3>5. gor \in [Reqs -> {"none", "running", "hung", "pop", "cancel", "check",
                            "schedule", "done"}]
      BY DEF Inv, TypeOK
    <3> QED BY <3>1, <3>2, <3>3, <3>4, <3>5 DEF OneOwner
  <2>5. CASE CbScheduleRaises(r) BY <2>5 DEF CbScheduleRaises
  <2> QED BY <1>5, <2>1, <2>2, <2>3, <2>4, <2>5 DEF CallbackStep
<1>6. ASSUME NEW r \in Reqs, TimerFires(r) PROVE OneOwner'
  <2>1. UNCHANGED <<frees, gor>> BY <1>6 DEF TimerFires, goVars
  <2>2. queue' = queue \/ queue' = Append(queue, Fail(r)) BY <1>6 DEF TimerFires, Enqueue
  <2> QED BY <1>0, <1>2, <2>1, <2>2, OneOwnerAppend, OneOwnerSame
<1>7. CASE LoopRuns
  <2>0. PICK c : c = Head(queue) OBVIOUS
  <2>1. /\ c \in Callbacks /\ Queued(c)
        /\ \A d : Queued(d)' => Queued(d)
        /\ \A d : Once(d, queue) => Once(d, queue')
        /\ Once(c, queue) => ~Queued(c)'
    BY <1>0, <1>7, <2>0, TailIn DEF LoopRuns, Queued
  <2>2. \A s \in Reqs : gor'[s] = gor[s] BY <1>7 DEF LoopRuns, goVars
  <2>3. CASE c.do # "resolve"
    <3>1. UNCHANGED frees BY <1>7, <2>0, <2>3 DEF LoopRuns
    <3> QED BY <2>1, <2>2, <3>1, OneOwnerSame DEF OneOwner
  <2>4. CASE c.do = "resolve"
    <3>1. c.req \in Reqs /\ c = Resolve(c.req) BY <2>1, <2>4 DEF Callbacks, Resolve
    <3>2. frees' = [frees EXCEPT ![c.req] = @ + 1] BY <1>7, <2>0, <2>4 DEF LoopRuns
    <3>3. frees \in [Reqs -> Nat] BY DEF Inv, TypeOK
    <3>4. frees[c.req] = 0 /\ gor[c.req] = "done" /\ ~Queued(Resolve(c.req))'
      BY <2>1, <3>1 DEF OneOwner
    <3>5. frees'[c.req] = 1 /\ \A s \in Reqs : s # c.req => frees'[s] = frees[s]
      BY <3>1, <3>2, <3>3, <3>4
    <3> QED BY <2>1, <2>2, <3>1, <3>4, <3>5 DEF OneOwner
  <2> QED BY <2>3, <2>4
<1>8. CASE LoopCloses BY <1>8 DEF LoopCloses
<1>9. CASE CloseStep
  <2>1. CASE CloseMark \/ ClosePop \/ CloseEnd
    BY <1>1, <2>1 DEF CloseMark, ClosePop, CloseEnd, goVars, closeVars
  <2>2. ASSUME NEW r \in Reqs, CloseFail(r) PROVE OneOwner'
    <3> DEFINE q == Append(queue, CancelTimer(r))
    <3>1. UNCHANGED frees /\ \A s \in Reqs : gor'[s] = gor[s]
      BY <2>2 DEF CloseFail, goVars
    <3>2. /\ q \in Seq(Callbacks)
          /\ \A s \in Reqs : /\ In(Resolve(s), q) <=> In(Resolve(s), queue)
                             /\ Once(Resolve(s), q)
      BY <1>0, <1>2, AppendIn DEF OneOwner
    <3>3. queue' = queue \/ queue' = q \/ queue' = Append(q, Fail(r))
      BY <2>2 DEF CloseFail
    <3> HIDE DEF q
    <3>4. \A s \in Reqs : /\ In(Resolve(s), Append(q, Fail(r))) <=> In(Resolve(s), q)
                          /\ Once(Resolve(s), Append(q, Fail(r)))
      BY <1>2, <3>2, AppendIn
    <3>5. \A s \in Reqs : /\ Queued(Resolve(s))' => Queued(Resolve(s))
                          /\ Once(Resolve(s), queue')
      BY <3>2, <3>3, <3>4 DEF Queued, OneOwner
    <3> QED BY <3>1, <3>5, OneOwnerSame
  <2> QED BY <1>9, <2>1, <2>2 DEF CloseStep
<1>10. CASE UNCHANGED vars BY <1>1, <1>10 DEF vars
<1> QED BY <1>3, <1>4, <1>5, <1>6, <1>7, <1>8, <1>9, <1>10 DEF Next

(* Until the program closes the loop, every response is freed at most once *)
(* and never before it is unpacked.                                        *)
THEOREM ResponseFreedOnce == Spec => []FreedOnceWhileOpen
<1> DEFINE I == ~loopClosed => OneOwner
<1>1. ASSUME Init PROVE I
  <2>1. \A d : ~Queued(d) /\ Once(d, queue) BY <1>1 DEF Init, Queued, In, Once
  <2>2. \A r \in Reqs : frees[r] = 0 BY <1>1 DEF Init
  <2>3. ASSUME NEW n, n = 0 PROVE n <= 1 BY <2>3
  <2> QED BY <2>1, <2>2, <2>3 DEF OneOwner
<1>2. Inv /\ I /\ [Next]_vars => I' BY OneOwnerNext
<1>3. I => FreedOnceWhileOpen BY DEF OneOwner, FreedOnce, FreedOnceWhileOpen
<1> HIDE DEF I
<1> QED BY <1>1, <1>2, <1>3, InvAlways, PTL DEF Spec

\* A step that takes nothing from the queue, frees nothing and returns from
\* no callback with a response.
LEMMA NoLeakSame ==
  ASSUME NoLeak, UNCHANGED frees, \A r \in Reqs : Queued(Resolve(r)) => Queued(Resolve(r))',
         \A r \in Reqs : gor'[r] = "done" /\ reply'[r] = "held"
                            => gor[r] = "done" /\ reply[r] = "held"
  PROVE  NoLeak'
  BY DEF NoLeak

LEMMA NoLeakNext == Inv /\ NoLeak /\ [Next]_vars => NoLeak'
<1> SUFFICES ASSUME Inv, NoLeak, [Next]_vars PROVE NoLeak' OBVIOUS
<1>0. /\ queue \in Seq(Callbacks) /\ frees \in [Reqs -> Nat]
      /\ reply \in [Reqs -> {"none", "held", "null"}]
      /\ gor \in [Reqs -> {"none", "running", "hung", "pop", "cancel", "check",
                           "schedule", "done"}]
  BY DEF Inv, TypeOK
<1>1. \A r \in Reqs : CancelTimer(r) \in Callbacks /\ Fail(r) \in Callbacks
                      /\ Resolve(r) \in Callbacks
  BY Tags
<1>2. ASSUME NEW r \in Reqs, \/ Check(r) \/ Register(r) \/ Dispatch(r) \/ DispatchPanics(r)
                             \/ Await(r) \/ UserCancel(r) \/ GoReplies(r) \/ GoHangs(r)
                             \/ CbPop(r) \/ CbBind(r)
      PROVE  NoLeak'
  BY <1>0, <1>2, NoLeakSame
     DEF Check, Register, Dispatch, DispatchPanics, Await, UserCancel, GoReplies, GoHangs,
         CbPop, CbBind, goVars, Queued
<1>3. ASSUME NEW r \in Reqs, NEW c \in Callbacks, queue' = queue \/ Enqueue(c)
      PROVE  \A d : Queued(d) => Queued(d)'
  <2>1. CASE queue' = queue BY <2>1 DEF Queued
  <2>2. CASE Enqueue(c) BY <1>0, <2>2, EnqueueIn
  <2> QED BY <1>3, <2>1, <2>2
<1>4. ASSUME NEW r \in Reqs, DispatchFails(r) \/ TimerFires(r) \/ CbCancelTimer(r) \/ CbNull(r)
      PROVE  NoLeak'
  <2>1. \E c \in Callbacks : queue' = queue \/ Enqueue(c)
    BY <1>1, <1>4 DEF DispatchFails, TimerFires, CbCancelTimer, CbNull
  <2>2. \A d : Queued(d) => Queued(d)' BY <1>3, <2>1
  <2> QED BY <1>0, <1>4, <2>2, NoLeakSame
          DEF DispatchFails, TimerFires, CbCancelTimer, CbNull, goVars
<1>5. ASSUME NEW r \in Reqs, CbTooLate(r) \/ CbScheduleRaises(r) PROVE NoLeak'
  <2>1. \A d : Queued(d)' <=> Queued(d) BY <1>5 DEF CbTooLate, CbScheduleRaises, Queued
  <2>2. /\ \A s \in Reqs : s # r => gor'[s] = gor[s] /\ frees'[s] = frees[s]
        /\ UNCHANGED reply /\ (reply[r] = "held" => frees'[r] >= 1)
    <3>1. CASE CbTooLate(r) BY <1>0, <3>1 DEF CbTooLate
    <3>2. CASE CbScheduleRaises(r) BY <1>0, <3>2 DEF CbScheduleRaises
    <3> QED BY <1>5, <3>1, <3>2
  <2> QED BY <2>1, <2>2 DEF NoLeak
<1>6. ASSUME NEW r \in Reqs, CbSchedule(r) PROVE NoLeak'
  <2>1. Queued(Resolve(r))' /\ \A d : Queued(d) => Queued(d)'
    BY <1>0, <1>1, <1>6, EnqueueIn DEF CbSchedule
  <2> QED BY <1>0, <1>6, <2>1 DEF CbSchedule, NoLeak
<1>7. CASE LoopRuns
  <2>0. PICK c : c = Head(queue) OBVIOUS
  <2>1. c \in Callbacks /\ \A d : Queued(d) => d = c \/ Queued(d)'
    BY <1>0, <1>7, <2>0, TailIn DEF LoopRuns, Queued
  <2>2. UNCHANGED <<gor, reply>> BY <1>7 DEF LoopRuns, goVars
  <2>3. \A r \in Reqs : frees'[r] >= frees[r] /\ (c = Resolve(r) => frees'[r] >= 1)
    BY <1>0, <1>7, <2>0 DEF LoopRuns, Resolve
  <2>4. \A r \in Reqs : frees[r] >= 1 => frees'[r] >= 1
    <3>1. frees' \in [Reqs -> Nat] BY <1>0, <1>7, <2>0, <2>1 DEF LoopRuns
    <3> QED BY <1>0, <2>3, <3>1
  <2> QED BY <2>1, <2>2, <2>3, <2>4 DEF NoLeak
<1>8. CASE LoopCloses
  <2>1. UNCHANGED <<gor, reply>> BY <1>8 DEF LoopCloses, goVars
  <2>2. \A r \in Reqs : frees[r] >= 1 \/ Queued(Resolve(r)) => frees'[r] >= 1
    BY <1>0, <1>8 DEF LoopCloses
  <2> QED BY <2>1, <2>2 DEF NoLeak
<1>9. CASE CloseStep
  <2>1. CASE CloseMark \/ ClosePop \/ CloseEnd
    BY <2>1, NoLeakSame DEF CloseMark, ClosePop, CloseEnd, goVars, Queued
  <2>2. ASSUME NEW r \in Reqs, CloseFail(r) PROVE NoLeak'
    <3> DEFINE q == Append(queue, CancelTimer(r))
    <3>1. q \in Seq(Callbacks) /\ \A d : In(d, q) <=> In(d, queue) \/ d = CancelTimer(r)
      BY <1>0, <1>1, AppendIn
    <3>2. queue' = queue \/ queue' = q \/ queue' = Append(q, Fail(r))
      BY <2>2 DEF CloseFail
    <3> HIDE DEF q
    <3>3. \A d : In(d, Append(q, Fail(r))) <=> In(d, q) \/ d = Fail(r)
      BY <1>1, <3>1, AppendIn
    <3>4. \A d : Queued(d) => Queued(d)' BY <3>1, <3>2, <3>3 DEF Queued
    <3> QED BY <2>2, <3>4, NoLeakSame DEF CloseFail, goVars
  <2> QED BY <1>9, <2>1, <2>2 DEF CloseStep
<1>10. CASE UNCHANGED vars BY <1>10, NoLeakSame DEF vars, Queued
<1> QED BY <1>2, <1>4, <1>5, <1>6, <1>7, <1>8, <1>9, <1>10 DEF Next, SubmitStep, CallbackStep

(* A response whose callback has returned is freed or will be by the loop, *)
(* also when the loop is closed under it.                                  *)
THEOREM ResponseNotLeaked == Spec => []NoLeak
<1>1. Init => NoLeak BY DEF Init, NoLeak
<1> QED BY <1>1, NoLeakNext, InvAlways, PTL DEF Spec
-----------------------------------------------------------------------------
(* Refinement.                                                             *)

\* A step that changes what one caller observes, and how.
LEMMA ObservedChange ==
  ASSUME NEW r \in Reqs, ~loopClosed, UNCHANGED loopClosed,
         \A s \in Reqs : s # r => Observed'[s] = Observed[s],
         \/ Observed'[r] = Observed[r]
         \/ Observed[r] = "idle" /\ Observed'[r] \in {"rejected", "pending"}
         \/ Observed[r] = "pending" /\ Observed'[r] \in Settled
  PROVE  [Promise!Next]_(Promise!vars)
<1> DEFINE v == Observed'[r]
<1>1. Observed' = [Observed EXCEPT ![r] = v] BY DEF Observed
<1>2. CASE Observed'[r] = Observed[r]
  <2>1. Observed' = Observed BY <1>1, <1>2 DEF Observed
  <2> QED BY <2>1 DEF Promise!vars
<1> USE DEF Promise!Next, Promise!Move
<1>3. CASE Observed[r] = "idle" /\ Observed'[r] = "rejected"
  BY <1>1, <1>3 DEF Promise!Reject
<1>4. CASE Observed[r] = "idle" /\ Observed'[r] = "pending"
  BY <1>1, <1>4 DEF Promise!Await
<1>5. CASE Observed[r] = "pending" /\ Observed'[r] \in Settled
  BY <1>1, <1>5 DEF Promise!Settle, Promise!Outcomes, Settled
<1> QED BY <1>2, <1>3, <1>4, <1>5

LEMMA ObservedSame ==
  ASSUME UNCHANGED <<sub, fut, loopClosed>> PROVE [Promise!Next]_(Promise!vars)
<1>1. Observed' = Observed BY DEF Observed
<1> QED BY <1>1 DEF Promise!vars

LEMMA StepRefines == Inv /\ Inv' /\ [Next]_vars => [Promise!Next]_(Promise!vars)
<1> SUFFICES ASSUME Inv, Inv', [Next]_vars PROVE [Promise!Next]_(Promise!vars) OBVIOUS
<1>0. /\ sub \in [Reqs -> Submitting \cup {"new", "awaiting", "raised"}]
      /\ fut \in [Reqs -> Settled \cup {"none", "pending"}]
      /\ \A r \in Reqs : sub[r] = "awaiting" => fut[r] # "none"
      /\ \A r \in Reqs : sub[r] \in {"registered", "dispatched", "inCallback"}
                            => fut[r] = "pending"
  BY DEF Inv, TypeOK, Unsettled
<1>1. ASSUME NEW r \in Reqs,
             Check(r) \/ Register(r) \/ Dispatch(r) \/ DispatchPanics(r) \/ Await(r)
             \/ DispatchFails(r) \/ UserCancel(r)
      PROVE  [Promise!Next]_(Promise!vars)
  <2>1. \A s \in Reqs : s # r => sub'[s] = sub[s] /\ fut'[s] = fut[s]
    BY <1>0, <1>1 DEF Check, Register, Dispatch, DispatchPanics, Await, DispatchFails,
                      UserCancel
  <2>2. \/ sub'[r] = "raised" /\ sub[r] \notin {"awaiting", "raised"}
        \/ sub'[r] = "awaiting" /\ fut'[r] = "pending" /\ sub[r] \notin {"awaiting", "raised"}
        \/ sub'[r] = "awaiting" /\ sub[r] = "awaiting" /\ fut[r] = "pending"
              /\ fut'[r] \in Settled
        \/ sub'[r] \notin {"awaiting", "raised"} /\ sub[r] \notin {"awaiting", "raised"}
    BY <1>0, <1>1 DEF Check, Register, Dispatch, DispatchPanics, Await, DispatchFails,
                      UserCancel, Submitting, Settled, Done
  <2>3. ~loopClosed /\ UNCHANGED loopClosed
    BY <1>1 DEF Check, Register, Dispatch, DispatchPanics, Await, DispatchFails, UserCancel,
                LoopFree, Submitting, Inv, Running
  <2> QED BY <2>1, <2>2, <2>3, ObservedChange DEF Observed
<1>2. CASE LoopRuns
  <2>0. PICK r : r = Head(queue).req OBVIOUS
  <2>1. r \in Reqs
    <3>1. queue \in Seq(Callbacks) /\ queue # << >> BY <1>2 DEF Inv, TypeOK, LoopRuns
    <3>2. Head(queue) \in Callbacks BY <3>1, TailIn
    <3> QED BY <2>0, <3>2 DEF Callbacks
  <2>2. /\ UNCHANGED sub /\ \A s \in Reqs : s # r => fut'[s] = fut[s]
        /\ fut'[r] = fut[r] \/ (~Done(r) /\ fut'[r] \in Settled)
    BY <1>0, <1>2, <2>0, <2>1 DEF LoopRuns, Settle, Settled
  <2>3. ~Done(r) /\ sub[r] = "awaiting" => fut[r] = "pending"
    BY <1>0, <2>1 DEF Done
  <2>4. ~loopClosed /\ UNCHANGED loopClosed BY <1>2 DEF LoopRuns, LoopFree
  <2> QED BY <2>1, <2>2, <2>3, <2>4, ObservedChange DEF Observed
<1>3. ASSUME UNCHANGED <<sub, fut, loopClosed>> PROVE [Promise!Next]_(Promise!vars) BY <1>3, ObservedSame
<1>4. ASSUME NEW r \in Reqs, GoReplies(r) \/ GoHangs(r) \/ CallbackStep(r) \/ TimerFires(r)
      PROVE  [Promise!Next]_(Promise!vars)
  BY <1>3, <1>4 DEF GoReplies, GoHangs, CallbackStep, CbPop, CbCancelTimer, CbTooLate,
                    CbNull, CbBind, CbSchedule, CbScheduleRaises, TimerFires, reqVars
<1>5. CASE LoopCloses
  <2>1. UNCHANGED Observed BY <1>5 DEF LoopCloses, reqVars, Observed
  <2> QED BY <1>5, <2>1 DEF LoopCloses, LoopFree, Promise!Next, Promise!Shut
<1>6. CASE CloseStep
  BY <1>3, <1>6 DEF CloseStep, CloseMark, ClosePop, CloseFail, CloseEnd, reqVars
<1>7. CASE UNCHANGED vars BY <1>3, <1>7 DEF vars
<1> QED BY <1>1, <1>2, <1>4, <1>5, <1>6, <1>7 DEF Next, SubmitStep

(* Every call is rejected, or awaited and settled at most once with a      *)
(* result, an error or a cancellation: the safety part of KeepsPromise.    *)
THEOREM BridgeImplementsPromise == Spec => Promise!Safety
<1>1. Init => Promise!Init
  <2> SUFFICES ASSUME Init PROVE Observed = [r \in Reqs |-> "idle"] /\ loopClosed = FALSE
    BY DEF Promise!Init
  <2> QED BY DEF Init, Observed
<1> QED BY <1>1, StepRefines, InvAlways, PTL DEF Spec, Promise!Safety
=============================================================================
