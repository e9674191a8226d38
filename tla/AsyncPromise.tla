---------------------------- MODULE AsyncPromise ----------------------------
(***************************************************************************)
(* What AsyncSession promises to the coroutine that awaits a request: the  *)
(* call is rejected before it starts, or it is awaited and then settled,   *)
(* once, with a result, an error or a cancellation.  It is settled unless  *)
(* the program shuts the event loop down, and nothing happens after that.  *)
(***************************************************************************)
CONSTANT Reqs
VARIABLES state,   \* what the caller of request r observes
          shut     \* the event loop was closed

vars == <<state, shut>>

Outcomes == {"result", "error", "cancelled"}

Init == state = [r \in Reqs |-> "idle"] /\ shut = FALSE

\* Request r goes from one state to another, on an open loop.
Move(r, from, to) ==
    /\ ~shut /\ state[r] = from
    /\ \E s \in to : state' = [state EXCEPT ![r] = s]
    /\ UNCHANGED shut

Reject(r) == Move(r, "idle", {"rejected"})
Await(r)  == Move(r, "idle", {"pending"})
Settle(r) == Move(r, "pending", Outcomes)

Shut == ~shut /\ shut' = TRUE /\ UNCHANGED state

Next == Shut \/ \E r \in Reqs : Reject(r) \/ Await(r) \/ Settle(r)

Safety == Init /\ [][Next]_vars
Spec   == Safety /\ \A r \in Reqs : WF_vars(Settle(r))
=============================================================================
