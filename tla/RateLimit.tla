------------------------------ MODULE RateLimit --------------------------------
(***************************************************************************)
(* RateLimitMiddleware (core/middleware.py) for one client: requests under *)
(* /api/ are counted in the cache under a key of the current window, which *)
(* is added with the length of a window as its timeout and incremented.    *)
(***************************************************************************)
EXTENDS Integers

CONSTANTS
  ApiRequests,         \* requests that can be under way together
  ApiLimit, ApiWindow, \* API_RATE_LIMIT: requests, and the ticks they may come in
  LimitHorizon,        \* bound: ticks
  MaxCount,            \* bound: a key that counts so many gets no further request
  Missing

ASSUME RateAssumption ==
  /\ ApiLimit \in Nat /\ ApiWindow \in Nat \ {0} /\ LimitHorizon \in Nat
  /\ Missing \notin Nat

VARIABLES
  clock,
  count, expires,      \* the value of each window's key, Missing, and when it goes
  call,                \* window and next step of each request
  served               \* requests let through while their window lasted (for the properties)

limitVars == <<clock, count, expires, call, served>>

Windows == 0 .. LimitHorizon \div ApiWindow
IdleCall == [window |-> 0, step |-> "idle"]

LInit ==
  /\ clock = 0
  /\ count = [w \in Windows |-> Missing]
  /\ expires = [w \in Windows |-> 0]
  /\ call = [t \in ApiRequests |-> IdleCall]
  /\ served = [w \in Windows |-> 0]

\* The key is made from the time the request arrives.
Receive(t) ==
  /\ call[t] = IdleCall
  /\ LET n == count[clock \div ApiWindow] IN n # Missing => n < MaxCount
  /\ call' = [call EXCEPT ![t] = [window |-> clock \div ApiWindow, step |-> "add"]]
  /\ UNCHANGED <<clock, count, expires, served>>

\* cache.add does nothing when the key is there.
Add(t) ==
  LET w == call[t].window IN
  /\ call[t].step = "add"
  /\ call' = [call EXCEPT ![t].step = "increment"]
  /\ IF count[w] # Missing THEN UNCHANGED <<count, expires>>
     ELSE /\ count' = [count EXCEPT ![w] = 0]
          /\ expires' = [expires EXCEPT ![w] = clock + ApiWindow]
  /\ UNCHANGED <<clock, served>>

\* cache.incr of a key that went in between fails, and the count starts over.
Increment(t) ==
  LET w == call[t].window
      current == IF count[w] = Missing THEN 1 ELSE count[w] + 1 IN
  /\ call[t].step = "increment"
  /\ count' = [count EXCEPT ![w] = current]
  /\ expires' = IF count[w] = Missing THEN [expires EXCEPT ![w] = clock + ApiWindow] ELSE expires
  /\ served' = IF current <= ApiLimit /\ w = clock \div ApiWindow
               THEN [served EXCEPT ![w] = @ + 1] ELSE served
  /\ call' = [call EXCEPT ![t] = IdleCall]
  /\ UNCHANGED clock

LTick ==
  /\ clock < LimitHorizon
  /\ clock' = clock + 1
  /\ count' = [w \in Windows |-> IF expires[w] <= clock' THEN Missing ELSE count[w]]
  /\ UNCHANGED <<expires, call, served>>

LNext ==
  \/ \E t \in ApiRequests : Receive(t) \/ Add(t) \/ Increment(t)
  \/ LTick

LSpec == LInit /\ [][LNext]_limitVars

-----------------------------------------------------------------------------
(* Properties *)

\* No more requests of a window go through in it than the limit allows, however
\* they overlap: the key outlives the window it counts, and a request that is held
\* up past its window can only give away places of a window that is over.
WindowBounded == \A w \in Windows : served[w] <= ApiLimit

=============================================================================
