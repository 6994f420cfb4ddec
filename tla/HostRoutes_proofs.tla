-------------------------- MODULE HostRoutes_proofs --------------------------
(***************************************************************************)
(* The inductive invariant of HostRoutes and the theorems that follow.     *)
(*                                                                         *)
(* The argument: every request works in the cached slot (Placed), whose    *)
(* mark `resolving` belongs to exactly one thread (Tied, OneResolver).     *)
(* A slot without a route knows that its newest route is gone (Gone), so a *)
(* late failure finds either that, or a newer route, or consumes the route *)
(* that failed.                                                            *)
(***************************************************************************)
EXTENDS HostRoutes, TLAPS

\* Every request is in the cached slot; slots not yet used are empty.
Placed ==
  /\ cached \notin retired
  /\ \A t \in Threads : home[t] # NoSlot => home[t] = cached
  /\ \A s \in Slots : s # cached /\ s \notin retired =>
       route[s] = NoRoute /\ ~resolving[s] /\ newest[s] = 0 /\ invalidated[s] = 0

\* A slot is marked while a thread is out resolving for it.
Tied == \A s \in Slots :
          resolving[s] <=> \E t \in Threads : phase[t] = "resolving" /\ home[t] = s

\* A request holds a route of its slot's past; it needs one to be sent.
Leased == \A t \in Threads :
  /\ home[t] = NoSlot => lease[t] = NoRoute
  /\ home[t] # NoSlot => lease[t] <= newest[home[t]]
  /\ phase[t] \in {"send", "sent", "refresh", "invalidate", "confirm"} => lease[t] # NoRoute
  /\ stage[t] # "first" => lease[t] # NoRoute

\* An empty slot knows that its newest route is gone.
Gone == \A s \in Slots : /\ invalidated[s] <= newest[s]
                         /\ route[s] = NoRoute => invalidated[s] = newest[s]

\* A refresh after a failure resolves for an empty slot.
Emptied == \A t \in Threads :
  phase[t] = "resolving" /\ stage[t] # "first" => route[home[t]] = NoRoute

\* A route in the slot has not been spent on a refresh.
Unspent == \A s \in Slots : /\ refreshes[s] <= installs[s]
                            /\ route[s] # NoRoute => refreshes[s] < installs[s]

\* How often a request may have been sent when it is at a given point.
Unsent == {"idle", "look", "route", "asleep", "woken", "resolving", "send"}
Counted == \A t \in Threads :
  /\ phase[t] \in {"idle", "look", "route"} => stage[t] = "first"
  /\ stage[t] # "first" => kind[t] \in RetrySafe
  /\ stage[t] = "first" /\ phase[t] \in Unsent => sends[t] = 0
  /\ stage[t] = "first" => sends[t] <= 1 /\ phase[t] # "refresh"
  /\ stage[t] # "first" /\ phase[t] \in Unsent \cup {"refresh"} => sends[t] <= 1
  /\ sends[t] <= 2

IInv == /\ TypeOK /\ Placed /\ Tied /\ OneResolver /\ NoSleeperLeft /\ Leased
        /\ CachedIsNewest /\ Gone /\ Emptied /\ Unspent /\ Counted

USE RoutesAssumption

-----------------------------------------------------------------------------
LEMMA InitIInv == Init => IInv
BY DEF Init, IInv, TypeOK, Placed, Tied, OneResolver, NoSleeperLeft, Leased, CachedIsNewest,
       Gone, Emptied, Unspent, Counted, Phases, Stages, Kinds, NoRoute, Unsent

SlotTypes ==
  /\ cached \in Slots \cup {NoSlot} /\ retired \in SUBSET Slots
  /\ route \in [Slots -> Nat] /\ fresh \in [Slots -> BOOLEAN]
  /\ resolving \in [Slots -> BOOLEAN] /\ active \in [Slots -> Nat]
  /\ invalidated \in [Slots -> Nat] /\ newest \in [Slots -> Nat]
  /\ installs \in [Slots -> Nat] /\ refreshes \in [Slots -> Nat]

ThreadTypes ==
  /\ phase \in [Threads -> Phases] /\ kind \in [Threads -> Kinds \cup {"none"}]
  /\ stage \in [Threads -> Stages] /\ home \in [Threads -> Slots \cup {NoSlot}]
  /\ lease \in [Threads -> Nat] /\ attempt \in [Threads -> Nat]
  /\ begun \in Nat /\ sends \in [Threads -> Nat]
  /\ \A t \in Threads : home[t] = NoSlot <=> phase[t] \in {"idle", "look"}

LEMMA Types == TypeOK <=> SlotTypes /\ ThreadTypes
BY DEF TypeOK, SlotTypes, ThreadTypes

\* Phases after notifications are phases, and nobody is moved out of a slot.
Awake(ph) == /\ ph \in [Threads -> Phases]
             /\ \A u \in Threads : ph[u] \in {"idle", "look"} <=> phase[u] \in {"idle", "look"}

LEMMA AwakeTypes ==
  ASSUME ThreadTypes
  PROVE  Awake(phase) /\ \A s \in Slots : Awake(Notified(s))
BY DEF Awake, ThreadTypes, Notified, Phases

LEMMA EndsTypes ==
  ASSUME ThreadTypes, NEW t \in Threads, NEW ph, Awake(ph), Ends(t, ph)
  PROVE  ThreadTypes'
BY DEF Awake, ThreadTypes, Ends, Phases, Stages, NoRoute

LEMMA AnsweredTypes ==
  ASSUME ThreadTypes, NEW t \in Threads, NEW g \in Nat, NEW ph, Awake(ph), home[t] # NoSlot,
         Answered(t, g, ph)
  PROVE  ThreadTypes'
<1>1. CASE Ends(t, ph)
  BY <1>1, EndsTypes
<1>2. CASE ~Ends(t, ph)
  BY <1>2 DEF Awake, ThreadTypes, Answered, Phases, Stages
<1> QED BY <1>1, <1>2

LEMMA WaitsTypes ==
  ASSUME SlotTypes, ThreadTypes, NEW t \in Threads, home[t] \in Slots, Waits(t), UNCHANGED transport
  PROVE  SlotTypes' /\ ThreadTypes'
BY DEF SlotTypes, ThreadTypes, Waits, transport, slotVars, counts, Phases

LEMMA StartsTypes ==
  ASSUME SlotTypes, ThreadTypes, NEW t \in Threads, home[t] \in Slots, Starts(t)
  PROVE  /\ ThreadTypes'
         /\ active' \in [Slots -> Nat] /\ resolving' \in [Slots -> BOOLEAN]
         /\ newest' = newest /\ installs' = installs
BY DEF SlotTypes, ThreadTypes, Starts, Phases

LEMMA TypeStep == ASSUME TypeOK, [Next]_vars PROVE TypeOK'
<1> SUFFICES ASSUME SlotTypes, ThreadTypes PROVE SlotTypes' /\ ThreadTypes'
  BY Types DEF TypeOK, SlotTypes, ThreadTypes
<1>0. /\ Awake(phase) /\ \A s \in Slots : Awake(Notified(s))
      /\ \A t \in Threads : phase[t] \notin {"idle", "look"} => home[t] \in Slots /\ home[t] # NoSlot
  BY AwakeTypes DEF ThreadTypes
<1>1. ASSUME NEW t \in Threads, Begin(t) PROVE SlotTypes' /\ ThreadTypes'
  BY <1>1 DEF SlotTypes, ThreadTypes, Begin, transport, slotVars, counts, Phases, Kinds
<1>2. ASSUME NEW t \in Threads, LookUp(t) PROVE SlotTypes' /\ ThreadTypes'
  BY <1>2 DEF SlotTypes, ThreadTypes, LookUp, slotVars, counts, Phases
<1>3. ASSUME NEW t \in Threads, Busy(t) PROVE SlotTypes' /\ ThreadTypes'
  BY <1>0, <1>3, EndsTypes DEF SlotTypes, Busy, transport, slotVars, counts
<1>4. ASSUME NEW t \in Threads, Current(t) PROVE SlotTypes' /\ ThreadTypes'
  <2> DEFINE s == home[t]
  <2>1. s \in Slots /\ s # NoSlot /\ route[s] \in Nat
    BY <1>0, <1>4 DEF Current, SlotTypes
  <2>2. CASE Answered(t, route[s], phase) /\ UNCHANGED <<slotVars, counts>>
    BY <1>0, <1>4, <2>1, <2>2, AnsweredTypes DEF Current, SlotTypes, transport, slotVars, counts
  <2>3. CASE Waits(t)
    BY <1>4, <2>1, <2>3, WaitsTypes DEF Current
  <2>4. CASE Starts(t) /\ UNCHANGED <<route, fresh, invalidated, refreshes>>
    BY <1>4, <2>1, <2>4, StartsTypes DEF Current, SlotTypes, transport
  <2> QED BY <1>4, <2>2, <2>3, <2>4 DEF Current
<1>5. ASSUME NEW t \in Threads, Refresh(t) PROVE SlotTypes' /\ ThreadTypes'
  <2> DEFINE s == home[t]
  <2>1. s \in Slots /\ s # NoSlot /\ route[s] \in Nat /\ NoRoute \in Nat
    BY <1>0, <1>5 DEF Refresh, SlotTypes, NoRoute
  <2>2. CASE /\ Answered(t, route[s], phase) \/ Answered(t, NoRoute, phase)
             /\ UNCHANGED <<slotVars, counts>>
    BY <1>0, <1>5, <2>1, <2>2, AnsweredTypes DEF Refresh, SlotTypes, transport, slotVars, counts
  <2>3. CASE Waits(t)
    BY <1>5, <2>1, <2>3, WaitsTypes DEF Refresh
  <2>4. CASE /\ Starts(t)
             /\ route' = [route EXCEPT ![s] = NoRoute]
             /\ fresh' = [fresh EXCEPT ![s] = FALSE]
             /\ invalidated' = [invalidated EXCEPT ![s] = NewestOf(@, lease[t])]
             /\ refreshes' = [refreshes EXCEPT ![s] = @ + 1]
    <3>1. lease[t] \in Nat BY DEF ThreadTypes
    <3> QED BY <1>5, <2>1, <2>4, <3>1, StartsTypes DEF Refresh, SlotTypes, transport, NewestOf
  <2> QED BY <1>5, <2>2, <2>3, <2>4 DEF Refresh
<1>6. ASSUME NEW t \in Threads, Found(t) PROVE SlotTypes' /\ ThreadTypes'
  <2>1. SlotTypes' /\ newest[home[t]] + 1 \in Nat
    BY <1>0, <1>6 DEF Found, SlotTypes, transport
  <2> QED BY <1>0, <1>6, <2>1, AnsweredTypes DEF Found
<1>7. ASSUME NEW t \in Threads, Missed(t) PROVE SlotTypes' /\ ThreadTypes'
  <2> DEFINE kept == IF stage[t] = "first" THEN route[home[t]] ELSE NoRoute
  <2>1. kept \in Nat
    BY <1>0, <1>7 DEF Missed, SlotTypes, NoRoute
  <2>2. SlotTypes'
    BY <1>0, <1>7, <2>1 DEF Missed, SlotTypes, transport, counts
  <2> QED BY <1>0, <1>7, <2>1, <2>2, AnsweredTypes DEF Missed
<1>8. ASSUME NEW t \in Threads, Wake(t) \/ Timeout(t) PROVE SlotTypes' /\ ThreadTypes'
  <2>1. SlotTypes' /\ route[home[t]] \in Nat
    BY <1>0, <1>8 DEF Wake, Timeout, SlotTypes, transport, slotVars, counts
  <2>2. CASE Answered(t, route[home[t]], phase)
    BY <1>0, <1>8, <2>1, <2>2, AnsweredTypes DEF Wake, Timeout
  <2>3. CASE Goes(t, "asleep") /\ phase[t] = "woken"
    BY <2>1, <2>3 DEF Goes, ThreadTypes, Phases
  <2> QED BY <1>8, <2>2, <2>3 DEF Wake, Timeout
<1>9. ASSUME NEW t \in Threads, Send(t) \/ GiveUp(t) \/ Reply(t) \/ Fail(t)
      PROVE SlotTypes' /\ ThreadTypes'
  <2>1. SlotTypes'
    BY <1>9 DEF Send, GiveUp, Reply, Fail, SlotTypes, transport, slotVars, counts
  <2>2. CASE Ends(t, phase)
    BY <1>0, <2>1, <2>2, EndsTypes
  <2>3. CASE ~Ends(t, phase)
    BY <1>9, <2>1, <2>3 DEF Send, GiveUp, Reply, Fail, Goes, ThreadTypes, Phases, Stages
  <2> QED BY <2>2, <2>3
<1>10. ASSUME NEW t \in Threads, Invalidate(t) \/ Confirm(t) PROVE SlotTypes' /\ ThreadTypes'
  <2>1. lease[t] \in Nat BY DEF ThreadTypes
  <2>2. SlotTypes'
    <3> DEFINE s == home[t]
    <3>0. s \in Slots
      BY <1>0, <1>10 DEF Invalidate, Confirm
    <3>1. \/ UNCHANGED <<route, fresh, invalidated, installs>>
          \/ /\ route' = [route EXCEPT ![s] = NoRoute] /\ fresh' = [fresh EXCEPT ![s] = FALSE]
             /\ invalidated' = [invalidated EXCEPT ![s] = NewestOf(@, lease[t])]
             /\ installs' = installs
          \/ /\ route' = [route EXCEPT ![s] = lease[t]] /\ fresh' = [fresh EXCEPT ![s] = TRUE]
             /\ installs' = [installs EXCEPT ![s] = @ + 1] /\ invalidated' = invalidated
      BY <1>10 DEF Invalidate, Confirm, counts
    <3>2. UNCHANGED <<cached, retired, resolving, active, newest, refreshes>>
      BY <1>10 DEF Invalidate, Confirm, transport, counts
    <3> HIDE DEF s
    <3>3. fresh' \in [Slots -> BOOLEAN]
      BY <3>0, <3>1 DEF SlotTypes
    <3>4. route' \in [Slots -> Nat] /\ installs' \in [Slots -> Nat]
      BY <2>1, <3>0, <3>1 DEF SlotTypes, NoRoute
    <3>5. invalidated' \in [Slots -> Nat]
      BY <2>1, <3>0, <3>1 DEF SlotTypes, NewestOf
    <3> QED BY <3>2, <3>3, <3>4, <3>5 DEF SlotTypes
  <2> QED BY <1>0, <1>10, <2>2, EndsTypes DEF Invalidate, Confirm
<1>11. ASSUME NEW s \in Slots, Expire(s) PROVE SlotTypes' /\ ThreadTypes'
  BY <1>11 DEF Expire, transport, counts, SlotTypes, ThreadTypes
<1>12. CASE Evict
  BY <1>12 DEF Evict, slotVars, counts, SlotTypes, ThreadTypes
<1>13. CASE UNCHANGED vars
  BY <1>13 DEF vars, transport, slotVars, counts, SlotTypes, ThreadTypes
<1> QED BY <1>1, <1>2, <1>3, <1>4, <1>5, <1>6, <1>7, <1>8, <1>9, <1>10, <1>11, <1>12, <1>13 DEF Next

-----------------------------------------------------------------------------
(* The effects of a step on the threads, point by point.                   *)

Same(u) == /\ kind'[u] = kind[u] /\ stage'[u] = stage[u] /\ home'[u] = home[u]
           /\ lease'[u] = lease[u] /\ attempt'[u] = attempt[u] /\ sends'[u] = sends[u]
Others(t, ph) == \A u \in Threads : u # t => phase'[u] = ph[u] /\ Same(u)
Ended(t) == /\ phase'[t] = "idle" /\ stage'[t] = "first" /\ home'[t] = NoSlot
            /\ lease'[t] = NoRoute /\ sends'[t] = 0
Granted(t, g) == /\ g # NoRoute /\ phase'[t] = "send" /\ lease'[t] = g
                 /\ kind'[t] = kind[t] /\ stage'[t] = stage[t] /\ home'[t] = home[t]
                 /\ sends'[t] = sends[t]
Fallen(t) == /\ phase'[t] = "send" /\ stage'[t] = "fallback" /\ stage[t] = "refreshed"
             /\ kind[t] = "health"
             /\ kind'[t] = kind[t] /\ home'[t] = home[t] /\ lease'[t] = lease[t]
             /\ sends'[t] = sends[t]

LEMMA EndsStep ==
  ASSUME ThreadTypes, NEW t \in Threads, NEW ph, Awake(ph), Ends(t, ph)
  PROVE  Others(t, ph) /\ Ended(t)
BY DEF ThreadTypes, Awake, Ends, Others, Same, Ended

LEMMA AnsweredStep ==
  ASSUME ThreadTypes, NEW t \in Threads, NEW g, NEW ph, Awake(ph), Answered(t, g, ph)
  PROVE  Others(t, ph) /\ (Granted(t, g) \/ (g = NoRoute /\ Fallen(t)) \/ Ended(t))
<1>1. CASE Ends(t, ph)
  BY <1>1, EndsStep
<1>2. CASE ~Ends(t, ph)
  BY <1>2 DEF ThreadTypes, Awake, Answered, MayFallBack, Others, Same, Granted, Fallen
<1> QED BY <1>1, <1>2

LEMMA GoesStep ==
  ASSUME ThreadTypes, NEW t \in Threads, NEW p, Goes(t, p)
  PROVE  Others(t, phase) /\ Same(t) /\ phase'[t] = p
BY DEF ThreadTypes, Goes, Others, Same

LEMMA StartsStep ==
  ASSUME ThreadTypes, NEW t \in Threads, Starts(t)
  PROVE  /\ Others(t, phase) /\ phase'[t] = "resolving"
         /\ kind'[t] = kind[t] /\ stage'[t] = stage[t] /\ home'[t] = home[t]
         /\ lease'[t] = lease[t] /\ sends'[t] = sends[t]
BY DEF ThreadTypes, Starts, Others, Same

LEMMA WaitsStep ==
  ASSUME ThreadTypes, NEW t \in Threads, Waits(t)
  PROVE  /\ Others(t, phase) /\ phase'[t] = "asleep"
         /\ kind'[t] = kind[t] /\ stage'[t] = stage[t] /\ home'[t] = home[t]
         /\ lease'[t] = lease[t] /\ sends'[t] = sends[t]
         /\ attempt'[t] = active[home[t]]
BY DEF ThreadTypes, Waits, Others, Same

\* A step of one thread that leaves the slots alone and is no resolution.
LEMMA QuietStep ==
  ASSUME IInv, NEW t \in Threads, UNCHANGED <<transport, slotVars, counts>>,
         Others(t, phase), phase[t] # "resolving", phase'[t] # "resolving",
         home'[t] \in {home[t], NoSlot},
         phase'[t] = "asleep" =>
           home'[t] = home[t] /\ resolving[home[t]] /\ active[home[t]] = attempt'[t]
  PROVE  /\ Placed' /\ Tied' /\ OneResolver' /\ NoSleeperLeft'
         /\ CachedIsNewest' /\ Gone' /\ Emptied' /\ Unspent'
<1> USE DEF transport, slotVars, counts
<1>1. Placed'
  BY DEF IInv, Placed, Others, Same
<1>2. Tied'
  <2> SUFFICES ASSUME NEW s \in Slots
               PROVE  (\E u \in Threads : phase'[u] = "resolving" /\ home'[u] = s)
                        <=> (\E u \in Threads : phase[u] = "resolving" /\ home[u] = s)
    BY DEF IInv, Tied
  <2> QED BY DEF Others, Same
<1>3. OneResolver'
  BY DEF IInv, OneResolver, Others, Same
<1>4. NoSleeperLeft'
  BY DEF IInv, NoSleeperLeft, Others, Same
<1>5. CachedIsNewest' /\ Gone' /\ Unspent'
  BY DEF IInv, CachedIsNewest, Gone, Unspent
<1>6. Emptied'
  BY DEF IInv, Emptied, Others, Same
<1> QED BY <1>1, <1>2, <1>3, <1>4, <1>5, <1>6

\* What the invariant says of the other threads stays true of them while their
\* slots' newest routes only grow.
LEMMA OthersKeep ==
  ASSUME IInv, NEW t \in Threads, NEW ph, Others(t, ph), TypeOK',
         \A u \in Threads : ph[u] = phase[u] \/ (phase[u] = "asleep" /\ ph[u] = "woken"),
         \A s \in Slots : newest[s] <= newest'[s],
         \* and t itself:
         home'[t] = NoSlot => lease'[t] = NoRoute,
         home'[t] # NoSlot => lease'[t] <= newest'[home'[t]],
         phase'[t] \in {"send", "sent", "refresh", "invalidate", "confirm"} => lease'[t] # NoRoute,
         stage'[t] # "first" => lease'[t] # NoRoute,
         phase'[t] \in {"idle", "look", "route"} => stage'[t] = "first",
         stage'[t] # "first" => kind'[t] \in RetrySafe,
         stage'[t] = "first" /\ phase'[t] \in Unsent => sends'[t] = 0,
         stage'[t] = "first" => sends'[t] <= 1 /\ phase'[t] # "refresh",
         stage'[t] # "first" /\ phase'[t] \in Unsent \cup {"refresh"} => sends'[t] <= 1,
         sends'[t] <= 2
  PROVE  Leased' /\ Counted'
<1>1. ASSUME NEW u \in Threads, u # t, home[u] # NoSlot
      PROVE  lease[u] <= newest'[home[u]]
  <2>1. /\ home[u] \in Slots /\ lease[u] \in Nat
        /\ newest[home[u]] \in Nat /\ newest'[home[u]] \in Nat
    BY <1>1 DEF IInv, TypeOK
  <2>2. lease[u] <= newest[home[u]] /\ newest[home[u]] <= newest'[home[u]]
    BY <1>1, <2>1 DEF IInv, Leased
  <2> QED BY <2>1, <2>2
<1>2. Leased'
  BY <1>1 DEF IInv, Leased, Others, Same
<1>3. Counted'
  BY DEF IInv, Counted, Others, Same, Unsent
<1> QED BY <1>2, <1>3

-----------------------------------------------------------------------------
(* Every step preserves the invariant.                                     *)

Rest == /\ Placed /\ Tied /\ OneResolver /\ NoSleeperLeft
        /\ CachedIsNewest /\ Gone /\ Emptied /\ Unspent

LEMMA Invariant == IInv <=> TypeOK /\ Rest /\ Leased /\ Counted
BY DEF IInv, Rest

LEMMA InSlot ==
  ASSUME IInv, NEW t \in Threads, phase[t] \notin {"idle", "look"}
  PROVE  /\ home[t] \in Slots /\ home[t] # NoSlot /\ home[t] = cached
         /\ lease[t] \in Nat /\ lease[t] <= newest[home[t]]
         /\ newest[home[t]] \in Nat /\ route[home[t]] \in Nat
BY DEF IInv, TypeOK, Placed, Leased

LEMMA Begins == ASSUME IInv, TypeOK', NEW t \in Threads, Begin(t) PROVE Rest' /\ Leased' /\ Counted'
<1>1. /\ Others(t, phase) /\ phase[t] = "idle" /\ phase'[t] = "look"
      /\ home'[t] = home[t] /\ lease'[t] = lease[t] /\ stage'[t] = stage[t] /\ sends'[t] = sends[t]
  BY DEF Begin, IInv, TypeOK, Others, Same
<1>2. Rest'
  BY <1>1, QuietStep DEF Begin, Rest
<1>3. UNCHANGED newest /\ newest \in [Slots -> Nat]
  BY DEF Begin, slotVars, IInv, TypeOK
<1>4. Leased' /\ Counted'
  <2>1. /\ home[t] = NoSlot /\ lease[t] = NoRoute /\ stage[t] = "first" /\ sends[t] = 0
    BY <1>1 DEF IInv, TypeOK, Leased, Counted, Unsent
  <2> QED BY <1>1, <1>3, <2>1, OthersKeep DEF Unsent, NoRoute
<1> QED BY <1>2, <1>4

LEMMA LooksUp == ASSUME IInv, TypeOK', NEW t \in Threads, LookUp(t) PROVE Rest' /\ Leased' /\ Counted'
<1>1. /\ Others(t, phase) /\ phase[t] = "look" /\ phase'[t] = "route"
      /\ home'[t] = cached' /\ lease'[t] = lease[t] /\ stage'[t] = stage[t] /\ sends'[t] = sends[t]
      /\ retired' = retired /\ UNCHANGED <<slotVars, counts>>
  BY DEF LookUp, IInv, TypeOK, Others, Same
<1>2. /\ home[t] = NoSlot /\ lease[t] = NoRoute /\ stage[t] = "first" /\ sends[t] = 0
  BY <1>1 DEF IInv, TypeOK, Leased, Counted, Unsent
<1>3. cached' \in Slots /\ cached' \notin retired /\ (cached # NoSlot => cached' = cached)
  BY DEF LookUp, IInv, TypeOK, Placed
<1>4. Placed'
  BY <1>1, <1>3 DEF IInv, Placed, Others, Same, slotVars
<1>5. Tied'
  <2> SUFFICES ASSUME NEW s \in Slots
               PROVE  (\E u \in Threads : phase'[u] = "resolving" /\ home'[u] = s)
                        <=> (\E u \in Threads : phase[u] = "resolving" /\ home[u] = s)
    BY <1>1 DEF IInv, Tied, slotVars
  <2> QED BY <1>1 DEF Others, Same
<1>6. OneResolver' /\ NoSleeperLeft'
  BY <1>1 DEF IInv, OneResolver, NoSleeperLeft, Others, Same, slotVars
<1>7. CachedIsNewest' /\ Gone' /\ Unspent'
  BY <1>1 DEF IInv, CachedIsNewest, Gone, Unspent, slotVars, counts
<1>8. Emptied'
  BY <1>1 DEF IInv, Emptied, Others, Same, slotVars
<1>9. Leased' /\ Counted'
  <2>1. UNCHANGED newest /\ newest \in [Slots -> Nat] /\ newest'[cached'] \in Nat
    BY <1>1, <1>3 DEF slotVars, IInv, TypeOK
  <2> QED BY <1>1, <1>2, <2>1, OthersKeep DEF Unsent, NoRoute
<1> QED BY <1>4, <1>5, <1>6, <1>7, <1>8, <1>9 DEF Rest

\* A request that stays in its slot, or leaves, while the slot stays as it is.
LEMMA QuietRequest ==
  ASSUME IInv, TypeOK', NEW t \in Threads, UNCHANGED <<transport, slotVars, counts>>,
         phase[t] \notin {"idle", "look", "resolving"}, Others(t, phase),
         \/ Granted(t, route[home[t]]) /\ phase[t] \in {"route", "asleep", "woken", "refresh"}
         \/ Fallen(t) /\ phase[t] \in {"asleep", "woken", "refresh"}
         \/ Ended(t)
  PROVE  Rest' /\ Leased' /\ Counted'
<1>1. phase'[t] \notin {"resolving", "asleep"} /\ home'[t] \in {home[t], NoSlot}
  BY DEF Granted, Fallen, Ended
<1>2. Rest'
  BY <1>1, QuietStep DEF Rest
<1>3. UNCHANGED newest /\ newest \in [Slots -> Nat]
  BY DEF slotVars, IInv, TypeOK
<1>4. CASE Ended(t)
  BY <1>2, <1>3, <1>4, OthersKeep DEF Ended, Unsent, NoRoute
<1>5. CASE Granted(t, route[home[t]]) /\ phase[t] \in {"route", "asleep", "woken", "refresh"}
  <2>1. route[home[t]] <= newest'[home[t]]
    BY <1>3, InSlot DEF IInv, CachedIsNewest, NoRoute
  <2>2. /\ stage[t] # "first" => kind[t] \in RetrySafe /\ sends[t] <= 1
        /\ stage[t] = "first" => sends[t] = 0
        /\ sends[t] <= 2
    BY <1>5 DEF IInv, Counted, Unsent
  <2> QED BY <1>2, <1>3, <1>5, <2>1, <2>2, InSlot, OthersKeep DEF Granted, Unsent, NoRoute
<1>6. CASE Fallen(t) /\ phase[t] \in {"asleep", "woken", "refresh"}
  <2>1. /\ kind[t] \in RetrySafe /\ sends[t] <= 1 /\ lease[t] # NoRoute
        /\ lease[t] <= newest[home[t]] /\ home[t] # NoSlot
    BY <1>6, InSlot DEF Fallen, IInv, Counted, Leased, Unsent
  <2>2. sends[t] <= 2 /\ phase'[t] = "send" /\ stage'[t] = "fallback"
        /\ home'[t] = home[t] /\ lease'[t] = lease[t] /\ kind'[t] = kind[t] /\ sends'[t] = sends[t]
    BY <1>6 DEF Fallen, IInv, Counted
  <2> QED BY <1>2, <1>3, <2>1, <2>2, OthersKeep DEF Unsent
<1> QED BY <1>4, <1>5, <1>6

LEMMA Leaves ==      \* Busy, and every request that ends without touching the slot
  ASSUME IInv, TypeOK', NEW t \in Threads, phase[t] # "resolving", Ends(t, phase),
         UNCHANGED <<transport, slotVars, counts>>
  PROVE  Rest' /\ Leased' /\ Counted'
<1>1. Others(t, phase) /\ Ended(t)
  BY EndsStep, AwakeTypes, Types DEF IInv
<1>2. Rest'
  BY <1>1, QuietStep DEF Ended, Rest
<1>3. UNCHANGED newest /\ newest \in [Slots -> Nat]
  BY DEF slotVars, IInv, TypeOK
<1> QED BY <1>1, <1>2, <1>3, OthersKeep DEF Ended, Unsent, NoRoute

LEMMA Wakes ==
  ASSUME IInv, TypeOK', NEW t \in Threads, Wake(t) \/ Timeout(t)
  PROVE  Rest' /\ Leased' /\ Counted'
<1>1. UNCHANGED <<transport, slotVars, counts>> /\ phase[t] \in {"asleep", "woken"}
  BY DEF Wake, Timeout
<1>2. CASE Answered(t, route[home[t]], phase)
  BY <1>1, <1>2, AnsweredStep, AwakeTypes, Types, QuietRequest DEF IInv
<1>3. CASE Goes(t, "asleep") /\ resolving[home[t]] /\ active[home[t]] = attempt[t]
  <2>1. Others(t, phase) /\ Same(t) /\ phase'[t] = "asleep"
    BY <1>3, GoesStep, Types DEF IInv
  <2>2. Rest'
    BY <1>1, <1>3, <2>1, QuietStep DEF Same, Rest
  <2>3. /\ UNCHANGED newest /\ newest \in [Slots -> Nat]
        /\ home[t] # NoSlot /\ lease[t] <= newest[home[t]]
        /\ stage[t] # "first" => lease[t] # NoRoute
    BY <1>1, InSlot DEF slotVars, IInv, TypeOK, Leased
  <2>4. /\ stage[t] # "first" => kind[t] \in RetrySafe /\ sends[t] <= 1
        /\ stage[t] = "first" => sends[t] = 0
        /\ sends[t] <= 2
    BY <1>1 DEF IInv, Counted, Unsent
  <2> QED BY <2>1, <2>2, <2>3, <2>4, OthersKeep DEF Same, Unsent
<1> QED BY <1>2, <1>3 DEF Wake, Timeout

LEMMA Sends == ASSUME IInv, TypeOK', NEW t \in Threads, Send(t) PROVE Rest' /\ Leased' /\ Counted'
<1>1. /\ Others(t, phase) /\ phase[t] = "send" /\ phase'[t] = "sent"
      /\ kind'[t] = kind[t] /\ stage'[t] = stage[t] /\ home'[t] = home[t]
      /\ lease'[t] = lease[t] /\ sends'[t] = sends[t] + 1
      /\ UNCHANGED <<transport, slotVars, counts>>
  BY DEF Send, IInv, TypeOK, Others, Same
<1>2. Rest'
  BY <1>1, QuietStep DEF Rest
<1>3. /\ UNCHANGED newest /\ newest \in [Slots -> Nat] /\ sends[t] \in Nat
      /\ home[t] # NoSlot /\ lease[t] <= newest[home[t]] /\ lease[t] # NoRoute
  BY <1>1, InSlot DEF slotVars, IInv, TypeOK, Leased
<1>4. /\ stage[t] # "first" => kind[t] \in RetrySafe /\ sends[t] <= 1
      /\ stage[t] = "first" => sends[t] = 0
  BY <1>1 DEF IInv, Counted, Unsent
<1> QED BY <1>1, <1>2, <1>3, <1>4, OthersKeep DEF Unsent

LEMMA Replies ==
  ASSUME IInv, TypeOK', NEW t \in Threads, Reply(t) \/ Fail(t)
  PROVE  Rest' /\ Leased' /\ Counted'
<1>1. UNCHANGED <<transport, slotVars, counts>> /\ phase[t] = "sent"
  BY DEF Reply, Fail
<1>2. CASE Ends(t, phase)
  BY <1>1, <1>2, Leaves
<1>3. ASSUME ~Ends(t, phase)
      PROVE  /\ Others(t, phase) /\ kind'[t] = kind[t] /\ home'[t] = home[t]
             /\ lease'[t] = lease[t] /\ sends'[t] = sends[t]
             /\ \/ phase'[t] \in {"confirm", "invalidate"} /\ stage'[t] = stage[t]
                \/ phase'[t] = "refresh" /\ stage[t] = "first" /\ stage'[t] = "refreshed"
                   /\ kind[t] \in RetrySafe
  BY <1>3 DEF Reply, Fail, Goes, IInv, TypeOK, Others, Same
<1>4. CASE ~Ends(t, phase)
  <2>1. Rest'
    BY <1>1, <1>3, <1>4, QuietStep DEF Rest
  <2>2. /\ UNCHANGED newest /\ newest \in [Slots -> Nat]
        /\ home[t] # NoSlot /\ lease[t] <= newest[home[t]] /\ lease[t] # NoRoute
    BY <1>1, InSlot DEF slotVars, IInv, TypeOK, Leased
  <2>3. /\ stage[t] # "first" => kind[t] \in RetrySafe
        /\ stage[t] = "first" => sends[t] <= 1
        /\ sends[t] <= 2
    BY <1>1 DEF IInv, Counted
  <2> QED BY <1>3, <1>4, <2>1, <2>2, <2>3, OthersKeep DEF Unsent
<1> QED BY <1>2, <1>4

\* A resolution starts, for a slot whose route it may first consume.
LEMMA Resolves ==
  ASSUME IInv, TypeOK', NEW t \in Threads, NEW s \in Slots, home[t] = s, ~resolving[s], Starts(t),
         UNCHANGED transport, phase[t] \in {"route", "refresh"},
         \/ stage[t] = "first" /\ UNCHANGED <<route, invalidated, refreshes>>
         \/ /\ route[s] = newest[s] /\ route[s] # NoRoute /\ lease[t] = route[s]
            /\ route' = [route EXCEPT ![s] = NoRoute]
            /\ invalidated' = [invalidated EXCEPT ![s] = newest[s]]
            /\ refreshes' = [refreshes EXCEPT ![s] = @ + 1]
  PROVE  Rest' /\ Leased' /\ Counted'
<1>1. /\ Others(t, phase) /\ phase'[t] = "resolving"
      /\ kind'[t] = kind[t] /\ stage'[t] = stage[t] /\ home'[t] = home[t]
      /\ lease'[t] = lease[t] /\ sends'[t] = sends[t]
  BY StartsStep, Types DEF IInv
<1>2. /\ resolving' = [resolving EXCEPT ![s] = TRUE] /\ newest' = newest /\ installs' = installs
      /\ \A x \in Slots : x # s => active'[x] = active[x]
  BY DEF Starts, IInv, TypeOK
<1>3. s = cached /\ s # NoSlot
  BY InSlot
<1>4. \A u \in Threads : phase[u] # "resolving"
  <2> SUFFICES ASSUME NEW u \in Threads, phase[u] = "resolving" PROVE FALSE
    OBVIOUS
  <2>1. home[u] = s
    BY <1>3, InSlot
  <2> QED BY <2>1 DEF IInv, Tied
<1>5. Placed'
  BY <1>1, <1>2, <1>3 DEF IInv, TypeOK, Placed, Others, Same, transport
<1>6. Tied' /\ OneResolver'
  <2>1. \A x \in Slots : resolving'[x] <=> x = s
    <3>1. \A x \in Slots : ~resolving[x]
      BY <1>4 DEF IInv, Tied
    <3> QED BY <1>2, <3>1 DEF IInv, TypeOK
  <2>2. \A u \in Threads : phase'[u] = "resolving" <=> u = t
    BY <1>1, <1>4 DEF Others
  <2> QED BY <1>1, <2>1, <2>2 DEF Tied, OneResolver
<1>7. NoSleeperLeft'
  <2> SUFFICES ASSUME NEW u \in Threads, phase'[u] = "asleep"
               PROVE  resolving'[home'[u]] /\ active'[home'[u]] = attempt'[u]
    BY DEF NoSleeperLeft
  <2>1. u # t /\ phase[u] = "asleep" /\ Same(u)
    BY <1>1 DEF Others
  <2>2. home[u] = s /\ resolving[home[u]]
    BY <1>3, <2>1, InSlot DEF IInv, NoSleeperLeft
  <2> QED BY <2>2
<1>8. CachedIsNewest' /\ Gone'
  <2>1. /\ route \in [Slots -> Nat] /\ invalidated \in [Slots -> Nat]
        /\ newest \in [Slots -> Nat] /\ newest' = newest
        /\ CachedIsNewest /\ Gone
    BY <1>2 DEF IInv, TypeOK
  <2>2. CASE UNCHANGED <<route, invalidated>>
    BY <2>1, <2>2 DEF CachedIsNewest, Gone
  <2>3. CASE /\ route' = [route EXCEPT ![s] = NoRoute]
             /\ invalidated' = [invalidated EXCEPT ![s] = newest[s]]
    <3>1. route'[s] = NoRoute /\ invalidated'[s] = newest'[s] /\ newest[s] \in Nat
      BY <2>1, <2>3
    <3>2. \A x \in Slots \ {s} : /\ route'[x] = route[x] /\ newest'[x] = newest[x]
                                 /\ invalidated'[x] = invalidated[x]
      BY <2>1, <2>3
    <3> QED BY <2>1, <3>1, <3>2 DEF CachedIsNewest, Gone
  <2> QED BY <2>2, <2>3
<1>9. Unspent'
  <2>1. \A x \in Slots : installs[x] \in Nat /\ refreshes[x] \in Nat
    BY DEF IInv, TypeOK
  <2> QED BY <1>2, <2>1 DEF IInv, TypeOK, Unspent, NoRoute
<1>10. Emptied'
  BY <1>1, <1>4 DEF IInv, TypeOK, Emptied, Others
<1>11. Leased' /\ Counted'
  <2>1. /\ newest \in [Slots -> Nat]
        /\ home[t] # NoSlot /\ lease[t] <= newest[home[t]]
        /\ stage[t] # "first" => lease[t] # NoRoute
    BY <1>3, InSlot DEF IInv, TypeOK, Leased
  <2>2. /\ stage[t] # "first" => kind[t] \in RetrySafe /\ sends[t] <= 1
        /\ stage[t] = "first" => sends[t] = 0
        /\ sends[t] <= 2
    BY DEF IInv, Counted, Unsent
  <2> QED BY <1>1, <1>2, <2>1, <2>2, OthersKeep DEF Unsent
<1> QED BY <1>5, <1>6, <1>7, <1>8, <1>9, <1>10, <1>11 DEF Rest

LEMMA Joins ==
  ASSUME IInv, TypeOK', NEW t \in Threads, phase[t] \in {"route", "refresh"},
         UNCHANGED transport, resolving[home[t]], Waits(t)
  PROVE  Rest' /\ Leased' /\ Counted'
<1>1. /\ Others(t, phase) /\ phase'[t] = "asleep"
      /\ kind'[t] = kind[t] /\ stage'[t] = stage[t] /\ home'[t] = home[t]
      /\ lease'[t] = lease[t] /\ sends'[t] = sends[t]
      /\ attempt'[t] = active[home[t]] /\ UNCHANGED <<slotVars, counts>>
  BY WaitsStep, Types DEF IInv, Waits
<1>2. Rest'
  BY <1>1, QuietStep DEF Rest
<1>3. /\ UNCHANGED newest /\ newest \in [Slots -> Nat]
      /\ home[t] # NoSlot /\ lease[t] <= newest[home[t]]
      /\ stage[t] # "first" => lease[t] # NoRoute
  BY <1>1, InSlot DEF slotVars, IInv, TypeOK, Leased
<1>4. /\ stage[t] # "first" => kind[t] \in RetrySafe /\ sends[t] <= 1
      /\ stage[t] = "first" => sends[t] = 0
      /\ sends[t] <= 2
  BY DEF IInv, Counted, Unsent
<1> QED BY <1>1, <1>2, <1>3, <1>4, OthersKeep DEF Unsent

LEMMA Currents ==
  ASSUME IInv, TypeOK', NEW t \in Threads, Current(t)
  PROVE  Rest' /\ Leased' /\ Counted'
<1>1. phase[t] = "route" /\ stage[t] = "first" /\ home[t] \in Slots /\ UNCHANGED transport
  BY InSlot DEF Current, IInv, Counted
<1>2. CASE Answered(t, route[home[t]], phase) /\ UNCHANGED <<slotVars, counts>>
                                              /\ route[home[t]] # NoRoute
  BY <1>1, <1>2, AnsweredStep, AwakeTypes, Types, QuietRequest DEF IInv
<1>3. CASE resolving[home[t]] /\ Waits(t)
  BY <1>1, <1>3, Joins
<1>4. CASE /\ ~resolving[home[t]] /\ Starts(t)
           /\ UNCHANGED <<route, fresh, invalidated, refreshes>>
  BY <1>1, <1>4, Resolves
<1> QED BY <1>2, <1>3, <1>4 DEF Current

\* A request that failed consumes its route only if that is the newest one.
LEMMA Consumes ==
  ASSUME IInv, NEW t \in Threads, phase[t] = "refresh", NEW s \in Slots, s = home[t],
         ~Newer(s, lease[t]), ~AlreadyGone(s, lease[t])
  PROVE  /\ route[s] # NoRoute /\ route[s] = lease[t] /\ route[s] = newest[s]
         /\ NewestOf(invalidated[s], lease[t]) = newest[s]
<1>1. /\ lease[t] \in Nat /\ newest[s] \in Nat /\ route[s] \in Nat /\ invalidated[s] \in Nat
      /\ lease[t] <= newest[s]
  BY InSlot DEF IInv, TypeOK
<1>2. route[s] # NoRoute
  BY <1>1 DEF AlreadyGone, IInv, Gone
<1>3. route[s] = lease[t] /\ route[s] = newest[s]
  BY <1>2 DEF Newer, IInv, CachedIsNewest
<1>4. NewestOf(invalidated[s], lease[t]) = newest[s]
  BY <1>1, <1>3 DEF NewestOf, IInv, Gone
<1> QED BY <1>2, <1>3, <1>4

LEMMA Refreshes ==
  ASSUME IInv, TypeOK', NEW t \in Threads, Refresh(t)
  PROVE  Rest' /\ Leased' /\ Counted'
<1>1. phase[t] = "refresh" /\ home[t] \in Slots /\ UNCHANGED transport
  BY InSlot DEF Refresh
<1>2. CASE /\ Answered(t, route[home[t]], phase) \/ Answered(t, NoRoute, phase)
           /\ UNCHANGED <<slotVars, counts>>
  <2>1. Others(t, phase) /\ (Granted(t, route[home[t]]) \/ Fallen(t) \/ Ended(t))
    BY <1>2, AnsweredStep, AwakeTypes, Types DEF IInv, Granted
  <2> QED BY <1>1, <1>2, <2>1, QuietRequest
<1>3. CASE resolving[home[t]] /\ Waits(t)
  BY <1>1, <1>3, Joins
<1>4. CASE /\ ~resolving[home[t]] /\ ~Newer(home[t], lease[t]) /\ ~AlreadyGone(home[t], lease[t])
           /\ route' = [route EXCEPT ![home[t]] = NoRoute]
           /\ invalidated' = [invalidated EXCEPT ![home[t]] = NewestOf(@, lease[t])]
           /\ refreshes' = [refreshes EXCEPT ![home[t]] = @ + 1]
           /\ Starts(t)
  <2>1. /\ route[home[t]] # NoRoute /\ route[home[t]] = lease[t]
        /\ route[home[t]] = newest[home[t]]
        /\ NewestOf(invalidated[home[t]], lease[t]) = newest[home[t]]
    BY <1>1, <1>4, Consumes
  <2>2. invalidated' = [invalidated EXCEPT ![home[t]] = newest[home[t]]]
    BY <1>4, <2>1
  <2> QED BY <1>1, <1>4, <2>1, <2>2, Resolves
<1> QED BY <1>2, <1>3, <1>4 DEF Refresh

\* A resolution ends: its slot is free again and its sleepers are awake.
LEMMA Settles ==
  ASSUME IInv, TypeOK', NEW t \in Threads, NEW s \in Slots, phase[t] = "resolving", s = home[t],
         Others(t, Notified(s)), phase'[t] \notin {"resolving", "asleep"},
         home'[t] \in {home[t], NoSlot},
         resolving' = [resolving EXCEPT ![s] = FALSE], UNCHANGED <<transport, active>>,
         \A x \in Slots : x # s => /\ route'[x] = route[x] /\ newest'[x] = newest[x]
                                   /\ invalidated'[x] = invalidated[x]
  PROVE  Placed' /\ Tied' /\ OneResolver' /\ NoSleeperLeft' /\ Emptied'
<1>1. \A u \in Threads : u # t => phase[u] # "resolving"
  BY DEF IInv, OneResolver
<1>2. \A u \in Threads : phase'[u] \notin {"resolving", "asleep"}
  <2> SUFFICES ASSUME NEW u \in Threads, u # t PROVE phase'[u] \notin {"resolving", "asleep"}
    OBVIOUS
  <2>1. phase[u] = "asleep" => home[u] = s
    BY InSlot
  <2> QED BY <1>1, <2>1 DEF Others, Notified
<1>3. Placed'
  <2>1. s = cached /\ cached' = cached /\ retired' = retired
    BY InSlot DEF transport
  <2>2. \A u \in Threads : home'[u] \in {home[u], NoSlot}
    BY DEF Others, Same
  <2>3. \A x \in Slots : x # s => resolving'[x] = resolving[x]
    BY DEF IInv, TypeOK
  <2> QED BY <2>1, <2>2, <2>3 DEF IInv, Placed
<1>4. \A x \in Slots : ~resolving'[x]
  <2> SUFFICES ASSUME NEW x \in Slots, x # s, resolving[x] PROVE FALSE
    BY DEF IInv, TypeOK
  <2>1. PICK u \in Threads : phase[u] = "resolving" /\ home[u] = x
    BY DEF IInv, Tied
  <2> QED BY <1>1, <2>1
<1> QED BY <1>2, <1>3, <1>4 DEF Tied, OneResolver, NoSleeperLeft, Emptied

LEMMA NotifiedPhases ==
  ASSUME IInv, NEW s \in Slots
  PROVE  /\ Awake(Notified(s)) /\ ThreadTypes
         /\ \A u \in Threads : \/ Notified(s)[u] = phase[u]
                               \/ phase[u] = "asleep" /\ Notified(s)[u] = "woken"
BY AwakeTypes, Types DEF IInv, Notified

LEMMA Finds == ASSUME IInv, TypeOK', NEW t \in Threads, Found(t) PROVE Rest' /\ Leased' /\ Counted'
<1> DEFINE s == home[t]
<1>1. /\ s \in Slots /\ s # NoSlot /\ phase[t] = "resolving" /\ newest[s] \in Nat
      /\ newest[s] + 1 # NoRoute
  BY InSlot DEF Found, NoRoute
<1>2. Others(t, Notified(s)) /\ Granted(t, newest[s] + 1)
  <2>1. Answered(t, newest[s] + 1, Notified(s))
    BY DEF Found
  <2>2. Granted(t, newest[s] + 1)
    BY <1>1, <2>1, NotifiedPhases DEF Answered, Granted, Awake, ThreadTypes
  <2> QED BY <1>1, <2>1, <2>2, AnsweredStep, NotifiedPhases
<1>3. Placed' /\ Tied' /\ OneResolver' /\ NoSleeperLeft' /\ Emptied'
  <2>1. /\ resolving' = [resolving EXCEPT ![s] = FALSE] /\ UNCHANGED <<transport, active>>
        /\ \A x \in Slots : x # s => /\ route'[x] = route[x] /\ newest'[x] = newest[x]
                                     /\ invalidated'[x] = invalidated[x]
    BY DEF Found, IInv, TypeOK
  <2> HIDE DEF s
  <2> QED BY <1>1, <1>2, <2>1, Settles DEF Granted, s
<1>4. CachedIsNewest' /\ Gone'
  BY <1>1 DEF Found, IInv, TypeOK, CachedIsNewest, Gone
<1>5. Unspent'
  BY <1>1 DEF Found, IInv, TypeOK, Unspent
<1>6. Leased' /\ Counted'
  <2>1. /\ \A x \in Slots : newest[x] <= newest'[x]
        /\ newest'[s] = newest[s] + 1
    BY <1>1 DEF Found, IInv, TypeOK
  <2>2. /\ stage[t] # "first" => kind[t] \in RetrySafe /\ sends[t] <= 1
        /\ stage[t] = "first" => sends[t] = 0
        /\ sends[t] <= 2
    BY <1>1 DEF IInv, Counted, Unsent
  <2> QED BY <1>1, <1>2, <2>1, <2>2, NotifiedPhases, OthersKeep DEF Granted, Unsent
<1> QED BY <1>3, <1>4, <1>5, <1>6 DEF Rest

LEMMA Misses == ASSUME IInv, TypeOK', NEW t \in Threads, Missed(t) PROVE Rest' /\ Leased' /\ Counted'
<1> DEFINE s == home[t]
<1>1. /\ s \in Slots /\ s # NoSlot /\ phase[t] = "resolving"
      /\ route[s] \in Nat /\ newest[s] \in Nat
  BY InSlot DEF Missed
<1>2. route' = route /\ Answered(t, route[s], Notified(s))
  <2>1. stage[t] # "first" => route[s] = NoRoute
    BY <1>1 DEF IInv, Emptied
  <2> QED BY <1>1, <2>1 DEF Missed, IInv, TypeOK
<1>3. Others(t, Notified(s)) /\ (Granted(t, route[s]) \/ Fallen(t) \/ Ended(t))
  BY <1>1, <1>2, AnsweredStep, NotifiedPhases
<1>4. Placed' /\ Tied' /\ OneResolver' /\ NoSleeperLeft' /\ Emptied'
  <2>1. /\ resolving' = [resolving EXCEPT ![s] = FALSE] /\ UNCHANGED <<transport, active>>
        /\ \A x \in Slots : x # s => /\ route'[x] = route[x] /\ newest'[x] = newest[x]
                                     /\ invalidated'[x] = invalidated[x]
    BY <1>2 DEF Missed
  <2> HIDE DEF s
  <2> QED BY <1>1, <1>3, <2>1, Settles DEF Granted, Fallen, Ended, s
<1>5. CachedIsNewest' /\ Gone' /\ Unspent'
  BY <1>2 DEF Missed, counts, IInv, CachedIsNewest, Gone, Unspent
<1>6. Leased' /\ Counted'
  <2>1. newest' = newest /\ newest \in [Slots -> Nat]
    BY DEF Missed, IInv, TypeOK
  <2>2. /\ stage[t] # "first" => kind[t] \in RetrySafe /\ sends[t] <= 1 /\ lease[t] # NoRoute
        /\ stage[t] = "first" => sends[t] = 0
        /\ sends[t] <= 2 /\ lease[t] <= newest[s]
        /\ route[s] # NoRoute => route[s] <= newest[s]
    BY <1>1, InSlot DEF IInv, Counted, Unsent, Leased, CachedIsNewest
  <2>3. CASE Granted(t, route[s])
    BY <1>1, <1>3, <2>1, <2>2, <2>3, NotifiedPhases, OthersKeep DEF Granted, Unsent
  <2>4. CASE Fallen(t)
    BY <1>1, <1>3, <2>1, <2>2, <2>4, NotifiedPhases, OthersKeep DEF Fallen, Unsent
  <2>5. CASE Ended(t)
    BY <1>1, <1>3, <2>1, <2>5, NotifiedPhases, OthersKeep DEF Ended, Unsent, NoRoute
  <2> QED BY <1>3, <2>3, <2>4, <2>5
<1> QED BY <1>4, <1>5, <1>6 DEF Rest

\* A request ends on the slot's free side: it may have dropped the newest route,
\* or brought it back.
LEMMA Closes ==
  ASSUME IInv, TypeOK', NEW t \in Threads, NEW s \in Slots, NEW ph, s = home[t],
         phase[t] \in {"invalidate", "confirm"}, ph \in {phase, Notified(s)}, Ends(t, ph),
         UNCHANGED <<transport, resolving, active, newest>>,
         \A x \in Slots : x # s => route'[x] = route[x] /\ invalidated'[x] = invalidated[x]
  PROVE  /\ Placed' /\ Tied' /\ OneResolver' /\ NoSleeperLeft'
         /\ Leased' /\ Counted'
         /\ (resolving[s] => route'[s] \in {route[s], NoRoute}) => Emptied'
<1>1. Others(t, ph) /\ Ended(t)
  BY EndsStep, NotifiedPhases, AwakeTypes
<1>2. \A u \in Threads : ph[u] = phase[u] \/ (phase[u] = "asleep" /\ ph[u] = "woken")
  BY NotifiedPhases
<1>3. \A u \in Threads : /\ phase'[u] = "resolving" <=> phase[u] = "resolving"
                         /\ u # t => Same(u)
                         /\ phase'[u] = "asleep" => u # t /\ phase[u] = "asleep"
  BY <1>1, <1>2 DEF Others, Ended
<1>4. Placed'
  <2>1. s = cached /\ cached' = cached /\ retired' = retired
    BY InSlot DEF transport
  <2>2. \A u \in Threads : home'[u] \in {home[u], NoSlot}
    BY <1>1 DEF Others, Same, Ended
  <2> QED BY <2>1, <2>2 DEF IInv, Placed
<1>5. Tied'
  <2> SUFFICES ASSUME NEW x \in Slots
               PROVE  (\E u \in Threads : phase'[u] = "resolving" /\ home'[u] = x)
                        <=> (\E u \in Threads : phase[u] = "resolving" /\ home[u] = x)
    BY DEF IInv, Tied
  <2> QED BY <1>3 DEF Same
<1>6. OneResolver' /\ NoSleeperLeft'
  BY <1>3 DEF IInv, OneResolver, NoSleeperLeft, Same
<1>7. Leased' /\ Counted'
  <2>1. newest' = newest /\ newest \in [Slots -> Nat]
    BY DEF IInv, TypeOK
  <2> QED BY <1>1, <1>2, <2>1, OthersKeep DEF Ended, Unsent, NoRoute
<1>8. ASSUME resolving[s] => route'[s] \in {route[s], NoRoute}
      PROVE  Emptied'
  <2> SUFFICES ASSUME NEW u \in Threads, phase'[u] = "resolving", stage'[u] # "first"
               PROVE  route'[home'[u]] = NoRoute
    BY DEF Emptied
  <2>1. /\ u # t /\ phase[u] = "resolving" /\ stage[u] # "first" /\ home'[u] = home[u]
        /\ home[u] = s /\ resolving[s] /\ route[s] = NoRoute
    BY <1>3, InSlot DEF Same, IInv, Emptied, Tied
  <2> QED BY <1>8, <2>1
<1> QED BY <1>4, <1>5, <1>6, <1>7, <1>8

LEMMA Invalidates ==
  ASSUME IInv, TypeOK', NEW t \in Threads, Invalidate(t)
  PROVE  Rest' /\ Leased' /\ Counted'
<1> DEFINE s == home[t]
<1>1. /\ s \in Slots /\ phase[t] = "invalidate" /\ lease[t] \in Nat /\ lease[t] # NoRoute
      /\ newest[s] \in Nat /\ invalidated[s] \in Nat /\ invalidated[s] <= newest[s]
  BY InSlot DEF Invalidate, IInv, TypeOK, Leased, Gone
<1>2. /\ UNCHANGED <<transport, resolving, active, newest, counts>>
      /\ \E ph \in {phase, Notified(s)} : Ends(t, ph)
      /\ \A x \in Slots : x # s => route'[x] = route[x] /\ invalidated'[x] = invalidated[x]
      /\ route'[s] \in {route[s], NoRoute}
  BY <1>1 DEF Invalidate, IInv, TypeOK
<1> HIDE DEF s
<1>3. Placed' /\ Tied' /\ OneResolver' /\ NoSleeperLeft' /\ Emptied' /\ Leased' /\ Counted'
  BY <1>1, <1>2, Closes DEF s
<1>4. \/ route' = route /\ invalidated' = invalidated
      \/ /\ route' = [route EXCEPT ![s] = NoRoute]
         /\ invalidated' = [invalidated EXCEPT ![s] = newest[s]]
  <2>1. CASE route[s] # lease[t]
    BY <2>1 DEF Invalidate, s
  <2>2. CASE route[s] = lease[t]
    <3>1. NewestOf(invalidated[s], lease[t]) = newest[s]
      BY <1>1, <2>2 DEF NewestOf, IInv, CachedIsNewest
    <3> QED BY <2>2, <3>1 DEF Invalidate, s
  <2> QED BY <2>1, <2>2
<1>5. CachedIsNewest' /\ Gone' /\ Unspent'
  BY <1>1, <1>2, <1>4 DEF IInv, TypeOK, CachedIsNewest, Gone, Unspent, counts, NoRoute
<1> QED BY <1>3, <1>5 DEF Rest

LEMMA Confirms ==
  ASSUME IInv, TypeOK', NEW t \in Threads, Confirm(t)
  PROVE  Rest' /\ Leased' /\ Counted'
<1> DEFINE s == home[t]
<1>1. s \in Slots /\ phase[t] = "confirm"
  BY InSlot DEF Confirm
<1>2. /\ UNCHANGED <<transport, resolving, active, newest>>
      /\ UNCHANGED <<invalidated, refreshes>>
      /\ \E ph \in {phase, Notified(s)} : Ends(t, ph)
      /\ \A x \in Slots : x # s => route'[x] = route[x]
      /\ resolving[s] => route'[s] = route[s]
  BY <1>1 DEF Confirm, Confirmable, IInv, TypeOK
<1>3. \/ route' = route /\ installs' = installs
      \/ /\ route[s] = NoRoute /\ route' = [route EXCEPT ![s] = newest[s]]
         /\ installs' = [installs EXCEPT ![s] = @ + 1]
  BY <1>1 DEF Confirm, Confirmable
<1> HIDE DEF s
<1>4. Placed' /\ Tied' /\ OneResolver' /\ NoSleeperLeft' /\ Emptied' /\ Leased' /\ Counted'
  BY <1>1, <1>2, Closes DEF s
<1>5. CachedIsNewest' /\ Gone'
  BY <1>1, <1>2, <1>3 DEF IInv, TypeOK, CachedIsNewest, Gone
<1>6. Unspent'
  BY <1>1, <1>2, <1>3 DEF IInv, TypeOK, Unspent
<1> QED BY <1>4, <1>5, <1>6 DEF Rest

LEMMA Evicts == ASSUME IInv, TypeOK', Evict PROVE Rest' /\ Leased' /\ Counted'
<1>1. Placed'
  BY DEF Evict, Evictable, slotVars, IInv, TypeOK, Placed
<1>2. Rest' /\ Leased' /\ Counted'
  BY <1>1 DEF Evict, slotVars, counts, IInv, Rest, Tied, OneResolver, NoSleeperLeft, Leased,
              CachedIsNewest, Gone, Emptied, Unspent, Counted
<1> QED BY <1>2

LEMMA Expires ==
  ASSUME IInv, TypeOK', UNCHANGED vars \/ \E s \in Slots : Expire(s)
  PROVE  Rest' /\ Leased' /\ Counted'
BY DEF Expire, vars, transport, slotVars, counts, IInv, Rest, Placed, Tied, OneResolver, NoSleeperLeft,
       Leased, CachedIsNewest, Gone, Emptied, Unspent, Counted

\* The invariant is inductive, so it holds of every behaviour of the slot.
THEOREM Invariance == Spec => []IInv
<1>1. Init => IInv
  BY InitIInv
<1>2. IInv /\ [Next]_vars => IInv'
  <2> SUFFICES ASSUME IInv, [Next]_vars PROVE IInv'
    OBVIOUS
  <2>1. TypeOK'
    BY TypeStep DEF IInv
  <2> SUFFICES Rest' /\ Leased' /\ Counted'
    BY <2>1 DEF IInv, Rest
  <2>2. ASSUME NEW t \in Threads, Busy(t) \/ GiveUp(t) PROVE Rest' /\ Leased' /\ Counted'
    BY <2>1, <2>2, Leaves DEF Busy, GiveUp
  <2>3. ASSUME NEW t \in Threads,
               \/ Begin(t) \/ LookUp(t) \/ Current(t) \/ Refresh(t) \/ Found(t) \/ Missed(t)
        PROVE  Rest' /\ Leased' /\ Counted'
    BY <2>1, <2>3, Begins, LooksUp, Currents, Refreshes, Finds, Misses
  <2>4. ASSUME NEW t \in Threads,
               \/ Wake(t) \/ Timeout(t) \/ Send(t) \/ Reply(t) \/ Fail(t)
               \/ Invalidate(t) \/ Confirm(t)
        PROVE  Rest' /\ Leased' /\ Counted'
    BY <2>1, <2>4, Wakes, Sends, Replies, Invalidates, Confirms
  <2>5. CASE Evict
    BY <2>1, <2>5, Evicts
  <2>6. CASE UNCHANGED vars \/ \E s \in Slots : Expire(s)
    BY <2>1, <2>6, Expires
  <2> QED BY <2>2, <2>3, <2>4, <2>5, <2>6 DEF Next
<1> QED BY <1>1, <1>2, PTL DEF Spec

\* A request holds the slot from its look-up to its end, and types are kept.
THEOREM TypeCorrect == Spec => []TypeOK
BY Invariance, PTL DEF IInv

\* At most one thread resolves the hostname, for any number of threads.
THEOREM SingleFlight == Spec => []OneResolver
BY Invariance, PTL DEF IInv

\* Whoever sleeps in the slot sleeps on the attempt that is running.
THEOREM SleepersWait == Spec => []NoSleeperLeft
BY Invariance, PTL DEF IInv

\* No late failure or confirmation brings an older route back.
THEOREM NewestCached == Spec => []CachedIsNewest
BY Invariance, PTL DEF IInv

\* The slot is sound for any number of threads, slots and requests.
THEOREM RouteSound == Spec => []RouteIsSound
  BY TypeCorrect, SingleFlight, SleepersWait, NewestCached, PTL DEF RouteIsSound

\* A wave of failures starts one refresh for each time its route was installed.
THEOREM OneRefreshPerWave == Spec => []WavesShareOneRefresh
<1>1. IInv => WavesShareOneRefresh
  BY DEF IInv, Unspent, WavesShareOneRefresh
<1> QED BY <1>1, Invariance, PTL

\* Writes and reads with credentials are sent once, other requests twice at most.
THEOREM SentOnce == Spec => []NotRepeated
<1>1. IInv => NotRepeated
  BY DEF IInv, TypeOK, Counted, NotRepeated, RetrySafe
<1> QED BY <1>1, Invariance, PTL

\* Whatever fails, refreshes and attempts stay bounded.
THEOREM EffortBounded == Spec => []EffortIsBounded
  BY OneRefreshPerWave, SentOnce, PTL DEF EffortIsBounded

-----------------------------------------------------------------------------
(* The slot and its callers implement RouteRegister.                       *)

Newest == IF cached = NoSlot THEN 0 ELSE newest[cached]
Usable == cached # NoSlot /\ route[cached] # NoRoute
Out    == cached # NoSlot /\ resolving[cached]

\* What a request sees of the register when it is in the cached slot.
LEMMA Seen ==
  ASSUME IInv, NEW t \in Threads, phase[t] \notin {"idle", "look"}
  PROVE  /\ home[t] \in Slots /\ home[t] = cached
         /\ Newest = newest[home[t]] /\ (Usable <=> route[home[t]] # NoRoute)
         /\ (Out <=> resolving[home[t]])
         /\ Usable => route[home[t]] = Newest
  BY InSlot DEF Newest, Usable, Out, IInv, CachedIsNewest

\* The cached slot after a step that leaves the transport alone.
LEMMA SeenNext ==
  ASSUME IInv, NEW t \in Threads, phase[t] \notin {"idle", "look"}, UNCHANGED transport
  PROVE  /\ Newest' = newest'[home[t]] /\ (Usable' <=> route'[home[t]] # NoRoute)
         /\ (Out' <=> resolving'[home[t]])
  BY InSlot DEF Newest, Usable, Out, transport

LEMMA AnsweredLease ==
  ASSUME NEW t \in Threads, NEW g, NEW ph, Answered(t, g, ph)
  PROVE  \/ g # NoRoute /\ lease' = [lease EXCEPT ![t] = g]
         \/ g = NoRoute /\ lease' = lease
         \/ g = NoRoute /\ lease' = [lease EXCEPT ![t] = 0]
BY DEF Answered, Ends, NoRoute

\* A request that is answered or ends while the register stays as it is.
LEMMA TakesOrLeaves ==
  ASSUME IInv, NEW t \in Threads, Newest' = Newest, (Usable' <=> Usable), (Out' <=> Out),
         \/ lease' = lease
         \/ lease' = [lease EXCEPT ![t] = 0]
         \/ Usable /\ lease' = [lease EXCEPT ![t] = Newest]
  PROVE  [Register!Next]_<<Newest, Usable, Out, lease>>
BY DEF Register!Next, Register!Take, Register!Leave, Newest, Usable, Out

LEMMA QuietRefines ==
  ASSUME IInv, NEW t \in Threads, phase[t] \notin {"idle", "look"},
         UNCHANGED transport, UNCHANGED <<route, newest, resolving>>,
         \/ lease' = lease
         \/ Ends(t, phase)
         \/ Answered(t, route[home[t]], phase)
         \/ Answered(t, NoRoute, phase)
  PROVE  [Register!Next]_<<Newest, Usable, Out, lease>>
<1>1. Newest' = Newest /\ (Usable' <=> Usable) /\ (Out' <=> Out)
  BY Seen, SeenNext
<1>2. \/ lease' = lease
      \/ lease' = [lease EXCEPT ![t] = 0]
      \/ Usable /\ lease' = [lease EXCEPT ![t] = Newest]
  BY AnsweredLease, Seen DEF Ends, NoRoute
<1> QED BY <1>1, <1>2, TakesOrLeaves

LEMMA CurrentRefines ==
  ASSUME IInv, NEW t \in Threads, Current(t) PROVE [Register!Next]_<<Newest, Usable, Out, lease>>
<1>1. phase[t] = "route" /\ UNCHANGED transport
  BY DEF Current
<1>2. CASE Answered(t, route[home[t]], phase) /\ UNCHANGED slotVars
  BY <1>1, <1>2, QuietRefines DEF slotVars
<1>3. CASE Waits(t)
  BY <1>1, <1>3, QuietRefines DEF Waits, slotVars
<1>4. CASE ~resolving[home[t]] /\ Starts(t) /\ route' = route
  <2>1. /\ ~Out /\ Out' /\ Newest' = Newest /\ (Usable' <=> Usable) /\ lease' = lease
    BY <1>1, <1>4, Seen, SeenNext DEF Starts, IInv, TypeOK
  <2> QED BY <2>1 DEF Register!Next, Register!Discover, Newest, Usable, Out
<1> QED BY <1>2, <1>3, <1>4 DEF Current

LEMMA RefreshRefines ==
  ASSUME IInv, NEW t \in Threads, Refresh(t) PROVE [Register!Next]_<<Newest, Usable, Out, lease>>
<1> DEFINE s == home[t]
<1>1. phase[t] = "refresh" /\ UNCHANGED transport
  BY DEF Refresh
<1>2. CASE (Answered(t, route[s], phase) \/ Answered(t, NoRoute, phase)) /\ UNCHANGED slotVars
  BY <1>1, <1>2, QuietRefines DEF slotVars
<1>3. CASE Waits(t)
  BY <1>1, <1>3, QuietRefines DEF Waits, slotVars
<1>4. CASE /\ ~resolving[s] /\ ~Newer(s, lease[t]) /\ ~AlreadyGone(s, lease[t])
           /\ route' = [route EXCEPT ![s] = NoRoute] /\ Starts(t)
  <2>1. s \in Slots /\ route[s] # NoRoute /\ route[s] = lease[t] /\ route[s] = newest[s]
    BY <1>1, <1>4, Consumes, Seen
  <2>2. /\ ~Out /\ Usable /\ lease[t] = Newest
        /\ Out' /\ ~Usable' /\ Newest' = Newest /\ lease' = lease
    BY <1>1, <1>4, <2>1, Seen, SeenNext DEF Starts, IInv, TypeOK
  <2> QED BY <2>2 DEF Register!Next, Register!Rediscover, Newest, Usable, Out
<1> QED BY <1>2, <1>3, <1>4 DEF Refresh

LEMMA FoundRefines ==
  ASSUME IInv, NEW t \in Threads, Found(t) PROVE [Register!Next]_<<Newest, Usable, Out, lease>>
<1>1. phase[t] = "resolving" /\ UNCHANGED transport /\ newest[home[t]] + 1 # NoRoute
  BY InSlot DEF Found, NoRoute
<1>2. Out
  BY <1>1, Seen DEF IInv, Tied
<1>3. lease' = [lease EXCEPT ![t] = newest[home[t]] + 1]
  BY <1>1 DEF Found, Answered
<1>4. /\ ~Out' /\ Usable' /\ Newest' = Newest + 1
      /\ lease' = [lease EXCEPT ![t] = Newest + 1]
  BY <1>1, <1>3, Seen, SeenNext DEF Found, IInv, TypeOK
<1> QED BY <1>2, <1>4 DEF Register!Next, Register!Found, Newest, Usable, Out

LEMMA MissedRefines ==
  ASSUME IInv, NEW t \in Threads, Missed(t) PROVE [Register!Next]_<<Newest, Usable, Out, lease>>
<1>1. phase[t] = "resolving" /\ UNCHANGED transport
  BY DEF Missed
<1>2. Out
  BY <1>1, Seen DEF IInv, Tied
<1>3. route' = route /\ Answered(t, route[home[t]], Notified(home[t]))
  <2>1. stage[t] # "first" => route[home[t]] = NoRoute
    BY <1>1 DEF IInv, Emptied
  <2> QED BY <1>1, <2>1, Seen DEF Missed, IInv, TypeOK
<1>4. ~Out' /\ (Usable' <=> Usable) /\ Newest' = Newest
  BY <1>1, <1>3, Seen, SeenNext DEF Missed, IInv, TypeOK
<1>5. \/ Usable /\ lease' = [lease EXCEPT ![t] = Newest]
      \/ lease' = [lease EXCEPT ![t] = 0]
      \/ lease' = lease
  BY <1>1, <1>3, AnsweredLease, Seen
<1> QED BY <1>2, <1>4, <1>5 DEF Register!Next, Register!Missed, Newest, Usable, Out

LEMMA InvalidateRefines ==
  ASSUME IInv, NEW t \in Threads, Invalidate(t)
  PROVE  [Register!Next]_<<Newest, Usable, Out, lease>>
<1>1. phase[t] = "invalidate" /\ UNCHANGED <<transport, resolving, newest>>
  BY DEF Invalidate
<1>2. lease' = [lease EXCEPT ![t] = 0] /\ lease[t] # NoRoute
  BY <1>1 DEF Invalidate, Ends, NoRoute, IInv, Leased
<1>3. CASE route[home[t]] # lease[t]
  <2>1. Newest' = Newest /\ (Usable' <=> Usable) /\ (Out' <=> Out)
    BY <1>1, <1>3, Seen, SeenNext DEF Invalidate
  <2> QED BY <1>2, <2>1, TakesOrLeaves
<1>4. CASE route[home[t]] = lease[t]
  <2>1. Usable /\ lease[t] = Newest /\ ~Usable' /\ Newest' = Newest /\ (Out' <=> Out)
    BY <1>1, <1>2, <1>4, Seen, SeenNext DEF Invalidate, IInv, TypeOK
  <2> QED BY <1>2, <2>1 DEF Register!Next, Register!Drop, Newest, Usable, Out
<1> QED BY <1>3, <1>4

LEMMA ConfirmRefines ==
  ASSUME IInv, NEW t \in Threads, Confirm(t)
  PROVE  [Register!Next]_<<Newest, Usable, Out, lease>>
<1>1. phase[t] = "confirm" /\ UNCHANGED <<transport, resolving, newest>>
  BY DEF Confirm
<1>2. lease' = [lease EXCEPT ![t] = 0] /\ lease[t] # NoRoute
  BY <1>1 DEF Confirm, Ends, NoRoute, IInv, Leased
<1>3. CASE ~Confirmable(home[t], lease[t])
  <2>1. Newest' = Newest /\ (Usable' <=> Usable) /\ (Out' <=> Out)
    BY <1>1, <1>3, Seen, SeenNext DEF Confirm
  <2> QED BY <1>2, <2>1, TakesOrLeaves
<1>4. CASE Confirmable(home[t], lease[t])
  <2>1. /\ ~Out /\ ~Usable /\ lease[t] = Newest
        /\ Usable' /\ Newest' = Newest /\ (Out' <=> Out)
    BY <1>1, <1>2, <1>4, Seen, SeenNext DEF Confirm, Confirmable, IInv, TypeOK
  <2> QED BY <1>2, <2>1 DEF Register!Next, Register!Restore, Newest, Usable, Out
<1> QED BY <1>3, <1>4

LEMMA LookUpRefines ==
  ASSUME IInv, NEW t \in Threads, LookUp(t)
  PROVE  [Register!Next]_<<Newest, Usable, Out, lease>>
<1>1. lease' = lease /\ cached' \in Slots /\ cached' # NoSlot /\ cached' \notin retired
  BY DEF LookUp, IInv, TypeOK, Placed
<1>2. UNCHANGED <<newest, route, resolving>>
  BY DEF LookUp, slotVars
<1>3. CASE cached # NoSlot
  BY <1>1, <1>2, <1>3 DEF LookUp, Newest, Usable, Out
<1>4. CASE cached = NoSlot     \* a new slot is as empty as no slot
  <2>1. route[cached'] = NoRoute /\ ~resolving[cached'] /\ newest[cached'] = 0
    BY <1>1, <1>4 DEF IInv, Placed
  <2>2. Newest' = Newest /\ (Usable' <=> Usable) /\ (Out' <=> Out)
    BY <1>1, <1>2, <1>4, <2>1 DEF Newest, Usable, Out
  <2> QED BY <1>1, <2>2, TakesOrLeaves
<1> QED BY <1>3, <1>4

LEMMA EvictRefines ==
  ASSUME IInv, Evict PROVE [Register!Next]_<<Newest, Usable, Out, lease>>
<1>1. lease' = lease /\ cached # NoSlot /\ cached' = NoSlot /\ ~resolving[cached]
  BY DEF Evict, Evictable
<1>2. \A t \in Threads : lease[t] = 0
  BY DEF Evict, Evictable, IInv, Placed, Leased, NoRoute
<1>3. ~Out /\ Newest' = 0 /\ ~Usable' /\ ~Out'
  BY <1>1 DEF Newest, Usable, Out
<1> QED BY <1>1, <1>2, <1>3 DEF Register!Next, Register!Forget, Newest, Usable, Out

LEMMA StepRefines ==
  ASSUME IInv, [Next]_vars PROVE [Register!Next]_<<Newest, Usable, Out, lease>>
<1>1. ASSUME NEW t \in Threads, Begin(t) PROVE UNCHANGED <<Newest, Usable, Out, lease>>
  BY <1>1 DEF Begin, transport, slotVars, Newest, Usable, Out
<1>2. ASSUME NEW t \in Threads, Busy(t) PROVE [Register!Next]_<<Newest, Usable, Out, lease>>
  <2>1. /\ Newest' = Newest /\ (Usable' <=> Usable) /\ (Out' <=> Out)
        /\ lease' = [lease EXCEPT ![t] = 0]
    BY <1>2 DEF Busy, Ends, transport, slotVars, Newest, Usable, Out, NoRoute
  <2> QED BY <2>1, TakesOrLeaves
<1>3. ASSUME NEW t \in Threads, Wake(t) \/ Timeout(t)
      PROVE  [Register!Next]_<<Newest, Usable, Out, lease>>
  BY <1>3, QuietRefines DEF Wake, Timeout, Goes, slotVars
<1>4. ASSUME NEW t \in Threads, Send(t) \/ GiveUp(t) \/ Reply(t) \/ Fail(t)
      PROVE  [Register!Next]_<<Newest, Usable, Out, lease>>
  BY <1>4, QuietRefines DEF Send, GiveUp, Reply, Fail, Goes, slotVars
<1>5. CASE UNCHANGED vars \/ \E s \in Slots : Expire(s)
  BY <1>5 DEF vars, Expire, transport, slotVars, Newest, Usable, Out
<1> QED BY <1>1, <1>2, <1>3, <1>4, <1>5, LookUpRefines, CurrentRefines, RefreshRefines,
           FoundRefines, MissedRefines, InvalidateRefines, ConfirmRefines, EvictRefines DEF Next

\* The slot keeps the promise of RouteRegister: callers get the newest route, and
\* only a caller that holds it drops it or brings it back.
THEOREM Refinement == Spec => KeepsPromise
<1>1. Init => Register!Init
  BY DEF Init, Register!Init, NoRoute
<1>2. IInv /\ [Next]_vars => [Register!Next]_<<Newest, Usable, Out, lease>>
  BY StepRefines
<1> QED BY <1>1, <1>2, Invariance, PTL
        DEF Spec, KeepsPromise, Register!Spec, Register!vars, Newest, Usable, Out
=============================================================================
