----------------------------- MODULE HostRoutes -----------------------------
(***************************************************************************)
(* The shared mDNS route from a Client desktop to its Host.                *)
(*                                                                         *)
(* Source: src/src-tauri/src/library_sync_host_client.rs (MdnsTransport,   *)
(* MdnsHostSlot and the functions that send requests over a route).        *)
(*                                                                         *)
(* One hostname.  Its slot is a mutex, a condition variable and a record;  *)
(* one step is one critical section of the mutex, or one step of a request *)
(* between two of them.  A route is its generation.  Whether it is still   *)
(* fresh is a flag that time takes away.  A condition variable wakes every *)
(* sleeper that was there when it was notified.                            *)
(***************************************************************************)
EXTENDS Naturals, FiniteSets

CONSTANTS Threads,       \* threads of the Client that talk to the Host
          Slots,         \* slot objects, one after the other, for the hostname
          MaxRequests    \* bound: requests begun

VARIABLES cached, retired,                              \* MdnsTransport.hosts
          route, fresh, resolving, active,              \* MdnsHostState
          invalidated, newest,
          phase, kind, stage, home, lease, attempt,     \* a thread's request
          begun, sends, installs, refreshes             \* history

transport == <<cached, retired>>
slotVars  == <<route, fresh, resolving, active, invalidated, newest>>
counts    == <<installs, refreshes>>
vars == <<transport, slotVars, phase, kind, stage, home, lease, attempt,
          begun, sends, counts>>

Kinds == {"write",    \* a mutation: sent once, no time limit on the answer
          "read",     \* carries credentials
          "open",     \* a plain GET without credentials
          "health"}   \* the identity preflight
RetrySafeIgnoringCookies == {"open", "health", "read"}  \* mutant
RetrySafe == {"open", "health"}
Stages == {"first", "refreshed", "fallback"}
Phases == {"idle", "look", "route", "asleep", "woken", "resolving",
           "send", "sent", "refresh", "invalidate", "confirm"}
NoSlot == "no slot"
NoRoute == 0

ASSUME RoutesAssumption == MaxRequests \in Nat /\ NoSlot \notin Slots

Init ==
  /\ cached = NoSlot /\ retired = {}
  /\ route = [s \in Slots |-> NoRoute] /\ fresh = [s \in Slots |-> FALSE]
  /\ resolving = [s \in Slots |-> FALSE] /\ active = [s \in Slots |-> 0]
  /\ invalidated = [s \in Slots |-> 0] /\ newest = [s \in Slots |-> 0]
  /\ phase = [t \in Threads |-> "idle"] /\ kind = [t \in Threads |-> "none"]
  /\ stage = [t \in Threads |-> "first"] /\ home = [t \in Threads |-> NoSlot]
  /\ lease = [t \in Threads |-> NoRoute] /\ attempt = [t \in Threads |-> 0]
  /\ begun = 0 /\ sends = [t \in Threads |-> 0]
  /\ installs = [s \in Slots |-> 0] /\ refreshes = [s \in Slots |-> 0]

-----------------------------------------------------------------------------
(* How a thread's request goes on.  `ph` is `phase` after notifications.   *)

Notified(s) == [t \in Threads |-> IF phase[t] = "asleep" /\ home[t] = s
                                  THEN "woken" ELSE phase[t]]

Goes(t, p) == /\ phase' = [phase EXCEPT ![t] = p]
              /\ UNCHANGED <<kind, stage, home, lease, attempt, begun, sends>>

Ends(t, ph) ==
  /\ phase' = [ph EXCEPT ![t] = "idle"] /\ kind' = [kind EXCEPT ![t] = "none"]
  /\ stage' = [stage EXCEPT ![t] = "first"] /\ home' = [home EXCEPT ![t] = NoSlot]
  /\ lease' = [lease EXCEPT ![t] = NoRoute] /\ attempt' = [attempt EXCEPT ![t] = 0]
  /\ sends' = [sends EXCEPT ![t] = 0] /\ UNCHANGED begun

MayFallBack(t) == kind[t] = "health" /\ stage[t] = "refreshed"

(* The slot answers t with route g, or with an error.                      *)
Answered(t, g, ph) ==
  \/ /\ g # NoRoute /\ phase' = [ph EXCEPT ![t] = "send"]
     /\ lease' = [lease EXCEPT ![t] = g]
     /\ UNCHANGED <<kind, stage, home, attempt, begun, sends>>
  \/ /\ g = NoRoute /\ MayFallBack(t)
     /\ phase' = [ph EXCEPT ![t] = "send"] /\ stage' = [stage EXCEPT ![t] = "fallback"]
     /\ UNCHANGED <<kind, home, lease, attempt, begun, sends>>
  \/ /\ g = NoRoute /\ ~MayFallBack(t) /\ Ends(t, ph)

Waits(t) ==       \* wait_for_attempt, its first wait
  /\ phase' = [phase EXCEPT ![t] = "asleep"]
  /\ attempt' = [attempt EXCEPT ![t] = active[home[t]]]
  /\ UNCHANGED <<slotVars, counts, kind, stage, home, lease, begun, sends>>

Starts(t) ==      \* start_resolution_attempt
  /\ active' = [active EXCEPT ![home[t]] = @ + 1]
  /\ resolving' = [resolving EXCEPT ![home[t]] = TRUE]
  /\ attempt' = [attempt EXCEPT ![t] = active[home[t]] + 1]
  /\ phase' = [phase EXCEPT ![t] = "resolving"]
  /\ UNCHANGED <<newest, kind, stage, home, lease, begun, sends, installs>>

-----------------------------------------------------------------------------
(* The map of slots.                                                       *)

Begin(t) ==
  /\ phase[t] = "idle" /\ begun < MaxRequests /\ begun' = begun + 1
  /\ \E k \in Kinds : kind' = [kind EXCEPT ![t] = k]
  /\ phase' = [phase EXCEPT ![t] = "look"]
  /\ UNCHANGED <<transport, slotVars, counts, stage, home, lease, attempt, sends>>

LookUp(t) ==
  /\ phase[t] = "look" /\ phase' = [phase EXCEPT ![t] = "route"]
  /\ \/ cached # NoSlot /\ UNCHANGED cached
     \/ cached = NoSlot /\ cached' \in Slots \ retired
  /\ home' = [home EXCEPT ![t] = cached']
  /\ UNCHANGED <<retired, slotVars, counts, kind, stage, lease, attempt, begun, sends>>

Busy(t) ==        \* the map is full of slots in use
  /\ phase[t] = "look" /\ cached = NoSlot
  /\ Ends(t, phase) /\ UNCHANGED <<transport, slotVars, counts>>

Evictable(s) == (\A t \in Threads : home[t] # s) /\ ~resolving[s]

Evict ==          \* a request for another hostname needs the place
  /\ cached # NoSlot /\ Evictable(cached)
  /\ Slots \ (retired \cup {cached}) # {}
  /\ retired' = retired \cup {cached} /\ cached' = NoSlot
  /\ UNCHANGED <<slotVars, counts, phase, kind, stage, home, lease, attempt, begun, sends>>

-----------------------------------------------------------------------------
(* Asking for a route.                                                     *)

Current(t) == LET s == home[t] IN
  /\ phase[t] = "route" /\ UNCHANGED transport
  /\ \/ /\ route[s] # NoRoute /\ fresh[s] /\ Answered(t, route[s], phase)
        /\ UNCHANGED <<slotVars, counts>>
     \/ /\ ~(route[s] # NoRoute /\ fresh[s]) /\ resolving[s] /\ Waits(t)
     \/ /\ ~(route[s] # NoRoute /\ fresh[s]) /\ ~resolving[s] /\ Starts(t)
        /\ UNCHANGED <<route, fresh, invalidated, refreshes>>

NeverNewer(s, g) == FALSE   \* mutant
Newer(s, g) == route[s] # NoRoute /\ route[s] # g
NeverGone(s, g) == FALSE   \* mutant
AlreadyGone(s, g) == route[s] = NoRoute /\ invalidated[s] >= g
NewestOf(a, b) == IF a >= b THEN a ELSE b

Refresh(t) == LET s == home[t] IN
  /\ phase[t] = "refresh" /\ UNCHANGED transport
  /\ \/ resolving[s] /\ Waits(t)
     \/ /\ ~resolving[s] /\ Newer(s, lease[t])
        /\ Answered(t, route[s], phase) /\ UNCHANGED <<slotVars, counts>>
     \/ /\ ~resolving[s] /\ AlreadyGone(s, lease[t])
        /\ Answered(t, NoRoute, phase) /\ UNCHANGED <<slotVars, counts>>
     \/ /\ ~resolving[s] /\ ~Newer(s, lease[t]) /\ ~AlreadyGone(s, lease[t])
        /\ route' = [route EXCEPT ![s] = NoRoute]
        /\ fresh' = [fresh EXCEPT ![s] = FALSE]
        /\ invalidated' = [invalidated EXCEPT ![s] = NewestOf(@, lease[t])]
        /\ refreshes' = [refreshes EXCEPT ![s] = @ + 1]
        /\ Starts(t)

Found(t) == LET s == home[t] IN
  /\ phase[t] = "resolving"
  /\ resolving' = [resolving EXCEPT ![s] = FALSE]
  /\ newest' = [newest EXCEPT ![s] = @ + 1]
  /\ route' = [route EXCEPT ![s] = newest[s] + 1] /\ fresh' = [fresh EXCEPT ![s] = TRUE]
  /\ installs' = [installs EXCEPT ![s] = 1] /\ refreshes' = [refreshes EXCEPT ![s] = 0]
  /\ Answered(t, newest[s] + 1, Notified(s))
  /\ UNCHANGED <<transport, active, invalidated>>

MissedInPanic(t) ==   \* mutant: the unwinding thread leaves the slot as it is
  /\ phase[t] = "resolving" /\ Ends(t, phase)
  /\ UNCHANGED <<transport, slotVars, counts>>

(* Nothing found, or the resolver panicked.  A first attempt keeps what it *)
(* has for a while; a refresh after a failure does not.                    *)
Missed(t) == LET s == home[t]
                 kept == IF stage[t] = "first" THEN route[s] ELSE NoRoute IN
  /\ phase[t] = "resolving"
  /\ resolving' = [resolving EXCEPT ![s] = FALSE]
  /\ route' = [route EXCEPT ![s] = kept]
  /\ fresh' = [fresh EXCEPT ![s] = kept # NoRoute]
  /\ Answered(t, kept, Notified(s))
  /\ UNCHANGED <<transport, active, invalidated, newest, counts>>

Wake(t) == LET s == home[t] IN
  /\ phase[t] = "woken" /\ UNCHANGED <<transport, slotVars, counts>>
  /\ IF resolving[s] /\ active[s] = attempt[t]
     THEN Goes(t, "asleep") ELSE Answered(t, route[s], phase)

Timeout(t) ==
  /\ phase[t] = "asleep" /\ Answered(t, route[home[t]], phase)
  /\ UNCHANGED <<transport, slotVars, counts>>

Expire(s) ==      \* fresh_until passes
  /\ fresh[s] /\ fresh' = [fresh EXCEPT ![s] = FALSE]
  /\ UNCHANGED <<transport, route, resolving, active, invalidated, newest, counts,
                 phase, kind, stage, home, lease, attempt, begun, sends>>

-----------------------------------------------------------------------------
(* Using a route.                                                          *)

Send(t) ==
  /\ phase[t] = "send" /\ phase' = [phase EXCEPT ![t] = "sent"]
  /\ sends' = [sends EXCEPT ![t] = @ + 1]
  /\ UNCHANGED <<transport, slotVars, counts, kind, stage, home, lease, attempt, begun>>

GiveUp(t) ==      \* no time is left, or the request cannot be built
  /\ phase[t] = "send" /\ Ends(t, phase) /\ UNCHANGED <<transport, slotVars, counts>>

Reply(t) ==       \* a response to a fallback still has to prove who sent it
  /\ phase[t] = "sent" /\ UNCHANGED <<transport, slotVars, counts>>
  /\ \/ Ends(t, phase)
     \/ stage[t] = "fallback" /\ Goes(t, "confirm")

(* The transport failed.                                                   *)
Fail(t) ==
  /\ phase[t] = "sent" /\ UNCHANGED <<transport, slotVars, counts>>
  /\ \/ /\ stage[t] = "first" /\ kind[t] \in RetrySafe
        /\ phase' = [phase EXCEPT ![t] = "refresh"]
        /\ stage' = [stage EXCEPT ![t] = "refreshed"]
        /\ UNCHANGED <<kind, home, lease, attempt, begun, sends>>
     \/ /\ stage[t] = "first" /\ kind[t] \notin RetrySafe /\ Goes(t, "invalidate")
     \/ stage[t] = "refreshed" /\ Goes(t, "invalidate")
     \/ stage[t] = "fallback" /\ Ends(t, phase)

Invalidate(t) == LET s == home[t] IN
  /\ phase[t] = "invalidate"
  /\ \/ /\ route[s] = lease[t]
        /\ route' = [route EXCEPT ![s] = NoRoute]
        /\ fresh' = [fresh EXCEPT ![s] = FALSE]
        /\ invalidated' = [invalidated EXCEPT ![s] = NewestOf(@, lease[t])]
        /\ Ends(t, Notified(s))
     \/ /\ route[s] # lease[t] /\ Ends(t, phase)
        /\ UNCHANGED <<route, fresh, invalidated>>
  /\ UNCHANGED <<transport, resolving, active, newest, counts>>

ConfirmableAnyway(s, g) == route[s] = NoRoute /\ ~resolving[s]   \* mutant
Confirmable(s, g) == route[s] = NoRoute /\ ~resolving[s] /\ newest[s] = g

Confirm(t) == LET s == home[t] IN
  /\ phase[t] = "confirm"
  /\ \/ /\ Confirmable(s, lease[t])
        /\ route' = [route EXCEPT ![s] = lease[t]]
        /\ fresh' = [fresh EXCEPT ![s] = TRUE]
        /\ installs' = [installs EXCEPT ![s] = @ + 1]
        /\ Ends(t, Notified(s))
     \/ /\ ~Confirmable(s, lease[t]) /\ Ends(t, phase)
        /\ UNCHANGED <<route, fresh, installs>>
  /\ UNCHANGED <<transport, resolving, active, invalidated, newest, refreshes>>

-----------------------------------------------------------------------------
Next ==
  \/ \E t \in Threads :
       \/ Begin(t) \/ LookUp(t) \/ Busy(t) \/ Current(t) \/ Refresh(t)
       \/ Found(t) \/ Missed(t) \/ Wake(t) \/ Timeout(t)
       \/ Send(t) \/ GiveUp(t) \/ Reply(t) \/ Fail(t) \/ Invalidate(t) \/ Confirm(t)
  \/ \E s \in Slots : Expire(s)
  \/ Evict
Spec == Init /\ [][Next]_vars

(* A thread runs on, discovery has a timeout, and so has every request but *)
(* a write: the answer to a write may never come.  No timeout of a waiter, *)
(* no new request and no eviction is owed.                                 *)
Proceeds(t) ==
  \/ LookUp(t) \/ Current(t) \/ Refresh(t) \/ Found(t) \/ Missed(t) \/ Wake(t)
  \/ Send(t) \/ Invalidate(t) \/ Confirm(t)
  \/ kind[t] # "write" /\ (Reply(t) \/ Fail(t))
FairSpec == Spec /\ \A t \in Threads : WF_vars(Proceeds(t))

-----------------------------------------------------------------------------
(* Types, and the phases in which a request holds a slot and a route.      *)
TypeOK ==
  /\ cached \in Slots \cup {NoSlot} /\ retired \in SUBSET Slots
  /\ route \in [Slots -> Nat] /\ fresh \in [Slots -> BOOLEAN]
  /\ resolving \in [Slots -> BOOLEAN] /\ active \in [Slots -> Nat]
  /\ invalidated \in [Slots -> Nat] /\ newest \in [Slots -> Nat]
  /\ phase \in [Threads -> Phases] /\ kind \in [Threads -> Kinds \cup {"none"}]
  /\ stage \in [Threads -> Stages] /\ home \in [Threads -> Slots \cup {NoSlot}]
  /\ lease \in [Threads -> Nat] /\ attempt \in [Threads -> Nat]
  /\ begun \in Nat /\ sends \in [Threads -> Nat]
  /\ installs \in [Slots -> Nat] /\ refreshes \in [Slots -> Nat]
  /\ \A t \in Threads : home[t] = NoSlot <=> phase[t] \in {"idle", "look"}

(* Discovery is single-flight: however requests, evictions and refreshes   *)
(* interleave, at most one thread is out resolving the hostname.           *)
OneResolver ==
  \A t, u \in Threads : phase[t] = "resolving" /\ phase[u] = "resolving" => t = u

(* No thread sleeps on an attempt that has ended or been replaced: whoever *)
(* still waits, waits for the attempt that is running.                     *)
NoSleeperLeft ==
  \A t \in Threads : phase[t] = "asleep" =>
     resolving[home[t]] /\ active[home[t]] = attempt[t]

(* The route in a slot is the newest one discovery ever found for it: no   *)
(* late failure and no late confirmation brings an older one back.         *)
CachedIsNewest == \A s \in Slots : route[s] # NoRoute => route[s] = newest[s]

(* The slot is sound, however look-ups, discoveries, failures, waits,      *)
(* panics and evictions interleave: one discovery, nobody asleep for good, *)
(* and never an older route.                                               *)
RouteIsSound == TypeOK /\ OneResolver /\ NoSleeperLeft /\ CachedIsNewest

(* However many requests fail on a route, they start one refresh together: *)
(* one for each time that route was put into the slot.                     *)
WavesShareOneRefresh == \A s \in Slots : refreshes[s] <= installs[s]

(* A write, and a read with credentials, is sent once, whatever fails; any *)
(* other request is repeated once at most.                                 *)
NotRepeated ==
  \A t \in Threads : sends[t] <= (IF kind[t] \in {"write", "read"} THEN 1 ELSE 2)

(* Failures cost little: no storm of refreshes, no replay.                 *)
EffortIsBounded == WavesShareOneRefresh /\ NotRepeated

(* The slot and its callers keep the promise of RouteRegister.             *)
Register == INSTANCE RouteRegister WITH
  newest <- IF cached = NoSlot THEN 0 ELSE newest[cached],
  usable <- cached # NoSlot /\ route[cached] # NoRoute,
  busy   <- cached # NoSlot /\ resolving[cached],
  held   <- lease
KeepsPromise == Register!Spec

(* Every request but a write comes to an end, even if the answer to some   *)
(* write never comes and no waiter's own timeout ever fires.               *)
RequestsEnd ==
  \A t \in Threads : (phase[t] # "idle" /\ kind[t] # "write") ~> phase[t] = "idle"
=============================================================================
