---------------------------- MODULE RouteRegister ----------------------------
(***************************************************************************)
(* What the shared route to one Host promises its callers.                 *)
(*                                                                         *)
(* The register holds the newest address that discovery found, or knows    *)
(* that it stopped working.  One discovery runs at a time.  A caller only  *)
(* ever takes the newest route; only a caller that holds the newest route  *)
(* may declare it broken or bring it back; the register is forgotten only  *)
(* when nobody holds anything.                                             *)
(***************************************************************************)
EXTENDS Naturals

CONSTANT Threads
VARIABLES newest,   \* how many routes discovery has found
          usable,   \* the newest one may be handed out
          busy,     \* a discovery is running
          held      \* the route each caller holds, 0 for none
vars == <<newest, usable, busy, held>>

Init == newest = 0 /\ usable = FALSE /\ busy = FALSE /\ held = [t \in Threads |-> 0]

Discover == ~busy /\ busy' = TRUE /\ UNCHANGED <<newest, usable, held>>

Rediscover(t) ==      \* the newest route failed in the hands of t
  /\ ~busy /\ usable /\ held[t] = newest
  /\ busy' = TRUE /\ usable' = FALSE /\ UNCHANGED <<newest, held>>

Found(t) ==
  /\ busy /\ busy' = FALSE
  /\ newest' = newest + 1 /\ usable' = TRUE
  /\ held' = [held EXCEPT ![t] = newest + 1]

Take(t) == usable /\ held' = [held EXCEPT ![t] = newest] /\ UNCHANGED <<newest, usable, busy>>

Leave(t) == held' = [held EXCEPT ![t] = 0] /\ UNCHANGED <<newest, usable, busy>>

Missed(t) ==          \* nothing found: t goes on with what there is
  /\ busy /\ busy' = FALSE /\ UNCHANGED <<newest, usable>>
  /\ \/ usable /\ held' = [held EXCEPT ![t] = newest]
     \/ held' = [held EXCEPT ![t] = 0]
     \/ held' = held

Drop(t) ==
  /\ usable /\ held[t] = newest /\ usable' = FALSE
  /\ held' = [held EXCEPT ![t] = 0] /\ UNCHANGED <<newest, busy>>

Restore(t) ==         \* the route answered again, with the right identity
  /\ ~busy /\ ~usable /\ held[t] = newest /\ usable' = TRUE
  /\ held' = [held EXCEPT ![t] = 0] /\ UNCHANGED <<newest, busy>>

Forget ==
  /\ ~busy /\ \A t \in Threads : held[t] = 0
  /\ newest' = 0 /\ usable' = FALSE /\ UNCHANGED <<busy, held>>

Next == \/ Discover \/ Forget
        \/ \E t \in Threads : \/ Rediscover(t) \/ Found(t) \/ Missed(t) \/ Take(t)
                              \/ Leave(t) \/ Drop(t) \/ Restore(t)
Spec == Init /\ [][Next]_vars
=============================================================================
