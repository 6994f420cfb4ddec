--------------------------- MODULE AccessPromise ---------------------------
(***************************************************************************)
(* What the Host promises about a browser's request for access: it is      *)
(* asked once, a person at the Host may approve it, and only while it is   *)
(* approved can a browser be paired for it.  Admission happens at most     *)
(* once, and a request that has ended - by refusal, cancellation, expiry,  *)
(* too many wrong codes or because the listener went away - stays ended.   *)
(***************************************************************************)
CONSTANT Ids

VARIABLES stage,  \* how far each request has come
          paired  \* the requests some browser record was created for

Stages == {"unasked", "asked", "approved", "admitted", "ended"}

Init == /\ stage = [i \in Ids |-> "unasked"]
        /\ paired = {}

Ask(i) ==
  /\ stage[i] = "unasked"
  /\ stage' = [stage EXCEPT ![i] = "asked"]
  /\ UNCHANGED paired

Approve(i) ==
  /\ stage[i] = "asked"
  /\ stage' = [stage EXCEPT ![i] = "approved"]
  /\ UNCHANGED paired

\* A record was created, but no session could be opened for it.
Pair(i) ==
  /\ stage[i] = "approved"
  /\ paired' = paired \cup {i}
  /\ UNCHANGED stage

Admit(i) ==
  /\ stage[i] = "approved"
  /\ stage' = [stage EXCEPT ![i] = "admitted"]
  /\ paired' = paired \cup {i}

\* Several requests may expire in one instant.
End(S) ==
  /\ \A i \in S : stage[i] \in {"asked", "approved"}
  /\ stage' = [i \in Ids |-> IF i \in S THEN "ended" ELSE stage[i]]
  /\ UNCHANGED paired

Next == \/ \E i \in Ids : Ask(i) \/ Approve(i) \/ Pair(i) \/ Admit(i)
        \/ \E S \in SUBSET Ids : End(S)

Spec == Init /\ [][Next]_<<stage, paired>>
=============================================================================
