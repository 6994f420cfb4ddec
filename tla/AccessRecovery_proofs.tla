----------------------- MODULE AccessRecovery_proofs -----------------------
(***************************************************************************)
(* The inductive invariant of AccessRecovery and the theorems that follow. *)
(*                                                                         *)
(* The argument: while the listener is bound to the current authority, no  *)
(* era has begun since it was bound, so every request it can serve was     *)
(* made and approved in the present era (Settled).  Steps that only look   *)
(* at requests or end them are treated together (Settles).                 *)
(***************************************************************************)
EXTENDS AccessRecovery, FiniteSetTheorems, TLAPS

USE LifetimesAssumption, LimitsAssumption, LibrariesAssumption, IdsAssumption

\* Nothing is dated in the future.
Past == /\ authority.since <= era /\ bound.since <= era
        /\ \A i \in Ids : birth[i] <= now /\ made[i] <= era

\* What a listener with authority can see belongs to the present era, and it
\* still counts every creation of the last Minute of this era.
Settled ==
  bound = authority =>
    \A i \in Ids :
      /\ i \in Known => made[i] = era
      /\ status[i] = "approved" => okayed[i] = era
      /\ made[i] = era /\ now < birth[i] + Minute => i \in creations

\* A request that is locked is not open any more.
TriesLeft == \A i \in Ids : status[i] \in Open => attempts[i] < MaxAttempts

\* A paired request was created and approved in the era of its record, and a
\* request with a session is no longer open.
RowsKept ==
  \A b \in browsers :
    /\ made[b.request] # 0
    /\ status[b.request] # "pending"
    /\ b.session => status[b.request] \notin Open

Bounded == /\ IsFiniteSet(Known) /\ Cardinality(Known) <= Capacity
           /\ IsFiniteSet(creations) /\ Cardinality(creations) <= MaxCreations

\* The requests of i's era made in the Minute that begins with i's creation.
Window(i) == {j \in Ids : /\ made[j] = made[i]
                          /\ birth[j] \in birth[i]..(birth[i] + Minute - 1)}

WindowsKept == \A i \in Ids \ Fresh :
  IsFiniteSet(Window(i)) /\ Cardinality(Window(i)) <= MaxCreations

IInv == /\ TypeOK
        /\ Past
        /\ Settled
        /\ TriesLeft
        /\ RowsKept
        /\ PairedInOneEra
        /\ Bounded
        /\ WindowsKept

-----------------------------------------------------------------------------
LEMMA SmallerSet ==
  ASSUME NEW S, NEW T, NEW n \in Nat, IsFiniteSet(T), Cardinality(T) <= n, S \subseteq T
  PROVE  IsFiniteSet(S) /\ Cardinality(S) <= n
<1>1. IsFiniteSet(S) /\ Cardinality(S) <= Cardinality(T)
  BY FS_Subset
<1>2. Cardinality(S) \in Nat /\ Cardinality(T) \in Nat
  BY <1>1, FS_CardinalityType
<1> QED BY <1>1, <1>2

LEMMA OneMore ==
  ASSUME NEW S, NEW T, NEW x, NEW n \in Nat, IsFiniteSet(T), Cardinality(T) < n,
         S \subseteq T \cup {x}
  PROVE  IsFiniteSet(S) /\ Cardinality(S) <= n
<1>1. /\ IsFiniteSet(T \cup {x})
      /\ Cardinality(T \cup {x}) \in {Cardinality(T), Cardinality(T) + 1}
  BY FS_AddElement
<1>2. Cardinality(T) \in Nat
  BY FS_CardinalityType
<1>3. Cardinality(T \cup {x}) <= n
  BY <1>1, <1>2
<1> QED BY <1>1, <1>3, SmallerSet

\* No server is not an authority.
LEMMA NoServerHere == ASSUME TypeOK PROVE authority # NoServer
  BY DEF TypeOK, Authority, NoServer

LEMMA SeenStatus ==
  ASSUME TypeOK, NEW i \in Ids
  PROVE  /\ Seen(i) \in Statuses
         /\ Seen(i) = "absent" <=> status[i] = "absent"
         /\ Seen(i) \in Open => Seen(i) = status[i] /\ now < deadline[i]
         /\ Seen(i) \notin Open => Seen(i) = status[i] \/ Seen(i) = "expired"
  BY DEF TypeOK, Seen, Open, Statuses

-----------------------------------------------------------------------------
LEMMA InitIInv == Init => IInv
<1> SUFFICES ASSUME Init PROVE IInv
  OBVIOUS
<1>1. TypeOK
  <2>1. authority \in Authority /\ bound = NoServer
    BY DEF Init, Authority
  <2>2. Known = {} /\ creations = {} /\ browsers = {}
    BY DEF Init, Known
  <2>3. running \in BOOLEAN
    BY DEF Init
  <2>4. /\ status \in [Ids -> Statuses] /\ deadline \in [Ids -> Nat]
        /\ attempts \in [Ids -> 0..MaxAttempts]
    BY DEF Init, Statuses
  <2>5. /\ scope \in [Ids -> Libraries \cup {"client"}] /\ birth \in [Ids -> Nat]
        /\ made \in [Ids -> Nat] /\ okayed \in [Ids -> Nat]
        /\ now \in Nat /\ era \in Nat \ {0}
    BY DEF Init
  <2> QED BY <2>1, <2>2, <2>3, <2>4, <2>5 DEF TypeOK
<1>2. Past
  BY DEF Init, Past, NoServer
<1>3. Settled
  BY <1>1, NoServerHere DEF Init, Settled
<1>4. TriesLeft /\ RowsKept /\ PairedInOneEra
  BY DEF Init, TriesLeft, Open, RowsKept, PairedInOneEra
<1>5. Bounded
  <2>1. Known = {}
    BY DEF Init, Known
  <2> QED BY <2>1, FS_EmptySet DEF Init, Bounded
<1>6. WindowsKept
  BY DEF Init, WindowsKept, Fresh
<1> QED BY <1>1, <1>2, <1>3, <1>4, <1>5, <1>6 DEF IInv

\* A step that looks at requests, ends them or approves pending ones.
Settles ==
  /\ status' \in [Ids -> Statuses]
  /\ deadline' \in [Ids -> Nat]
  /\ attempts' \in [Ids -> 0..MaxAttempts]
  /\ okayed' \in [Ids -> Nat]
  /\ \A i \in Ids :
       /\ status'[i] = "absent" <=> status[i] = "absent"
       /\ status'[i] = "pending" => status[i] = "pending"
       /\ status'[i] = "approved" =>
            \/ status[i] = "approved" /\ okayed'[i] = okayed[i]
            \/ status[i] = "pending" /\ okayed'[i] = era
       /\ okayed'[i] # okayed[i] => status[i] = "pending"
       /\ status'[i] \in Open => attempts'[i] < MaxAttempts
  /\ UNCHANGED <<scope, birth, creations, made, listener, now>>

LEMMA SettlesIInv ==
  ASSUME IInv, Settles, UNCHANGED browsers PROVE IInv'
<1>1. Known' = Known /\ Fresh' = Fresh
  BY DEF Settles, Known, Fresh
<1>2. TypeOK'
  BY <1>1 DEF IInv, TypeOK, Settles, listener
<1>3. Past'
  BY DEF IInv, Past, Settles, listener
<1>4. Settled'
  BY <1>1 DEF IInv, TypeOK, Settled, Settles, listener, Known
<1>5. TriesLeft' /\ RowsKept' /\ PairedInOneEra'
  BY DEF IInv, TypeOK, TriesLeft, RowsKept, PairedInOneEra, Settles, Browser, Open
<1>6. Bounded'
  BY <1>1 DEF IInv, Bounded, Settles
<1>7. WindowsKept'
  <2>1. \A i : Window(i)' = Window(i)
    BY DEF Window, Settles
  <2> QED BY <1>1, <2>1 DEF IInv, WindowsKept
<1> QED BY <1>2, <1>3, <1>4, <1>5, <1>6, <1>7 DEF IInv

LEMMA LooksSettle ==
  ASSUME IInv, NEW i \in Ids,
         Look(i) \/ Cancel(i) \/ WrongCode(i) \/ Approve(i) \/ Reject(i) \/ List
  PROVE  Settles /\ UNCHANGED browsers
<1> USE DEF IInv, TypeOK, Settles, TriesLeft
<1>1. \A j \in Ids : Seen(j) \in {status[j], "expired"} /\ Seen(j) \in Statuses
                     /\ (Seen(j) = "expired" => status[j] # "absent")
                     /\ (Seen(j) \in Open => Seen(j) = status[j])
  BY SeenStatus DEF Open, Statuses
<1>2. now \in Nat /\ now + CodeLifetime \in Nat /\ era \in Nat
  OBVIOUS
<1>3. CASE Look(i)
  BY <1>1, <1>3 DEF Look
<1>4. CASE Cancel(i)
  BY <1>1, <1>2, <1>4 DEF Cancel, InScope, Known, Statuses, Open
<1>5. CASE WrongCode(i)
  <2>1. CASE Seen(i) # "approved"
    BY <1>1, <1>5, <2>1 DEF WrongCode
  <2>2. CASE Seen(i) = "approved" /\ Locks(attempts[i] + 1)
    <3>1. attempts[i] + 1 \in 0..MaxAttempts
      BY <1>1, <2>2 DEF Open
    <3> QED BY <1>1, <1>2, <1>5, <2>2, <3>1 DEF WrongCode, Statuses, Open
  <2>3. CASE Seen(i) = "approved" /\ ~Locks(attempts[i] + 1)
    <3>1. attempts[i] + 1 \in 0..MaxAttempts /\ attempts[i] + 1 < MaxAttempts
      BY <2>3 DEF Locks
    <3> QED BY <1>1, <1>2, <1>5, <2>3, <3>1 DEF WrongCode
  <2> QED BY <2>1, <2>2, <2>3
<1>6. CASE Approve(i)
  BY <1>1, <1>2, <1>6 DEF Approve, Statuses, Open
<1>7. CASE Reject(i)
  BY <1>1, <1>2, <1>7 DEF Reject, InScope, Known, Statuses, Open
<1>8. CASE List
  BY <1>1, <1>8 DEF List
<1> QED BY <1>3, <1>4, <1>5, <1>6, <1>7, <1>8

\* Both grants: a record of the present era for an approved request.
LEMMA AdmitIInv ==
  ASSUME IInv, NEW i \in Ids, Admit(i) \/ AdmitHalf(i) PROVE IInv'
<1>1. /\ Serving /\ i \in Known /\ status[i] = "approved"
      /\ made[i] # 0 /\ made[i] = era /\ okayed[i] = era
  <2>1. Serving /\ i \in Known /\ status[i] = "approved"
    BY SeenStatus DEF Admit, AdmitHalf, Redeemable, InScope, IInv, Open
  <2> QED BY <2>1 DEF IInv, TypeOK, Settled, Serving, Fresh
<1>3. PICK b \in Browser : /\ b.request = i /\ b.era = era
                           /\ browsers' = browsers \cup {b}
                           /\ b.session => Admit(i)
  <2>1. CASE Admit(i)
    <3> DEFINE b == [request |-> i, era |-> era, session |-> TRUE]
    <3>1. b \in Browser /\ b.request = i /\ b.era = era
      BY DEF Browser, IInv, TypeOK
    <3>2. browsers' = browsers \cup {b}
      BY <2>1 DEF Admit
    <3> QED BY <2>1, <3>1, <3>2
  <2>2. CASE AdmitHalf(i)
    <3> DEFINE b == [request |-> i, era |-> era, session |-> FALSE]
    <3>1. b \in Browser /\ b.request = i /\ b.era = era /\ ~b.session
      BY DEF Browser, IInv, TypeOK
    <3>2. browsers' = browsers \cup {b}
      BY <2>2 DEF AdmitHalf
    <3> QED BY <3>1, <3>2
  <2> QED BY <2>1, <2>2
<1>4. /\ status' \in [Ids -> Statuses] /\ deadline' \in [Ids -> Nat]
      /\ \A j \in Ids : status'[j] = status[j] \/ (j = i /\ status'[j] = "completed")
      /\ Admit(i) => status'[i] = "completed"
      /\ UNCHANGED <<attempts, scope, birth, creations, made, okayed, listener, now>>
  BY DEF Admit, AdmitHalf, IInv, TypeOK, Statuses, requests
<1>5. Known' = Known /\ Fresh' = Fresh
  BY <1>1, <1>4 DEF Known, Fresh
<1>6. TypeOK'
  BY <1>3, <1>4, <1>5 DEF IInv, TypeOK, listener
<1>7. Past' /\ TriesLeft'
  BY <1>4 DEF IInv, Past, TriesLeft, Open, listener
<1>8. Settled'
  BY <1>4, <1>5 DEF IInv, Settled, listener
<1>9. RowsKept'
  <2> SUFFICES ASSUME NEW c \in browsers'
               PROVE  /\ made'[c.request] # 0 /\ status'[c.request] # "pending"
                      /\ c.session => status'[c.request] \notin Open
    BY DEF RowsKept
  <2>1. c.request \in Ids
    BY <1>6 DEF TypeOK, Browser
  <2>2. CASE c \in browsers
    BY <1>4, <2>1, <2>2 DEF IInv, RowsKept, Open
  <2>3. CASE c \notin browsers
    BY <1>1, <1>3, <1>4, <2>3 DEF Open
  <2> QED BY <2>2, <2>3
<1>10. PairedInOneEra'
  BY <1>1, <1>3, <1>4 DEF IInv, PairedInOneEra
<1>11. Bounded'
  BY <1>4, <1>5 DEF IInv, Bounded
<1>12. WindowsKept'
  <2>1. \A j : Window(j)' = Window(j)
    BY <1>4 DEF Window
  <2> QED BY <1>5, <2>1 DEF IInv, WindowsKept
<1> QED BY <1>6, <1>7, <1>8, <1>9, <1>10, <1>11, <1>12 DEF IInv

\* After a clear nothing is known, and the new era has seen no creation.
LEMMA ClearIInv ==
  ASSUME IInv, Clear, era' = era + 1, UNCHANGED <<authority, now, browsers>>,
         bound' \in {bound, authority}, running' \in BOOLEAN
  PROVE  IInv'
<1>1. Known' = {} /\ Fresh' = Fresh /\ creations' = {}
  BY DEF Clear, Keeping, Known, Fresh
<1>2. /\ status' = [j \in Ids |-> "absent"] /\ deadline' = [j \in Ids |-> 0]
      /\ attempts' = [j \in Ids |-> 0] /\ scope' = [j \in Ids |-> "client"]
      /\ UNCHANGED <<birth, made, okayed>>
  BY DEF Clear, Keeping
<1>3. TypeOK'
  <2>1. /\ status' \in [Ids -> Statuses] /\ deadline' \in [Ids -> Nat]
        /\ attempts' \in [Ids -> 0..MaxAttempts]
        /\ scope' \in [Ids -> Libraries \cup {"client"}]
    BY <1>2 DEF Statuses
  <2> QED BY <1>1, <1>2, <2>1 DEF IInv, TypeOK
<1>4. Past'
  BY <1>2 DEF IInv, TypeOK, Past, Authority, NoServer
<1>5. Settled'
  BY <1>1, <1>2 DEF IInv, TypeOK, Past, Settled
<1>6. TriesLeft' /\ RowsKept' /\ PairedInOneEra'
  BY <1>2 DEF IInv, TypeOK, TriesLeft, RowsKept, PairedInOneEra, Open, Browser
<1>7. Bounded'
  BY <1>1, FS_EmptySet DEF Bounded
<1>8. WindowsKept'
  <2>1. \A j : Window(j)' = Window(j)
    BY <1>2 DEF Window
  <2> QED BY <1>1, <2>1 DEF IInv, WindowsKept
<1> QED BY <1>3, <1>4, <1>5, <1>6, <1>7, <1>8 DEF IInv

\* The listener comes or goes, or the library changes, and the store is kept.
LEMMA ListenerIInv ==
  ASSUME IInv, UNCHANGED <<requests, now, browsers>>,
         authority' \in Authority, bound' \in {bound, NoServer}, running' \in BOOLEAN,
         \/ UNCHANGED <<authority, era>>
         \/ era' = era + 1 /\ authority'.since = era' /\ bound' = bound
  PROVE  IInv'
<1>1. Known' = Known /\ Fresh' = Fresh
  BY DEF Known, Fresh, requests
<1>2. TypeOK'
  BY <1>1 DEF IInv, TypeOK, requests
<1>3. Past'
  BY DEF IInv, TypeOK, Past, Authority, NoServer, requests
<1>4. Settled'
  <2>1. bound' = authority' => UNCHANGED <<bound, authority, era>>
    <3>1. CASE UNCHANGED <<authority, era>>
      BY <3>1, NoServerHere DEF IInv
    <3>2. CASE era' = era + 1 /\ authority'.since = era' /\ bound' = bound
      BY <3>2 DEF IInv, Past, TypeOK
    <3> QED BY <3>1, <3>2
  <2> QED BY <1>1, <2>1 DEF IInv, Settled, requests
<1>5. TriesLeft' /\ RowsKept' /\ PairedInOneEra'
  BY DEF IInv, TriesLeft, RowsKept, PairedInOneEra, requests
<1>6. Bounded'
  BY <1>1 DEF IInv, Bounded, requests
<1>7. WindowsKept'
  <2>1. \A j : Window(j)' = Window(j)
    BY DEF Window, requests
  <2> QED BY <1>1, <2>1 DEF IInv, WindowsKept
<1> QED BY <1>2, <1>3, <1>4, <1>5, <1>6, <1>7 DEF IInv

LEMMA TickIInv == ASSUME IInv, Tick PROVE IInv'
<1>1. Known' = Known /\ Fresh' = Fresh
  BY DEF Tick, Known, Fresh, requests
<1>2. now' = now + 1 /\ UNCHANGED <<requests, listener, browsers>>
  BY DEF Tick
<1>3. TypeOK'
  BY <1>1, <1>2 DEF IInv, TypeOK, requests, listener
<1>4. Past'
  BY <1>2 DEF IInv, TypeOK, Past, requests, listener
<1>5. Settled'
  BY <1>1, <1>2 DEF IInv, TypeOK, Settled, requests, listener
<1>6. TriesLeft' /\ RowsKept' /\ PairedInOneEra'
  BY <1>2 DEF IInv, TriesLeft, RowsKept, PairedInOneEra, requests
<1>7. Bounded'
  BY <1>1, <1>2 DEF IInv, Bounded, requests
<1>8. WindowsKept'
  <2>1. \A j : Window(j)' = Window(j)
    BY <1>2 DEF Window, requests
  <2> QED BY <1>1, <2>1 DEF IInv, WindowsKept
<1> QED BY <1>3, <1>4, <1>5, <1>6, <1>7, <1>8 DEF IInv

-----------------------------------------------------------------------------
(* Create: collection, and a new request if there is room.                 *)

HasRoom == Cardinality(Retained) < Capacity /\ Cardinality(Recent) < MaxCreations

\* What create() leaves of the requests that were there before.
LEMMA Collected ==
  ASSUME IInv, NEW e \in Ids \cup {NoCookie}, NEW i \in Ids, Create(e, i)
  PROVE  /\ Serving /\ made[i] = 0 /\ status[i] = "absent"
         /\ \A j \in Ids : (j # i \/ ~HasRoom) =>
              /\ status'[j] \in {status[j], "absent", "expired"} /\ status'[j] \in Statuses
              /\ j \notin Known => status'[j] = "absent"
              /\ Live(j) => status'[j] = status[j]
              /\ status'[j] # "absent" => j \in Retained /\ deadline'[j] = deadline[j]
                                          /\ attempts'[j] = attempts[j]
              /\ made'[j] = made[j] /\ birth'[j] = birth[j]
         /\ HasRoom => /\ status'[i] = "pending" /\ attempts'[i] = 0
                       /\ made'[i] = era /\ birth'[i] = now
                       /\ creations' = Recent \cup {i}
         /\ ~HasRoom => creations' = Recent
         /\ UNCHANGED <<okayed, listener, now, browsers>>
<1> DEFINE seen == IF e # NoCookie /\ InScope(e) THEN [status EXCEPT ![e] = Seen(e)]
                                                 ELSE status
           kept == Keeping(Retained, seen, "absent")
<1>1. Serving /\ made[i] = 0 /\ status[i] = "absent"
  BY DEF Create, Fresh, Known, IInv, TypeOK
<1>2. i \notin Retained /\ Retained \subseteq Known
  BY <1>1 DEF Retained, Known
<1>3. \A j \in Ids :
        /\ seen[j] \in {status[j], "expired"} /\ seen[j] \in Statuses
        /\ Live(j) => seen[j] = status[j]
  BY SeenStatus DEF IInv, TypeOK, InScope, Live, Known, Open, Statuses
<1>4. \A j \in Ids : kept[j] = IF j \in Retained THEN seen[j] ELSE "absent"
  BY DEF Keeping
<1>5. \A j \in Ids : Live(j) => j \in Retained
  BY SeenStatus DEF IInv, TypeOK, Live, Retained, Known, Open
<1>6. /\ HasRoom => /\ status' = [kept EXCEPT ![i] = "pending"]
                    /\ deadline' = [Keeping(Retained, deadline, 0)
                                      EXCEPT ![i] = now + PendingLifetime]
                    /\ birth' = [birth EXCEPT ![i] = now]
                    /\ made' = [made EXCEPT ![i] = era]
                    /\ creations' = Recent \cup {i}
      /\ ~HasRoom => /\ status' = kept
                     /\ deadline' = Keeping(Retained, deadline, 0)
                     /\ creations' = Recent
                     /\ UNCHANGED <<birth, made>>
      /\ attempts' = Keeping(Retained, attempts, 0)
      /\ UNCHANGED <<okayed, listener, now, browsers>>
  BY DEF Create, HasRoom
<1>7. kept = [j \in Ids |-> kept[j]]
  BY DEF Keeping
<1> HIDE DEF seen, kept
<1>a. \A j \in Ids : /\ kept[j] \in {status[j], "absent", "expired"} /\ kept[j] \in Statuses
                     /\ j \notin Known => kept[j] = "absent"
                     /\ Live(j) => kept[j] = status[j]
                     /\ kept[j] # "absent" => j \in Retained
  BY <1>2, <1>3, <1>4, <1>5 DEF Statuses, Known
<1>b. \A j \in Retained : /\ Keeping(Retained, deadline, 0)[j] = deadline[j]
                          /\ Keeping(Retained, attempts, 0)[j] = attempts[j]
  BY DEF Keeping, Retained, Known
<1>c. /\ made \in [Ids -> Nat] /\ birth \in [Ids -> Nat]
      /\ DOMAIN Keeping(Retained, deadline, 0) = Ids
      /\ Keeping(Retained, attempts, 0)[i] = 0
  BY <1>1 DEF IInv, TypeOK, Keeping, Retained, Known
<1>8. CASE HasRoom
  <2>1. \A j \in Ids \ {i} : /\ status'[j] = kept[j] /\ birth'[j] = birth[j]
                             /\ made'[j] = made[j]
                             /\ deadline'[j] = Keeping(Retained, deadline, 0)[j]
    BY <1>6, <1>7, <1>8, <1>c
  <2>2. /\ status'[i] = "pending" /\ attempts'[i] = 0
        /\ made'[i] = era /\ birth'[i] = now /\ creations' = Recent \cup {i}
    BY <1>6, <1>7, <1>8, <1>c
  <2> QED BY <1>1, <1>6, <1>8, <1>a, <1>b, <2>1, <2>2
<1>9. CASE ~HasRoom
  BY <1>1, <1>6, <1>9, <1>a, <1>b
<1> QED BY <1>8, <1>9

LEMMA CreateType ==
  ASSUME IInv, NEW e \in Ids \cup {NoCookie}, NEW i \in Ids, Create(e, i)
  PROVE  TypeOK'
<1>1. /\ deadline' \in [Ids -> Nat] /\ attempts' \in [Ids -> 0..MaxAttempts]
      /\ scope' \in [Ids -> Libraries \cup {"client"}] /\ birth' \in [Ids -> Nat]
      /\ made' \in [Ids -> Nat]
  <2>1. authority.library \in Libraries
    BY DEF Create, Serving, Authoritative
  <2>2. /\ Keeping(Retained, deadline, 0) \in [Ids -> Nat]
        /\ Keeping(Retained, attempts, 0) \in [Ids -> 0..MaxAttempts]
        /\ Keeping(Retained, scope, "client") \in [Ids -> Libraries \cup {"client"}]
    BY DEF Keeping, IInv, TypeOK
  <2>3. attempts' = Keeping(Retained, attempts, 0)
    BY DEF Create
  <2>4. CASE HasRoom
    <3>1. /\ deadline' = [Keeping(Retained, deadline, 0)
                            EXCEPT ![i] = now + PendingLifetime]
          /\ scope' = [Keeping(Retained, scope, "client")
                         EXCEPT ![i] = authority.library]
          /\ birth' = [birth EXCEPT ![i] = now]
          /\ made' = [made EXCEPT ![i] = era]
      BY <2>4 DEF Create, HasRoom
    <3> QED BY <2>1, <2>2, <2>3, <3>1 DEF IInv, TypeOK
  <2>5. CASE ~HasRoom
    <3>1. /\ deadline' = Keeping(Retained, deadline, 0)
          /\ scope' = Keeping(Retained, scope, "client")
          /\ UNCHANGED <<birth, made>>
      BY <2>5 DEF Create, HasRoom
    <3> QED BY <2>2, <2>3, <3>1 DEF IInv, TypeOK
  <2> QED BY <2>4, <2>5
<1>2. status' \in [Ids -> Statuses]
  <2>1. /\ DOMAIN status' = Ids
        /\ status' = [j \in Ids |-> status'[j]]
    BY DEF Create, Keeping
  <2>2. \A j \in Ids : status'[j] \in Statuses
    BY Collected DEF Statuses, Open
  <2> QED BY <2>1, <2>2
<1>3. creations' \subseteq Ids /\ \A j \in creations' : made'[j] # 0
  <2>1. Recent \subseteq Ids /\ \A j \in Recent : made[j] # 0 /\ j # i
    <3>1. creations \subseteq Ids /\ \A j \in creations : made[j] # 0
      BY DEF IInv, TypeOK, Fresh
    <3>2. made[i] = 0
      BY Collected
    <3> QED BY <3>1, <3>2 DEF Recent
  <2>2. era # 0
    BY DEF IInv, TypeOK
  <2>3. CASE HasRoom
    BY <2>1, <2>2, <2>3, Collected
  <2>4. CASE ~HasRoom
    BY <2>1, <2>4, Collected
  <2> QED BY <2>3, <2>4
<1>4. \A j \in Known' : made'[j] # 0
  <2>1. era # 0 /\ \A j \in Ids : status[j] # "absent" => made[j] # 0
    BY DEF IInv, TypeOK, Known, Fresh
  <2>2. \A j \in Ids : (j # i \/ ~HasRoom) =>
          made'[j] = made[j] /\ (status'[j] # "absent" => status[j] # "absent")
    BY Collected DEF Known
  <2>3. HasRoom => made'[i] = era
    BY Collected
  <2> QED BY <2>1, <2>2, <2>3 DEF Known
<1>5. UNCHANGED <<okayed, listener, now, browsers>>
  BY Collected
<1> QED BY <1>1, <1>2, <1>3, <1>4, <1>5 DEF IInv, TypeOK, Known, Fresh, listener

LEMMA CreateBounded ==
  ASSUME IInv, NEW e \in Ids \cup {NoCookie}, NEW i \in Ids, Create(e, i)
  PROVE  Bounded'
<1>1. IsFiniteSet(Retained) /\ IsFiniteSet(Recent)
      /\ Cardinality(Retained) <= Capacity /\ Cardinality(Recent) <= MaxCreations
  <2>1. Retained \subseteq Known /\ Recent \subseteq creations
    BY DEF Retained, Recent
  <2> QED BY <2>1, SmallerSet DEF IInv, Bounded
<1>2. CASE HasRoom
  <2>1. Known' \subseteq Retained \cup {i} /\ creations' \subseteq Recent \cup {i}
    BY <1>2, Collected DEF Known
  <2> QED BY <1>1, <1>2, <2>1, OneMore DEF HasRoom, Bounded
<1>3. CASE ~HasRoom
  <2>1. Known' \subseteq Retained /\ creations' \subseteq Recent
    BY <1>3, Collected DEF Known
  <2> QED BY <1>1, <2>1, SmallerSet DEF Bounded
<1> QED BY <1>2, <1>3

\* The window of a request that shares its Minute with the new one lies within
\* the creations that still count; the others stay as they were.
LEMMA CreateWindows ==
  ASSUME IInv, NEW e \in Ids \cup {NoCookie}, NEW i \in Ids, Create(e, i)
  PROVE  WindowsKept'
<1>1. CASE ~HasRoom
  <2>1. \A j \in Ids : made'[j] = made[j] /\ birth'[j] = birth[j]
    <3>1. \A j \in Ids : ~HasRoom => made'[j] = made[j] /\ birth'[j] = birth[j]
      BY Collected
    <3> QED BY <1>1, <3>1
  <2>2. Fresh' = Fresh /\ \A j \in Ids : Window(j)' = Window(j)
    BY <2>1 DEF Fresh, Window
  <2> QED BY <2>2 DEF IInv, WindowsKept
<1>2. CASE HasRoom
  <2>1. /\ made'[i] = era /\ birth'[i] = now /\ made[i] = 0 /\ era # 0
        /\ \A j \in Ids \ {i} : made'[j] = made[j] /\ birth'[j] = birth[j]
    <3>1. era # 0
      BY DEF IInv, TypeOK
    <3>2. /\ made'[i] = era /\ birth'[i] = now /\ made[i] = 0
          /\ \A j \in Ids : j # i => made'[j] = made[j] /\ birth'[j] = birth[j]
      BY <1>2, Collected
    <3> QED BY <3>1, <3>2
  <2>2. \A j \in Ids : made[j] = era /\ now < birth[j] + Minute => j \in Recent
    BY Collected DEF IInv, Settled, Serving, Recent
  <2>3. \A j \in Ids : birth[j] \in Nat /\ birth[j] <= now /\ now \in Nat
    BY DEF IInv, TypeOK, Past
  <2>4. IsFiniteSet(Recent) /\ Cardinality(Recent) < MaxCreations
    <3>1. Recent \subseteq creations
      BY DEF Recent
    <3> QED BY <1>2, <3>1, FS_Subset DEF HasRoom, IInv, Bounded
  <2> SUFFICES ASSUME NEW k \in Ids, made'[k] # 0
               PROVE  IsFiniteSet(Window(k)') /\ Cardinality(Window(k)') <= MaxCreations
    BY DEF WindowsKept, Fresh
  <2>5. CASE i \in Window(k)'
    <3>1. made'[k] = era /\ (k = i \/ now < birth[k] + Minute)
      BY <2>1, <2>3, <2>5 DEF Window
    <3>2. Window(k)' \subseteq Recent \cup {i}
      <4> SUFFICES ASSUME NEW j \in Ids, j # i, made[j] = era,
                          birth[j] >= birth'[k]
                   PROVE  now < birth[j] + Minute
        BY <2>1, <2>2, <2>3, <3>1 DEF Window
      <4> QED BY <2>1, <2>3, <3>1
    <3> QED BY <2>4, <3>2, OneMore
  <2>6. CASE i \notin Window(k)'
    <3>1. k # i
      BY <2>1, <2>3, <2>6 DEF Window
    <3>2. Window(k)' \subseteq Window(k) /\ k \in Ids \ Fresh
      BY <2>1, <2>6, <3>1 DEF Window, Fresh
    <3> QED BY <3>2, SmallerSet DEF IInv, WindowsKept
  <2> QED BY <2>5, <2>6
<1> QED BY <1>1, <1>2

LEMMA CreateIInv ==
  ASSUME IInv, NEW e \in Ids \cup {NoCookie}, NEW i \in Ids, Create(e, i)
  PROVE  IInv'
<1>1. TypeOK' /\ Bounded' /\ WindowsKept'
  BY CreateType, CreateBounded, CreateWindows
<1>2. Past'
  <2>1. UNCHANGED <<authority, bound, era, now>>
    BY Collected DEF listener
  <2>2. ASSUME NEW j \in Ids PROVE birth'[j] <= now /\ made'[j] <= era
    <3>1. CASE HasRoom /\ j = i
      BY <3>1, Collected DEF IInv, TypeOK
    <3>2. CASE j # i \/ ~HasRoom
      BY <3>2, Collected DEF IInv, Past
    <3> QED BY <3>1, <3>2
  <2> QED BY <2>1, <2>2 DEF IInv, Past
<1>3. Settled'
  <2>1. bound = authority
    BY Collected DEF Serving
  <2>2. ASSUME NEW j \in Ids, j # i \/ ~HasRoom
        PROVE  /\ j \in Known' => made'[j] = era
               /\ status'[j] = "approved" => okayed'[j] = era
               /\ made'[j] = era /\ now < birth'[j] + Minute => j \in creations'
    <3>1. /\ made'[j] = made[j] /\ birth'[j] = birth[j]
          /\ status'[j] # "absent" => status[j] # "absent"
          /\ status'[j] = "approved" => status[j] = "approved"
          /\ okayed'[j] = okayed[j] /\ Recent \subseteq creations'
      BY <2>2, Collected DEF Known
    <3>2. /\ j \in Known => made[j] = era
          /\ status[j] = "approved" => okayed[j] = era
          /\ made[j] = era /\ now < birth[j] + Minute => j \in creations
      BY <2>1 DEF IInv, Settled
    <3> QED BY <3>1, <3>2 DEF Known, Recent
  <2>3. CASE HasRoom
    BY <2>2, <2>3, Collected DEF Settled, listener
  <2>4. CASE ~HasRoom
    BY <2>2, <2>4, Collected DEF Settled, listener
  <2> QED BY <2>3, <2>4
<1>4. TriesLeft'
  BY Collected DEF IInv, TriesLeft, Open
<1>5. \A b \in browsers : b.request \in Ids /\ b.request # i
  BY Collected DEF IInv, TypeOK, RowsKept, Browser
<1>6. RowsKept' /\ PairedInOneEra'
  BY <1>5, Collected DEF IInv, RowsKept, PairedInOneEra, Open
<1> QED BY <1>1, <1>2, <1>3, <1>4, <1>6 DEF IInv

-----------------------------------------------------------------------------
(* The theorems.                                                           *)

LEMMA ClearStepsIInv ==
  ASSUME IInv, RevokeAll \/ Bind \/ MarkStopped PROVE IInv'
<1>1. CASE RevokeAll
  BY <1>1, ClearIInv DEF RevokeAll, NextEra, IInv, TypeOK
<1>2. CASE Bind
  BY <1>2, ClearIInv DEF Bind, NextEra, IInv, TypeOK
<1>3. CASE MarkStopped
  BY <1>3, ClearIInv DEF MarkStopped, NextEra
<1> QED BY <1>1, <1>2, <1>3

LEMMA ListenerStepsIInv ==
  ASSUME IInv, StopServer \/ MarkRunning \/ MarkFailed \/ ChangeAuthority PROVE IInv'
<1>1. authority \in Authority /\ running \in BOOLEAN /\ era \in Nat
  BY DEF IInv, TypeOK
<1>2. CASE StopServer
  BY <1>1, <1>2, ListenerIInv DEF StopServer
<1>3. CASE MarkRunning
  BY <1>1, <1>3, ListenerIInv DEF MarkRunning
<1>4. CASE MarkFailed
  BY <1>1, <1>4, ListenerIInv DEF MarkFailed
<1>5. CASE ChangeAuthority
  <2>1. authority' \in Authority /\ authority'.since = era'
    <3>1. PICK l \in Libraries \cup {"client"} :
                 authority' = [library |-> l, since |-> era + 1] /\ era' = era + 1
      BY <1>5 DEF ChangeAuthority, NextEra
    <3> QED BY <1>1, <3>1 DEF Authority
  <2> QED BY <1>1, <1>5, <2>1, ListenerIInv DEF ChangeAuthority, NextEra
<1> QED BY <1>2, <1>3, <1>4, <1>5

LEMMA NextIInv == IInv /\ [Next]_vars => IInv'
<1> SUFFICES ASSUME IInv, [Next]_vars PROVE IInv'
  OBVIOUS
<1>1. ASSUME NEW e \in Ids \cup {NoCookie}, NEW i \in Ids, Create(e, i) PROVE IInv'
  BY <1>1, CreateIInv
<1>2. ASSUME NEW i \in Ids,
             Look(i) \/ Cancel(i) \/ WrongCode(i) \/ Approve(i) \/ Reject(i)
      PROVE  IInv'
  BY <1>2, LooksSettle, SettlesIInv
<1>3. ASSUME NEW i \in Ids, Admit(i) \/ AdmitHalf(i) PROVE IInv'
  BY <1>3, AdmitIInv
<1>4. CASE List
  <2>1. CASE Ids = {}
    BY <1>4, <2>1, SettlesIInv, SeenStatus DEF List, Settles, IInv, TypeOK
  <2>2. CASE Ids # {}
    <3>1. PICK i \in Ids : TRUE
      BY <2>2
    <3> QED BY <1>4, <3>1, LooksSettle, SettlesIInv
  <2> QED BY <2>1, <2>2
<1>5. CASE RevokeAll \/ Bind \/ MarkStopped
  BY <1>5, ClearStepsIInv
<1>6. CASE StopServer \/ MarkRunning \/ MarkFailed \/ ChangeAuthority
  BY <1>6, ListenerStepsIInv
<1>7. CASE Tick
  BY <1>7, TickIInv
<1>8. CASE UNCHANGED vars
  <2>1. authority' \in Authority /\ running' \in BOOLEAN
    BY <1>8 DEF vars, listener, IInv, TypeOK
  <2> QED BY <1>8, <2>1, ListenerIInv DEF vars, listener
<1> QED BY <1>1, <1>2, <1>3, <1>4, <1>5, <1>6, <1>7, <1>8 DEF Next

\* The inductive invariant holds in every reachable state.
THEOREM Invariance == Spec => []IInv
BY InitIInv, NextIInv, PTL DEF Spec

\* Every column of the store keeps its type; wrong codes never pass the limit,
\* and only created requests are in the store (Store, Request).
THEOREM TypeCorrect == Spec => []TypeOK
BY Invariance, PTL DEF IInv

\* No approval outlives the listener, the library or the browsers it was given
\* under (CompanionApiState::new, revoke_all_browsers, requester).
THEOREM PairedTogether == Spec => []PairedInOneEra
BY Invariance, PTL DEF IInv

\* The store and the rate of new requests are bounded (create).
THEOREM FloodsBounded == Spec => []FloodsAreBounded
<1>1. IInv => FloodsAreBounded
  BY DEF IInv, Bounded, WindowsKept, Window, FloodsAreBounded
<1> QED BY <1>1, Invariance, PTL

\* The store stays within its limits, whatever they are.
THEOREM StoreSound == Spec => []StoreIsSound
  BY TypeCorrect, FloodsBounded, PTL DEF StoreIsSound

\* Collection never drops a request that is still open (create).
THEOREM LiveKept == Spec => LiveAreKept
<1>1. ASSUME IInv, Next, NEW i \in Ids, Live(i), status'[i] = "absent"
      PROVE  era' # era
  <2>1. status[i] \in Open /\ era \in Nat
    BY <1>1, SeenStatus DEF Live, IInv, TypeOK
  <2>2. ASSUME NEW e \in Ids \cup {NoCookie}, NEW j \in Ids, Create(e, j) PROVE FALSE
    BY <1>1, <2>1, <2>2, Collected DEF Open, IInv
  <2>3. ASSUME NEW j \in Ids,
               \/ Look(j) \/ Cancel(j) \/ WrongCode(j) \/ Approve(j) \/ Reject(j) \/ List
        PROVE  FALSE
    BY <1>1, <2>1, <2>3, LooksSettle DEF Settles, Open
  <2>4. ASSUME NEW j \in Ids, Admit(j) \/ AdmitHalf(j) PROVE FALSE
    BY <1>1, <2>1, <2>4 DEF Admit, AdmitHalf, requests, Open, IInv, TypeOK
  <2>5. CASE RevokeAll \/ Bind \/ MarkStopped \/ ChangeAuthority
    BY <2>1, <2>5 DEF RevokeAll, Bind, MarkStopped, ChangeAuthority, NextEra
  <2>6. ~(StopServer \/ MarkRunning \/ MarkFailed \/ Tick)
    BY <1>1, <2>1 DEF StopServer, MarkRunning, MarkFailed, Tick, requests, Open
  <2> QED BY <1>1, <2>2, <2>3, <2>4, <2>5, <2>6 DEF Next
<1>2. IInv /\ [Next]_vars =>
        [\A i \in Ids : Live(i) /\ status'[i] = "absent" => era' # era]_vars
  BY <1>1
<1> QED BY <1>2, Invariance, PTL DEF Spec, LiveAreKept

\* Approving again renews neither the code's lifetime nor the tries (decide).
THEOREM ApprovalFixed == Spec => ApprovalIsFixed
<1>1. ASSUME IInv, Next, NEW i \in Ids, status[i] = "approved", status'[i] = "approved"
      PROVE  deadline'[i] = deadline[i] /\ attempts'[i] >= attempts[i]
  <2> USE <1>1
  <2>1. attempts[i] \in Nat /\ i \in Known
    BY DEF IInv, TypeOK, Known
  <2>2. ASSUME NEW e \in Ids \cup {NoCookie}, NEW j \in Ids, Create(e, j)
        PROVE  deadline'[i] = deadline[i] /\ attempts'[i] = attempts[i]
    <3>1. j # i
      BY <2>2, Collected
    <3> QED BY <2>2, <3>1, Collected
  <2>3. ASSUME NEW j \in Ids, Look(j) \/ List \/ AdmitHalf(j)
        PROVE  deadline'[i] = deadline[i] /\ attempts'[i] = attempts[i]
    BY <2>3 DEF Look, List, AdmitHalf, requests
  <2>4. ASSUME NEW j \in Ids, Cancel(j) \/ Reject(j) \/ Admit(j)
        PROVE  deadline'[i] = deadline[i] /\ attempts'[i] = attempts[i]
    BY <2>4 DEF Cancel, Reject, Admit, IInv, TypeOK
  <2>5. ASSUME NEW j \in Ids, Approve(j)
        PROVE  deadline'[i] = deadline[i] /\ attempts'[i] = attempts[i]
    BY <2>5, SeenStatus DEF Approve, IInv, TypeOK, Open
  <2>6. ASSUME NEW j \in Ids, WrongCode(j)
        PROVE  deadline'[i] = deadline[i] /\ attempts'[i] >= attempts[i]
    BY <2>1, <2>6 DEF WrongCode, IInv, TypeOK
  <2>7. ~(RevokeAll \/ Bind \/ MarkStopped)
    BY DEF RevokeAll, Bind, MarkStopped, Clear, Keeping
  <2>8. CASE StopServer \/ MarkRunning \/ MarkFailed \/ ChangeAuthority \/ Tick
    BY <2>1, <2>8 DEF StopServer, MarkRunning, MarkFailed, ChangeAuthority, Tick, requests
  <2> QED BY <2>1, <2>2, <2>3, <2>4, <2>5, <2>6, <2>7, <2>8 DEF Next
<1>2. IInv /\ [Next]_vars =>
        [\A i \in Ids :
           status[i] = "approved" /\ status'[i] = "approved" =>
             deadline'[i] = deadline[i] /\ attempts'[i] >= attempts[i]]_vars
  BY <1>1
<1> QED BY <1>2, Invariance, PTL DEF Spec, ApprovalIsFixed

\* Neither a full store nor a second approval changes what an open request has.
THEOREM TermsKept == Spec => TermsAreKept
  BY LiveKept, ApprovalFixed DEF TermsAreKept

-----------------------------------------------------------------------------
(* The refinement: which step of AccessPromise each step makes.            *)

Stages == [i \in Ids |-> Stage(i)]
Paired == {b.request : b \in browsers}

\* A request's stage is read off its status as the next operation sees it.
LEMMA StageOf ==
  ASSUME IInv, NEW i \in Ids
  PROVE  /\ Stages[i] = "unasked" <=> made[i] = 0
         /\ Stages[i] = "asked" <=> Seen(i) = "pending"
         /\ Stages[i] = "approved" <=> Seen(i) = "approved"
         /\ Admitted(i) => Stages[i] = "admitted"
         /\ Stages[i] \in {"unasked", "asked", "approved", "admitted", "ended"}
<1>1. i \in Known => made[i] # 0
  BY DEF IInv, TypeOK, Fresh
<1>2. Admitted(i) => made[i] # 0 /\ status[i] \notin Open
  BY DEF Admitted, IInv, RowsKept
<1>3. Seen(i) \in Open => i \in Known /\ Seen(i) = status[i]
  BY SeenStatus DEF IInv, Known, Open
<1> QED BY <1>1, <1>2, <1>3 DEF Stages, Stage, Fresh, Open

\* A step that makes no request and pairs no browser may only end requests.
LEMMA EndsOnly ==
  ASSUME IInv, IInv', UNCHANGED <<made, browsers>>,
         \A i \in Ids : Seen(i)' = Seen(i) \/ Seen(i)' \notin Open
  PROVE  \E S \in SUBSET Ids : Promise!End(S)
<1> DEFINE S == {i \in Ids : Live(i) /\ ~Live(i)'}
<1>1. \A i \in Ids : Stages'[i] = IF i \in S THEN "ended" ELSE Stages[i]
  BY StageOf DEF Live, Stages, Stage, Admitted, Fresh, IInv, RowsKept, Open, Seen
<1>2. Stages' = [i \in Ids |-> IF i \in S THEN "ended" ELSE Stages[i]]
  BY <1>1 DEF Stages
<1>3. \A i \in S : Stages[i] \in {"asked", "approved"}
  BY StageOf DEF Live, Open
<1>4. Paired' = Paired
  BY DEF Paired
<1>5. Promise!End(S)
  BY <1>2, <1>3, <1>4 DEF Promise!End, Stages, Paired
<1> QED BY <1>5

LEMMA InitPromise == Init => Promise!Init
BY DEF Init, Promise!Init, Stage, Fresh

LEMMA CreatePromise ==
  ASSUME IInv, IInv', NEW e \in Ids \cup {NoCookie}, NEW i \in Ids, Create(e, i)
  PROVE  Promise!Ask(i) \/ \E S \in SUBSET Ids : Promise!End(S)
<1>1. UNCHANGED <<listener, now, browsers>>
  BY Collected
<1>2. ASSUME NEW j \in Ids, j # i \/ ~HasRoom
      PROVE  Seen(j)' \in Open => Seen(j)' = Seen(j)
  BY <1>1, <1>2, Collected DEF Seen, Open
<1>3. ASSUME NEW j \in Ids, j # i \/ ~HasRoom, Live(j)
      PROVE  Seen(j)' = Seen(j)
  <2>1. status'[j] = status[j] /\ status[j] # "absent"
    BY <1>3, Collected, SeenStatus DEF Live, Open, IInv
  <2> QED BY <1>1, <1>3, <2>1, Collected DEF Seen
<1>4. ASSUME NEW j \in Ids, j # i \/ ~HasRoom
      PROVE  made'[j] = made[j] /\ Admitted(j)' = Admitted(j)
  BY <1>1, <1>4, Collected DEF Admitted
<1>5. CASE ~HasRoom
  <2>1. made' = made
    BY <1>5 DEF Create, HasRoom
  <2>2. \A j \in Ids : Seen(j)' = Seen(j) \/ Seen(j)' \notin Open
    BY <1>2, <1>5
  <2> QED BY <1>1, <2>1, <2>2, EndsOnly
<1>6. CASE HasRoom
  <2>1. Stages[i] = "unasked"
    BY Collected, StageOf
  <2>2. Seen(i)' = "pending"
    <3>1. deadline'[i] = now + PendingLifetime /\ status'[i] = "pending"
      <4>1. deadline' = [Keeping(Retained, deadline, 0) EXCEPT ![i] = now + PendingLifetime]
        BY <1>6 DEF Create, HasRoom
      <4> QED BY <1>6, <4>1, Collected DEF Keeping
    <3> QED BY <1>1, <3>1 DEF Seen, IInv, TypeOK
  <2>3. Stages'[i] = "asked"
    <3>1. ~Admitted(i)'
      BY <1>1, Collected DEF Admitted, IInv, RowsKept
    <3>2. i \notin Fresh'
      BY <1>6, Collected DEF Fresh, IInv, TypeOK
    <3> QED BY <2>2, <3>1, <3>2 DEF Stages, Stage
  <2>4. \A j \in Ids \ {i} : Stages'[j] = Stages[j]
    BY <1>2, <1>3, <1>4, StageOf DEF Stages, Stage, Fresh, Live, Open
  <2>5. Stages' = [Stages EXCEPT ![i] = "asked"]
    BY <2>3, <2>4 DEF Stages
  <2>6. Paired' = Paired
    BY <1>1 DEF Paired
  <2> QED BY <2>1, <2>5, <2>6 DEF Promise!Ask, Stages, Paired
<1> QED BY <1>5, <1>6

LEMMA ApprovePromise ==
  ASSUME IInv, IInv', NEW i \in Ids, Approve(i)
  PROVE  Promise!Approve(i) \/ \E S \in SUBSET Ids : Promise!End(S)
<1>1. UNCHANGED <<made, listener, now, browsers>>
  BY DEF Approve
<1>2. CASE Seen(i) = "pending"
  <2>1. /\ status' = [status EXCEPT ![i] = "approved"]
        /\ deadline' = [deadline EXCEPT ![i] = now + CodeLifetime]
    BY <1>2 DEF Approve
  <2>2. Seen(i)' = "approved" /\ \A j \in Ids \ {i} : Seen(j)' = Seen(j)
    BY <1>1, <2>1 DEF Seen, IInv, TypeOK
  <2>3. Stages[i] = "asked" /\ ~Admitted(i) /\ i \notin Fresh
    BY <1>2, StageOf DEF Fresh
  <2>4. \A j \in Ids : Stages'[j] = IF j = i THEN "approved" ELSE Stages[j]
    BY <1>1, <2>2, <2>3 DEF Stages, Stage, Admitted, Fresh
  <2>5. Stages' = [Stages EXCEPT ![i] = "approved"]
    BY <2>4 DEF Stages
  <2>6. Paired' = Paired
    BY <1>1 DEF Paired
  <2> QED BY <2>3, <2>5, <2>6 DEF Promise!Approve, Stages, Paired
<1>3. CASE Seen(i) # "pending"
  <2>1. status' = [status EXCEPT ![i] = Seen(i)] /\ deadline' = deadline
    BY <1>3 DEF Approve
  <2>2. \A j \in Ids : Seen(j)' = Seen(j) \/ Seen(j)' \notin Open
    BY <1>1, <2>1 DEF Seen, Open, IInv, TypeOK
  <2> QED BY <1>1, <2>2, EndsOnly
<1> QED BY <1>2, <1>3

LEMMA AdmitPromise ==
  ASSUME IInv, NEW i \in Ids
  PROVE  /\ Admit(i) => Promise!Admit(i)
         /\ AdmitHalf(i) => Promise!Pair(i)
<1>1. Redeemable(i) => Stages[i] = "approved" /\ ~Admitted(i) /\ i \notin Fresh
  BY StageOf DEF Redeemable, Fresh
<1>2. ASSUME Admit(i) PROVE Promise!Admit(i)
  <2> DEFINE b == [request |-> i, era |-> era, session |-> TRUE]
  <2>1. /\ browsers' = browsers \cup {b} /\ b.request = i /\ b.session
        /\ status' = [status EXCEPT ![i] = "completed"]
        /\ deadline' = [deadline EXCEPT ![i] = now]
        /\ UNCHANGED <<made, now>>
    BY <1>2 DEF Admit
  <2> HIDE DEF b
  <2>2. \A j \in Ids : Admitted(j)' <=> Admitted(j) \/ j = i
    BY <2>1 DEF Admitted
  <2>3. \A j \in Ids : Stages'[j] = IF j = i THEN "admitted" ELSE Stages[j]
    BY <1>1, <1>2, <2>1, <2>2 DEF Admit, Stages, Stage, Fresh, Seen, IInv, TypeOK
  <2>4. Stages' = [Stages EXCEPT ![i] = "admitted"]
    BY <2>3 DEF Stages
  <2>5. Paired' = Paired \cup {i}
    BY <2>1 DEF Paired
  <2> QED BY <1>1, <1>2, <2>4, <2>5 DEF Admit, Promise!Admit, Stages, Paired
<1>3. ASSUME AdmitHalf(i) PROVE Promise!Pair(i)
  <2> DEFINE b == [request |-> i, era |-> era, session |-> FALSE]
  <2>1. /\ browsers' = browsers \cup {b} /\ b.request = i /\ ~b.session
        /\ UNCHANGED <<status, deadline, made, now>>
    BY <1>3 DEF AdmitHalf, requests
  <2> HIDE DEF b
  <2>2. \A j \in Ids : Admitted(j)' <=> Admitted(j)
    BY <2>1 DEF Admitted
  <2>3. Stages' = Stages
    BY <2>1, <2>2 DEF Stages, Stage, Fresh, Seen
  <2>4. Paired' = Paired \cup {i}
    BY <2>1 DEF Paired
  <2> QED BY <1>1, <1>3, <2>3, <2>4 DEF AdmitHalf, Promise!Pair, Stages, Paired
<1> QED BY <1>2, <1>3

LEMMA NextPromise ==
  ASSUME IInv, IInv', [Next]_vars
  PROVE  [Promise!Next]_<<Stages, Paired>>
<1> USE DEF Promise!Next
<1>1. ASSUME NEW e \in Ids \cup {NoCookie}, NEW i \in Ids, Create(e, i)
      PROVE  Promise!Next
  BY <1>1, CreatePromise
<1>2. ASSUME NEW i \in Ids, Admit(i) \/ AdmitHalf(i) \/ Approve(i) PROVE Promise!Next
  BY <1>2, AdmitPromise, ApprovePromise
<1>3. ASSUME NEW i \in Ids, Look(i) \/ Cancel(i) \/ WrongCode(i) \/ Reject(i) \/ List
      PROVE  Promise!Next
  <2>1. UNCHANGED <<made, browsers, now>>
    BY <1>3 DEF Look, Cancel, WrongCode, Reject, List
  <2>2. \A j \in Ids : Seen(j)' = Seen(j) \/ Seen(j)' \notin Open
    <3>1. CASE Look(i) \/ List
      BY <2>1, <3>1 DEF Look, List, Seen, Open, IInv, TypeOK
    <3>2. CASE Cancel(i) \/ Reject(i)
      BY <2>1, <3>2 DEF Cancel, Reject, Seen, Open, IInv, TypeOK
    <3>3. CASE WrongCode(i)
      BY <2>1, <3>3 DEF WrongCode, Seen, Open, IInv, TypeOK
    <3> QED BY <1>3, <3>1, <3>2, <3>3
  <2> QED BY <2>1, <2>2, EndsOnly
<1>4. CASE List
  <2>1. UNCHANGED <<made, browsers, now>>
    BY <1>4 DEF List
  <2>2. \A j \in Ids : Seen(j)' = Seen(j) \/ Seen(j)' \notin Open
    BY <2>1, <1>4 DEF List, Seen, Open, IInv, TypeOK
  <2> QED BY <2>1, <2>2, EndsOnly
<1>5. CASE RevokeAll \/ Bind \/ MarkStopped
  <2>1. UNCHANGED <<made, browsers>> /\ status' = [j \in Ids |-> "absent"]
    BY <1>5 DEF RevokeAll, Bind, MarkStopped, Clear, Keeping
  <2>2. \A j \in Ids : Seen(j)' \notin Open
    BY <2>1 DEF Seen, Open
  <2> QED BY <2>1, <2>2, EndsOnly
<1>6. CASE Tick
  <2>1. UNCHANGED <<status, deadline, made, browsers>>
    BY <1>6 DEF Tick, requests
  <2>2. \A j \in Ids : Seen(j)' = Seen(j) \/ Seen(j)' \notin Open
    BY <1>6, <2>1 DEF Tick, Seen, Open, IInv, TypeOK
  <2> QED BY <2>1, <2>2, EndsOnly
<1>7. CASE StopServer \/ MarkRunning \/ MarkFailed \/ ChangeAuthority \/ UNCHANGED vars
  <2>1. UNCHANGED <<requests, now, browsers>>
    BY <1>7 DEF StopServer, MarkRunning, MarkFailed, ChangeAuthority, vars
  <2> QED BY <2>1 DEF Stages, Stage, Paired, Admitted, Fresh, Seen, requests
<1> QED BY <1>1, <1>2, <1>3, <1>4, <1>5, <1>6, <1>7 DEF Next

\* The volatile store, its lazy expiry and its partial grants implement the
\* promise that a request is asked, approved and admitted once, and in time.
THEOREM Refinement == Spec => KeepsPromise
<1>1. IInv /\ IInv' /\ [Next]_vars => [Promise!Next]_<<Stages, Paired>>
  BY NextPromise
<1> QED BY <1>1, InitPromise, Invariance, PTL DEF Spec, KeepsPromise, Promise!Spec, Stages, Paired
=============================================================================
