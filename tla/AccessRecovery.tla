--------------------------- MODULE AccessRecovery ---------------------------
(***************************************************************************)
(* Volatile access requests of browsers that lost their pairing.           *)
(*                                                                         *)
(* Source: src/src-tauri/src/companion_access_recovery.rs (the store),     *)
(* companion_access_recovery_api.rs (the browser's handlers),              *)
(* trusted_lan_access_request_commands.rs (the Host's decision) and the    *)
(* parts of companion_api.rs and state.rs that bind and stop the listener. *)
(*                                                                         *)
(* Every handler and native command runs under the secure-credential gate  *)
(* with the clock read inside it, so each is one step; the listener's      *)
(* transitions are steps of their own.  A code is right or wrong.  Expiry  *)
(* is lazy: only the operations that look at a request write "expired".    *)
(***************************************************************************)
EXTENDS Naturals, FiniteSets

CONSTANTS Ids,              \* request ids: random 128-bit tokens, used once
          Libraries,        \* library ids; the database path is fixed
          PendingLifetime,  \* PENDING_LIFETIME, 600 s
          CodeLifetime,     \* CODE_LIFETIME, 300 s
          Minute,           \* the 60 s of retention and of the rate window
          Capacity,         \* CAPACITY, 32
          MaxCreations,     \* creations accepted per Minute, 10
          MaxAttempts,      \* MAX_ATTEMPTS, 3
          MaxTime,          \* bound: clock ticks explored
          MaxEra            \* bound: authority changes, bindings and revocations

ASSUME LifetimesAssumption ==
  /\ PendingLifetime \in Nat \ {0}
  /\ CodeLifetime \in Nat \ {0}
  /\ Minute \in Nat \ {0}
ASSUME LimitsAssumption ==
  Capacity \in Nat /\ MaxCreations \in Nat /\ MaxAttempts \in Nat \ {0}
ASSUME BoundsAssumption == MaxTime \in Nat /\ MaxEra \in Nat
ASSUME LibrariesAssumption == {"client", "none"} \cap Libraries = {}
ASSUME IdsAssumption == "none" \notin Ids

VARIABLES
  status,     \* Ids -> status in the store; "absent" when it has no such request
  deadline,   \* Ids -> instant
  attempts,   \* Ids -> wrong codes so far
  scope,      \* Ids -> library the request was made in; "client" if none
  birth,      \* Ids -> instant of creation
  creations,  \* the requests whose creation still counts for the rate
  now,        \* the monotonic clock
  authority,  \* current authority identity of the Host
  bound,      \* identity the listener serves, or NoServer
  running,    \* the runtime's status flag
  era,        \* history: counts bindings, authority changes and revocations
  made,       \* history: era each request was created in; 0 if it was not
  okayed,     \* history: era each request was approved in
  browsers    \* browser records created for requests

requests == <<status, deadline, attempts, scope, birth, creations, made, okayed>>
listener == <<authority, bound, running, era>>
vars     == <<requests, listener, now, browsers>>

Open     == {"pending", "approved"}
Statuses == Open \cup {"absent", "completed", "cancelled", "rejected", "locked", "expired"}

NoServer  == [library |-> "none", since |-> 0]
NoCookie  == "none"
Authority == [library : Libraries \cup {"client"}, since : Nat]
Browser   == [request : Ids, era : Nat, session : BOOLEAN]

-----------------------------------------------------------------------------
Known == {i \in Ids : status[i] # "absent"}
Fresh == {i \in Ids : made[i] = 0}

\* refresh: what an operation that looks at a request finds.
Seen(i) == IF now >= deadline[i] /\ status[i] \in Open THEN "expired" ELSE status[i]

\* A request that can still lead to admission.
Live(i) == Seen(i) \in Open

Authoritative == authority.library \in Libraries

\* with_authoritative_db: the listener's binding is still the Host's authority.
Serving == bound # NoServer /\ bound = authority /\ Authoritative

\* The native commands of a running Companion service on the authoritative Host.
HostReady == running /\ Authoritative

InScope(i) == i \in Known /\ scope[i] = authority.library

RetainedByAge ==  \* mutant: collected a fixed time after they were made
  {i \in Known : now < birth[i] + PendingLifetime + Minute}
RecentStored ==  \* mutant: counts the creations of open requests only
  {i \in creations : now < birth[i] + Minute /\ Live(i)}

\* The requests create() keeps, and the creations it still counts.
Retained == {i \in Known : now < deadline[i] + Minute}
Recent   == {i \in creations : now < birth[i] + Minute}

\* What a column of the store is when only the requests in S are left.
Keeping(S, column, none) == [i \in Ids |-> IF i \in S THEN column[i] ELSE none]

Init == /\ status    = [i \in Ids |-> "absent"]
        /\ deadline  = [i \in Ids |-> 0]
        /\ attempts  = [i \in Ids |-> 0]
        /\ scope     = [i \in Ids |-> "client"]
        /\ birth     = [i \in Ids |-> 0]
        /\ creations = {}
        /\ made      = [i \in Ids |-> 0]
        /\ okayed    = [i \in Ids |-> 0]
        /\ now = 0
        /\ authority \in [library : Libraries, since : {0}]
        /\ bound = NoServer
        /\ running = FALSE
        /\ era = 1
        /\ browsers = {}

-----------------------------------------------------------------------------
(* The browser's handlers.                                                 *)

\* A request the answer of which was lost is a request all the same: the
\* caller's cookie e may be any request id or none.  A caller whose request is
\* still open is answered with it and changes nothing.
Create(e, i) ==
  LET seen == IF e # NoCookie /\ InScope(e) THEN [status EXCEPT ![e] = Seen(e)]
                                            ELSE status
      room == Cardinality(Retained) < Capacity /\ Cardinality(Recent) < MaxCreations
      kept == Keeping(Retained, seen, "absent")
  IN /\ Serving
     /\ e # NoCookie /\ InScope(e) => ~Live(e)
     /\ i \in Fresh
     /\ IF room
        THEN /\ status'    = [kept EXCEPT ![i] = "pending"]
             /\ deadline'  = [Keeping(Retained, deadline, 0)
                                 EXCEPT ![i] = now + PendingLifetime]
             /\ scope'     = [Keeping(Retained, scope, "client")
                                 EXCEPT ![i] = authority.library]
             /\ birth'     = [birth EXCEPT ![i] = now]
             /\ creations' = Recent \cup {i}
             /\ made'      = [made EXCEPT ![i] = era]
        ELSE /\ status'    = kept
             /\ creations' = Recent
             /\ deadline'  = Keeping(Retained, deadline, 0)
             /\ scope'     = Keeping(Retained, scope, "client")
             /\ UNCHANGED <<birth, made>>
     /\ attempts' = Keeping(Retained, attempts, 0)
     /\ UNCHANGED <<okayed, listener, now, browsers>>

\* status: the caller proved that request i is its own.
Look(i) ==
  /\ Serving /\ InScope(i)
  /\ status' = [status EXCEPT ![i] = Seen(i)]
  /\ UNCHANGED <<deadline, attempts, scope, birth, creations, made, okayed>>
  /\ UNCHANGED <<listener, now, browsers>>

Cancel(i) ==
  /\ Serving /\ InScope(i)
  /\ IF Live(i)
     THEN /\ status'   = [status EXCEPT ![i] = "cancelled"]
          /\ deadline' = [deadline EXCEPT ![i] = now]
     ELSE /\ status' = [status EXCEPT ![i] = Seen(i)]
          /\ UNCHANGED deadline
  /\ UNCHANGED <<attempts, scope, birth, creations, made, okayed>>
  /\ UNCHANGED <<listener, now, browsers>>

Locks(tries) == tries >= MaxAttempts

\* redeem with a wrong code, or of a request that is not approved.
WrongCode(i) ==
  LET tries == attempts[i] + 1
  IN /\ Serving /\ InScope(i)
     /\ IF Seen(i) = "approved"
        THEN /\ attempts' = [attempts EXCEPT ![i] = tries]
             /\ status'   = [status EXCEPT ![i] = IF Locks(tries) THEN "locked" ELSE @]
             /\ deadline' = [deadline EXCEPT ![i] = IF Locks(tries) THEN now ELSE @]
        ELSE /\ status' = [status EXCEPT ![i] = Seen(i)]
             /\ UNCHANGED <<attempts, deadline>>
     /\ UNCHANGED <<scope, birth, creations, made, okayed>>
     /\ UNCHANGED <<listener, now, browsers>>

RedeemableLate(i) ==  \* mutant: the stored status is not refreshed
  Serving /\ InScope(i) /\ status[i] = "approved"
Redeemable(i) == Serving /\ InScope(i) /\ Seen(i) = "approved"

\* The grant commits a browser record and opens a session for it.
Admit(i) ==
  /\ Redeemable(i)
  /\ browsers' = browsers \cup {[request |-> i, era |-> era, session |-> TRUE]}
  /\ status'   = [status EXCEPT ![i] = "completed"]
  /\ deadline' = [deadline EXCEPT ![i] = now]
  /\ UNCHANGED <<attempts, scope, birth, creations, made, okayed, listener, now>>

\* The record is committed, but the session is not opened: the database fails,
\* or a single revocation, which takes no gate, comes in between.
AdmitHalf(i) ==
  /\ Redeemable(i)
  /\ browsers' = browsers \cup {[request |-> i, era |-> era, session |-> FALSE]}
  /\ UNCHANGED <<requests, listener, now>>

-----------------------------------------------------------------------------
(* The Host.                                                               *)

List ==
  /\ HostReady
  /\ status' = [i \in Ids |-> Seen(i)]
  /\ UNCHANGED <<deadline, attempts, scope, birth, creations, made, okayed>>
  /\ UNCHANGED <<listener, now, browsers>>

ApproveAgain(i) ==  \* mutant: a second approval renews the code's lifetime
  /\ HostReady /\ InScope(i)
  /\ IF Live(i)
     THEN /\ status'   = [status EXCEPT ![i] = "approved"]
          /\ deadline' = [deadline EXCEPT ![i] = now + CodeLifetime]
          /\ okayed'   = [okayed EXCEPT ![i] = era]
     ELSE /\ status' = [status EXCEPT ![i] = Seen(i)]
          /\ UNCHANGED <<deadline, okayed>>
  /\ UNCHANGED <<attempts, scope, birth, creations, made, listener, now, browsers>>

\* Approving again returns the same code and changes nothing.
Approve(i) ==
  /\ HostReady /\ InScope(i)
  /\ IF Seen(i) = "pending"
     THEN /\ status'   = [status EXCEPT ![i] = "approved"]
          /\ deadline' = [deadline EXCEPT ![i] = now + CodeLifetime]
          /\ okayed'   = [okayed EXCEPT ![i] = era]
     ELSE /\ status' = [status EXCEPT ![i] = Seen(i)]
          /\ UNCHANGED <<deadline, okayed>>
  /\ UNCHANGED <<attempts, scope, birth, creations, made, listener, now, browsers>>

Reject(i) ==
  /\ HostReady /\ InScope(i)
  /\ IF Live(i)
     THEN /\ status'   = [status EXCEPT ![i] = "rejected"]
          /\ deadline' = [deadline EXCEPT ![i] = now]
     ELSE /\ status' = [status EXCEPT ![i] = Seen(i)]
          /\ UNCHANGED deadline
  /\ UNCHANGED <<attempts, scope, birth, creations, made, okayed>>
  /\ UNCHANGED <<listener, now, browsers>>

-----------------------------------------------------------------------------
(* The listener and the library behind it.                                 *)

Clear == /\ status'   = Keeping({}, status, "absent")
         /\ deadline' = Keeping({}, deadline, 0)
         /\ attempts' = Keeping({}, attempts, 0)
         /\ scope'    = Keeping({}, scope, "client")
         /\ creations' = {}
         /\ UNCHANGED <<birth, made, okayed>>

NextEra == era < MaxEra /\ era' = era + 1

\* revoke_all_browsers
RevokeAll ==
  /\ Authoritative
  /\ NextEra
  /\ Clear
  /\ UNCHANGED <<authority, bound, running, now, browsers>>

\* stop_trusted_lan_server_locked: accepted requests are answered first.
StopServer ==
  /\ bound # NoServer /\ running
  /\ bound' = NoServer
  /\ UNCHANGED <<requests, authority, running, era, now, browsers>>

BindOver ==  \* mutant: the new listener inherits the requests
  /\ bound = NoServer
  /\ NextEra
  /\ bound' = authority
  /\ UNCHANGED <<requests, authority, running, now, browsers>>

\* CompanionApiState::new of a new listener.  One bound while this device is a
\* Client has no authority to serve: Serving stays false for it.
Bind ==
  /\ bound = NoServer
  /\ NextEra
  /\ Clear
  /\ bound' = authority
  /\ UNCHANGED <<authority, running, now, browsers>>

MarkRunning ==
  /\ bound # NoServer /\ ~running
  /\ running' = TRUE
  /\ UNCHANGED <<requests, authority, bound, era, now, browsers>>

MarkStopped ==
  /\ bound = NoServer
  /\ NextEra
  /\ Clear
  /\ running' = FALSE
  /\ UNCHANGED <<authority, bound, now, browsers>>

\* The port cannot be bound again: the requests are not cleared.
MarkFailed ==
  /\ bound = NoServer /\ running
  /\ running' = FALSE
  /\ UNCHANGED <<requests, authority, bound, era, now, browsers>>

\* save_library_sync_settings with another role or library: a new generation.
ChangeAuthority ==
  /\ NextEra
  /\ \E l \in Libraries \cup {"client"} :
       authority' = [library |-> l, since |-> era + 1]
  /\ UNCHANGED <<requests, bound, running, now, browsers>>

Tick == /\ now < MaxTime
        /\ now' = now + 1
        /\ UNCHANGED <<requests, listener, browsers>>

Next ==
  \/ \E e \in Ids \cup {NoCookie}, i \in Ids : Create(e, i)
  \/ \E i \in Ids : \/ Look(i) \/ Cancel(i) \/ WrongCode(i) \/ Admit(i) \/ AdmitHalf(i)
                    \/ Approve(i) \/ Reject(i)
  \/ List \/ RevokeAll \/ Tick
  \/ StopServer \/ Bind \/ MarkRunning \/ MarkStopped \/ MarkFailed \/ ChangeAuthority

Spec == Init /\ [][Next]_vars

-----------------------------------------------------------------------------
(* Properties.                                                             *)

\* Wrong codes are counted up to the limit and never past it; a request is in
\* the store only if it was created, and only created ones count for the rate.
TypeOK ==
  /\ status \in [Ids -> Statuses] /\ deadline \in [Ids -> Nat]
  /\ attempts \in [Ids -> 0..MaxAttempts]
  /\ scope \in [Ids -> Libraries \cup {"client"}] /\ birth \in [Ids -> Nat]
  /\ creations \subseteq Ids /\ now \in Nat /\ era \in Nat \ {0}
  /\ made \in [Ids -> Nat] /\ okayed \in [Ids -> Nat]
  /\ authority \in Authority /\ bound \in Authority \cup {NoServer}
  /\ running \in BOOLEAN /\ browsers \subseteq Browser
  /\ creations \cup Known \subseteq Ids \ Fresh

\* What the code says of a new listener ("never inherits approvals from its
\* predecessor") and of revoking all browsers: a browser record created for a
\* request was asked for, approved and paired without a new binding, a change
\* of authority or a revocation of all browsers in between.
PairedInOneEra ==
  \A b \in browsers : b.era = made[b.request] /\ b.era = okayed[b.request]

\* The store is bounded, and between two clears no window of a Minute sees
\* more than MaxCreations new requests, whatever happened to them since.
FloodsAreBounded ==
  /\ Cardinality(Known) <= Capacity
  /\ \A i \in Ids \ Fresh :
       Cardinality({j \in Ids : /\ made[j] = made[i]
                                /\ birth[j] \in birth[i]..(birth[i] + Minute - 1)})
         <= MaxCreations

\* The store is sound: tries, requests and creations stay within their limits,
\* through lazy expiry, locking, collection and the creations it has forgotten.
StoreIsSound == TypeOK /\ FloodsAreBounded

\* Making room never drops a request that is still open: one disappears live
\* only when the listener, the library or all browsers are given up (Clear).
LiveAreKept ==
  [][\A i \in Ids : Live(i) /\ status'[i] = "absent" => era' # era]_vars

\* While a request stays approved its end is fixed and its tries are not given
\* back, however often the Host approves it again or the grant fails.
ApprovalIsFixed ==
  [][\A i \in Ids :
       status[i] = "approved" /\ status'[i] = "approved" =>
         deadline'[i] = deadline[i] /\ attempts'[i] >= attempts[i]]_vars

\* An open request keeps its place in the store and the terms of its approval.
TermsAreKept == LiveAreKept /\ ApprovalIsFixed

\* Expired requests count as ended from their deadline on, although the store
\* may still call them pending or approved.
Admitted(i) == \E b \in browsers : b.request = i /\ b.session

Stage(i) == IF i \in Fresh THEN "unasked"
            ELSE IF Admitted(i) THEN "admitted"
            ELSE IF Seen(i) = "pending" THEN "asked"
            ELSE IF Seen(i) = "approved" THEN "approved"
            ELSE "ended"

Promise == INSTANCE AccessPromise
             WITH stage  <- [i \in Ids |-> Stage(i)],
                  paired <- {b.request : b \in browsers}

\* The store keeps the promise of AccessPromise: asked once, approved by the
\* Host, admitted at most once and only in time, and ended for good.
KeepsPromise == Promise!Spec
=============================================================================
