-------------------------- MODULE BrowserSessions --------------------------
(***************************************************************************)
(* Pairing links, paired browsers and the short sessions they open.        *)
(*                                                                         *)
(* Source: src/src-tauri/src/companion_session.rs (the session store),     *)
(* companion_api.rs (pair, renew and the check in front of every request), *)
(* src/src/backend/database_trusted_lan.rs (links and browsers) and the    *)
(* revocation commands, of which revoking one browser takes no gate.       *)
(*                                                                         *)
(* A browser's device token is its id.  A session is its number in the     *)
(* order they were opened, which is the order in which they expire.  CSRF  *)
(* and Host checks look at the request alone and are left out.  A restart  *)
(* of the listener waits for accepted requests.  A library that was        *)
(* replaced by another does not come back: only a fresh one or itself.     *)
(***************************************************************************)
EXTENDS Naturals, FiniteSets

CONSTANTS Threads,    \* requests handled at once
          Browsers,   \* browser ids, used once
          Links,      \* pairing links, used once
          Capacity,   \* COMPANION_SESSION_CAPACITY, 512
          MaxOpened,  \* bound: sessions opened
          MaxLib      \* bound: identities of the library

ASSUME SessionsAssumption ==
  /\ Capacity \in Nat \ {0} /\ MaxOpened \in Nat /\ MaxLib \in Nat \ {0}
  /\ "free" \notin Threads /\ "none" \notin Browsers \cup Links

VARIABLES link, browser, unseen,  \* the database; unseen: not for 365 days
          lib, bound,             \* the library, and the one the listener serves
          sessions, owner, opened,\* the session store
          req, authority,         \* the requests; holder of the authority gate
          held, maker             \* tokens handed out; history: link of a browser

database == <<link, browser, unseen, maker>>
store == <<sessions, owner, opened>>
sessionVars == <<database, lib, bound, store, req, authority, held>>

Idle == [phase |-> "idle", kind |-> "none", sess |-> 0, who |-> "none",
         link |-> "none", out |-> {}, saw |-> 0]
Out == {b \in Browsers : browser[b] \in {"revoked", "gone"}}

SessionsInit ==
  /\ link = [l \in Links |-> "none"] /\ browser = [b \in Browsers |-> "none"]
  /\ unseen = {} /\ lib = 1 /\ bound = 1
  /\ sessions = {} /\ owner = [s \in 1..MaxOpened |-> "none"] /\ opened = 0
  /\ req = [t \in Threads |-> Idle] /\ authority = "free"
  /\ held = {} /\ maker = [b \in Browsers |-> "none"]

Reaches(t, phase) == req' = [req EXCEPT ![t].phase = phase]
Ends(t) == req' = [req EXCEPT ![t] = Idle]

-----------------------------------------------------------------------------
(* The session store.                                                      *)

Oldest(S) == CHOOSE s \in S : \A r \in S : s <= r
KeptButNewest ==                    \* mutant
  IF Cardinality(sessions) < Capacity THEN sessions
  ELSE sessions \ {CHOOSE s \in sessions : \A r \in sessions : r <= s}
Kept == IF Cardinality(sessions) < Capacity THEN sessions
        ELSE sessions \ {Oldest(sessions)}

Insert(b) ==
  /\ opened' = opened + 1 /\ owner' = [owner EXCEPT ![opened + 1] = b]
  /\ sessions' = Kept \cup {opened + 1}

Expire ==
  /\ sessions # {} /\ sessions' = sessions \ {Oldest(sessions)}
  /\ UNCHANGED <<database, lib, bound, owner, opened, req, authority, held>>

-----------------------------------------------------------------------------
(* A request with a session cookie.                                        *)

Arrive(t, kind, s) ==
  /\ req[t] = Idle
  /\ req' = [req EXCEPT ![t] = [Idle EXCEPT !.phase = "arrived", !.kind = kind,
                                            !.sess = s, !.out = Out]]
  /\ UNCHANGED <<database, lib, bound, store, authority, held>>

Lookup(t) ==       \* find_active_session: the store, and then the database
  /\ req[t].phase = "arrived"
  /\ IF req[t].sess \in sessions
     THEN req' = [req EXCEPT ![t].phase = "known", ![t].who = owner[req[t].sess]]
     ELSE Ends(t)
  /\ UNCHANGED <<database, lib, bound, store, authority, held>>

PairedInTheStore(t) == req[t].sess \in sessions    \* mutant: no database read
Paired(t) == browser[req[t].who] = "paired"

CheckPaired(t) ==
  /\ req[t].phase = "known"
  /\ IF Paired(t) THEN Reaches(t, "paired") /\ UNCHANGED sessions
     ELSE Ends(t) /\ sessions' = sessions \ {req[t].sess}
  /\ UNCHANGED <<database, lib, bound, owner, opened, authority, held>>

AtHome == lib = bound

Admit(t) ==
  /\ req[t].phase = "paired" /\ authority = "free"
  /\ IF AtHome THEN Reaches(t, "admitted") ELSE Ends(t)
  /\ UNCHANGED <<database, lib, bound, store, authority, held>>

Read(t) ==
  /\ req[t].phase = "admitted" /\ req[t].kind = "read"
  /\ req' = [req EXCEPT ![t].phase = "read", ![t].saw = lib]
  /\ UNCHANGED <<database, lib, bound, store, authority, held>>

MaySendUnchecked == TRUE      \* mutant: no check after the response is made
MaySend == AtHome

Send(t) ==
  /\ req[t].phase = "read" /\ authority = "free"
  /\ IF MaySend THEN Reaches(t, "sent") ELSE Ends(t)
  /\ UNCHANGED <<database, lib, bound, store, authority, held>>

Write(t) ==
  /\ req[t].phase = "admitted" /\ req[t].kind = "write" /\ authority = "free"
  /\ IF AtHome THEN req' = [req EXCEPT ![t].phase = "sent", ![t].saw = lib]
     ELSE Ends(t)
  /\ UNCHANGED <<database, lib, bound, store, authority, held>>

Answered(t) ==
  /\ req[t].phase = "sent" /\ Ends(t)
  /\ UNCHANGED <<database, lib, bound, store, authority, held>>

-----------------------------------------------------------------------------
(* Pairing and renewal, under the gate.                                    *)

Knock(t, kind, l, b) ==
  /\ req[t] = Idle
  /\ req' = [req EXCEPT ![t] = [Idle EXCEPT !.phase = "waiting", !.kind = kind,
                                            !.link = l, !.who = b, !.out = Out]]
  /\ UNCHANGED <<database, lib, bound, store, authority, held>>

UsableTwice(l) == link[l] \in {"open", "used"}     \* mutant
Usable(l) == link[l] = "open"

Consume(t) ==      \* consume_trusted_lan_pairing_and_create_browser
  /\ req[t].phase = "waiting" /\ req[t].kind = "pair" /\ authority = "free"
  /\ IF AtHome /\ Usable(req[t].link)
     THEN \E b \in Browsers :
            /\ browser[b] = "none" /\ browser' = [browser EXCEPT ![b] = "paired"]
            /\ maker' = [maker EXCEPT ![b] = req[t].link]
            /\ link' = [link EXCEPT ![req[t].link] = "used"]
            /\ req' = [req EXCEPT ![t].phase = "found", ![t].who = b] /\ authority' = t
     ELSE Ends(t) /\ UNCHANGED <<link, browser, maker, authority>>
  /\ UNCHANGED <<unseen, lib, bound, store, held>>

Renewable(b) == browser[b] = "paired" /\ b \notin unseen

Find(t) ==         \* find_active_trusted_lan_browser
  /\ req[t].phase = "waiting" /\ req[t].kind = "renew" /\ authority = "free"
  /\ IF AtHome /\ Renewable(req[t].who) THEN Reaches(t, "found") /\ authority' = t
     ELSE Ends(t) /\ UNCHANGED authority
  /\ UNCHANGED <<database, lib, bound, store, held>>

Touch(t) ==
  /\ req[t].phase = "found"
  /\ IF browser[req[t].who] = "paired"
     THEN Reaches(t, "touched") /\ unseen' = unseen \ {req[t].who} /\ UNCHANGED authority
     ELSE Ends(t) /\ authority' = "free" /\ UNCHANGED unseen
  /\ UNCHANGED <<link, browser, maker, lib, bound, store, held>>

Open(t) ==
  /\ req[t].phase = "touched" /\ opened < MaxOpened
  /\ Insert(req[t].who) /\ held' = held \cup {req[t].who}
  /\ Ends(t) /\ authority' = "free"
  /\ UNCHANGED <<database, lib, bound>>

-----------------------------------------------------------------------------
(* The desktop, and time.                                                  *)

CreateLink(l) ==
  /\ authority = "free" /\ link[l] = "none" /\ link' = [link EXCEPT ![l] = "open"]
  /\ UNCHANGED <<browser, unseen, maker, lib, bound, store, req, authority, held>>

Lapse(l) ==
  /\ link[l] = "open" /\ link' = [link EXCEPT ![l] = "expired"]
  /\ UNCHANGED <<browser, unseen, maker, lib, bound, store, req, authority, held>>

Forgotten(b) ==
  /\ browser[b] = "paired" /\ \A s \in sessions : owner[s] # b
  /\ unseen' = unseen \cup {b}
  /\ UNCHANGED <<link, browser, maker, lib, bound, store, req, authority, held>>

Revoke(b) ==       \* takes no gate
  /\ browser[b] = "paired" /\ browser' = [browser EXCEPT ![b] = "revoked"]
  /\ UNCHANGED <<link, unseen, maker, lib, bound, store, req, authority, held>>

RevokeAll ==
  /\ authority = "free"
  /\ browser' = [b \in Browsers |-> IF browser[b] = "paired" THEN "revoked" ELSE browser[b]]
  /\ UNCHANGED <<link, unseen, maker, lib, bound, store, req, authority, held>>

BrowsersGone ==
  /\ browser' = [b \in Browsers |-> IF browser[b] = "none" THEN "none" ELSE "gone"]
  /\ link' = [l \in Links |-> IF link[l] = "none" THEN "none" ELSE "gone"]

Replace(l) ==      \* a restore or a reset
  /\ authority = "free" /\ lib' = l /\ BrowsersGone
  /\ UNCHANGED <<unseen, maker, bound, store, req, authority, held>>

Rebind ==
  /\ \A t \in Threads : req[t] = Idle
  /\ bound' = lib /\ sessions' = {}
  /\ UNCHANGED <<database, lib, owner, opened, req, authority, held>>

SessionsNext ==
  \/ \E t \in Threads :
       \/ \E s \in 1..opened : Arrive(t, "read", s) \/ Arrive(t, "write", s)
       \/ Lookup(t) \/ CheckPaired(t) \/ Admit(t) \/ Read(t) \/ Send(t) \/ Write(t)
       \/ Answered(t)
       \/ \E l \in Links : Knock(t, "pair", l, "none")
       \/ \E b \in held : Knock(t, "renew", "none", b)
       \/ Consume(t) \/ Find(t) \/ Touch(t) \/ Open(t)
  \/ \E l \in Links : CreateLink(l) \/ Lapse(l)
  \/ \E b \in Browsers : Forgotten(b) \/ Revoke(b)
  \/ \E l \in {lib, lib + 1} : l <= MaxLib /\ Replace(l)
  \/ RevokeAll \/ Rebind \/ Expire

SessionsSpec == SessionsInit /\ [][SessionsNext]_sessionVars

-----------------------------------------------------------------------------
(* Properties.                                                             *)

Phases == {"idle", "arrived", "known", "paired", "admitted", "read", "sent",
           "waiting", "found", "touched"}

(* Every variable has its type; the gate is held by exactly the request    *)
(* between finding its browser and opening the session.                    *)
SessionsTypeOK ==
  /\ link \in [Links -> {"none", "open", "used", "expired", "gone"}]
  /\ browser \in [Browsers -> {"none", "paired", "revoked", "gone"}]
  /\ {unseen, held} \subseteq SUBSET Browsers /\ {lib, bound} \subseteq 1..MaxLib
  /\ opened \in 0..MaxOpened /\ sessions \subseteq 1..opened
  /\ owner \in [1..MaxOpened -> Browsers \cup {"none"}]
  /\ \A t \in Threads : /\ req[t].phase \in Phases
                        /\ authority = t <=> req[t].phase \in {"found", "touched"}

(* A browser that was revoked, or lost with its library, before a request  *)
(* came in is not admitted, whatever sessions a renewal that raced with    *)
(* the revocation has left in the store; and a renewal that began after    *)
(* the revocation opens no session.                                        *)
RevokedStayOut ==
  SessionsTypeOK /\ \A t \in Threads :
    req[t].phase \in {"paired", "admitted", "read", "sent", "found", "touched"} =>
      req[t].who \notin req[t].out

(* Two requests with the same link make one browser, and a link of a       *)
(* library that was restored or reset makes none.                          *)
LinksPairOnce ==
  \A b \in Browsers : browser[b] = "paired" =>
    /\ link[maker[b]] = "used"
    /\ \A c \in Browsers \ {b} : maker[c] # maker[b]

(* What is sent was read, or written, in the library the listener serves.  *)
AnswersStayHome == \A t \in Threads : req[t].phase = "sent" => req[t].saw = bound

(* A session ends because it was the oldest, because its browser is out,   *)
(* or because the listener was replaced; nobody else is signed out, and    *)
(* still the store never holds more than its capacity.                     *)
NobodyElseSignedOut ==
  [][/\ Cardinality(sessions') <= Capacity
     /\ \A s \in sessions \ sessions' :
          s = Oldest(sessions) \/ owner[s] \in Out \/ sessions' = {}]_sessionVars
=============================================================================
