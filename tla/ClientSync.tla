----------------------------- MODULE ClientSync -----------------------------
(***************************************************************************)
(* A Client desktop and the Host library it works on.                      *)
(*                                                                         *)
(* Source: library_sync_target_guard.rs, library_sync_host_client.rs       *)
(* (sessions), library_sync_runtime_auth.rs, library_sync_settings_        *)
(* commands.rs, library_sync_pairing_commands.rs and the read, write and   *)
(* cache commands, all under src/src-tauri/src, with                       *)
(* src/src/backend/database_library_sync_settings.rs.                      *)
(*                                                                         *)
(* Settings, vault and runtime session change only under one process-wide  *)
(* gate (secure_credential_mutation.rs), so what happens under the gate is *)
(* one step; the steps of a command between two uses of the gate, a        *)
(* reading of the settings or a call to the Host are steps of their own.   *)
(* Tokens and sessions are numbers in the order the Hosts issue them.      *)
(* A Host may come to serve another library at the same address, though    *)
(* not between the two calls of one pairing.                               *)
(***************************************************************************)
EXTENDS Naturals, FiniteSets, Sequences

CONSTANTS Threads,      \* threads that run a command of the Client
          Hosts,        \* base URLs
          Libraries,    \* library ids
          MaxGen,       \* bound: target generations
          MaxTokens,    \* bound: device tokens issued
          MaxSessions,  \* bound: sessions issued
          Limits        \* bounds, one choice for a behaviour: commands at once, the
                        \* targets and libraries it is about, target generations,
                        \* times a Host comes to serve another library

Targets == [host : Hosts, lib : Libraries]
ASSUME SyncAssumption ==
  /\ {MaxGen, MaxTokens, MaxSessions} \subseteq Nat
  /\ "none" \notin Hosts
  /\ Limits \subseteq [threads : Nat, targets : SUBSET Targets, libs : SUBSET Libraries,
                      gen : 1..MaxGen, moves : Nat]

VARIABLES target, gen, cache,            \* settings in the Client's database
          vault,                         \* device token kept for each Host
          session, failure,              \* LibrarySyncRuntimeAuth
          serves, tokens, sessions, dead, moves,  \* the Hosts
          cmd,                           \* what each thread is doing
          limit                          \* the bounds chosen

settings == <<target, gen>>
auth     == <<session, failure>>
hosts    == <<serves, tokens, sessions, dead, moves>>
vars == <<settings, cache, vault, auth, hosts, cmd, limit>>

NoTarget == [host |-> "none", lib |-> "none"]    \* STANDALONE or HOST
NoToken == 0
NoSession == [host |-> "none", id |-> 0, token |-> NoToken]
NoFailure == [host |-> "none", token |-> NoToken]
NoCache == [gen |-> 0, libs |-> {}]
NoGuard == [host |-> "none", lib |-> "none", gen |-> 0]

(* The requests of a command: a plain one captures the target anew, by the *)
(* base URL alone; a guarded one keeps the target the command began with.  *)
ReadPlan  == <<"get">>                          \* cached under the target it began with
WritePlan == <<"post", "page", "page">>         \* then the rolls are cached anew
FixedPlan == <<"fixed post", "page", "page">>
Plans == {ReadPlan, WritePlan, FixedPlan}
Guarded == {"fixed post", "page"}
Posts == {"post", "fixed post"}
Idle == [phase |-> "idle", plan |-> <<>>, first |-> NoGuard, guard |-> NoGuard,
         auth |-> NoSession, retried |-> FALSE, data |-> {}]

Init ==
  /\ limit \in Limits
  /\ target \in limit.targets /\ gen = 1 /\ cache = NoCache
  /\ vault = [h \in Hosts |-> NoToken] /\ session = NoSession /\ failure = NoFailure
  /\ serves \in [Hosts -> limit.libs]
  /\ tokens = <<>> /\ sessions = <<>> /\ dead = {} /\ moves = 0
  /\ cmd = [t \in Threads |-> Idle]

-----------------------------------------------------------------------------
(* Target guards.                                                          *)

CurrentGuard == [host |-> target.host, lib |-> target.lib, gen |-> gen]
Matches(g) == target # NoTarget /\ g = CurrentGuard

Ends(t) == cmd' = [cmd EXCEPT ![t] = Idle]
Goes(t, p) == cmd' = [cmd EXCEPT ![t].phase = p]

Begin(t) ==
  /\ cmd[t] = Idle /\ target # NoTarget
  /\ Cardinality({u \in Threads : cmd[u] # Idle}) < limit.threads
  /\ \E k \in Plans :
       cmd' = [cmd EXCEPT ![t].phase = "identify", ![t].plan = k,
                          ![t].first = CurrentGuard]
  /\ UNCHANGED <<limit, settings, cache, vault, auth, hosts>>

Identify(t) ==     \* ensure_library_sync_host_matches
  /\ cmd[t].phase = "identify"
  /\ \/ serves[cmd[t].first.host] = cmd[t].first.lib /\ Goes(t, "capture")
     \/ Ends(t)
  /\ UNCHANGED <<limit, settings, cache, vault, auth, hosts>>

Capture(t) == LET c == cmd[t] IN
  /\ c.phase = "capture"
  /\ \/ /\ Head(c.plan) \in Guarded /\ Matches(c.first)
        /\ cmd' = [cmd EXCEPT ![t].phase = "auth", ![t].guard = c.first]
     \/ /\ Head(c.plan) \notin Guarded /\ target.host = c.first.host
        /\ cmd' = [cmd EXCEPT ![t].phase = "auth", ![t].guard = CurrentGuard]
     \/ /\ IF Head(c.plan) \in Guarded THEN ~Matches(c.first)
                                       ELSE target.host # c.first.host
        /\ Ends(t)
  /\ UNCHANGED <<limit, settings, cache, vault, auth, hosts>>

-----------------------------------------------------------------------------
(* Sessions.  Each of these is one use of the gate.                        *)

Uses(t, s) == cmd' = [cmd EXCEPT ![t].phase = "check", ![t].auth = s]

(* validated_library_sync_device_token: the token of the current Host.     *)
Valid(h) == target.host = h /\ vault[h] # NoToken

Renewed(t, h) ==    \* renew_library_sync_host_session succeeds and is kept
  /\ Len(sessions) < MaxSessions /\ tokens[vault[h]] = serves[h]
  /\ sessions' = Append(sessions, vault[h])
  /\ session' = [host |-> h, id |-> Len(sessions) + 1, token |-> vault[h]]
  /\ failure' = NoFailure /\ Uses(t, session')
  /\ UNCHANGED <<serves, tokens, dead, moves>>

NotRenewed(t, h) == \* it fails: the session goes, the failure is remembered
  /\ session' = NoSession /\ failure' = [host |-> h, token |-> vault[h]]
  /\ Ends(t) /\ UNCHANGED hosts

Renews(t, h) ==     \* renew_with_failure_cooldown_under_gate_with
  \/ /\ failure = [host |-> h, token |-> vault[h]] /\ Ends(t)
     /\ UNCHANGED <<auth, hosts>>
  \/ /\ failure # [host |-> h, token |-> vault[h]]
     /\ Renewed(t, h) \/ NotRenewed(t, h)

Authenticate(t) == LET h == cmd[t].guard.host IN \* current_or_renewed_...
  /\ cmd[t].phase = "auth"
  /\ \/ session.host = h /\ Uses(t, session) /\ UNCHANGED <<auth, hosts>>
     \/ session.host # h /\ Valid(h) /\ Renews(t, h)
     \/ session.host # h /\ ~Valid(h) /\ Ends(t) /\ UNCHANGED <<auth, hosts>>
  /\ UNCHANGED <<limit, settings, cache, vault>>

NeverReusable(t) == FALSE   \* mutant
Reusable(t) == LET c == cmd[t] IN   \* another thread renewed it first
  /\ session.host = c.guard.host /\ session.id # c.auth.id
  /\ session.token = c.auth.token

Renew(t) == LET c == cmd[t] h == c.guard.host IN    \* renew_or_reuse_...
  /\ c.phase = "renew"
  /\ \/ /\ \/ failure = [host |-> h, token |-> c.auth.token]
           \/ ~(Valid(h) /\ vault[h] = c.auth.token)
        /\ Ends(t) /\ UNCHANGED <<auth, hosts>>
     \/ /\ failure # [host |-> h, token |-> c.auth.token]
        /\ Valid(h) /\ vault[h] = c.auth.token
        /\ \/ Reusable(t) /\ Uses(t, session) /\ UNCHANGED <<auth, hosts>>
           \/ ~Reusable(t) /\ Renews(t, h)
  /\ UNCHANGED <<limit, settings, cache, vault>>

Lapse ==            \* LIBRARY_SYNC_RENEWAL_FAILURE_TTL
  /\ failure # NoFailure /\ failure' = NoFailure
  /\ UNCHANGED <<limit, settings, cache, vault, session, hosts, cmd>>

-----------------------------------------------------------------------------
(* A request and its answer.                                               *)

StillWanted(t) == TRUE   \* mutant: the target is not looked at again
Wanted(t) == Matches(cmd[t].guard)

Check(t) ==
  /\ cmd[t].phase = "check"
  /\ \/ Wanted(t) /\ Goes(t, "send")
     \/ ~Wanted(t) /\ Ends(t)
  /\ UNCHANGED <<limit, settings, cache, vault, auth, hosts>>

Accepts(t) == LET c == cmd[t] IN
  c.auth.id \notin dead /\ tokens[c.auth.token] = serves[c.guard.host]

Send(t) == LET c == cmd[t] IN
  /\ c.phase = "send"
  /\ \/ /\ Accepts(t)
        /\ cmd' = [cmd EXCEPT ![t].phase = "answered",
                     ![t].data = IF Head(c.plan) \in Posts THEN {}
                                 ELSE @ \cup {serves[c.guard.host]}]
     \/ ~Accepts(t) /\ Goes(t, "refused")
     \/ Ends(t)                                       \* no answer, or an error
  /\ UNCHANGED <<limit, settings, cache, vault, auth, hosts>>

Refused(t) == LET c == cmd[t] IN
  /\ c.phase = "refused"
  /\ \/ /\ ~c.retried /\ Matches(c.guard)
        /\ cmd' = [cmd EXCEPT ![t].phase = "renew", ![t].retried = TRUE]
     \/ (c.retried \/ ~Matches(c.guard)) /\ Ends(t)
  /\ UNCHANGED <<limit, settings, cache, vault, auth, hosts>>

More(t) == Len(cmd[t].plan) > 1

Answered(t) == LET c == cmd[t] IN
  /\ c.phase = "answered"
  /\ \/ ~Matches(c.guard) /\ Ends(t)
     \/ /\ Matches(c.guard) /\ More(t)
        /\ cmd' = [cmd EXCEPT ![t].phase = "capture", ![t].plan = Tail(@),
                              ![t].retried = FALSE]
     \/ Matches(c.guard) /\ ~More(t) /\ Goes(t, "save")
  /\ UNCHANGED <<limit, settings, cache, vault, auth, hosts>>

MaySaveAnyGeneration(t) == Matches([cmd[t].first EXCEPT !.gen = gen])   \* mutant
MaySave(t) == Matches(cmd[t].first)

Save(t) ==         \* with_current_library_sync_target
  /\ cmd[t].phase = "save" /\ Ends(t)
  /\ \/ MaySave(t) /\ cache' = [gen |-> cmd[t].first.gen, libs |-> cmd[t].data]
     \/ ~MaySave(t) /\ UNCHANGED cache
  /\ UNCHANGED <<limit, settings, vault, auth, hosts>>

-----------------------------------------------------------------------------
(* Settings and pairing, under the gate.  Any call to the vault may fail,  *)
(* with or without its effect; so may the transaction of the database.     *)

RestoredAnyway(v) ==   \* mutant: the session comes back whatever the vault says
  /\ session' = session /\ failure' = NoFailure
  /\ vault' \in {vault, v, [vault EXCEPT ![target.host] = NoToken]}
(* restore_library_sync_pairing[_state]: v is the vault after the failure. *)
Restored(v) ==
  /\ failure' = NoFailure
  /\ \/ session' = session /\ vault' = vault
     \/ session' = NoSession /\ vault' \in {vault, v, [vault EXCEPT ![target.host] = NoToken]}

Forget(h) == IF h \in Hosts THEN [vault EXCEPT ![h] = NoToken] ELSE vault

Unpairs(new) ==    \* clear_library_sync_pairing: host, library or role differ
  vault' = Forget(target.host) /\ session' = NoSession /\ failure' = NoFailure

SaveSettings(new) ==
  /\ new # target /\ gen < limit.gen
  /\ \/ target' = new /\ gen' = gen + 1 /\ cache' = NoCache /\ Unpairs(new)
     \/ target # NoTarget /\ Restored(Forget(target.host)) /\ UNCHANGED <<settings, cache>>
  /\ UNCHANGED <<limit, hosts, cmd>>

ClearAuth ==       \* clear_library_sync_client_auth
  /\ target # NoTarget
  /\ \/ Unpairs(NoTarget)
     \/ Restored(Forget(target.host))
  /\ UNCHANGED <<limit, settings, cache, hosts, cmd>>

Identified(h) == serves[h] = target.lib

Pair == LET h == target.host new == Len(tokens) + 1 IN
  /\ target # NoTarget
  /\ Len(tokens) < MaxTokens /\ Len(sessions) < MaxSessions
  /\ tokens' = Append(tokens, serves[h]) /\ sessions' = Append(sessions, new)
  /\ \/ /\ Identified(h) /\ vault' = [vault EXCEPT ![h] = new]
        /\ session' = [host |-> h, id |-> Len(sessions) + 1, token |-> new]
        /\ failure' = NoFailure
     \/ Identified(h) /\ Restored([vault EXCEPT ![h] = new])
     \/ ~Identified(h) /\ UNCHANGED <<vault, auth>>
  /\ UNCHANGED <<limit, settings, cache, serves, dead, moves, cmd>>

-----------------------------------------------------------------------------
(* The Hosts and the process.                                              *)

Expire(i) ==
  /\ i \in 1..Len(sessions) /\ i \notin dead /\ dead' = dead \cup {i}
  /\ UNCHANGED <<limit, settings, cache, vault, auth, serves, tokens, sessions, moves, cmd>>

Move(h, l) ==
  /\ serves[h] # l /\ moves < limit.moves /\ moves' = moves + 1
  /\ serves' = [serves EXCEPT ![h] = l]
  /\ UNCHANGED <<limit, settings, cache, vault, auth, tokens, sessions, dead, cmd>>

Restart ==         \* at any point, also between clearing the vault and saving
  /\ session' = NoSession /\ failure' = NoFailure
  /\ vault' \in {vault, Forget(target.host)}
  /\ cmd' = [t \in Threads |-> Idle]
  /\ UNCHANGED <<limit, settings, cache, hosts>>

Step(t) == \/ Begin(t) \/ Identify(t) \/ Capture(t) \/ Authenticate(t)
           \/ Check(t) \/ Send(t) \/ Refused(t) \/ Renew(t) \/ Answered(t) \/ Save(t)
Next ==
  \/ \E t \in Threads : Step(t)
  \/ \E new \in limit.targets \cup {NoTarget} : SaveSettings(new)
  \/ ClearAuth \/ Pair \/ Lapse \/ Restart
  \/ \E i \in 1..MaxSessions : Expire(i)
  \/ \E h \in Hosts, l \in Libraries : Move(h, l)

Spec == Init /\ [][Next]_vars

-----------------------------------------------------------------------------
(* Properties.                                                             *)

Numbered(s) == s = NoSession \/ s \in [host : Hosts, id : 1..MaxSessions, token : 1..MaxTokens]
Guards == [host : Hosts, lib : Libraries, gen : 1..MaxGen]

(* Every variable has its type; tokens and sessions in use were issued.    *)
TypeOK ==
  /\ target \in Targets \cup {NoTarget} /\ gen \in 1..MaxGen
  /\ cache = NoCache \/ cache \in [gen : 1..MaxGen, libs : SUBSET Libraries]
  /\ vault \in [Hosts -> 0..Len(tokens)]
  /\ Numbered(session) /\ session.id <= Len(sessions)
  /\ failure = NoFailure \/ failure \in [host : Hosts, token : 1..MaxTokens]
  /\ serves \in [Hosts -> Libraries] /\ moves \in Nat
  /\ tokens \in Seq(Libraries) /\ Len(tokens) <= MaxTokens
  /\ sessions \in Seq(1..MaxTokens) /\ Len(sessions) <= MaxSessions
  /\ dead \subseteq 1..Len(sessions)
  /\ \A t \in Threads :
       \/ cmd[t] = Idle
       \/ /\ cmd[t].first \in Guards /\ cmd[t].guard \in Guards \cup {NoGuard}
          /\ Numbered(cmd[t].auth) /\ cmd[t].retried \in BOOLEAN
          /\ cmd[t].data \subseteq Libraries /\ cmd[t].plan # <<>>

(* The runtime session is one of the present Host, opened with the device  *)
(* token the vault holds for it: a rollback that could not put the token   *)
(* back leaves no session that still works in memory.                      *)
SessionIsPaired ==
  session # NoSession =>
    session.host = target.host /\ vault[session.host] = session.token

(* A device token is kept only for the present Host, and was issued by the *)
(* library the Client is a Client of: it outlives neither a change of Host *)
(* nor a change of library at the same address.                            *)
TokensBelong ==
  \A h \in Hosts : vault[h] # NoToken =>
    h = target.host /\ tokens[vault[h]] = target.lib

(* A remembered failure to renew never stands beside a session: it cannot  *)
(* turn away a command that could be served.                               *)
FailureStandsAlone == failure # NoFailure => session = NoSession

(* The Client's credentials are those of its present target, through every *)
(* failure of the vault, every roll-back and every restart.                *)
CredentialsBelong == TypeOK /\ SessionIsPaired /\ TokensBelong /\ FailureStandsAlone

(* What is cached was asked for under the present generation of the target *)
(* and came, all its pages, from the library of the target.                *)
CacheIsCurrent ==
  cache # NoCache => cache.gen = gen /\ cache.libs = {target.lib}

Alive(s) == s # NoSession /\ s.id \notin dead /\ tokens[s.token] = serves[s.host]

(* A wave of refused requests renews a session once: a renewal replaces    *)
(* no session but the one the renewing command was refused with, and the   *)
(* Host accepts that one no more, unless it came to serve another library  *)
(* and went back to the first while the command was on its way.            *)
LiveSessionsStay ==
  [][sessions' # sessions /\ tokens' = tokens /\ session # NoSession =>
       /\ \E t \in Threads : cmd[t].phase = "renew" /\ cmd[t].auth = session
       /\ Alive(session) => moves > 1]_vars

Carried(t) == cmd[t].phase = "send" /\ cmd'[t].phase = "answered"

(* A write that carries the target it was reviewed for is carried out by   *)
(* the library of that target or not at all, whatever becomes of settings, *)
(* pairing and Host meanwhile.                                             *)
FixedWritesReachTheirLibrary ==
  [][\A t \in Threads : Carried(t) /\ Head(cmd[t].plan) = "fixed post" =>
       serves[cmd[t].guard.host] = cmd[t].first.lib]_vars
=============================================================================
