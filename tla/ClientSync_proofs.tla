------------------------- MODULE ClientSync_proofs -------------------------
(***************************************************************************)
(* The proofs about ClientSync: for every number of threads, Hosts,        *)
(* libraries, generations, tokens and sessions, what the Client keeps to   *)
(* reach a Host and what it keeps of a Host's rolls are those of its       *)
(* present target, and a write reaches the library it was reviewed for or  *)
(* none.                                                                   *)
(***************************************************************************)
EXTENDS ClientSync, SequenceTheorems, TLAPS

(* What a thread is doing.                                                 *)

Phases == {"idle", "identify", "capture", "auth", "check", "send", "refused",
           "renew", "answered", "save"}
Pages == {<<"page", "page">>, <<"page">>}          \* what is left of a write
Tails == Plans \cup Pages \cup {<<>>}
MaybeGuards == Guards \cup {NoGuard}
MaybeSessions == [host : Hosts, id : 1..MaxSessions, token : 1..MaxTokens] \cup {NoSession}
MaybeFailures == [host : Hosts, token : 1..MaxTokens] \cup {NoFailure}
Commands == [phase : Phases, plan : Tails, first : MaybeGuards, guard : MaybeGuards,
             auth : MaybeSessions, retried : BOOLEAN, data : SUBSET Libraries]

-----------------------------------------------------------------------------
(* The inductive invariant.                                                *)

SettingsAre == limit \in Limits /\ target \in Targets \cup {NoTarget} /\ gen \in 1..MaxGen
CacheIs == cache = NoCache \/ cache \in [gen : 1..MaxGen, libs : SUBSET Libraries]
HostsAre ==
  /\ serves \in [Hosts -> Libraries] /\ moves \in Nat
  /\ tokens \in Seq(Libraries) /\ Len(tokens) <= MaxTokens
  /\ sessions \in Seq(1..MaxTokens) /\ Len(sessions) <= MaxSessions
  /\ dead \subseteq 1..Len(sessions)
AuthIs ==
  /\ vault \in [Hosts -> 0..Len(tokens)]
  /\ session \in MaybeSessions /\ session.id <= Len(sessions)
  /\ failure \in MaybeFailures
CommandsAre == cmd \in [Threads -> Commands]

Paired == SessionIsPaired /\ TokensBelong /\ FailureStandsAlone

(* As long as no Host has moved, the token kept for a Host is one of the   *)
(* library it serves.                                                      *)
TokensServe == moves = 0 => \A h \in Hosts : vault[h] # NoToken => tokens[vault[h]] = serves[h]

(* An idle thread holds nothing; one that is not has begun with a target   *)
(* of some generation, the present target if the generation is still that. *)
Rests(t) == cmd[t].phase = "idle" => cmd[t] = Idle
Began(t) == LET c == cmd[t] IN c.phase # "idle" =>
  /\ c.first \in Guards /\ c.plan # <<>> /\ c.first.gen <= gen
  /\ c.first.gen = gen => c.first = CurrentGuard

(* The target a request was captured for is not older than the command's,  *)
(* is the present one if its generation is, and is the command's own when  *)
(* the request is guarded.                                                 *)
Captured(t) == LET c == cmd[t] IN c.phase \notin {"idle", "identify", "capture", "save"} =>
  /\ c.guard \in Guards /\ c.first.gen <= c.guard.gen /\ c.guard.gen <= gen
  /\ c.guard.gen = gen => c.guard = CurrentGuard
  /\ c.guard.gen = c.first.gen => c.guard = c.first
  /\ Head(c.plan) \in Guarded => c.guard = c.first

(* The session a request goes out with is one of its Host; once the target *)
(* has been looked at again, its device token is one of the library the    *)
(* request is meant for, although neither needs to be the Client's own     *)
(* session any more.                                                       *)
Holding == {"check", "send", "answered", "refused", "renew"}
Holds(t) == LET c == cmd[t] IN c.phase \in Holding =>
  /\ c.auth \in [host : Hosts, id : 1..MaxSessions, token : 1..MaxTokens]
  /\ c.auth.host = c.guard.host /\ c.auth.token <= Len(tokens)
  /\ c.phase = "check" /\ c.guard.gen = gen => tokens[c.auth.token] = c.guard.lib
  /\ c.phase = "send" => tokens[c.auth.token] = c.guard.lib
  /\ moves = 0 => tokens[c.auth.token] = serves[c.auth.host]

(* A session was refused because it is dead, or because its Host serves    *)
(* another library, as it does until it moves again.                       *)
RefusedFor(t) == LET c == cmd[t] IN c.phase \in {"refused", "renew"} =>
  \/ c.auth.id \in dead
  \/ moves = 1 /\ tokens[c.auth.token] # serves[c.auth.host]
  \/ moves > 1

(* While the target a command began with is the present one, everything it *)
(* has read came from that library; a command with all its answers has     *)
(* read something.                                                         *)
Read(t) == LET c == cmd[t] IN
  /\ c.phase # "idle" /\ c.first.gen = gen => c.data \subseteq {c.first.lib}
  /\ c.phase = "answered" /\ Head(c.plan) \notin Posts => c.data # {}
  /\ c.phase = "save" => c.data # {}

Sound(t) == Rests(t) /\ Began(t) /\ Captured(t) /\ Holds(t) /\ RefusedFor(t) /\ Read(t)

IInv ==
  /\ SettingsAre /\ CacheIs /\ HostsAre /\ AuthIs /\ CommandsAre
  /\ Paired /\ TokensServe /\ CacheIsCurrent
  /\ \A t \in Threads : Sound(t)

-----------------------------------------------------------------------------
(* The plans, and the records of the model.                                *)

LEMMA Planning ==
  /\ <<>> \in Tails /\ Plans \subseteq Tails \ {<<>>}
  /\ \A p \in Tails \ {<<>>} :
       /\ Len(p) > 1 => Tail(p) \in Tails \ {<<>>}
       /\ ~(Len(p) > 1) => Head(p) \notin Posts
<1>1. <<>> \in Tails /\ Plans \subseteq Tails \ {<<>>}
  BY DEF Tails, Plans, ReadPlan, WritePlan, FixedPlan
<1>2. \A p \in Tails \ {<<>>} :
        \/ p = <<"get">> \/ p = <<"page">> \/ p = <<"page", "page">>
        \/ p = <<"post", "page", "page">> \/ p = <<"fixed post", "page", "page">>
  BY DEF Tails, Plans, Pages, ReadPlan, WritePlan, FixedPlan
<1>3. /\ Len(<<"get">>) = 1 /\ Len(<<"page">>) = 1
      /\ "get" \notin Posts /\ "page" \notin Posts
      /\ Head(<<"get">>) = "get" /\ Head(<<"page">>) = "page"
  BY DEF Posts
<1>4. /\ Len(<<"page", "page">>) = 2 /\ Tail(<<"page", "page">>) = <<"page">>
      /\ Len(<<"post", "page", "page">>) = 3
      /\ Tail(<<"post", "page", "page">>) = <<"page", "page">>
      /\ Len(<<"fixed post", "page", "page">>) = 3
      /\ Tail(<<"fixed post", "page", "page">>) = <<"page", "page">>
  OBVIOUS
<1>5. <<"page">> \in Tails \ {<<>>} /\ <<"page", "page">> \in Tails \ {<<>>}
  BY DEF Tails, Pages
<1>6. ASSUME NEW p \in Tails \ {<<>>}
      PROVE  /\ Len(p) > 1 => Tail(p) \in Tails \ {<<>>}
             /\ ~(Len(p) > 1) => Head(p) \notin Posts
  <2>1. CASE p = <<"get">> \/ p = <<"page">>
    <3>1. Len(p) = 1 /\ Head(p) \notin Posts
      BY <2>1, <1>3
    <3> QED
      BY <3>1
  <2>2. CASE p = <<"page", "page">>
    <3>1. Len(p) = 2 /\ Tail(p) = <<"page">>
      BY <2>2, <1>4
    <3>2. Tail(p) \in Tails \ {<<>>}
      BY <3>1, <1>5
    <3>3. Len(p) > 1
      BY <3>1
    <3> QED
      BY <3>2, <3>3
  <2>3. CASE p = <<"post", "page", "page">> \/ p = <<"fixed post", "page", "page">>
    <3>1. Len(p) = 3 /\ Tail(p) = <<"page", "page">>
      BY <2>3, <1>4
    <3>2. Tail(p) \in Tails \ {<<>>}
      BY <3>1, <1>5
    <3>3. Len(p) > 1
      BY <3>1
    <3> QED
      BY <3>2, <3>3
  <2> QED
    BY <1>2, <2>1, <2>2, <2>3
<1> QED
  BY <1>1, <1>6

LEMMA NothingIsTyped ==
  /\ Idle \in Commands /\ Idle.phase = "idle" /\ Idle.plan = <<>> /\ Idle.data = {}
  /\ Idle.first = NoGuard /\ Idle.guard = NoGuard /\ Idle.auth = NoSession
  /\ Idle.retried = FALSE
  BY Planning DEF Idle, Commands, MaybeGuards, MaybeSessions, Phases

(* Appending to a sequence keeps what it held.                             *)
LEMMA Appending ==
  ASSUME NEW S, NEW s \in Seq(S), NEW x \in S, NEW s2, s2 = Append(s, x)
  PROVE  /\ s2 \in Seq(S) /\ Len(s2) = Len(s) + 1 /\ s2[Len(s) + 1] = x
         /\ \A i \in 1..Len(s) : s2[i] = s[i]
  BY AppendProperties

-----------------------------------------------------------------------------
(* What the actions make of a command.                                     *)

Moved(t) == cmd' \in [Threads -> Commands] /\ \A u \in Threads : u # t => cmd'[u] = cmd[u]

Became(t, p, k, f, g, a, r, d) ==
  /\ Moved(t)
  /\ cmd'[t].phase = p /\ cmd'[t].plan = k /\ cmd'[t].first = f /\ cmd'[t].guard = g
  /\ cmd'[t].auth = a /\ cmd'[t].retried = r /\ cmd'[t].data = d

(* Only the phase is new.                                                  *)
Went(t, p) == Became(t, p, cmd[t].plan, cmd[t].first, cmd[t].guard, cmd[t].auth,
                     cmd[t].retried, cmd[t].data)
Ended(t) == Moved(t) /\ cmd'[t] = Idle

LEMMA Becoming ==
  ASSUME NEW t \in Threads, cmd \in [Threads -> Commands],
         NEW r \in Commands, cmd' = [cmd EXCEPT ![t] = r]
  PROVE  Moved(t) /\ cmd'[t] = r
  BY DEF Moved

LEMMA EndsMoves ==
  ASSUME NEW t \in Threads, CommandsAre, Ends(t)
  PROVE  Ended(t)
  BY Becoming, NothingIsTyped DEF Ends, Ended, CommandsAre

LEMMA GoesMoves ==
  ASSUME NEW t \in Threads, NEW p \in Phases, CommandsAre, Goes(t, p)
  PROVE  Went(t, p)
<1> DEFINE r == [cmd[t] EXCEPT !.phase = p]
<1>1. cmd[t] \in Commands
  BY DEF CommandsAre
<1>2. /\ r \in Commands
      /\ r.phase = p /\ r.plan = cmd[t].plan /\ r.first = cmd[t].first
      /\ r.guard = cmd[t].guard /\ r.auth = cmd[t].auth
      /\ r.retried = cmd[t].retried /\ r.data = cmd[t].data
  BY <1>1 DEF Commands
<1>3. cmd' = [cmd EXCEPT ![t] = r]
  BY DEF Goes
<1>4. Moved(t) /\ cmd'[t] = r
  BY <1>2, <1>3, Becoming DEF CommandsAre
<1> QED
  BY <1>2, <1>4 DEF Went, Became

LEMMA BeginMoves ==
  ASSUME NEW t \in Threads, CommandsAre, CurrentGuard \in Guards, NEW k \in Plans,
         cmd[t] = Idle,
         cmd' = [cmd EXCEPT ![t].phase = "identify", ![t].plan = k,
                            ![t].first = CurrentGuard]
  PROVE  Became(t, "identify", k, CurrentGuard, NoGuard, NoSession, FALSE, {})
<1> DEFINE r == [cmd[t] EXCEPT !.phase = "identify", !.plan = k, !.first = CurrentGuard]
<1>1. cmd[t] \in Commands
  BY DEF CommandsAre
<1>2. k \in Tails /\ CurrentGuard \in MaybeGuards /\ "identify" \in Phases
  BY Planning DEF MaybeGuards, Phases
<1>3. /\ r \in Commands
      /\ r.phase = "identify" /\ r.plan = k /\ r.first = CurrentGuard
      /\ r.guard = NoGuard /\ r.auth = NoSession /\ r.retried = FALSE /\ r.data = {}
  BY <1>1, <1>2, NothingIsTyped DEF Commands
<1>4. cmd' = [cmd EXCEPT ![t] = r]
  OBVIOUS
<1>5. Moved(t) /\ cmd'[t] = r
  BY <1>3, <1>4, Becoming DEF CommandsAre
<1> QED
  BY <1>3, <1>5 DEF Became

LEMMA CaptureMoves ==
  ASSUME NEW t \in Threads, CommandsAre, NEW g \in MaybeGuards,
         cmd' = [cmd EXCEPT ![t].phase = "auth", ![t].guard = g]
  PROVE  Became(t, "auth", cmd[t].plan, cmd[t].first, g, cmd[t].auth,
                cmd[t].retried, cmd[t].data)
<1> DEFINE r == [cmd[t] EXCEPT !.phase = "auth", !.guard = g]
<1>1. cmd[t] \in Commands
  BY DEF CommandsAre
<1>2. /\ r \in Commands
      /\ r.phase = "auth" /\ r.plan = cmd[t].plan /\ r.first = cmd[t].first
      /\ r.guard = g /\ r.auth = cmd[t].auth
      /\ r.retried = cmd[t].retried /\ r.data = cmd[t].data
  BY <1>1 DEF Commands, Phases
<1>3. cmd' = [cmd EXCEPT ![t] = r]
  OBVIOUS
<1>4. Moved(t) /\ cmd'[t] = r
  BY <1>2, <1>3, Becoming DEF CommandsAre
<1> QED
  BY <1>2, <1>4 DEF Became

LEMMA UsesMoves ==
  ASSUME NEW t \in Threads, CommandsAre, NEW s \in MaybeSessions, Uses(t, s)
  PROVE  Became(t, "check", cmd[t].plan, cmd[t].first, cmd[t].guard, s,
                cmd[t].retried, cmd[t].data)
<1> DEFINE r == [cmd[t] EXCEPT !.phase = "check", !.auth = s]
<1>1. cmd[t] \in Commands
  BY DEF CommandsAre
<1>2. /\ r \in Commands
      /\ r.phase = "check" /\ r.plan = cmd[t].plan /\ r.first = cmd[t].first
      /\ r.guard = cmd[t].guard /\ r.auth = s
      /\ r.retried = cmd[t].retried /\ r.data = cmd[t].data
  BY <1>1 DEF Commands, Phases
<1>3. cmd' = [cmd EXCEPT ![t] = r]
  BY DEF Uses
<1>4. Moved(t) /\ cmd'[t] = r
  BY <1>2, <1>3, Becoming DEF CommandsAre
<1> QED
  BY <1>2, <1>4 DEF Became

LEMMA AnswerMoves ==
  ASSUME NEW t \in Threads, CommandsAre, NEW d \in SUBSET Libraries,
         cmd' = [cmd EXCEPT ![t].phase = "answered", ![t].data = d]
  PROVE  Became(t, "answered", cmd[t].plan, cmd[t].first, cmd[t].guard, cmd[t].auth,
                cmd[t].retried, d)
<1> DEFINE r == [cmd[t] EXCEPT !.phase = "answered", !.data = d]
<1>1. cmd[t] \in Commands
  BY DEF CommandsAre
<1>2. /\ r \in Commands
      /\ r.phase = "answered" /\ r.plan = cmd[t].plan /\ r.first = cmd[t].first
      /\ r.guard = cmd[t].guard /\ r.auth = cmd[t].auth
      /\ r.retried = cmd[t].retried /\ r.data = d
  BY <1>1 DEF Commands, Phases
<1>3. cmd' = [cmd EXCEPT ![t] = r]
  OBVIOUS
<1>4. Moved(t) /\ cmd'[t] = r
  BY <1>2, <1>3, Becoming DEF CommandsAre
<1> QED
  BY <1>2, <1>4 DEF Became

LEMMA RetryMoves ==
  ASSUME NEW t \in Threads, CommandsAre,
         cmd' = [cmd EXCEPT ![t].phase = "renew", ![t].retried = TRUE]
  PROVE  Became(t, "renew", cmd[t].plan, cmd[t].first, cmd[t].guard, cmd[t].auth,
                TRUE, cmd[t].data)
<1> DEFINE r == [cmd[t] EXCEPT !.phase = "renew", !.retried = TRUE]
<1>1. cmd[t] \in Commands
  BY DEF CommandsAre
<1>2. /\ r \in Commands
      /\ r.phase = "renew" /\ r.plan = cmd[t].plan /\ r.first = cmd[t].first
      /\ r.guard = cmd[t].guard /\ r.auth = cmd[t].auth
      /\ r.retried = TRUE /\ r.data = cmd[t].data
  BY <1>1 DEF Commands, Phases
<1>3. cmd' = [cmd EXCEPT ![t] = r]
  OBVIOUS
<1>4. Moved(t) /\ cmd'[t] = r
  BY <1>2, <1>3, Becoming DEF CommandsAre
<1> QED
  BY <1>2, <1>4 DEF Became

LEMMA NextPageMoves ==
  ASSUME NEW t \in Threads, CommandsAre, cmd[t].plan # <<>>, Len(cmd[t].plan) > 1,
         cmd' = [cmd EXCEPT ![t].phase = "capture", ![t].plan = Tail(@),
                            ![t].retried = FALSE]
  PROVE  Became(t, "capture", Tail(cmd[t].plan), cmd[t].first, cmd[t].guard, cmd[t].auth,
                FALSE, cmd[t].data)
<1> DEFINE r == [cmd[t] EXCEPT !.phase = "capture", !.plan = Tail(@), !.retried = FALSE]
<1>1. cmd[t] \in Commands /\ Tail(cmd[t].plan) \in Tails
  BY Planning DEF CommandsAre, Commands
<1>2. /\ r \in Commands
      /\ r.phase = "capture" /\ r.plan = Tail(cmd[t].plan) /\ r.first = cmd[t].first
      /\ r.guard = cmd[t].guard /\ r.auth = cmd[t].auth
      /\ r.retried = FALSE /\ r.data = cmd[t].data
  BY <1>1 DEF Commands, Phases
<1>3. cmd' = [cmd EXCEPT ![t] = r]
  OBVIOUS
<1>4. Moved(t) /\ cmd'[t] = r
  BY <1>2, <1>3, Becoming DEF CommandsAre
<1> QED
  BY <1>2, <1>4 DEF Became

-----------------------------------------------------------------------------
(* What a command has learned stays true while others act.                 *)

Quiet == UNCHANGED <<limit, target, gen, cache, vault, session, failure,
                     serves, tokens, sessions, dead, moves>>

(* Settings only go on to a new generation, tokens are only added,         *)
(* sessions only die, and a Host that changes its library has moved.       *)
Grows ==
  /\ UNCHANGED <<target, gen>> \/ gen' = gen + 1
  /\ Len(tokens') \in Nat /\ Len(tokens) <= Len(tokens')
  /\ \A i \in 1..Len(tokens) : tokens'[i] = tokens[i]
  /\ dead \subseteq dead'
  /\ UNCHANGED <<serves, moves>> \/ moves' = moves + 1

LEMMA QuietGrows ==
  ASSUME Quiet, HostsAre
  PROVE  Grows
  BY DEF Quiet, Grows, HostsAre

LEMMA Heads ==
  ASSUME NEW t \in Threads, CommandsAre
  PROVE  /\ cmd[t] \in Commands /\ cmd[t].phase \in Phases /\ cmd[t].plan \in Tails
         /\ cmd[t].first \in MaybeGuards /\ cmd[t].guard \in MaybeGuards
         /\ cmd[t].auth \in MaybeSessions /\ cmd[t].retried \in BOOLEAN
         /\ cmd[t].data \in SUBSET Libraries
  BY DEF CommandsAre, Commands

LEMMA StaysSound ==
  ASSUME NEW t \in Threads, Sound(t), cmd'[t] = cmd[t], Grows,
         gen \in Nat, moves \in Nat, Len(tokens) \in Nat, MaxTokens \in Nat, MaxGen \in Nat
  PROVE  Sound(t)'
<1>1. Rests(t)' /\ Began(t)'
  <2>1. cmd[t].first \in Guards => cmd[t].first.gen \in Nat
    BY DEF Guards
  <2> QED
    BY <2>1 DEF Sound, Rests, Began, Grows, CurrentGuard
<1>2. Captured(t)'
  <2>1. cmd[t].guard \in Guards => cmd[t].guard.gen \in Nat
    BY DEF Guards
  <2> QED
    BY <2>1 DEF Sound, Captured, Grows, CurrentGuard
<1>3. Holds(t)'
  <2> SUFFICES ASSUME cmd[t].phase \in Holding
               PROVE  Holds(t)'
    BY DEF Holds
  <2>1. /\ Captured(t) /\ Holds(t)
        /\ cmd[t].guard \in Guards /\ cmd[t].guard.gen \in Nat /\ cmd[t].guard.gen <= gen
    BY DEF Sound, Captured, Holding, Guards
  <2>2. /\ cmd[t].auth.token \in 1..Len(tokens)
        /\ tokens'[cmd[t].auth.token] = tokens[cmd[t].auth.token]
    BY <2>1 DEF Holds, Grows
  <2>3. gen' = cmd[t].guard.gen => gen' = gen
    BY <2>1 DEF Grows
  <2>4. moves' = 0 => moves = 0 /\ serves' = serves
    BY DEF Grows
  <2>5. Len(tokens) <= Len(tokens')
    BY DEF Grows
  <2>6. cmd[t].auth.token <= Len(tokens')
    BY <2>1, <2>2, <2>5 DEF Grows
  <2> QED
    BY <2>1, <2>2, <2>3, <2>4, <2>6 DEF Holds
<1>4. RefusedFor(t)'
  <2> SUFFICES ASSUME cmd[t].phase \in {"refused", "renew"}
               PROVE  RefusedFor(t)'
    BY DEF RefusedFor
  <2>1. Holds(t) /\ RefusedFor(t)
    BY DEF Sound
  <2>2. tokens'[cmd[t].auth.token] = tokens[cmd[t].auth.token]
    BY <2>1 DEF Holds, Holding, Grows
  <2>3. /\ moves = 1 => (moves' = 1 /\ serves' = serves) \/ moves' > 1
        /\ moves > 1 => moves' > 1
    BY DEF Grows
  <2> QED
    BY <2>1, <2>2, <2>3 DEF RefusedFor, Grows
<1>5. Read(t)'
  <2>1. cmd[t].first \in Guards => cmd[t].first.gen \in Nat
    BY DEF Guards
  <2>2. cmd[t].phase # "idle" /\ cmd[t].first.gen = gen' => cmd[t].first.gen = gen
    BY <2>1 DEF Sound, Began, Grows
  <2> QED
    BY <2>2 DEF Sound, Read
<1> QED
  BY <1>1, <1>2, <1>3, <1>4, <1>5 DEF Sound

LEMMA RestsSound ==
  ASSUME NEW t \in Threads, cmd'[t] = Idle
  PROVE  Sound(t)'
  BY NothingIsTyped DEF Sound, Rests, Began, Captured, Holds, Holding, RefusedFor, Read

(* When one command moves and nothing else happens to it, the others stay  *)
(* as they were.                                                           *)
LEMMA OneMoves ==
  ASSUME NEW t \in Threads, Moved(t), Grows, SettingsAre, HostsAre,
         \A u \in Threads : Sound(u), Sound(t)'
  PROVE  CommandsAre' /\ \A u \in Threads : Sound(u)'
<1>1. gen \in Nat /\ moves \in Nat /\ Len(tokens) \in Nat /\ MaxTokens \in Nat /\ MaxGen \in Nat
  BY SyncAssumption DEF SettingsAre, HostsAre
<1>2. ASSUME NEW u \in Threads, u # t
      PROVE  Sound(u)'
  BY <1>1, <1>2, StaysSound DEF Moved
<1> QED
  BY <1>2 DEF Moved, CommandsAre

LEMMA AllStay ==
  ASSUME UNCHANGED cmd, Grows, SettingsAre, HostsAre, CommandsAre,
         \A u \in Threads : Sound(u)
  PROVE  CommandsAre' /\ \A u \in Threads : Sound(u)'
<1>1. gen \in Nat /\ moves \in Nat /\ Len(tokens) \in Nat /\ MaxTokens \in Nat /\ MaxGen \in Nat
  BY SyncAssumption DEF SettingsAre, HostsAre
<1> QED
  BY <1>1, StaysSound DEF CommandsAre

-----------------------------------------------------------------------------
(* The steps of a command, between two uses of the gate.                   *)

LEMMA GuardIsTyped ==
  ASSUME SettingsAre, target # NoTarget
  PROVE  /\ CurrentGuard \in Guards /\ target.host \in Hosts /\ target.lib \in Libraries
         /\ CurrentGuard.gen = gen /\ CurrentGuard.host = target.host
         /\ CurrentGuard.lib = target.lib
  BY DEF SettingsAre, Targets, CurrentGuard, Guards

LEMMA BeginStep ==
  ASSUME NEW t \in Threads, SettingsAre, CommandsAre, Sound(t), Begin(t)
  PROVE  Quiet /\ Moved(t) /\ Sound(t)'
<1>1. Quiet
  BY DEF Begin, Quiet, settings, auth, hosts
<1>2. PICK k \in Plans :
        cmd' = [cmd EXCEPT ![t].phase = "identify", ![t].plan = k, ![t].first = CurrentGuard]
  BY DEF Begin
<1>3. cmd[t] = Idle /\ CurrentGuard \in Guards /\ CurrentGuard.gen = gen /\ gen \in Nat
  BY SyncAssumption, GuardIsTyped DEF Begin, SettingsAre
<1>4. Became(t, "identify", k, CurrentGuard, NoGuard, NoSession, FALSE, {})
  BY <1>2, <1>3, BeginMoves
<1>5. k # <<>> /\ CurrentGuard' = CurrentGuard /\ gen' = gen
  BY <1>1, Planning DEF Quiet, CurrentGuard
<1>6. Sound(t)'
  BY <1>3, <1>4, <1>5
     DEF Became, Sound, Rests, Began, Captured, Holds, Holding, RefusedFor, Read
<1> QED
  BY <1>1, <1>4, <1>6 DEF Became

LEMMA EndingStep ==
  ASSUME NEW t \in Threads, CommandsAre, Ends(t)
  PROVE  Moved(t) /\ Sound(t)'
  BY EndsMoves, RestsSound DEF Ended

LEMMA IdentifyStep ==
  ASSUME NEW t \in Threads, SettingsAre, CommandsAre, Sound(t), Identify(t)
  PROVE  Quiet /\ Moved(t) /\ Sound(t)'
<1>1. Quiet
  BY DEF Identify, Quiet, settings, auth, hosts
<1>2. CASE Goes(t, "capture")
  <2>1. Went(t, "capture")
    BY <1>2, GoesMoves DEF Phases
  <2>2. CurrentGuard' = CurrentGuard /\ gen' = gen
    BY <1>1 DEF Quiet, CurrentGuard
  <2>3. Sound(t)'
    BY <2>1, <2>2 DEF Identify, Went, Became,
       Sound, Rests, Began, Captured, Holds, Holding, RefusedFor, Read
  <2> QED
    BY <1>1, <2>1, <2>3 DEF Went, Became
<1>3. CASE Ends(t)
  BY <1>1, <1>3, EndingStep
<1> QED
  BY <1>2, <1>3 DEF Identify

LEMMA CaptureStep ==
  ASSUME NEW t \in Threads, SettingsAre, CommandsAre, Sound(t), Capture(t)
  PROVE  Quiet /\ Moved(t) /\ Sound(t)'
<1> DEFINE c == cmd[t]
<1>1. Quiet
  BY DEF Capture, Quiet, settings, auth, hosts
<1>2. CurrentGuard' = CurrentGuard /\ gen' = gen /\ gen \in Nat
  BY <1>1, SyncAssumption DEF Quiet, CurrentGuard, SettingsAre
<1>3. c.phase = "capture" /\ c.first \in Guards /\ c.first.gen <= gen /\ c.plan # <<>>
      /\ (c.first.gen = gen => c.first = CurrentGuard) /\ c.first.gen \in Nat
  BY DEF Capture, Sound, Began, Guards
<1>4. ASSUME NEW g \in Guards, g.gen = gen, g = CurrentGuard,
             Head(c.plan) \in Guarded => g = c.first,
             cmd' = [cmd EXCEPT ![t].phase = "auth", ![t].guard = g]
      PROVE  Moved(t) /\ Sound(t)'
  <2>1. Became(t, "auth", c.plan, c.first, g, c.auth, c.retried, c.data)
    BY <1>4, CaptureMoves DEF MaybeGuards
  <2>2. Captured(t)'
    BY <1>2, <1>3, <1>4, <2>1 DEF Became, Captured
  <2>3. (Rests(t) /\ Began(t) /\ Holds(t) /\ RefusedFor(t) /\ Read(t))'
    BY <1>2, <1>3, <2>1 DEF Became, Sound, Rests, Began, Holds, Holding, RefusedFor, Read
  <2> QED
    BY <2>1, <2>2, <2>3 DEF Became, Sound
<1>5. CASE /\ Head(c.plan) \in Guarded /\ Matches(c.first)
           /\ cmd' = [cmd EXCEPT ![t].phase = "auth", ![t].guard = c.first]
  <2>1. c.first = CurrentGuard /\ c.first.gen = gen
    BY <1>5, GuardIsTyped DEF Matches
  <2> QED
    BY <1>1, <1>3, <1>4, <1>5, <2>1
<1>6. CASE /\ Head(c.plan) \notin Guarded /\ target.host = c.first.host
           /\ cmd' = [cmd EXCEPT ![t].phase = "auth", ![t].guard = CurrentGuard]
  <2>1. target # NoTarget
    BY <1>3, <1>6, SyncAssumption DEF Guards, NoTarget
  <2>2. CurrentGuard \in Guards /\ CurrentGuard.gen = gen
    BY <2>1, GuardIsTyped
  <2> QED
    BY <1>1, <1>4, <1>6, <2>2
<1>7. CASE Ends(t)
  BY <1>1, <1>7, EndingStep
<1> QED
  BY <1>5, <1>6, <1>7 DEF Capture

LEMMA CheckStep ==
  ASSUME NEW t \in Threads, SettingsAre, CommandsAre, Sound(t), Check(t)
  PROVE  Quiet /\ Moved(t) /\ Sound(t)'
<1>1. Quiet
  BY DEF Check, Quiet, settings, auth, hosts
<1>2. CASE Wanted(t) /\ Goes(t, "send")
  <2>1. Went(t, "send")
    BY <1>2, GoesMoves DEF Phases
  <2>2. /\ CurrentGuard' = CurrentGuard /\ gen' = gen /\ tokens' = tokens
        /\ moves' = moves /\ serves' = serves
    BY <1>1 DEF Quiet, CurrentGuard
  <2>3. cmd[t].guard.gen = gen
    BY <1>2, GuardIsTyped DEF Wanted, Matches
  <2>4. Sound(t)'
    BY <2>1, <2>2, <2>3 DEF Check, Went, Became,
       Sound, Rests, Began, Captured, Holds, Holding, RefusedFor, Read
  <2> QED
    BY <1>1, <2>1, <2>4 DEF Went, Became
<1>3. CASE Ends(t)
  BY <1>1, <1>3, EndingStep
<1> QED
  BY <1>2, <1>3 DEF Check

LEMMA SendStep ==
  ASSUME NEW t \in Threads, SettingsAre, CommandsAre, HostsAre, Sound(t), Send(t)
  PROVE  Quiet /\ Moved(t) /\ Sound(t)'
<1> DEFINE c == cmd[t]
<1>1. Quiet
  BY DEF Send, Quiet, settings, auth, hosts
<1>2. /\ CurrentGuard' = CurrentGuard /\ gen' = gen /\ tokens' = tokens /\ dead' = dead
      /\ moves' = moves /\ serves' = serves
  BY <1>1 DEF Quiet, CurrentGuard
<1>3. /\ c.phase = "send" /\ Began(t) /\ Captured(t) /\ Holds(t) /\ Read(t)
      /\ c.auth.host = c.guard.host /\ c.guard.host \in Hosts
      /\ tokens[c.auth.token] = c.guard.lib
      /\ moves \in Nat /\ serves[c.guard.host] \in Libraries
  BY DEF Send, Sound, Captured, Holds, Holding, Guards, HostsAre
<1>4. CASE /\ Accepts(t)
           /\ cmd' = [cmd EXCEPT ![t].phase = "answered",
                        ![t].data = IF Head(c.plan) \in Posts THEN {}
                                    ELSE @ \cup {serves[c.guard.host]}]
  <2> DEFINE d == IF Head(c.plan) \in Posts THEN {} ELSE c.data \cup {serves[c.guard.host]}
  <2>1. d \in SUBSET Libraries
    BY <1>3, Heads
  <2>2. cmd' = [cmd EXCEPT ![t].phase = "answered", ![t].data = d]
    BY <1>4
  <2>3. Became(t, "answered", c.plan, c.first, c.guard, c.auth, c.retried, d)
    BY <2>1, <2>2, AnswerMoves
  <2>4. c.first.gen = gen => d \subseteq {c.first.lib}
    <3>1. SUFFICES ASSUME c.first.gen = gen
                   PROVE  serves[c.guard.host] = c.first.lib /\ c.data \subseteq {c.first.lib}
      OBVIOUS
    <3>2. c.guard.gen = gen
      <4>1. c.first.gen <= c.guard.gen /\ c.guard.gen <= gen /\ c.guard.gen \in Nat /\ gen \in Nat
        BY <1>3 DEF Captured, Guards, SettingsAre
      <4> QED
        BY <3>1, <4>1
    <3>3. c.guard = c.first
      BY <1>3, <3>1, <3>2 DEF Captured
    <3>4. tokens[c.auth.token] = serves[c.guard.host]
      BY <1>4 DEF Accepts
    <3> QED
      BY <1>3, <3>1, <3>3, <3>4 DEF Read
  <2>5. Head(c.plan) \notin Posts => d # {}
    OBVIOUS
  <2> HIDE DEF d
  <2>6. Sound(t)'
    BY <1>2, <1>3, <2>3, <2>4, <2>5 DEF Became,
       Sound, Rests, Began, Captured, Holds, Holding, RefusedFor, Read
  <2> QED
    BY <1>1, <2>3, <2>6 DEF Became
<1>5. CASE ~Accepts(t) /\ Goes(t, "refused")
  <2>1. Went(t, "refused")
    BY <1>5, GoesMoves DEF Phases
  <2>2. c.auth.id \in dead \/ (moves > 0 /\ tokens[c.auth.token] # serves[c.auth.host])
    BY <1>3, <1>5 DEF Accepts, Holds, Holding
  <2>3. RefusedFor(t)'
    BY <1>2, <1>3, <2>1, <2>2 DEF Went, Became, RefusedFor
  <2>4. (Rests(t) /\ Began(t) /\ Captured(t) /\ Holds(t) /\ Read(t))'
    BY <1>2, <1>3, <2>1 DEF Went, Became, Rests, Began, Captured, Holds, Holding, Read
  <2> QED
    BY <1>1, <2>1, <2>3, <2>4 DEF Went, Became, Sound
<1>6. CASE Ends(t)
  BY <1>1, <1>6, EndingStep
<1> QED
  BY <1>4, <1>5, <1>6 DEF Send

LEMMA RefusedStep ==
  ASSUME NEW t \in Threads, SettingsAre, CommandsAre, Sound(t), Refused(t)
  PROVE  Quiet /\ Moved(t) /\ Sound(t)'
<1> DEFINE c == cmd[t]
<1>1. Quiet
  BY DEF Refused, Quiet, settings, auth, hosts
<1>2. CASE cmd' = [cmd EXCEPT ![t].phase = "renew", ![t].retried = TRUE]
  <2>1. Became(t, "renew", c.plan, c.first, c.guard, c.auth, TRUE, c.data)
    BY <1>2, RetryMoves
  <2>2. /\ CurrentGuard' = CurrentGuard /\ gen' = gen /\ tokens' = tokens /\ dead' = dead
        /\ moves' = moves /\ serves' = serves
    BY <1>1 DEF Quiet, CurrentGuard
  <2>3. Sound(t)'
    BY <2>1, <2>2 DEF Refused, Became,
       Sound, Rests, Began, Captured, Holds, Holding, RefusedFor, Read
  <2> QED
    BY <1>1, <2>1, <2>3 DEF Became
<1>3. CASE Ends(t)
  BY <1>1, <1>3, EndingStep
<1> QED
  BY <1>2, <1>3 DEF Refused

LEMMA AnsweredStep ==
  ASSUME NEW t \in Threads, SettingsAre, CommandsAre, Sound(t), Answered(t)
  PROVE  Quiet /\ Moved(t) /\ Sound(t)'
<1> DEFINE c == cmd[t]
<1>1. Quiet
  BY DEF Answered, Quiet, settings, auth, hosts
<1>2. CurrentGuard' = CurrentGuard /\ gen' = gen
  BY <1>1 DEF Quiet, CurrentGuard
<1>3. c.phase = "answered" /\ c.plan # <<>> /\ c.plan \in Tails
  BY Heads DEF Answered, Sound, Began
<1>4. CASE /\ More(t)
           /\ cmd' = [cmd EXCEPT ![t].phase = "capture", ![t].plan = Tail(@),
                                 ![t].retried = FALSE]
  <2>1. Len(c.plan) > 1
    BY <1>4 DEF More
  <2>2. Became(t, "capture", Tail(c.plan), c.first, c.guard, c.auth, FALSE, c.data)
    BY <1>3, <1>4, <2>1, NextPageMoves
  <2>3. Tail(c.plan) # <<>>
    BY <1>3, <2>1, Planning
  <2>4. Sound(t)'
    BY <1>2, <1>3, <2>2, <2>3 DEF Became,
       Sound, Rests, Began, Captured, Holds, Holding, RefusedFor, Read
  <2> QED
    BY <1>1, <2>2, <2>4 DEF Became
<1>5. CASE ~More(t) /\ Goes(t, "save")
  <2>1. Went(t, "save")
    BY <1>5, GoesMoves DEF Phases
  <2>2. Head(c.plan) \notin Posts
    BY <1>3, <1>5, Planning DEF More
  <2>3. Sound(t)'
    BY <1>2, <1>3, <2>1, <2>2 DEF Went, Became,
       Sound, Rests, Began, Captured, Holds, Holding, RefusedFor, Read
  <2> QED
    BY <1>1, <2>1, <2>3 DEF Went, Became
<1>6. CASE Ends(t)
  BY <1>1, <1>6, EndingStep
<1> QED
  BY <1>4, <1>5, <1>6 DEF Answered

-----------------------------------------------------------------------------
(* Sessions: each step here is one use of the gate.                        *)

Kept == /\ SettingsAre /\ CacheIs /\ HostsAre /\ AuthIs
        /\ Paired /\ TokensServe /\ CacheIsCurrent

LEMMA QuietKeeps ==
  ASSUME Kept, Quiet
  PROVE  Kept'
<1> USE DEF Quiet
<1>1. SettingsAre' /\ CacheIs' /\ HostsAre'
  BY DEF Kept, SettingsAre, CacheIs, HostsAre
<1>2. AuthIs'
  BY DEF Kept, AuthIs
<1>3. Paired'
  BY DEF Kept, Paired, SessionIsPaired, TokensBelong, FailureStandsAlone
<1>4. TokensServe' /\ CacheIsCurrent'
  BY DEF Kept, TokensServe, CacheIsCurrent
<1> QED
  BY <1>1, <1>2, <1>3, <1>4 DEF Kept

(* The settings, the cache and the vault as the steps of a session leave   *)
(* them.                                                                   *)
Signs == UNCHANGED <<limit, target, gen, cache, vault, serves, tokens, dead, moves>>

(* A device token the vault may be asked for is one of the target's        *)
(* library, and of the library its Host serves while no Host has moved.    *)
LEMMA TokenIsRight ==
  ASSUME Kept, NEW h \in Hosts, vault[h] # NoToken
  PROVE  /\ h = target.host /\ vault[h] \in 1..Len(tokens) /\ vault[h] \in 1..MaxTokens
         /\ tokens[vault[h]] = target.lib
         /\ moves = 0 => tokens[vault[h]] = serves[h]
<1>1. Len(tokens) \in Nat /\ Len(tokens) <= MaxTokens /\ vault[h] \in 0..Len(tokens)
  BY DEF Kept, HostsAre, AuthIs
<1>2. vault[h] \in 1..Len(tokens) /\ vault[h] \in 1..MaxTokens
  BY <1>1, SyncAssumption DEF NoToken
<1> QED
  BY <1>2 DEF Kept, Paired, TokensBelong, TokensServe

LEMMA SessionIsRight ==
  ASSUME Kept, session # NoSession
  PROVE  /\ session \in [host : Hosts, id : 1..MaxSessions, token : 1..MaxTokens]
         /\ session.host \in Hosts /\ session.host = target.host
         /\ vault[session.host] = session.token /\ session.token \in 1..Len(tokens)
         /\ tokens[session.token] = target.lib
         /\ moves = 0 => tokens[session.token] = serves[session.host]
<1>1. session \in [host : Hosts, id : 1..MaxSessions, token : 1..MaxTokens]
  BY DEF Kept, AuthIs, MaybeSessions
<1>2. session.host \in Hosts /\ session.token # NoToken
  BY <1>1, SyncAssumption DEF NoToken
<1>3. session.host = target.host /\ vault[session.host] = session.token
  BY DEF Kept, Paired, SessionIsPaired
<1> QED
  BY <1>1, <1>2, <1>3, TokenIsRight

(* A request may go out with a session of the present target.              *)
LEMMA UsesStep ==
  ASSUME NEW t \in Threads, CommandsAre, Sound(t), SettingsAre, Signs,
         cmd[t].phase \in {"auth", "renew"}, NEW s \in MaybeSessions, s # NoSession,
         Uses(t, s), s.host = cmd[t].guard.host, s.token \in 1..Len(tokens),
         s.host = target.host, tokens[s.token] = target.lib,
         moves = 0 => tokens[s.token] = serves[s.host]
  PROVE  Moved(t) /\ Sound(t)'
<1> DEFINE c == cmd[t]
<1>1. Became(t, "check", c.plan, c.first, c.guard, s, c.retried, c.data)
  BY UsesMoves
<1>2. /\ CurrentGuard' = CurrentGuard /\ gen' = gen /\ tokens' = tokens
      /\ moves' = moves /\ serves' = serves
  BY DEF Signs, CurrentGuard
<1>3. /\ Began(t) /\ Captured(t) /\ Read(t)
      /\ c.guard.gen = gen => c.guard.lib = target.lib
  BY DEF Sound, Captured, CurrentGuard
<1>4. s \in [host : Hosts, id : 1..MaxSessions, token : 1..MaxTokens] /\ s.token <= Len(tokens)
  BY DEF MaybeSessions
<1>5. Holds(t)'
  BY <1>1, <1>2, <1>3, <1>4 DEF Became, Holds, Holding
<1>6. (Rests(t) /\ Began(t) /\ Captured(t) /\ RefusedFor(t) /\ Read(t))'
  BY <1>1, <1>2, <1>3 DEF Became, Rests, Began, Captured, RefusedFor, Read
<1> QED
  BY <1>1, <1>5, <1>6 DEF Became, Sound

LEMMA SignsGrows ==
  ASSUME Signs, HostsAre
  PROVE  Grows
  BY DEF Signs, Grows, HostsAre

(* What a renewal leaves, whether it succeeds, fails or is not tried.      *)
LEMMA RenewsStep ==
  ASSUME NEW t \in Threads, Kept, CommandsAre, Sound(t), cmd[t].phase \in {"auth", "renew"},
         NEW h \in Hosts, h = cmd[t].guard.host, Valid(h), Renews(t, h),
         UNCHANGED <<limit, settings, cache, vault>>
  PROVE  Kept' /\ Signs /\ Moved(t) /\ Sound(t)'
<1>1. /\ h = target.host /\ vault[h] \in 1..Len(tokens) /\ vault[h] \in 1..MaxTokens
      /\ tokens[vault[h]] = target.lib
      /\ moves = 0 => tokens[vault[h]] = serves[h]
  BY TokenIsRight DEF Valid
<1>2. SettingsAre /\ CacheIs /\ HostsAre /\ AuthIs /\ Paired /\ TokensServe /\ CacheIsCurrent
  BY DEF Kept
<1>3. CASE Ends(t) /\ UNCHANGED <<auth, hosts>>
  <2>1. Quiet /\ Signs
    BY <1>3 DEF Quiet, Signs, settings, auth, hosts
  <2> QED
    BY <1>3, <2>1, QuietKeeps, EndingStep
<1>4. CASE Renewed(t, h)
  <2> DEFINE s == [host |-> h, id |-> Len(sessions) + 1, token |-> vault[h]]
  <2>1. /\ Signs /\ session' = s /\ failure' = NoFailure /\ Uses(t, s)
        /\ sessions' = Append(sessions, vault[h]) /\ Len(sessions) < MaxSessions
    BY <1>4 DEF Renewed, Signs, settings
  <2>2. /\ Len(sessions) \in Nat /\ sessions' \in Seq(1..MaxTokens)
        /\ Len(sessions') = Len(sessions) + 1
    BY <1>1, <1>2, <2>1, Appending DEF HostsAre
  <2>3. Len(sessions) + 1 \in 1..MaxSessions
    BY <2>1, <2>2, SyncAssumption
  <2>4. s \in [host : Hosts, id : 1..MaxSessions, token : 1..MaxTokens]
    BY <1>1, <2>3
  <2>5. s.host = h /\ s.id = Len(sessions) + 1 /\ s.token = vault[h] /\ s # NoSession
    BY SyncAssumption DEF NoSession
  <2> HIDE DEF s
  <2>6. SettingsAre' /\ CacheIs' /\ TokensServe' /\ CacheIsCurrent'
    BY <1>2, <2>1 DEF Signs, SettingsAre, CacheIs, TokensServe, CacheIsCurrent
  <2>7. HostsAre'
    <3>1. dead' \subseteq 1..Len(sessions')
      BY <1>2, <2>1, <2>2 DEF HostsAre, Signs
    <3>2. Len(sessions') <= MaxSessions
      BY <2>2, <2>3
    <3> QED
      BY <1>2, <2>1, <2>2, <3>1, <3>2 DEF HostsAre, Signs
  <2>8. AuthIs'
    BY <1>2, <2>1, <2>2, <2>4, <2>5 DEF AuthIs, Signs, MaybeSessions, MaybeFailures
  <2>9. Paired'
    BY <1>1, <1>2, <2>1, <2>5
       DEF Paired, SessionIsPaired, TokensBelong, FailureStandsAlone, Signs
  <2>10. Moved(t) /\ Sound(t)'
    BY <1>1, <1>2, <2>1, <2>4, <2>5, UsesStep DEF MaybeSessions
  <2> QED
    BY <2>1, <2>6, <2>7, <2>8, <2>9, <2>10 DEF Kept
<1>5. CASE NotRenewed(t, h)
  <2> DEFINE f == [host |-> h, token |-> vault[h]]
  <2>1. /\ Signs /\ sessions' = sessions /\ session' = NoSession /\ failure' = f /\ Ends(t)
    BY <1>5 DEF NotRenewed, Signs, settings, hosts
  <2>2. f \in MaybeFailures
    BY <1>1 DEF MaybeFailures
  <2> HIDE DEF f
  <2>3. SettingsAre' /\ CacheIs' /\ TokensServe' /\ CacheIsCurrent' /\ HostsAre'
    BY <1>2, <2>1 DEF Signs, SettingsAre, CacheIs, TokensServe, CacheIsCurrent, HostsAre
  <2>4. NoSession \in MaybeSessions /\ NoSession.id = 0
    BY DEF MaybeSessions, NoSession
  <2>5. AuthIs'
    BY <1>2, <2>1, <2>2, <2>4 DEF AuthIs, HostsAre, Signs
  <2>6. Paired'
    BY <1>2, <2>1 DEF Paired, SessionIsPaired, TokensBelong, FailureStandsAlone, Signs
  <2> QED
    BY <2>1, <2>3, <2>5, <2>6, EndingStep DEF Kept
<1> QED
  BY <1>3, <1>4, <1>5 DEF Renews

LEMMA AuthenticateStep ==
  ASSUME NEW t \in Threads, Kept, CommandsAre, Sound(t), Authenticate(t)
  PROVE  Kept' /\ Signs /\ Moved(t) /\ Sound(t)'
<1> DEFINE h == cmd[t].guard.host
<1>1. cmd[t].phase = "auth" /\ h \in Hosts /\ UNCHANGED <<limit, settings, cache, vault>>
  BY DEF Authenticate, Sound, Captured, Guards
<1>2. CASE session.host = h /\ Uses(t, session) /\ UNCHANGED <<auth, hosts>>
  <2>1. Quiet /\ Signs
    BY <1>1, <1>2 DEF Quiet, Signs, settings, auth, hosts
  <2>2. session # NoSession
    BY <1>1, <1>2, SyncAssumption DEF NoSession
  <2>3. Moved(t) /\ Sound(t)'
    BY <1>1, <1>2, <2>1, <2>2, SessionIsRight, UsesStep DEF MaybeSessions, Kept
  <2> QED
    BY <2>1, <2>3, QuietKeeps
<1>3. CASE Valid(h) /\ Renews(t, h)
  BY <1>1, <1>3, RenewsStep
<1>4. CASE Ends(t) /\ UNCHANGED <<auth, hosts>>
  <2>1. Quiet /\ Signs
    BY <1>1, <1>4 DEF Quiet, Signs, settings, auth, hosts
  <2> QED
    BY <1>4, <2>1, QuietKeeps, EndingStep
<1> QED
  BY <1>2, <1>3, <1>4 DEF Authenticate

LEMMA RenewStep ==
  ASSUME NEW t \in Threads, Kept, CommandsAre, Sound(t), Renew(t)
  PROVE  Kept' /\ Signs /\ Moved(t) /\ Sound(t)'
<1> DEFINE h == cmd[t].guard.host
<1>1. cmd[t].phase = "renew" /\ h \in Hosts /\ UNCHANGED <<limit, settings, cache, vault>>
  BY DEF Renew, Sound, Captured, Guards
<1>2. CASE Reusable(t) /\ Uses(t, session) /\ UNCHANGED <<auth, hosts>>
  <2>1. Quiet /\ Signs
    BY <1>1, <1>2 DEF Quiet, Signs, settings, auth, hosts
  <2>2. session.host = h /\ session # NoSession
    BY <1>1, <1>2, SyncAssumption DEF NoSession, Reusable
  <2>3. Moved(t) /\ Sound(t)'
    BY <1>1, <1>2, <2>1, <2>2, SessionIsRight, UsesStep DEF MaybeSessions, Kept
  <2> QED
    BY <2>1, <2>3, QuietKeeps
<1>3. CASE Valid(h) /\ Renews(t, h)
  BY <1>1, <1>3, RenewsStep
<1>4. CASE Ends(t) /\ UNCHANGED <<auth, hosts>>
  <2>1. Quiet /\ Signs
    BY <1>1, <1>4 DEF Quiet, Signs, settings, auth, hosts
  <2> QED
    BY <1>4, <2>1, QuietKeeps, EndingStep
<1> QED
  BY <1>2, <1>3, <1>4 DEF Renew

-----------------------------------------------------------------------------
(* What a command keeps at its end.                                        *)

LEMMA SaveStep ==
  ASSUME NEW t \in Threads, Kept, CommandsAre, Sound(t), Save(t)
  PROVE  /\ Kept' /\ Grows /\ Moved(t) /\ Sound(t)'
         /\ sessions' = sessions
<1> DEFINE c == cmd[t]
<1>1. /\ SettingsAre /\ CacheIs /\ HostsAre /\ AuthIs /\ Paired /\ TokensServe
      /\ CacheIsCurrent
  BY DEF Kept
<1>2. UNCHANGED <<limit, target, gen, vault, session, failure,
                  serves, tokens, sessions, dead, moves>>
  BY DEF Save, settings, auth, hosts
<1>3. SettingsAre' /\ HostsAre' /\ AuthIs' /\ TokensServe'
  BY <1>1, <1>2 DEF SettingsAre, HostsAre, AuthIs, TokensServe
<1>4. Paired'
  BY <1>1, <1>2 DEF Paired, SessionIsPaired, TokensBelong, FailureStandsAlone
<1>5. CacheIs' /\ CacheIsCurrent'
  <2>1. CASE UNCHANGED cache
    BY <1>1, <1>2, <2>1 DEF CacheIs, CacheIsCurrent
  <2>2. CASE MaySave(t) /\ cache' = [gen |-> c.first.gen, libs |-> c.data]
    <3>1. c.first = CurrentGuard /\ c.first.gen = gen /\ c.first.lib = target.lib
      BY <1>1, <2>2, GuardIsTyped DEF MaySave, Matches
    <3>2. c.phase = "save" /\ c.data # {} /\ c.data \subseteq {c.first.lib}
      BY <3>1 DEF Save, Sound, Read
    <3>3. c.data = {target.lib}
      BY <3>1, <3>2
    <3>4. c.data \subseteq Libraries /\ c.first.gen \in 1..MaxGen
      BY <1>1, <3>1, Heads DEF SettingsAre
    <3>5. cache'.gen = gen /\ cache'.libs = {target.lib}
      BY <2>2, <3>1, <3>3
    <3>6. cache' \in [gen : 1..MaxGen, libs : SUBSET Libraries]
      BY <2>2, <3>4
    <3> QED
      BY <1>2, <3>5, <3>6 DEF CacheIs, CacheIsCurrent
  <2> QED
    BY <2>1, <2>2 DEF Save
<1>6. Grows
  BY <1>1, <1>2 DEF Grows, HostsAre
<1>7. Moved(t) /\ Sound(t)'
  BY EndingStep DEF Save
<1> QED
  BY <1>2, <1>3, <1>4, <1>5, <1>6, <1>7 DEF Kept

-----------------------------------------------------------------------------
(* Settings and pairing.                                                   *)

(* Fewer tokens, or the same, and no session unless nothing was lost.      *)
Loses ==
  /\ UNCHANGED <<limit, target, gen, cache, serves, tokens, sessions, dead, moves>>
  /\ vault' \in [Hosts -> 0..Len(tokens)]
  /\ \A h \in Hosts : vault'[h] = vault[h] \/ vault'[h] = NoToken
  /\ session' = NoSession \/ (session' = session /\ vault' = vault)
  /\ failure' = NoFailure

LEMMA NothingIs == /\ NoSession \in MaybeSessions /\ NoSession.id = 0
                   /\ NoFailure \in MaybeFailures
  BY DEF MaybeSessions, NoSession, MaybeFailures

LEMMA LosesKeeps ==
  ASSUME Kept, Loses
  PROVE  Kept' /\ Grows
<1>1. /\ SettingsAre /\ CacheIs /\ HostsAre /\ AuthIs /\ Paired /\ TokensServe
      /\ CacheIsCurrent
  BY DEF Kept
<1>2. SettingsAre' /\ CacheIs' /\ HostsAre' /\ CacheIsCurrent'
  BY <1>1 DEF Loses, SettingsAre, CacheIs, HostsAre, CacheIsCurrent
<1>3. AuthIs'
  BY <1>1, NothingIs DEF Loses, AuthIs, HostsAre
<1>4. Paired' /\ TokensServe'
  BY <1>1 DEF Loses, Paired, SessionIsPaired, TokensBelong, FailureStandsAlone, TokensServe
<1>5. Grows
  BY <1>1 DEF Loses, Grows, HostsAre
<1> QED
  BY <1>2, <1>3, <1>4, <1>5 DEF Kept

(* Forgetting the token of the present Host leaves none, the others have   *)
(* none to begin with.                                                     *)
LEMMA ForgetsAll ==
  ASSUME Kept
  PROVE  /\ Forget(target.host) \in [Hosts -> 0..Len(tokens)]
         /\ \A h \in Hosts : Forget(target.host)[h] = NoToken
<1>1. vault \in [Hosts -> 0..Len(tokens)] /\ Len(tokens) \in Nat
  BY DEF Kept, AuthIs, HostsAre
<1>2. \A h \in Hosts : vault[h] # NoToken => h = target.host
  BY DEF Kept, Paired, TokensBelong
<1> QED
  BY <1>1, <1>2 DEF Forget, NoToken

LEMMA RestoredLoses ==
  ASSUME Kept, target # NoTarget, Restored(Forget(target.host)),
         UNCHANGED <<limit, settings, cache, hosts>>
  PROVE  Loses
<1>1. vault \in [Hosts -> 0..Len(tokens)] /\ Len(tokens) \in Nat /\ target.host \in Hosts
  BY GuardIsTyped DEF Kept, AuthIs, HostsAre
<1>2. Forget(target.host) = [vault EXCEPT ![target.host] = NoToken]
  BY <1>1 DEF Forget
<1>3. vault' = vault \/ vault' = Forget(target.host)
  BY <1>2 DEF Restored
<1> QED
  BY <1>1, <1>3, ForgetsAll DEF Restored, Loses, settings, hosts

LEMMA UnpairsLoses ==
  ASSUME Kept, NEW new, Unpairs(new), UNCHANGED <<limit, settings, cache, hosts>>
  PROVE  Loses
  BY ForgetsAll DEF Unpairs, Loses, settings, hosts

LEMMA SaveSettingsStep ==
  ASSUME Kept, NEW new \in limit.targets \cup {NoTarget}, SaveSettings(new)
  PROVE  Kept' /\ Grows
<1>1. /\ SettingsAre /\ CacheIs /\ HostsAre /\ AuthIs /\ Paired /\ TokensServe
      /\ CacheIsCurrent /\ UNCHANGED <<limit, hosts>>
  BY DEF Kept, SaveSettings
<1>2. CASE target # NoTarget /\ Restored(Forget(target.host)) /\ UNCHANGED <<settings, cache>>
  BY <1>1, <1>2, RestoredLoses, LosesKeeps
<1>3. CASE target' = new /\ gen' = gen + 1 /\ cache' = NoCache /\ Unpairs(new)
  <2>1. gen < limit.gen /\ limit.gen \in 1..MaxGen /\ limit.targets \subseteq Targets
    BY <1>1, SyncAssumption DEF SaveSettings, SettingsAre
  <2>2. gen + 1 \in 1..MaxGen
    BY <1>1, <2>1, SyncAssumption DEF SettingsAre
  <2>3. SettingsAre' /\ CacheIs' /\ CacheIsCurrent'
    BY <1>1, <1>3, <2>1, <2>2 DEF SettingsAre, CacheIs, CacheIsCurrent
  <2>4. UNCHANGED <<serves, tokens, sessions, dead, moves>>
    BY <1>1 DEF hosts
  <2>5. HostsAre'
    BY <1>1, <2>4 DEF HostsAre
  <2>6. /\ vault' \in [Hosts -> 0..Len(tokens)] /\ \A h \in Hosts : vault'[h] = NoToken
        /\ session' = NoSession /\ failure' = NoFailure
    BY <1>3, ForgetsAll DEF Unpairs
  <2>7. AuthIs'
    BY <1>1, <2>4, <2>6, NothingIs DEF AuthIs, HostsAre
  <2>8. Paired' /\ TokensServe'
    BY <2>6 DEF Paired, SessionIsPaired, TokensBelong, FailureStandsAlone, TokensServe
  <2>9. Grows
    BY <1>1, <1>3, <2>4 DEF Grows, HostsAre
  <2> QED
    BY <2>3, <2>5, <2>7, <2>8, <2>9 DEF Kept
<1> QED
  BY <1>2, <1>3 DEF SaveSettings

LEMMA ClearAuthStep ==
  ASSUME Kept, ClearAuth
  PROVE  Kept' /\ Grows
  BY RestoredLoses, UnpairsLoses, LosesKeeps DEF ClearAuth

LEMMA PairStep ==
  ASSUME Kept, Pair
  PROVE  Kept' /\ Grows
<1> DEFINE h == target.host  new == Len(tokens) + 1
           s == [host |-> h, id |-> Len(sessions) + 1, token |-> new]
<1>1. /\ SettingsAre /\ CacheIs /\ HostsAre /\ AuthIs /\ Paired /\ TokensServe
      /\ CacheIsCurrent
  BY DEF Kept
<1>2. /\ h \in Hosts /\ serves[h] \in Libraries
      /\ tokens' = Append(tokens, serves[h]) /\ sessions' = Append(sessions, new)
      /\ Len(tokens) < MaxTokens /\ Len(sessions) < MaxSessions
      /\ UNCHANGED <<limit, target, gen, cache, serves, dead, moves>>
  BY <1>1, GuardIsTyped DEF Pair, HostsAre, settings
<1>3. /\ Len(tokens) \in Nat /\ Len(sessions) \in Nat
      /\ tokens \in Seq(Libraries) /\ sessions \in Seq(1..MaxTokens)
  BY <1>1 DEF HostsAre
<1>4. new \in 1..MaxTokens /\ Len(sessions) + 1 \in 1..MaxSessions
  BY <1>2, <1>3, SyncAssumption
<1>5. /\ tokens' \in Seq(Libraries) /\ Len(tokens') = new /\ tokens'[new] = serves[h]
      /\ \A i \in 1..Len(tokens) : tokens'[i] = tokens[i]
  BY <1>2, <1>3, Appending
<1>6. sessions' \in Seq(1..MaxTokens) /\ Len(sessions') = Len(sessions) + 1
  BY <1>2, <1>3, <1>4, Appending
<1>7. SettingsAre' /\ CacheIs' /\ CacheIsCurrent'
  BY <1>1, <1>2 DEF SettingsAre, CacheIs, CacheIsCurrent
<1>8. HostsAre'
  <2>1. dead' \subseteq 1..Len(sessions')
    BY <1>1, <1>2, <1>3, <1>6 DEF HostsAre
  <2>2. Len(tokens') <= MaxTokens /\ Len(sessions') <= MaxSessions
    BY <1>4, <1>5, <1>6
  <2> QED
    BY <1>1, <1>2, <1>5, <1>6, <2>1, <2>2 DEF HostsAre
<1>9. Grows
  BY <1>2, <1>3, <1>5 DEF Grows
<1>10. s \in MaybeSessions /\ s.host = h /\ s.id = Len(sessions) + 1 /\ s.token = new
  BY <1>2, <1>4 DEF MaybeSessions
<1> HIDE DEF s
<1>11. ASSUME NEW v \in {vault, [vault EXCEPT ![h] = NoToken], [vault EXCEPT ![h] = new]},
              v = [vault EXCEPT ![h] = new] => Identified(h)
       PROVE  /\ v \in [Hosts -> 0..Len(tokens')]
              /\ \A k \in Hosts : v[k] # NoToken =>
                   /\ k = h /\ tokens'[v[k]] = target.lib
                   /\ moves = 0 => tokens'[v[k]] = serves[k]
  <2>1. vault \in [Hosts -> 0..Len(tokens)]
    BY <1>1 DEF AuthIs
  <2>2. \A k \in Hosts : vault[k] # NoToken =>
           /\ k = h /\ vault[k] \in 1..Len(tokens) /\ tokens[vault[k]] = target.lib
           /\ moves = 0 => tokens[vault[k]] = serves[k]
    BY TokenIsRight
  <2>3. v \in [Hosts -> 0..new]
    <3>1. 0..Len(tokens) \subseteq 0..new /\ new \in 0..new /\ NoToken \in 0..new
      BY <1>3 DEF NoToken
    <3>2. vault \in [Hosts -> 0..new]
      BY <2>1, <3>1
    <3> HIDE DEF new
    <3> QED
      BY <1>2, <3>1, <3>2
  <2>4. \A k \in Hosts : v[k] # NoToken =>
           \/ v[k] = vault[k]
           \/ k = h /\ v[k] = new /\ Identified(h)
    BY <1>2, <1>11, <2>1
  <2> QED
    BY <1>2, <1>5, <2>2, <2>3, <2>4 DEF Identified
<1>12. ASSUME vault' \in {vault, [vault EXCEPT ![h] = NoToken], [vault EXCEPT ![h] = new]},
              vault' = [vault EXCEPT ![h] = new] => Identified(h),
              failure' \in MaybeFailures, session' \in MaybeSessions,
              session'.id <= Len(sessions'),
              session' # NoSession => session'.host = h /\ vault'[h] = session'.token,
              failure' # NoFailure => session' = NoSession
       PROVE  AuthIs' /\ Paired' /\ TokensServe'
  <2>1. /\ vault' \in [Hosts -> 0..Len(tokens')]
        /\ \A k \in Hosts : vault'[k] # NoToken =>
             /\ k = h /\ tokens'[vault'[k]] = target.lib
             /\ moves = 0 => tokens'[vault'[k]] = serves[k]
    BY <1>11, <1>12
  <2>2. AuthIs'
    BY <1>12, <2>1 DEF AuthIs
  <2>3. Paired' /\ TokensServe'
    BY <1>2, <1>12, <2>1
       DEF Paired, SessionIsPaired, TokensBelong, FailureStandsAlone, TokensServe
  <2> QED
    BY <2>2, <2>3
<1>13. /\ session \in MaybeSessions /\ session.id <= Len(sessions')
       /\ session # NoSession => session.host = h /\ vault[h] = session.token
       /\ failure \in MaybeFailures /\ (failure # NoFailure => session = NoSession)
  <2>1. session.id \in Nat
    BY <1>1, SyncAssumption, NothingIs DEF AuthIs, MaybeSessions
  <2> QED
    BY <1>1, <1>3, <1>6, <2>1 DEF AuthIs, Paired, SessionIsPaired, FailureStandsAlone
<1>14. NoSession.id <= Len(sessions') /\ s.id <= Len(sessions')
  BY <1>3, <1>6, <1>10, NothingIs
<1>15. vault \in [Hosts -> 0..Len(tokens)] /\ [vault EXCEPT ![h] = new][h] = new
  BY <1>1, <1>2 DEF AuthIs
<1>16. vault # [vault EXCEPT ![h] = new]
  BY <1>2, <1>3, <1>15
<1>17. AuthIs' /\ Paired' /\ TokensServe'
  <2>1. CASE /\ Identified(h) /\ vault' = [vault EXCEPT ![h] = new]
             /\ session' = s /\ failure' = NoFailure
    BY <1>10, <1>12, <1>14, <1>15, <2>1, NothingIs
  <2>2. CASE Identified(h) /\ Restored([vault EXCEPT ![h] = new])
    BY <1>12, <1>13, <1>14, <2>2, NothingIs DEF Restored
  <2>3. CASE UNCHANGED <<vault, auth>>
    BY <1>12, <1>13, <1>16, <2>3 DEF auth
  <2> QED
    BY <2>1, <2>2, <2>3 DEF Pair, s
<1> QED
  BY <1>7, <1>8, <1>9, <1>17 DEF Kept

LEMMA LapseStep ==
  ASSUME Kept, Lapse
  PROVE  Kept' /\ Grows
<1>1. Loses
  BY DEF Lapse, Loses, settings, hosts, Kept, AuthIs
<1> QED
  BY <1>1, LosesKeeps

LEMMA RestartStep ==
  ASSUME Kept, Restart
  PROVE  Kept' /\ CommandsAre' /\ \A t \in Threads : Sound(t)'
<1>1. vault \in [Hosts -> 0..Len(tokens)]
  BY DEF Kept, AuthIs
<1>2. Loses
  BY <1>1, ForgetsAll DEF Restart, Loses, settings, hosts
<1>3. CommandsAre' /\ \A t \in Threads : cmd'[t] = Idle
  BY NothingIsTyped DEF Restart, CommandsAre
<1> QED
  BY <1>2, <1>3, LosesKeeps, RestsSound

-----------------------------------------------------------------------------
(* The Hosts.                                                              *)

LEMMA ExpireStep ==
  ASSUME Kept, NEW i, Expire(i)
  PROVE  Kept' /\ Grows
<1>1. /\ SettingsAre /\ CacheIs /\ HostsAre /\ AuthIs /\ Paired /\ TokensServe
      /\ CacheIsCurrent
  BY DEF Kept
<1>2. /\ UNCHANGED <<limit, target, gen, cache, vault, session, failure,
                     serves, tokens, sessions, moves>>
      /\ dead' = dead \cup {i} /\ i \in 1..Len(sessions)
  BY DEF Expire, settings, auth
<1>3. SettingsAre' /\ CacheIs' /\ CacheIsCurrent' /\ HostsAre' /\ TokensServe'
  BY <1>1, <1>2 DEF SettingsAre, CacheIs, CacheIsCurrent, HostsAre, TokensServe
<1>4. AuthIs' /\ Paired'
  BY <1>1, <1>2 DEF AuthIs, Paired, SessionIsPaired, TokensBelong, FailureStandsAlone
<1>5. Grows
  BY <1>1, <1>2 DEF Grows, HostsAre
<1> QED
  BY <1>3, <1>4, <1>5 DEF Kept

LEMMA MoveStep ==
  ASSUME Kept, NEW h \in Hosts, NEW l \in Libraries, Move(h, l)
  PROVE  Kept' /\ Grows
<1>1. /\ SettingsAre /\ CacheIs /\ HostsAre /\ AuthIs /\ Paired /\ TokensServe
      /\ CacheIsCurrent
  BY DEF Kept
<1>2. /\ UNCHANGED <<limit, target, gen, cache, vault, session, failure,
                     tokens, sessions, dead>>
      /\ serves' = [serves EXCEPT ![h] = l] /\ moves' = moves + 1
  BY DEF Move, settings, auth
<1>3. moves \in Nat
  BY <1>1 DEF HostsAre
<1>4. SettingsAre' /\ CacheIs' /\ CacheIsCurrent' /\ HostsAre' /\ TokensServe'
  BY <1>1, <1>2, <1>3 DEF SettingsAre, CacheIs, CacheIsCurrent, HostsAre, TokensServe
<1>5. AuthIs' /\ Paired'
  BY <1>1, <1>2 DEF AuthIs, Paired, SessionIsPaired, TokensBelong, FailureStandsAlone
<1>6. Grows
  BY <1>1, <1>2 DEF Grows, HostsAre
<1> QED
  BY <1>4, <1>5, <1>6 DEF Kept

-----------------------------------------------------------------------------
(* The invariant holds at the start and through every step.                *)

LEMMA InitIInv ==
  Init => IInv
<1> SUFFICES ASSUME Init
             PROVE  IInv
  OBVIOUS
<1>1. limit \in Limits /\ limit.targets \subseteq Targets /\ limit.libs \subseteq Libraries
      /\ limit.gen \in 1..MaxGen
  BY SyncAssumption DEF Init
<1>2. SettingsAre /\ CacheIs /\ CacheIsCurrent
  BY <1>1, SyncAssumption DEF Init, SettingsAre, CacheIs, CacheIsCurrent
<1>3. tokens = <<>> /\ sessions = <<>> /\ Len(tokens) = 0 /\ Len(sessions) = 0
  BY DEF Init
<1>4. HostsAre
  BY <1>1, <1>3, SyncAssumption DEF Init, HostsAre
<1>5. AuthIs
  BY <1>3, NothingIs DEF Init, AuthIs, NoToken
<1>6. Paired /\ TokensServe
  BY DEF Init, Paired, SessionIsPaired, TokensBelong, FailureStandsAlone, TokensServe
<1>7. CommandsAre /\ \A t \in Threads : cmd[t] = Idle
  BY NothingIsTyped DEF Init, CommandsAre
<1>8. \A t \in Threads : Sound(t)
  BY <1>7, NothingIsTyped DEF Sound, Rests, Began, Captured, Holds, Holding, RefusedFor, Read
<1> QED
  BY <1>2, <1>4, <1>5, <1>6, <1>7, <1>8 DEF IInv

LEMMA ThreadStep ==
  ASSUME IInv, NEW t \in Threads, Step(t)
  PROVE  Kept' /\ Grows /\ Moved(t) /\ Sound(t)'
<1>1. /\ Kept /\ SettingsAre /\ HostsAre /\ CommandsAre /\ Sound(t)
  BY DEF IInv, Kept
<1>2. CASE Begin(t)
  BY <1>1, <1>2, BeginStep, QuietKeeps, QuietGrows
<1>3. CASE Identify(t)
  BY <1>1, <1>3, IdentifyStep, QuietKeeps, QuietGrows
<1>4. CASE Capture(t)
  BY <1>1, <1>4, CaptureStep, QuietKeeps, QuietGrows
<1>5. CASE Authenticate(t)
  BY <1>1, <1>5, AuthenticateStep, SignsGrows
<1>6. CASE Check(t)
  BY <1>1, <1>6, CheckStep, QuietKeeps, QuietGrows
<1>7. CASE Send(t)
  BY <1>1, <1>7, SendStep, QuietKeeps, QuietGrows
<1>8. CASE Refused(t)
  BY <1>1, <1>8, RefusedStep, QuietKeeps, QuietGrows
<1>9. CASE Renew(t)
  BY <1>1, <1>9, RenewStep, SignsGrows
<1>10. CASE Answered(t)
  BY <1>1, <1>10, AnsweredStep, QuietKeeps, QuietGrows
<1>11. CASE Save(t)
  BY <1>1, <1>11, SaveStep
<1> QED
  BY <1>2, <1>3, <1>4, <1>5, <1>6, <1>7, <1>8, <1>9, <1>10, <1>11 DEF Step

LEMMA IInvStep ==
  IInv /\ [Next]_vars => IInv'
<1> SUFFICES ASSUME IInv, [Next]_vars
             PROVE  IInv'
  OBVIOUS
<1>1. /\ Kept /\ SettingsAre /\ HostsAre /\ CommandsAre /\ \A t \in Threads : Sound(t)
  BY DEF IInv, Kept
<1>2. ASSUME Kept', CommandsAre', \A t \in Threads : Sound(t)'
      PROVE  IInv'
  BY <1>2 DEF Kept, IInv
<1>3. ASSUME Kept', Grows, UNCHANGED cmd
      PROVE  IInv'
  BY <1>1, <1>2, <1>3, AllStay
<1>4. ASSUME NEW t \in Threads, Step(t)
      PROVE  IInv'
  BY <1>1, <1>2, <1>4, ThreadStep, OneMoves
<1>5. ASSUME NEW new \in limit.targets \cup {NoTarget}, SaveSettings(new)
      PROVE  IInv'
  BY <1>1, <1>3, <1>5, SaveSettingsStep DEF SaveSettings
<1>6. CASE ClearAuth
  BY <1>1, <1>3, <1>6, ClearAuthStep DEF ClearAuth
<1>7. CASE Pair
  BY <1>1, <1>3, <1>7, PairStep DEF Pair
<1>8. CASE Lapse
  BY <1>1, <1>3, <1>8, LapseStep DEF Lapse
<1>9. CASE Restart
  BY <1>1, <1>2, <1>9, RestartStep
<1>10. ASSUME NEW i \in 1..MaxSessions, Expire(i)
       PROVE  IInv'
  BY <1>1, <1>3, <1>10, ExpireStep DEF Expire
<1>11. ASSUME NEW h \in Hosts, NEW l \in Libraries, Move(h, l)
       PROVE  IInv'
  BY <1>1, <1>3, <1>11, MoveStep DEF Move
<1>12. CASE UNCHANGED vars
  <2>1. Quiet /\ UNCHANGED cmd
    BY <1>12 DEF vars, Quiet, settings, auth, hosts
  <2> QED
    BY <1>1, <1>3, <2>1, QuietKeeps, QuietGrows
<1> QED
  BY <1>4, <1>5, <1>6, <1>7, <1>8, <1>9, <1>10, <1>11, <1>12 DEF Next

-----------------------------------------------------------------------------
(* The invariant holds of every behaviour.                                 *)
THEOREM Invariance ==
  Spec => []IInv
BY InitIInv, IInvStep, PTL DEF Spec

LEMMA TypesFollow ==
  IInv => TypeOK
<1> SUFFICES ASSUME IInv
             PROVE  TypeOK
  OBVIOUS
<1>1. SettingsAre /\ CacheIs /\ HostsAre /\ AuthIs /\ CommandsAre
  BY DEF IInv
<1>2. Numbered(session)
  BY <1>1 DEF AuthIs, MaybeSessions, Numbered
<1>3. failure = NoFailure \/ failure \in [host : Hosts, token : 1..MaxTokens]
  BY <1>1 DEF AuthIs, MaybeFailures
<1>4. ASSUME NEW t \in Threads
      PROVE  \/ cmd[t] = Idle
             \/ /\ cmd[t].first \in Guards /\ cmd[t].guard \in Guards \cup {NoGuard}
                /\ Numbered(cmd[t].auth) /\ cmd[t].retried \in BOOLEAN
                /\ cmd[t].data \subseteq Libraries /\ cmd[t].plan # <<>>
  BY <1>1, Heads DEF IInv, Sound, Rests, Began, MaybeGuards, MaybeSessions, Numbered
<1> QED
  BY <1>1, <1>2, <1>3, <1>4 DEF TypeOK, SettingsAre, CacheIs, HostsAre, AuthIs

(* Every variable has its type; tokens and sessions in use were issued.    *)
THEOREM TypeCorrect ==
  Spec => []TypeOK
BY Invariance, TypesFollow, PTL

(* What the Client keeps to reach a Host, its token and its session, is of *)
(* its present target, through every failure of the vault, every roll-back *)
(* and every restart (secure_credential_mutation.rs and the roll-backs of  *)
(* library_sync_settings_commands.rs and library_sync_pairing_commands.rs).*)
THEOREM OwnCredentials ==
  Spec => []CredentialsBelong
<1>1. IInv => CredentialsBelong
  BY TypesFollow DEF IInv, Paired, CredentialsBelong
<1> QED
  BY <1>1, Invariance, PTL

(* The rolls cached were asked for under the present target and all their  *)
(* pages came from its library (with_current_library_sync_target).         *)
THEOREM OwnCache ==
  Spec => []CacheIsCurrent
<1>1. IInv => CacheIsCurrent
  BY DEF IInv
<1> QED
  BY <1>1, Invariance, PTL

(* A command that moves takes a step of its own, or the process restarts.  *)
LEMMA OwnStep ==
  ASSUME IInv, [Next]_vars, NEW t \in Threads
  PROVE  Step(t) \/ cmd'[t] = cmd[t] \/ cmd'[t] = Idle
<1>1. ASSUME NEW u \in Threads, Step(u)
      PROVE  Step(t) \/ cmd'[t] = cmd[t]
  BY <1>1, ThreadStep DEF Moved
<1>2. CASE Restart
  BY <1>2 DEF Restart
<1>3. ASSUME NEW new, SaveSettings(new)
      PROVE  cmd' = cmd
  BY <1>3 DEF SaveSettings
<1>4. ASSUME NEW i, Expire(i)
      PROVE  cmd' = cmd
  BY <1>4 DEF Expire
<1>5. ASSUME NEW h, NEW l, Move(h, l)
      PROVE  cmd' = cmd
  BY <1>5 DEF Move
<1>6. CASE ClearAuth \/ Pair \/ Lapse
  BY <1>6 DEF ClearAuth, Pair, Lapse
<1>7. CASE UNCHANGED vars
  BY <1>7 DEF vars
<1> QED
  BY <1>1, <1>2, <1>3, <1>4, <1>5, <1>6, <1>7 DEF Next

LEMMA SendOutcome ==
  ASSUME IInv, [Next]_vars, NEW t \in Threads, Carried(t)
  PROVE  Accepts(t)
<1>1. cmd[t].phase = "send" /\ cmd'[t].phase = "answered" /\ CommandsAre
  BY DEF Carried, IInv
<1>2. Step(t)
  BY <1>1, OwnStep, NothingIsTyped
<1>3. Send(t)
  <2>1. ~Begin(t)
    BY <1>1, NothingIsTyped DEF Begin
  <2>2. ~Identify(t) /\ ~Capture(t) /\ ~Authenticate(t) /\ ~Check(t)
    BY <1>1 DEF Identify, Capture, Authenticate, Check
  <2>3. ~Refused(t) /\ ~Renew(t) /\ ~Answered(t) /\ ~Save(t)
    BY <1>1 DEF Refused, Renew, Answered, Save
  <2> QED
    BY <1>2, <2>1, <2>2, <2>3 DEF Step
<1>4. ~Goes(t, "refused")
  BY <1>1, GoesMoves DEF Went, Became, Phases
<1>5. ~Ends(t)
  BY <1>1, EndsMoves, NothingIsTyped DEF Ended
<1> QED
  BY <1>3, <1>4, <1>5 DEF Send

(* A write reviewed for a target is carried out by the library of that     *)
(* target or not at all: its Host is the one the command began with, and   *)
(* the device token it carries is one that library issued.                 *)
THEOREM ReviewedWrites ==
  Spec => FixedWritesReachTheirLibrary
<1>1. ASSUME IInv, [Next]_vars, NEW t \in Threads, Carried(t), Head(cmd[t].plan) = "fixed post"
      PROVE  serves[cmd[t].guard.host] = cmd[t].first.lib
  <2>1. Sound(t) /\ cmd[t].phase = "send"
    BY <1>1 DEF IInv, Carried
  <2>2. cmd[t].guard = cmd[t].first
    BY <1>1, <2>1 DEF Sound, Captured, Guarded
  <2>3. tokens[cmd[t].auth.token] = cmd[t].guard.lib
    BY <2>1 DEF Sound, Holds, Holding
  <2>4. tokens[cmd[t].auth.token] = serves[cmd[t].guard.host]
    BY <1>1, SendOutcome DEF Accepts
  <2> QED
    BY <2>2, <2>3, <2>4
<1>2. IInv /\ [Next]_vars =>
        [\A t \in Threads : Carried(t) /\ Head(cmd[t].plan) = "fixed post" =>
           serves[cmd[t].guard.host] = cmd[t].first.lib]_vars
  BY <1>1
<1> QED
  BY <1>2, Invariance, PTL DEF Spec, FixedWritesReachTheirLibrary

(* A renewal of the session, by whom and for which session.                *)
LEMMA RenewalsAreOfTheRefused ==
  ASSUME IInv, [Next]_vars, sessions' # sessions, tokens' = tokens, session # NoSession
  PROVE  \E t \in Threads : cmd[t].phase = "renew" /\ cmd[t].auth = session
<1>1. Kept /\ CommandsAre /\ \A t \in Threads : Sound(t)
  BY DEF IInv, Kept
<1>2. /\ session \in [host : Hosts, id : 1..MaxSessions, token : 1..MaxTokens]
      /\ session.host = target.host /\ vault[session.host] = session.token
  BY <1>1, SessionIsRight
<1>3. PICK t \in Threads : Step(t)
  <2>1. ASSUME NEW new, SaveSettings(new)
        PROVE  sessions' = sessions
    BY <2>1 DEF SaveSettings, hosts
  <2>2. ASSUME NEW i, Expire(i)
        PROVE  sessions' = sessions
    BY <2>2 DEF Expire
  <2>3. ASSUME NEW h, NEW l, Move(h, l)
        PROVE  sessions' = sessions
    BY <2>3 DEF Move
  <2>4. CASE ClearAuth \/ Lapse \/ Restart
    BY <2>4 DEF ClearAuth, Lapse, Restart, hosts
  <2>5. CASE Pair
    <3>1. tokens' = Append(tokens, serves[target.host]) /\ Len(tokens) \in Nat
      BY <1>1, <2>5 DEF Pair, Kept, HostsAre
    <3>2. tokens \in Seq(Libraries) /\ serves[target.host] \in Libraries
      BY <1>1, <2>5, GuardIsTyped DEF Pair, Kept, HostsAre
    <3>3. Len(tokens') = Len(tokens) + 1
      BY <3>1, <3>2, Appending
    <3> QED
      BY <3>1, <3>3
  <2>6. CASE UNCHANGED vars
    BY <2>6 DEF vars, hosts
  <2> QED
    BY <2>1, <2>2, <2>3, <2>4, <2>5, <2>6 DEF Next
<1>4. Sound(t)
  BY <1>1
<1>5. CASE Renew(t)
  <2> DEFINE h == cmd[t].guard.host
  <2>1. /\ cmd[t].phase = "renew" /\ cmd[t].auth.host = h
        /\ cmd[t].auth \in [host : Hosts, id : 1..MaxSessions, token : 1..MaxTokens]
    BY <1>4, <1>5 DEF Renew, Sound, Holds, Holding
  <2>2. Valid(h) /\ vault[h] = cmd[t].auth.token /\ ~Reusable(t)
    BY <1>5 DEF Renew, hosts
  <2>3. session.host = h /\ session.token = cmd[t].auth.token
    BY <1>2, <2>2 DEF Valid
  <2>4. session.id = cmd[t].auth.id
    BY <2>2, <2>3 DEF Reusable
  <2>5. cmd[t].auth = session
    BY <1>2, <2>1, <2>3, <2>4
  <2> QED
    BY <2>1, <2>5
<1>6. CASE Authenticate(t)
  <2>1. Valid(cmd[t].guard.host) /\ session.host # cmd[t].guard.host
    BY <1>6 DEF Authenticate, hosts
  <2> QED
    BY <1>2, <2>1 DEF Valid
<1>7. CASE ~Renew(t) /\ ~Authenticate(t)
  BY <1>3, <1>7
     DEF Step, Begin, Identify, Capture, Check, Send, Refused, Answered, Save, hosts
<1> QED
  BY <1>5, <1>6, <1>7

(* A wave of refused requests renews a session once: a renewal replaces    *)
(* no session but the one the renewing command was refused with, dead or   *)
(* of another library than its Host serves, unless the Host has moved away *)
(* and back (renew_or_reuse_library_sync_host_session).                    *)
THEOREM OneRenewal ==
  Spec => LiveSessionsStay
<1>1. ASSUME IInv, [Next]_vars, sessions' # sessions, tokens' = tokens, session # NoSession
      PROVE  /\ \E t \in Threads : cmd[t].phase = "renew" /\ cmd[t].auth = session
             /\ Alive(session) => moves > 1
  <2>1. PICK t \in Threads : cmd[t].phase = "renew" /\ cmd[t].auth = session
    BY <1>1, RenewalsAreOfTheRefused
  <2>2. RefusedFor(t)
    BY <1>1 DEF IInv, Sound
  <2>3. Alive(session) => moves > 1
    BY <2>1, <2>2 DEF RefusedFor, Alive
  <2> QED
    BY <2>1, <2>3
<1>2. IInv /\ [Next]_vars =>
        [sessions' # sessions /\ tokens' = tokens /\ session # NoSession =>
           /\ \E t \in Threads : cmd[t].phase = "renew" /\ cmd[t].auth = session
           /\ Alive(session) => moves > 1]_vars
  BY <1>1
<1> QED
  BY <1>2, Invariance, PTL DEF Spec, LiveSessionsStay
=============================================================================
