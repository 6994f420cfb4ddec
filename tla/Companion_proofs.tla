------------------------ MODULE Companion_proofs ------------------------------
(***************************************************************************)
(* The proofs about the two halves of the companion server: the lifecycle  *)
(* of its listener (DesktopLifecycle) and the browsers it serves           *)
(* (BrowserSessions).  They share no variable and no operator.             *)
(***************************************************************************)
EXTENDS DesktopLifecycle, BrowserSessions, FiniteSetTheorems, TLAPS

USE LifecycleAssumption

-----------------------------------------------------------------------------
(***************************************************************************)
(* DesktopLifecycle.                                                       *)
(*                                                                         *)
(* Only the holder of the gate starts or stops a listener (Gated), after   *)
(* taking the former one out of the handle (Taken), and once the exit has  *)
(* stopped it nobody is left who could start one (Stopped).  While one     *)
(* runs that is not as configured, somebody is about to restart it         *)
(* (Restarts); the runtime is configured as the database says, as far as   *)
(* the writers have come (Agrees).                                         *)
(***************************************************************************)
-----------------------------------------------------------------------------
\* The inductive invariant.

ActorPhases == Locked \cup {"idle", "queued", "ended", "join", "done", "read"}

Typed ==
  /\ {saved, config, loader.got} \subseteq Setting /\ local \in BOOLEAN /\ net \in Addrs
  /\ pc \in [Actors -> ActorPhases] /\ seen \in [Actors -> Setting]
  /\ loader \in [at : {"idle", "changed", "loaded"}, got : Setting] /\ queue \in Nat
  /\ gate \in Actors \cup {"free"} /\ holds \in [Actors -> 0..MaxServers]
  /\ handle \in 0..MaxServers /\ addr \in [1..MaxServers -> Addrs \cup {"none"}]
  /\ live \subseteq 1..MaxServers /\ busy \subseteq live
  /\ {code, first} \subseteq Codes /\ {shutting, cut, overlapped} \subseteq BOOLEAN

\* Each actor's own phases, and who holds the gate.
Gated ==
  /\ \A a \in Actors : gate = a <=> pc[a] \in Locked
  /\ pc["startup"] \notin {"idle", "join", "done", "read", "locked", "recheck", "saved"}
  /\ pc["watcher"] \notin {"join", "done", "read", "locked"}
  /\ pc["command"] \notin {"join", "done", "read", "recheck", "ended"}
  /\ pc["reload"] \notin {"join", "done", "read", "locked", "recheck", "saved", "ended"}
  /\ pc["coordinator"] \notin {"locked", "recheck", "saved", "bind", "ended"}
  /\ shutting <=> pc["coordinator"] # "idle"
  /\ exit = "running" <=> ~shutting

\* The listener is taken out of the handle before it is drained.
Taken ==
  /\ \A a \in Actors : holds[a] # 0 => pc[a] = "drain"
  /\ \A a \in Actors : pc[a] = "drain" => holds[a] # 0 /\ holds[a] \in live
  /\ \A a \in Actors : pc[a] \in {"drain", "check", "bind"} => handle = 0
  /\ handle # 0 => handle \in live
  /\ NothingDetached

\* The exit has stopped it for good.
Stopped ==
  /\ cut => pc["coordinator"] \in {"done", "read"}
  /\ pc["coordinator"] \in {"done", "read"} /\ ~cut =>
       handle = 0 /\ \A a \in Actors : pc[a] \notin {"drain", "bind"}

\* Somebody is about to restart the listener.
Pending == queue > 0 \/ pc["reload"] = "queued"
Restarts ==
  /\ \A a \in Actors : pc[a] = "bind" => seen[a].on /\ seen[a].addr # "none"
  /\ ~shutting =>
       /\ handle # 0 =>
            addr[handle] = Bound(config) \/ Pending \/ \E a \in Actors : pc[a] = "stop"
       /\ \A a \in Actors : pc[a] = "bind" => seen[a] = config \/ Pending

\* The runtime is configured as the database says, as far as the writers have come.
Target == IF local THEN Bound(saved) ELSE "none"
Moved == pc["watcher"] \in {"queued", "recheck", "saved"} /\ seen["watcher"] # Off
Proper(c) == c.on => c.addr # "none"
Agrees ==
  /\ Proper(saved) /\ Proper(config) /\ Proper(loader.got) /\ \A a \in Actors : Proper(seen[a])
  /\ pc["watcher"] = "idle" => seen["watcher"] = Off
  /\ pc["watcher"] \in {"recheck", "saved"} => seen["watcher"] # Off
  /\ Moved => seen["watcher"].on
  /\ loader.at # "idle" /\ Sections => overlapped
  /\ ~shutting /\ ~overlapped =>
       /\ loader.at = "loaded" => Bound(loader.got) = Target
       /\ loader.at = "idle" => (config.on => local)
       /\ loader.at = "idle" /\ pc["watcher"] # "saved" /\ pc["command"] # "saved" =>
            Bound(config) = Target
       /\ Moved => local
       /\ pc["watcher"] = "saved" => saved.on /\ saved.addr = seen["watcher"].addr
       /\ pc["command"] = "saved" => ~saved.on /\ ~seen["command"].on

\* The code the exit takes is the first failure.
Reported ==
  /\ pc["coordinator"] # "read" => first = code
  /\ pc["coordinator"] = "read" => final = first
  /\ exit = "gone" => pc["coordinator"] = "read"

IInv == Typed /\ Gated /\ Taken /\ Stopped /\ Restarts /\ Agrees /\ Reported

-----------------------------------------------------------------------------
LEMMA Given ==
  ASSUME IInv
  PROVE  /\ Typed /\ Gated /\ Taken /\ Stopped /\ Restarts /\ Agrees /\ Reported
         /\ pc \in [Actors -> ActorPhases] /\ seen \in [Actors -> Setting]
         /\ holds \in [Actors -> 0..MaxServers]
  BY DEF IInv, Typed

\* The actors and their phases.
LEMMA ActorsAre ==
  /\ Actors = {"startup", "watcher", "command", "reload", "coordinator"}
  /\ Owned = {"startup", "watcher"} /\ "free" \notin Actors
  BY DEF Actors, Owned

LEMMA OffIs == Off \in Setting /\ Off.on = FALSE /\ Off.addr = "none"
  BY DEF Off, Setting

LEMMA SettingsAre ==
  ASSUME NEW c \in Setting
  PROVE  c.on \in BOOLEAN /\ c.addr \in Addrs \cup {"none"}
  BY DEF Setting

-----------------------------------------------------------------------------
\* Steps of which most conjuncts see nothing.

\* Requests come and go at the installed listener.
LEMMA AcceptStep ==
  ASSUME IInv, Accept \/ (\E s \in live : Finish(s)), Overlaps
  PROVE  IInv'
<1>1. /\ Typed /\ Gated /\ Taken /\ Stopped /\ Restarts /\ Agrees /\ Reported
  BY Given
<1>2. /\ UNCHANGED <<saved, local, config, net, pc, seen, gate, holds, loader, queue, handle, addr,
                     live, running, exit, code, shutting, cut, first, final>>
      /\ busy' \subseteq live
  <2>1. CASE Accept
    BY <1>1, <2>1 DEF Accept, settings, actors, reloads, ending, Taken, Typed
  <2>2. CASE \E s \in live : Finish(s)
    BY <1>1, <2>2 DEF Finish, settings, actors, reloads, ending, Typed
  <2> QED
    BY <2>1, <2>2
<1>3. Sections' = Sections /\ overlapped' \in BOOLEAN /\ (overlapped => overlapped')
      /\ (loader.at # "idle" /\ Sections => overlapped')
  BY <1>1, <1>2 DEF Overlaps, Sections, Typed
<1>4. Typed'
  BY <1>1, <1>2, <1>3 DEF Typed
<1>5. Gated' /\ Taken' /\ Stopped' /\ Restarts' /\ Reported'
  BY <1>1, <1>2 DEF Gated, Taken, NothingDetached, Stopped, Restarts, Pending, Reported
<1>6. Agrees'
  BY <1>1, <1>2, <1>3 DEF Agrees, Moved, Target, Bound, Proper
<1> QED
  BY <1>4, <1>5, <1>6 DEF IInv

-----------------------------------------------------------------------------
\* What changes for one actor.

PcBecomes(a, phase) ==
  /\ pc' \in [Actors -> ActorPhases] /\ pc'[a] = phase
  /\ \A b \in Actors : b # a => pc'[b] = pc[b]
SeenBecomes(a, c) ==
  /\ seen' \in [Actors -> Setting] /\ seen'[a] = c
  /\ \A b \in Actors : b # a => seen'[b] = seen[b]
HoldsBecomes(a, s) ==
  /\ holds' \in [Actors -> 0..MaxServers] /\ holds'[a] = s
  /\ \A b \in Actors : b # a => holds'[b] = holds[b]

LEMMA PcTurns ==
  ASSUME Typed, NEW a \in Actors, NEW phase \in ActorPhases, Goes(a, phase)
  PROVE  PcBecomes(a, phase)
  BY DEF Goes, PcBecomes, Typed

LEMMA SeenTurns ==
  ASSUME Typed, NEW a \in Actors, NEW c \in Setting, seen' = [seen EXCEPT ![a] = c]
  PROVE  SeenBecomes(a, c)
  BY DEF SeenBecomes, Typed

LEMMA HoldsTurns ==
  ASSUME Typed, NEW a \in Actors, NEW s \in 0..MaxServers, holds' = [holds EXCEPT ![a] = s]
  PROVE  HoldsBecomes(a, s)
  BY DEF HoldsBecomes, Typed

LEMMA OverlapsOnly ==
  ASSUME Typed, Overlaps
  PROVE  /\ overlapped' \in BOOLEAN /\ (overlapped => overlapped')
         /\ loader'.at # "idle" /\ Sections' => overlapped'
  BY DEF Overlaps, Typed, Sections

\* A step that writes neither the settings nor what has been loaded, and lets no writer
\* of the configuration begin or end.
LEMMA AgreesKept ==
  ASSUME Typed, Agrees, Overlaps, UNCHANGED <<saved, local, config, loader>>,
         shutting => shutting',
         \A a \in Actors : Proper(seen'[a]),
         pc'["watcher"] = "idle" => seen'["watcher"] = Off,
         pc'["watcher"] \in {"queued", "recheck", "saved"} =>
           pc["watcher"] \in {"idle", "queued", "recheck", "saved"}
             /\ seen'["watcher"] = seen["watcher"],
         pc'["watcher"] \in {"recheck", "saved"} => seen'["watcher"] # Off,
         pc'["watcher"] = "saved" => pc["watcher"] = "saved",
         pc'["command"] = "saved" => pc["command"] = "saved" /\ seen'["command"] = seen["command"],
         pc["watcher"] = "saved" => pc'["watcher"] = "saved" \/ shutting',
         pc["command"] = "saved" => pc'["command"] = "saved" \/ shutting'
  PROVE  Agrees'
<1>1. /\ overlapped' \in BOOLEAN /\ (overlapped => overlapped')
      /\ loader'.at # "idle" /\ Sections' => overlapped'
  BY OverlapsOnly
<1>2. Moved' => Moved
  BY DEF Moved, Agrees
<1>3. Target' = Target /\ Bound(config)' = Bound(config) /\ Bound(loader.got)' = Bound(loader.got)
  BY DEF Target, Bound
<1>4. /\ Proper(saved)' /\ Proper(config)' /\ Proper(loader.got)'
      /\ \A a \in Actors : Proper(seen'[a])
  BY DEF Agrees, Proper
<1>5. Moved' => seen'["watcher"].on
  BY <1>2 DEF Moved, Agrees
<1>6. ~shutting' /\ ~overlapped' =>
       /\ loader'.at = "loaded" => Bound(loader'.got) = Target
       /\ loader'.at = "idle" => (config'.on => local')
       /\ loader'.at = "idle" /\ pc'["watcher"] # "saved" /\ pc'["command"] # "saved" =>
            Bound(config') = Target
       /\ Moved' => local'
       /\ pc'["watcher"] = "saved" => saved'.on /\ saved'.addr = seen'["watcher"].addr
       /\ pc'["command"] = "saved" => ~saved'.on /\ ~seen'["command"].on
  BY <1>1, <1>2 DEF Agrees
<1> QED
  BY <1>1, <1>3, <1>4, <1>5, <1>6 DEF Agrees, Proper

-----------------------------------------------------------------------------
\* The restart of the listener, by whoever holds the gate.

LEMMA LockStep ==
  ASSUME IInv, NEW a \in Actors, Lock(a), Overlaps
  PROVE  IInv'
<1>1. /\ Typed /\ Gated /\ Taken /\ Stopped /\ Restarts /\ Agrees /\ Reported
  BY Given
<1>2. UNCHANGED <<saved, local, config, net, seen, loader, queue, holds, handle, addr, live, busy,
                  running, exit, code, shutting, cut, first, final>>
  BY DEF Lock, settings, reloads, servers, ending
<1>3. pc[a] = "queued" /\ gate = "free" /\ gate' = a
  BY DEF Lock
<1>4. PICK phase \in {"locked", "recheck", "stop"} :
        /\ Goes(a, phase)
        /\ phase = "locked" <=> a = "command"
        /\ phase = "recheck" <=> a = "watcher" /\ seen[a] # Off
  <2>1. CASE a = "command"
    BY <2>1 DEF Lock
  <2>2. CASE a = "watcher" /\ seen[a] # Off
    BY <2>2 DEF Lock
  <2>3. CASE a # "command" /\ ~(a = "watcher" /\ seen[a] # Off)
    BY <2>3 DEF Lock
  <2> QED
    BY <2>1, <2>2, <2>3
<1>5. PcBecomes(a, phase)
  BY <1>1, <1>4, PcTurns DEF ActorPhases, Locked
<1>6. phase \in Locked /\ \A b \in Actors : pc[b] \notin Locked
  BY <1>1, <1>3, ActorsAre DEF Gated, Locked
<1>7. overlapped' \in BOOLEAN /\ (overlapped => overlapped')
  BY <1>1, OverlapsOnly
<1>8. Typed'
  BY <1>1, <1>2, <1>3, <1>5, <1>7 DEF Typed, PcBecomes
<1>9. Gated'
  BY <1>1, <1>2, <1>3, <1>4, <1>5, <1>6, ActorsAre DEF Gated, PcBecomes, Locked
<1>10. Taken' /\ Stopped'
  BY <1>1, <1>2, <1>3, <1>4, <1>5, ActorsAre DEF Taken, NothingDetached, Stopped, PcBecomes
<1>11. Restarts'
  <2>1. \A b \in Actors : pc[b] = "stop" => pc'[b] = "stop"
    BY <1>3, <1>5 DEF PcBecomes
  <2>2. Pending => Pending' \/ \E b \in Actors : pc'[b] = "stop"
    BY <1>2, <1>3, <1>4, <1>5, ActorsAre DEF Pending, PcBecomes
  <2>3. \A b \in Actors : pc'[b] # "bind" /\ pc[b] # "bind"
    BY <1>4, <1>5, <1>6 DEF PcBecomes, Locked
  <2> QED
    BY <1>1, <1>2, <2>1, <2>2, <2>3 DEF Restarts, Bound
<1>12. Agrees'
  <2>1. pc'["watcher"] = "recheck" => seen["watcher"] # Off
    BY <1>1, <1>4, <1>5, ActorsAre DEF PcBecomes, Agrees
  <2>2. pc'["watcher"] \in {"idle", "queued", "recheck", "saved"} =>
          pc["watcher"] = pc'["watcher"] \/ (pc["watcher"] = "queued" /\ pc'["watcher"] = "recheck")
    BY <1>3, <1>4, <1>5, ActorsAre DEF PcBecomes
  <2>3. pc'["command"] = "saved" <=> pc["command"] = "saved"
    BY <1>3, <1>4, <1>5, ActorsAre DEF PcBecomes
  <2>4. pc'["watcher"] = "saved" <=> pc["watcher"] = "saved"
    BY <1>3, <1>4, <1>5, ActorsAre DEF PcBecomes
  <2>5. pc'["watcher"] = "idle" => seen'["watcher"] = Off
    BY <1>1, <1>2, <2>2 DEF Agrees
  <2>6. pc'["watcher"] \in {"recheck", "saved"} => seen'["watcher"] # Off
    BY <1>1, <1>2, <2>1, <2>4 DEF Agrees
  <2>7. \A b \in Actors : Proper(seen'[b])
    BY <1>1, <1>2 DEF Agrees
  <2>8. pc'["watcher"] \in {"queued", "recheck", "saved"} =>
          pc["watcher"] \in {"idle", "queued", "recheck", "saved"} /\ seen'["watcher"] = seen["watcher"]
    BY <1>2, <2>2
  <2> QED
    BY <1>1, <1>2, <2>3, <2>4, <2>5, <2>6, <2>7, <2>8, AgreesKept
<1>13. Reported'
  BY <1>1, <1>2, <1>3, <1>4, <1>5, ActorsAre DEF Reported, PcBecomes
<1> QED
  BY <1>8, <1>9, <1>10, <1>11, <1>12, <1>13 DEF IInv

\* What only the holder of the gate may assume of the others.
LEMMA Alone ==
  ASSUME Typed, Gated, NEW a \in Actors, pc[a] \in Locked
  PROVE  gate = a /\ \A b \in Actors : b # a => pc[b] \notin Locked
  BY DEF Gated

\* A step of an actor that restarts the listener leaves the settings as they are.
LEMMA RestartAgrees ==
  ASSUME Typed, Gated, Agrees, Overlaps, UNCHANGED <<saved, local, config, loader, shutting>>,
         NEW a \in Actors, pc[a] \in {"stop", "drain", "check", "bind"},
         NEW phase \in {"drain", "check", "bind", "idle", "ended", "done"}, PcBecomes(a, phase),
         phase = "idle" => seen'[a] = Off,
         \A b \in Actors : Proper(seen'[b]),
         \A b \in Actors : b # a => seen'[b] = seen[b]
  PROVE  Agrees'
<1>1. pc'["watcher"] = "idle" => seen'["watcher"] = Off
  BY ActorsAre DEF PcBecomes, Agrees
<1>2. pc'["watcher"] \in {"queued", "recheck", "saved"} =>
        pc["watcher"] = pc'["watcher"] /\ seen'["watcher"] = seen["watcher"]
  BY ActorsAre DEF PcBecomes
<1>3. pc'["command"] = "saved" => pc["command"] = "saved" /\ seen'["command"] = seen["command"]
  BY ActorsAre DEF PcBecomes
<1>4. /\ pc["watcher"] = "saved" => pc'["watcher"] = "saved"
      /\ pc["command"] = "saved" => pc'["command"] = "saved"
  BY ActorsAre DEF PcBecomes
<1>5. pc'["watcher"] \in {"recheck", "saved"} => seen'["watcher"] # Off
  BY <1>2 DEF Agrees
<1> QED
  BY <1>1, <1>2, <1>3, <1>4, <1>5, AgreesKept

LEMMA StopStep ==
  ASSUME IInv, NEW a \in Actors, Stop(a), Overlaps
  PROVE  IInv'
<1>1. /\ Typed /\ Gated /\ Taken /\ Stopped /\ Restarts /\ Agrees /\ Reported
  BY Given
<1>2. UNCHANGED <<saved, local, config, net, seen, loader, queue, gate, addr, live, busy,
                  running, exit, code, shutting, cut, first, final>>
  BY DEF Stop, settings, reloads, ending
<1>3. pc[a] = "stop" /\ pc[a] \in Locked /\ handle' = 0
  BY DEF Stop, Locked
<1> DEFINE phase == IF handle = 0 THEN "check" ELSE "drain"
<1>4. PcBecomes(a, phase) /\ HoldsBecomes(a, handle)
  <2>1. phase \in ActorPhases /\ handle \in 0..MaxServers
    BY <1>1 DEF Typed, ActorPhases, Locked
  <2>2. Goes(a, phase) /\ holds' = [holds EXCEPT ![a] = handle]
    BY DEF Stop
  <2> HIDE DEF phase
  <2> QED
    BY <1>1, <2>1, <2>2, PcTurns, HoldsTurns
<1>5. gate = a /\ \A b \in Actors : b # a => pc[b] \notin Locked
  BY <1>1, <1>3, Alone
<1>6. overlapped' \in BOOLEAN
  BY <1>1, OverlapsOnly
<1>7. \A b \in Actors : holds[b] = 0
  BY <1>1, <1>3, <1>5 DEF Taken, Locked
<1>8. Typed'
  BY <1>1, <1>2, <1>3, <1>4, <1>6 DEF Typed, PcBecomes, HoldsBecomes
<1>9. phase \in {"check", "drain"}
  OBVIOUS
<1>10. Gated'
  BY <1>1, <1>2, <1>3, <1>4, <1>9, ActorsAre DEF Gated, PcBecomes, Locked
<1>11. Taken'
  <2>1. \A b \in Actors : holds'[b] # 0 => b = a /\ handle # 0
    BY <1>4, <1>7 DEF HoldsBecomes
  <2>2. \A b \in Actors : pc'[b] = "drain" => b = a /\ handle # 0
    BY <1>4, <1>5 DEF PcBecomes, Locked
  <2>3. \A s \in live' : \E b \in Actors : holds'[b] = s
    BY <1>1, <1>2, <1>4, <1>7 DEF Taken, NothingDetached, HoldsBecomes, Typed
  <2> QED
    BY <1>1, <1>2, <1>3, <1>4, <2>1, <2>2, <2>3 DEF Taken, NothingDetached, PcBecomes, HoldsBecomes
<1>12. Stopped'
  <2>1. pc'["coordinator"] \in {"done", "read"} => pc["coordinator"] = pc'["coordinator"]
    BY <1>4, <1>9, ActorsAre DEF PcBecomes
  <2>2. pc'["coordinator"] \in {"done", "read"} /\ ~cut => pc'[a] # "drain"
    BY <1>1, <1>4, <2>1 DEF Stopped, PcBecomes
  <2>3. \A b \in Actors : pc'[b] # "bind" /\ (pc'[b] = "drain" => b = a)
    BY <1>4, <1>5, <1>9 DEF PcBecomes, Locked
  <2>4. pc["coordinator"] \in {"done", "read"} => pc'["coordinator"] \in {"done", "read"}
    BY <1>3, <1>4, ActorsAre DEF PcBecomes
  <2> QED
    BY <1>1, <1>2, <1>3, <2>2, <2>3, <2>4 DEF Stopped
<1>13. Restarts'
  <2>1. \A b \in Actors : pc'[b] # "bind"
    BY <1>4, <1>5, <1>9 DEF PcBecomes, Locked
  <2> QED
    BY <1>3, <2>1 DEF Restarts
<1>14. Agrees'
  <2>1. \A b \in Actors : Proper(seen'[b]) /\ seen'[b] = seen[b]
    BY <1>1, <1>2 DEF Agrees
  <2> HIDE DEF phase
  <2> QED
    BY <1>1, <1>2, <1>3, <1>4, <1>9, <2>1, RestartAgrees
<1>15. Reported'
  BY <1>1, <1>2, <1>3, <1>4, <1>9, ActorsAre DEF Reported, PcBecomes
<1> QED
  BY <1>8, <1>10, <1>11, <1>12, <1>13, <1>14, <1>15 DEF IInv

LEMMA DrainStep ==
  ASSUME IInv, NEW a \in Actors, Drain(a), Overlaps
  PROVE  IInv'
<1>1. /\ Typed /\ Gated /\ Taken /\ Stopped /\ Restarts /\ Agrees /\ Reported
  BY Given
<1>2. UNCHANGED <<saved, local, config, net, seen, loader, queue, gate, handle, addr,
                  running, exit, code, shutting, cut, first, final>>
  BY DEF Drain, settings, reloads, ending
<1>3. pc[a] = "drain" /\ pc[a] \in Locked
  BY DEF Drain, Locked
<1>4. PcBecomes(a, "check") /\ HoldsBecomes(a, 0)
  <2>1. "check" \in ActorPhases /\ 0 \in 0..MaxServers
    BY DEF ActorPhases, Locked
  <2>2. Goes(a, "check") /\ holds' = [holds EXCEPT ![a] = 0]
    BY DEF Drain
  <2> QED
    BY <1>1, <2>1, <2>2, PcTurns, HoldsTurns
<1>5. live' = live \ {holds[a]} /\ busy' = busy \ {holds[a]}
  BY DEF Drain, Gone
<1>6. gate = a /\ \A b \in Actors : b # a => pc[b] \notin Locked
  BY <1>1, <1>3, Alone
<1>7. overlapped' \in BOOLEAN
  BY <1>1, OverlapsOnly
<1>8. \A b \in Actors : b # a => holds[b] = 0 /\ pc[b] # "drain"
  BY <1>1, <1>6 DEF Taken, Locked
<1>9. live' = {} /\ handle = 0
  <2>1. handle = 0 /\ \A s \in live : s # 0
    BY <1>1, <1>3 DEF Taken, Typed
  <2>2. \A s \in live : s = holds[a]
    BY <1>1, <1>8, <2>1 DEF Taken, NothingDetached
  <2> QED
    BY <1>5, <2>1, <2>2
<1>10. Typed'
  BY <1>1, <1>2, <1>4, <1>5, <1>7 DEF Typed, PcBecomes, HoldsBecomes
<1>11. Gated'
  BY <1>1, <1>2, <1>3, <1>4, ActorsAre DEF Gated, PcBecomes, Locked
<1>12. Taken'
  BY <1>1, <1>2, <1>4, <1>8, <1>9 DEF Taken, NothingDetached, PcBecomes, HoldsBecomes
<1>13. Stopped'
  BY <1>1, <1>2, <1>3, <1>4, ActorsAre DEF Stopped, PcBecomes
<1>14. Restarts'
  <2>1. \A b \in Actors : pc'[b] # "bind"
    BY <1>4, <1>6 DEF PcBecomes, Locked
  <2> QED
    BY <1>2, <1>9, <2>1 DEF Restarts
<1>15. Agrees'
  <2>1. \A b \in Actors : Proper(seen'[b]) /\ seen'[b] = seen[b]
    BY <1>1, <1>2 DEF Agrees
  <2> QED
    BY <1>1, <1>2, <1>3, <1>4, <2>1, RestartAgrees
<1>16. Reported'
  BY <1>1, <1>2, <1>3, <1>4, ActorsAre DEF Reported, PcBecomes
<1> QED
  BY <1>10, <1>11, <1>12, <1>13, <1>14, <1>15, <1>16 DEF IInv

LEMMA RestIs ==
  ASSUME NEW a \in Actors
  PROVE  /\ Rest(a) \in {"ended", "done", "idle"} /\ Rest(a) \in ActorPhases /\ Rest(a) \notin Locked
         /\ Rest(a) = "ended" <=> a = "startup"
         /\ Rest(a) = "done" <=> a = "coordinator"
  BY ActorsAre DEF Rest, ActorPhases, Locked

LEMMA CheckStep ==
  ASSUME IInv, NEW a \in Actors, Check(a), Overlaps
  PROVE  IInv'
<1>1. /\ Typed /\ Gated /\ Taken /\ Stopped /\ Restarts /\ Agrees /\ Reported
  BY Given
<1>2. UNCHANGED <<saved, local, config, net, loader, queue, holds, handle, addr, live, busy,
                  exit, code, shutting, cut, first, final>>
  BY DEF Check, settings, reloads, ending
<1>3. pc[a] = "check" /\ pc[a] \in Locked
  BY DEF Check, Locked
<1>4. gate = a /\ \A b \in Actors : b # a => pc[b] \notin Locked
  BY <1>1, <1>3, Alone
<1>5. overlapped' \in BOOLEAN
  BY <1>1, OverlapsOnly
<1>6. handle = 0 /\ live = {} /\ \A b \in Actors : holds[b] = 0
  BY <1>1, <1>3, <1>4 DEF Taken, NothingDetached, Locked, Typed
<1>7. CASE Reopens(a)
  <2>1. /\ a # "coordinator" /\ ~shutting /\ config.on /\ config.addr # "none"
        /\ gate' = gate /\ running' = running
    BY <1>7 DEF Check, Reopens, Bound
  <2>2. PcBecomes(a, "bind") /\ SeenBecomes(a, config)
    <3>1. "bind" \in ActorPhases /\ config \in Setting
      BY <1>1 DEF ActorPhases, Locked, Typed
    <3>2. Goes(a, "bind") /\ seen' = [seen EXCEPT ![a] = config]
      BY <1>7 DEF Check
    <3> QED
      BY <1>1, <3>1, <3>2, PcTurns, SeenTurns
  <2>3. Typed'
    BY <1>1, <1>2, <1>5, <2>1, <2>2 DEF Typed, PcBecomes, SeenBecomes
  <2>4. Gated'
    BY <1>1, <1>2, <1>3, <2>1, <2>2, ActorsAre DEF Gated, PcBecomes, Locked
  <2>5. Taken'
    BY <1>1, <1>2, <1>6, <2>2 DEF Taken, NothingDetached, PcBecomes
  <2>6. pc["coordinator"] = "idle" /\ pc'["coordinator"] = "idle"
    BY <1>1, <2>1, <2>2, ActorsAre DEF Gated, PcBecomes
  <2>7. Stopped'
    BY <1>1, <1>2, <2>6 DEF Stopped
  <2>8. Restarts'
    BY <1>1, <1>2, <1>4, <1>6, <2>1, <2>2 DEF Restarts, PcBecomes, SeenBecomes, Locked
  <2>9. Agrees'
    <3>1. \A b \in Actors : Proper(seen'[b])
      BY <1>1, <2>2 DEF Agrees, SeenBecomes
    <3>2. \A b \in Actors : b # a => seen'[b] = seen[b]
      BY <2>2 DEF SeenBecomes
    <3> QED
      BY <1>1, <1>2, <1>3, <2>2, <3>1, <3>2, RestartAgrees
  <2>10. Reported'
    BY <1>1, <1>2, <2>6 DEF Reported
  <2> QED
    BY <2>3, <2>4, <2>5, <2>7, <2>8, <2>9, <2>10 DEF IInv
<1>8. CASE ~Reopens(a)
  <2>1. gate' = "free" /\ running' = FALSE
    BY <1>8 DEF Check, Leaves
  <2>2. PcBecomes(a, Rest(a)) /\ SeenBecomes(a, Off)
    <3>1. Goes(a, Rest(a)) /\ seen' = [seen EXCEPT ![a] = Off]
      BY <1>8 DEF Check, Leaves
    <3> QED
      BY <1>1, <3>1, RestIs, OffIs, PcTurns, SeenTurns
  <2>3. Typed'
    BY <1>1, <1>2, <1>5, <2>1, <2>2 DEF Typed, PcBecomes, SeenBecomes
  <2>4. Gated'
    <3>1. \A b \in Actors : pc'[b] \notin Locked
      BY <1>4, <2>2, RestIs DEF PcBecomes
    <3>2. pc'["coordinator"] # "idle" <=> pc["coordinator"] # "idle"
      BY <1>3, <2>2, RestIs, ActorsAre DEF PcBecomes
    <3> QED
      BY <1>1, <1>2, <1>3, <2>1, <2>2, <3>1, <3>2, RestIs, ActorsAre DEF Gated, PcBecomes, Locked
  <2>5. \A b \in Actors : pc'[b] \notin {"drain", "check", "bind", "stop"}
    BY <1>4, <2>2, RestIs DEF PcBecomes, Locked
  <2>6. Taken' /\ Restarts'
    BY <1>1, <1>2, <1>6, <2>5 DEF Taken, NothingDetached, Restarts
  <2>7. Stopped'
    <3>1. pc["coordinator"] \in {"done", "read"} => pc'["coordinator"] = pc["coordinator"]
      BY <1>3, <2>2, ActorsAre DEF PcBecomes
    <3> QED
      BY <1>1, <1>2, <1>6, <2>5, <3>1 DEF Stopped
  <2>8. Agrees'
    <3>1. \A b \in Actors : Proper(seen'[b])
      BY <1>1, <2>2, OffIs DEF Agrees, SeenBecomes, Proper
    <3>2. (\A b \in Actors : b # a => seen'[b] = seen[b]) /\ seen'[a] = Off
      BY <2>2 DEF SeenBecomes
    <3>3. Rest(a) \in {"drain", "check", "bind", "idle", "ended", "done"}
      BY RestIs
    <3> QED
      BY <1>1, <1>2, <1>3, <2>2, <3>1, <3>2, <3>3, RestartAgrees
  <2>9. Reported'
    BY <1>1, <1>2, <1>3, <2>2, RestIs, ActorsAre DEF Reported, PcBecomes
  <2> QED
    BY <2>3, <2>4, <2>6, <2>7, <2>8, <2>9 DEF IInv
<1> QED
  BY <1>7, <1>8

\* A listener's number is a new one, whatever the count of those before it.
LEMMA NumbersAre ==
  ASSUME Typed
  PROVE  Cardinality({t \in 1..MaxServers : addr[t] # "none"}) \in Nat
<1>1. IsFiniteSet(1..MaxServers)
  BY FS_Interval
<1>2. IsFiniteSet({t \in 1..MaxServers : addr[t] # "none"})
  BY <1>1, FS_Subset
<1> QED
  BY <1>2, FS_CardinalityType

LEMMA BindStep ==
  ASSUME IInv, NEW a \in Actors, Bind(a), Overlaps
  PROVE  IInv'
<1>1. /\ Typed /\ Gated /\ Taken /\ Stopped /\ Restarts /\ Agrees /\ Reported
  BY Given
<1>2. UNCHANGED <<saved, local, config, net, loader, queue, holds, busy,
                  exit, code, shutting, cut, first, final>>
  BY DEF Bind, settings, reloads, ending
<1>3. pc[a] = "bind" /\ pc[a] \in Locked
  BY DEF Bind, Locked
<1>4. gate = a /\ \A b \in Actors : b # a => pc[b] \notin Locked
  BY <1>1, <1>3, Alone
<1>5. overlapped' \in BOOLEAN
  BY <1>1, OverlapsOnly
<1>6. handle = 0 /\ live = {} /\ \A b \in Actors : holds[b] = 0
  BY <1>1, <1>3, <1>4 DEF Taken, NothingDetached, Locked, Typed
<1>7. gate' = "free" /\ PcBecomes(a, Rest(a)) /\ SeenBecomes(a, Off)
  <2>1. Goes(a, Rest(a)) /\ seen' = [seen EXCEPT ![a] = Off] /\ gate' = "free"
    BY DEF Bind, Leaves
  <2> QED
    BY <1>1, <2>1, RestIs, OffIs, PcTurns, SeenTurns
<1>8. /\ handle' \in 0..MaxServers /\ addr' \in [1..MaxServers -> Addrs \cup {"none"}]
      /\ live' \subseteq 1..MaxServers
      /\ \/ handle' = 0 /\ live' = {}
         \/ handle' # 0 /\ live' = {handle'} /\ addr'[handle'] = seen[a].addr
  <2> DEFINE s == Cardinality({t \in 1..MaxServers : addr[t] # "none"}) + 1
  <2>1. s \in Nat /\ s # 0
    BY <1>1, NumbersAre
  <2>2. \/ /\ s <= MaxServers /\ seen[a].addr = net
           /\ handle' = s /\ addr' = [addr EXCEPT ![s] = seen[a].addr]
           /\ live' = live \cup {s} /\ running' = TRUE
        \/ running' = FALSE /\ handle' = handle /\ addr' = addr /\ live' = live
    BY DEF Bind
  <2> HIDE DEF s
  <2>3. /\ handle = 0 /\ live = {} /\ seen[a].addr \in Addrs \cup {"none"}
        /\ addr \in [1..MaxServers -> Addrs \cup {"none"}] /\ MaxServers \in Nat
    BY <1>1, <1>6 DEF Typed, Setting
  <2>4. CASE /\ s <= MaxServers /\ handle' = s /\ live' = live \cup {s}
             /\ addr' = [addr EXCEPT ![s] = seen[a].addr] /\ running' = TRUE
    <3>1. s \in 1..MaxServers
      BY <2>1, <2>3, <2>4
    <3> QED
      BY <2>1, <2>3, <2>4, <3>1
  <2>5. CASE running' = FALSE /\ handle' = handle /\ addr' = addr /\ live' = live
    BY <2>3, <2>5
  <2> QED
    BY <2>2, <2>4, <2>5
<1>9. a # "coordinator" /\ pc'["coordinator"] = pc["coordinator"]
  BY <1>1, <1>3, <1>7, ActorsAre DEF Gated, PcBecomes
<1>10. \A b \in Actors : pc'[b] \notin Locked
  BY <1>4, <1>7, RestIs DEF PcBecomes
<1>11. Typed'
  BY <1>1, <1>2, <1>5, <1>6, <1>7, <1>8 DEF Typed, PcBecomes, SeenBecomes
<1>12. Gated'
  BY <1>1, <1>2, <1>3, <1>7, <1>9, <1>10, RestIs, ActorsAre DEF Gated, PcBecomes, Locked
<1>13. Taken'
  BY <1>1, <1>2, <1>6, <1>8, <1>10 DEF Taken, NothingDetached, Locked
<1>14. Stopped'
  BY <1>1, <1>2, <1>3, <1>9, <1>10 DEF Stopped, Locked
<1>15. Restarts'
  <2>1. Pending => Pending'
    BY <1>2, <1>3, <1>7, ActorsAre DEF Pending, PcBecomes
  <2>2. ~shutting /\ handle' # 0 => addr'[handle'] = Bound(config) \/ Pending
    BY <1>1, <1>3, <1>8 DEF Restarts, Bound
  <2>3. Bound(config)' = Bound(config)
    BY <1>2 DEF Bound
  <2>4. ~shutting' /\ handle' # 0 => addr'[handle'] = Bound(config)' \/ Pending'
    BY <1>2, <2>1, <2>2, <2>3
  <2>5. \A b \in Actors : pc'[b] # "bind"
    BY <1>10 DEF Locked
  <2> QED
    BY <2>4, <2>5 DEF Restarts
<1>16. Agrees'
  <2>1. \A b \in Actors : Proper(seen'[b])
    BY <1>1, <1>7, OffIs DEF Agrees, SeenBecomes, Proper
  <2>2. (\A b \in Actors : b # a => seen'[b] = seen[b]) /\ seen'[a] = Off
    BY <1>7 DEF SeenBecomes
  <2>3. Rest(a) \in {"drain", "check", "bind", "idle", "ended", "done"}
    BY RestIs
  <2> QED
    BY <1>1, <1>2, <1>3, <1>7, <2>1, <2>2, <2>3, RestartAgrees
<1>17. Reported'
  BY <1>1, <1>2, <1>9 DEF Reported
<1> QED
  BY <1>11, <1>12, <1>13, <1>14, <1>15, <1>16, <1>17 DEF IInv

-----------------------------------------------------------------------------
\* The watcher and the commands.

\* An actor that is not at the listener goes on, and nothing but its own phase and what
\* it has seen changes, besides the settings.
LEMMA QuietStep ==
  ASSUME IInv, NEW a \in Actors, NEW phase \in ActorPhases, PcBecomes(a, phase),
         UNCHANGED <<holds, handle, addr, live, busy, exit, code, shutting, cut, first, final>>,
         gate' \in Actors \cup {"free"}, seen' \in [Actors -> Setting], \A b \in Actors : b # a => seen'[b] = seen[b],
         {saved', config', loader'.got} \subseteq Setting, local' \in BOOLEAN, net' \in Addrs,
         loader' \in [at : {"idle", "changed", "loaded"}, got : Setting], queue' \in Nat,
         overlapped' \in BOOLEAN,
         pc[a] \notin {"drain", "check", "bind", "stop", "done", "read"},
         phase \notin {"drain", "check", "bind", "done", "read"},
         phase = "stop" => pc[a] \in Locked,
         Gated', Agrees',
         config' = config \/ phase = "stop" \/ Pending',
         Pending => Pending'
  PROVE  IInv'
<1>1. /\ Typed /\ Gated /\ Taken /\ Stopped /\ Restarts /\ Agrees /\ Reported
  BY Given
<1>2. Typed'
  BY <1>1 DEF Typed, PcBecomes
<1>3. \A b \in Actors : /\ pc'[b] \in {"drain", "check", "bind"} <=> pc[b] \in {"drain", "check", "bind"}
                        /\ pc'[b] \in {"drain", "check", "bind"} => pc'[b] = pc[b] /\ b # a
                        /\ pc[b] = "stop" => pc'[b] = "stop"
                        /\ pc'[b] \in {"done", "read"} <=> pc[b] \in {"done", "read"}
                        /\ pc'[b] \in {"done", "read"} => pc'[b] = pc[b]
  BY DEF PcBecomes
<1>4. Taken'
  BY <1>1, <1>3 DEF Taken, NothingDetached
<1>5. Stopped' /\ Reported'
  BY <1>1, <1>3, ActorsAre DEF Stopped, Reported
<1>6. Restarts'
  <2>1. \A b \in Actors : pc'[b] = "bind" => seen'[b] = seen[b] /\ pc[b] = "bind"
    BY <1>3
  <2>2. config' = config => Bound(config)' = Bound(config)
    BY DEF Bound
  <2>3. phase = "stop" => (\E b \in Actors : pc'[b] = "stop") /\ \A b \in Actors : pc'[b] # "bind"
    <3>1. SUFFICES ASSUME phase = "stop" PROVE \A b \in Actors : pc'[b] # "bind"
      BY DEF PcBecomes
    <3>2. pc[a] \in Locked
      BY <3>1
    <3> QED
      BY <1>1, <1>3, <3>2, Alone DEF Locked
  <2> QED
    BY <1>1, <1>3, <2>1, <2>2, <2>3 DEF Restarts
<1> QED
  BY <1>1, <1>2, <1>4, <1>5, <1>6 DEF IInv

LEMMA ObserveStep ==
  ASSUME IInv, Observe, Overlaps
  PROVE  IInv'
<1>1. /\ Typed /\ Gated /\ Taken /\ Stopped /\ Restarts /\ Agrees /\ Reported
  BY Given
<1> DEFINE w == "watcher"
<1>2. /\ UNCHANGED <<saved, local, config, net, loader, queue, gate, holds, handle, addr, live, busy,
                     running, exit, code, shutting, cut, first, final>>
      /\ pc[w] = "idle" /\ ~shutting /\ config.on
  BY DEF Observe, settings, reloads, servers, ending
<1>3. PcBecomes(w, "queued") /\ SeenBecomes(w, config)
  <2>1. "queued" \in ActorPhases /\ config \in Setting /\ w \in Actors
    <3>1. "queued" \in ActorPhases /\ w \in Actors
      BY ActorsAre DEF ActorPhases
    <3> QED
      BY <1>1, <3>1 DEF Typed
  <2>2. Goes(w, "queued") /\ seen' = [seen EXCEPT ![w] = config]
    BY DEF Observe
  <2> QED
    BY <1>1, <2>1, <2>2, PcTurns, SeenTurns
<1>4. /\ overlapped' \in BOOLEAN /\ (overlapped => overlapped')
      /\ loader'.at # "idle" /\ Sections' => overlapped'
  BY <1>1, OverlapsOnly
<1>5. Gated'
  BY <1>1, <1>2, <1>3, ActorsAre DEF Gated, PcBecomes, Locked
<1>6. config # Off
  BY <1>2, OffIs
<1>7. pc'["command"] = pc["command"] /\ seen'["command"] = seen["command"]
  BY <1>3, ActorsAre DEF PcBecomes, SeenBecomes
<1>8. pc'[w] = "queued" /\ seen'[w] = config
  BY <1>3 DEF PcBecomes, SeenBecomes
<1>9. Sections'
  BY <1>6, <1>8 DEF Sections
<1>10. Agrees'
  <2>1. \A a \in Actors : Proper(seen'[a])
    BY <1>1, <1>3 DEF Agrees, SeenBecomes
  <2>2. Target' = Target /\ Bound(config)' = Bound(config)
    BY <1>2 DEF Target, Bound
  <2>3. ~overlapped' => loader.at = "idle" /\ ~overlapped
    BY <1>2, <1>4, <1>9
  <2>4. Proper(saved)' /\ Proper(config)' /\ Proper(loader.got)'
    BY <1>1, <1>2 DEF Agrees, Proper
  <2> QED
    BY <1>1, <1>2, <1>4, <1>7, <1>8, <2>1, <2>2, <2>3, <2>4 DEF Agrees, Moved, Proper
<1>11. /\ seen' \in [Actors -> Setting] /\ w \in Actors /\ "queued" \in ActorPhases
       /\ \A b \in Actors : b # w => seen'[b] = seen[b]
  BY <1>3, ActorsAre DEF SeenBecomes, ActorPhases
<1>12. /\ {saved', config', loader'.got} \subseteq Setting /\ local' \in BOOLEAN /\ net' \in Addrs
       /\ loader' \in [at : {"idle", "changed", "loaded"}, got : Setting] /\ queue' \in Nat
       /\ gate' \in Actors \cup {"free"}
  BY <1>1, <1>2 DEF Typed
<1>13. Pending => Pending'
  BY <1>2, <1>3, ActorsAre DEF Pending, PcBecomes
<1> QED
  BY <1>2, <1>3, <1>4, <1>5, <1>10, <1>11, <1>12, <1>13, QuietStep

\* A step that only sends an actor to the gate, or lets it pass.
LEMMA TurnStep ==
  ASSUME IInv, Overlaps, NEW a \in Actors, NEW phase \in {"queued", "ended"}, Goes(a, phase),
         UNCHANGED <<settings, loader, gate, holds, servers, exit, code, shutting, cut, first, final>>,
         pc[a] \in {"idle", "join"}, phase = "ended" => a = "watcher" /\ shutting,
         pc[a] = "join" => a = "coordinator", a # "startup",
         a = "coordinator" => pc[a] = "join",
         seen' \in [Actors -> Setting], \A b \in Actors : b # a => seen'[b] = seen[b],
         Proper(seen'[a]), a = "watcher" => seen'[a] = seen[a],
         queue' \in Nat, queue' = queue \/ Pending'
  PROVE  IInv'
<1>1. /\ Typed /\ Gated /\ Taken /\ Stopped /\ Restarts /\ Agrees /\ Reported
  BY Given
<1>2. UNCHANGED <<saved, local, config, net, loader, gate, holds, handle, addr, live, busy,
                  running, exit, code, shutting, cut, first, final>>
  BY DEF settings, servers
<1>3. phase \in ActorPhases /\ phase \notin Locked /\ pc[a] \notin Locked
  BY DEF ActorPhases, Locked
<1>4. PcBecomes(a, phase)
  BY <1>1, <1>3, PcTurns
<1>5. overlapped' \in BOOLEAN
  BY <1>1, OverlapsOnly
<1>6. Gated'
  BY <1>1, <1>2, <1>3, <1>4, ActorsAre DEF Gated, PcBecomes, Locked
<1>7. Agrees'
  <2>1. /\ pc'["watcher"] = pc["watcher"]
           \/ (pc["watcher"] = "idle" /\ pc'["watcher"] = "queued")
           \/ (pc["watcher"] = "idle" /\ pc'["watcher"] = "ended")
        /\ seen'["watcher"] = seen["watcher"]
    BY <1>4, ActorsAre DEF PcBecomes
  <2>2. /\ pc'["command"] = "saved" <=> pc["command"] = "saved"
        /\ pc'["command"] = "saved" => seen'["command"] = seen["command"]
    BY <1>4, ActorsAre DEF PcBecomes
  <2>3. \A b \in Actors : Proper(seen'[b])
    BY <1>1 DEF Agrees
  <2>4. pc'["watcher"] = "idle" => seen'["watcher"] = Off
    BY <1>1, <2>1 DEF Agrees
  <2>5. pc'["watcher"] \in {"recheck", "saved"} => seen'["watcher"] # Off
    BY <1>1, <2>1 DEF Agrees
  <2>6. /\ pc'["watcher"] = "saved" <=> pc["watcher"] = "saved"
        /\ pc'["watcher"] \in {"queued", "recheck", "saved"} =>
             pc["watcher"] \in {"idle", "queued", "recheck", "saved"}
    BY <2>1
  <2> QED
    BY <1>1, <1>2, <2>1, <2>2, <2>3, <2>4, <2>5, <2>6, AgreesKept
<1>8. /\ {saved', config', loader'.got} \subseteq Setting /\ local' \in BOOLEAN /\ net' \in Addrs
      /\ loader' \in [at : {"idle", "changed", "loaded"}, got : Setting]
      /\ gate' \in Actors \cup {"free"}
  BY <1>1, <1>2 DEF Typed
<1>9. Pending => Pending'
  BY <1>4, ActorsAre DEF Pending, PcBecomes
<1>10. /\ pc[a] \notin {"drain", "check", "bind", "stop", "done", "read"}
       /\ phase \notin {"drain", "check", "bind", "done", "read"} /\ phase # "stop"
  OBVIOUS
<1> QED
  BY <1>2, <1>3, <1>4, <1>5, <1>6, <1>7, <1>8, <1>9, <1>10, QuietStep

LEMMA RetryServerStep ==
  ASSUME IInv, RetryServer, Overlaps
  PROVE  IInv'
<1>1. Typed /\ Agrees
  BY Given
<1>2. "watcher" \in Actors /\ "watcher" # "startup" /\ "watcher" # "coordinator" /\ Goes("watcher", "queued")
      /\ pc["watcher"] = "idle"
  BY ActorsAre DEF RetryServer
<1>3. /\ UNCHANGED <<settings, loader, gate, holds, servers, exit, code, shutting, cut, first, final>>
      /\ seen' = seen /\ queue' = queue
  BY DEF RetryServer, reloads, ending
<1>4. seen' \in [Actors -> Setting] /\ Proper(seen'["watcher"]) /\ queue' \in Nat
  BY <1>1, <1>2, <1>3 DEF Typed, Agrees
<1> QED
  BY <1>2, <1>3, <1>4, TurnStep

LEMMA StopWatchingStep ==
  ASSUME IInv, StopWatching, Overlaps
  PROVE  IInv'
<1>1. Typed /\ Agrees
  BY Given
<1>2. "watcher" \in Actors /\ "watcher" # "startup" /\ "watcher" # "coordinator" /\ Goes("watcher", "ended")
      /\ pc["watcher"] = "idle" /\ shutting
  BY ActorsAre DEF StopWatching
<1>3. /\ UNCHANGED <<settings, loader, gate, holds, servers, exit, code, shutting, cut, first, final>>
      /\ seen' = seen /\ queue' = queue
  BY DEF StopWatching, reloads, ending
<1>4. seen' \in [Actors -> Setting] /\ Proper(seen'["watcher"]) /\ queue' \in Nat
  BY <1>1, <1>2, <1>3 DEF Typed, Agrees
<1> QED
  BY <1>2, <1>3, <1>4, TurnStep

LEMMA ConfigureStep ==
  ASSUME IInv, NEW s \in Setting, Configure(s), Overlaps
  PROVE  IInv'
<1>1. Typed /\ Agrees
  BY Given
<1>2. "command" \in Actors /\ "command" # "startup" /\ "command" # "coordinator" /\ Goes("command", "queued")
      /\ pc["command"] = "idle" /\ "command" # "watcher"
  BY ActorsAre DEF Configure
<1>3. /\ UNCHANGED <<settings, loader, gate, holds, servers, exit, code, shutting, cut, first, final>>
      /\ seen' = [seen EXCEPT !["command"] = s] /\ queue' = queue
  BY DEF Configure, reloads, ending
<1>4. SeenBecomes("command", s) /\ Proper(s)
  BY <1>1, <1>2, <1>3, SeenTurns DEF Configure, Proper
<1>5. /\ seen' \in [Actors -> Setting] /\ Proper(seen'["command"]) /\ queue' \in Nat
      /\ \A b \in Actors : b # "command" => seen'[b] = seen[b]
  BY <1>1, <1>3, <1>4 DEF Typed, SeenBecomes
<1> QED
  BY <1>2, <1>3, <1>5, TurnStep

LEMMA SpawnedStep ==
  ASSUME IInv, Spawned, Overlaps
  PROVE  IInv'
<1>1. Typed /\ Agrees
  BY Given
<1>2. "reload" \in Actors /\ "reload" # "startup" /\ "reload" # "coordinator" /\ Goes("reload", "queued")
      /\ pc["reload"] = "idle" /\ "reload" # "watcher"
  BY ActorsAre DEF Spawned
<1>3. /\ UNCHANGED <<settings, loader, gate, holds, servers, exit, code, shutting, cut, first, final>>
      /\ seen' = seen /\ queue' = queue - 1 /\ queue > 0
  BY DEF Spawned, ending
<1>4. seen' \in [Actors -> Setting] /\ Proper(seen'["reload"]) /\ queue' \in Nat
  BY <1>1, <1>2, <1>3 DEF Typed, Agrees
<1>5. "queued" \in ActorPhases
  BY DEF ActorPhases
<1>6. Pending'
  BY <1>1, <1>2, <1>5, PcTurns DEF Pending, PcBecomes
<1> QED
  BY <1>2, <1>3, <1>4, <1>6, TurnStep

LEMMA JoinedStep ==
  ASSUME IInv, Joined, Overlaps
  PROVE  IInv'
<1>1. Typed /\ Agrees
  BY Given
<1>2. "coordinator" \in Actors /\ "coordinator" # "startup" /\ Goes("coordinator", "queued")
      /\ pc["coordinator"] = "join" /\ "coordinator" # "watcher"
  BY ActorsAre DEF Joined
<1>3. /\ UNCHANGED <<settings, loader, gate, holds, servers, exit, code, shutting, cut, first, final>>
      /\ seen' = seen /\ queue' = queue
  BY DEF Joined, reloads, ending
<1>4. seen' \in [Actors -> Setting] /\ Proper(seen'["coordinator"]) /\ queue' \in Nat
  BY <1>1, <1>2, <1>3 DEF Typed, Agrees
<1> QED
  BY <1>2, <1>3, <1>4, TurnStep

LEMMA RecheckStep ==
  ASSUME IInv, Recheck, Overlaps
  PROVE  IInv'
<1> DEFINE w == "watcher"
<1>1. /\ Typed /\ Gated /\ Taken /\ Stopped /\ Restarts /\ Agrees /\ Reported
  BY Given
<1>2. /\ UNCHANGED <<local, config, net, loader, queue, holds, handle, addr, live, busy,
                     running, exit, code, shutting, cut, first, final>>
      /\ pc[w] = "recheck"
  BY DEF Recheck, reloads, servers, ending
<1>3. pc[w] \in Locked /\ w \in Actors /\ gate = w /\ \A b \in Actors : b # w => pc[b] \notin Locked
  <2>1. pc[w] \in Locked /\ w \in Actors
    BY <1>2, ActorsAre DEF Locked
  <2> QED
    BY <1>1, <2>1, Alone
<1>4. /\ overlapped' \in BOOLEAN /\ (overlapped => overlapped')
      /\ loader'.at # "idle" /\ Sections' => overlapped'
  BY <1>1, OverlapsOnly
<1>5. /\ {config', loader'.got} \subseteq Setting /\ local' \in BOOLEAN /\ net' \in Addrs
      /\ loader' \in [at : {"idle", "changed", "loaded"}, got : Setting] /\ queue' \in Nat
  BY <1>1, <1>2 DEF Typed
<1>6. Moved /\ seen[w] # Off /\ seen[w].on /\ Proper(seen[w]) /\ seen[w] \in Setting
  BY <1>1, <1>2, <1>3 DEF Moved, Agrees, Typed
<1>7. pc["command"] # "saved"
  BY <1>3, ActorsAre DEF Locked
<1>8. CASE config.addr = seen[w].addr /\ StillMine
  <2> DEFINE c == [seen[w] EXCEPT !.addr = net]
             d == [saved EXCEPT !.addr = net]
  <2>1. /\ c \in Setting /\ d \in Setting /\ c.addr = net /\ c.on = seen[w].on
        /\ d.addr = net /\ d.on = saved.on /\ net \in Addrs
    BY <1>1, <1>6 DEF Typed, Setting
  <2>2. /\ saved' = d /\ Goes(w, "saved") /\ gate' = gate
        /\ seen' = [seen EXCEPT ![w].addr = net] /\ saved.on
    BY <1>8 DEF Recheck, StillMine
  <2>3. seen' = [seen EXCEPT ![w] = c]
    BY <1>1, <1>3, <2>2 DEF Typed
  <2> HIDE DEF c, d
  <2>4. "saved" \in ActorPhases
    BY DEF ActorPhases, Locked
  <2>5. PcBecomes(w, "saved") /\ SeenBecomes(w, c)
    BY <1>1, <1>3, <2>1, <2>2, <2>3, <2>4, PcTurns, SeenTurns
  <2>6. Gated'
    BY <1>1, <1>2, <1>3, <2>2, <2>5, ActorsAre DEF Gated, PcBecomes, Locked
  <2>7. c # Off /\ c.on /\ Proper(c) /\ Proper(d)
    BY <1>6, <2>1, OffIs DEF Proper
  <2>8. /\ pc'[w] = "saved" /\ seen'[w] = c /\ pc'["command"] # "saved"
    BY <1>7, <2>5, ActorsAre DEF PcBecomes, SeenBecomes
  <2>9. Sections'
    BY <2>7, <2>8 DEF Sections
  <2>10. Agrees'
    <3>1. ~overlapped' => loader.at = "idle" /\ ~overlapped
      BY <1>2, <1>4, <2>9
    <3>2. Proper(saved)' /\ Proper(config)' /\ Proper(loader.got)' /\ \A a \in Actors : Proper(seen'[a])
      BY <1>1, <1>2, <2>2, <2>5, <2>7 DEF Agrees, Proper, SeenBecomes
    <3> QED
      BY <1>1, <1>2, <1>4, <1>6, <2>1, <2>2, <2>7, <2>8, <3>1, <3>2 DEF Agrees, Moved, Proper
  <2>11. /\ seen' \in [Actors -> Setting] /\ \A b \in Actors : b # w => seen'[b] = seen[b]
         /\ {saved', config', loader'.got} \subseteq Setting /\ gate' \in Actors \cup {"free"}
    BY <1>3, <1>5, <2>1, <2>2, <2>5 DEF SeenBecomes
  <2>12. Pending => Pending'
    BY <1>2, <2>5, ActorsAre DEF Pending, PcBecomes
  <2> QED
    BY <1>2, <1>3, <1>4, <1>5, <2>4, <2>5, <2>6, <2>10, <2>11, <2>12, QuietStep
<1>9. CASE ~(config.addr = seen[w].addr /\ StillMine)
  <2>1. /\ saved' = saved /\ Goes(w, "idle") /\ gate' = "free" /\ seen' = [seen EXCEPT ![w] = Off]
    BY <1>9 DEF Recheck, Leaves, Rest
  <2>2. "idle" \in ActorPhases /\ "idle" \notin Locked
    BY DEF ActorPhases, Locked
  <2>3. PcBecomes(w, "idle") /\ SeenBecomes(w, Off)
    BY <1>1, <1>3, <2>1, <2>2, OffIs, PcTurns, SeenTurns
  <2>4. Gated'
    BY <1>1, <1>2, <1>3, <2>1, <2>2, <2>3, ActorsAre DEF Gated, PcBecomes, Locked
  <2>5. /\ pc'[w] = "idle" /\ seen'[w] = Off /\ pc'["command"] = pc["command"]
    BY <2>3, ActorsAre DEF PcBecomes, SeenBecomes
  <2>6. \A a \in Actors : Proper(seen'[a])
    BY <1>1, <2>3, OffIs DEF Agrees, SeenBecomes, Proper
  <2>7. Agrees'
    BY <1>1, <1>2, <1>7, <2>1, <2>5, <2>6, AgreesKept
  <2>8. /\ seen' \in [Actors -> Setting] /\ \A b \in Actors : b # w => seen'[b] = seen[b]
        /\ {saved', config', loader'.got} \subseteq Setting /\ gate' \in Actors \cup {"free"}
    BY <1>1, <1>5, <2>1, <2>3 DEF SeenBecomes, Typed
  <2>9. Pending => Pending'
    BY <1>2, <2>3, ActorsAre DEF Pending, PcBecomes
  <2>10. "idle" \notin {"drain", "check", "bind", "done", "read"} /\ "idle" # "stop"
    OBVIOUS
  <2> QED
    BY <1>2, <1>3, <1>4, <1>5, <2>2, <2>3, <2>4, <2>7, <2>8, <2>9, <2>10, QuietStep
<1> QED
  BY <1>8, <1>9

\* The configuration of the runtime follows the database.
LEMMA AppliesStep ==
  ASSUME IInv, NEW a \in {"watcher", "command"}, Applies(a), Overlaps
  PROVE  IInv'
<1>1. /\ Typed /\ Gated /\ Taken /\ Stopped /\ Restarts /\ Agrees /\ Reported
  BY Given
<1>2. /\ UNCHANGED <<saved, local, net, seen, loader, queue, gate, holds, handle, addr, live, busy,
                     running, exit, code, shutting, cut, first, final>>
      /\ pc[a] = "saved" /\ config' = seen[a]
  BY DEF Applies, reloads, servers, ending
<1>3. pc[a] \in Locked /\ a \in Actors /\ gate = a /\ \A b \in Actors : b # a => pc[b] \notin Locked
  <2>1. pc[a] \in Locked /\ a \in Actors
    BY <1>2, ActorsAre DEF Locked
  <2> QED
    BY <1>1, <2>1, Alone
<1>4. /\ overlapped' \in BOOLEAN /\ (overlapped => overlapped')
      /\ loader'.at # "idle" /\ Sections' => overlapped'
  BY <1>1, OverlapsOnly
<1>5. PcBecomes(a, "stop") /\ "stop" \in ActorPhases
  <2>1. "stop" \in ActorPhases /\ Goes(a, "stop")
    BY DEF ActorPhases, Locked, Applies
  <2> QED
    BY <1>1, <1>3, <2>1, PcTurns
<1>6. /\ {saved', config', loader'.got} \subseteq Setting /\ local' \in BOOLEAN /\ net' \in Addrs
      /\ loader' \in [at : {"idle", "changed", "loaded"}, got : Setting] /\ queue' \in Nat
      /\ gate' \in Actors \cup {"free"} /\ seen' \in [Actors -> Setting] /\ seen[a] \in Setting
  BY <1>1, <1>2, <1>3 DEF Typed
<1>7. Gated'
  BY <1>1, <1>2, <1>3, <1>5, ActorsAre DEF Gated, PcBecomes, Locked
<1>8. \A b \in {"watcher", "command"} : pc'[b] # "saved"
  BY <1>3, <1>5, ActorsAre DEF PcBecomes, Locked
<1>9. loader.at # "idle" => overlapped
  <2>1. Sections
    BY <1>1, <1>2 DEF Agrees, Sections
  <2> QED
    BY <1>1, <2>1 DEF Agrees
<1>10. ~shutting /\ ~overlapped => Bound(seen[a]) = Target /\ (seen[a].on => local)
  <2>1. CASE a = "watcher"
    <3>1. Moved
      BY <1>1, <1>2, <2>1 DEF Moved, Agrees
    <3> QED
      BY <1>1, <1>2, <2>1, <3>1 DEF Agrees, Target, Bound
  <2>2. CASE a = "command"
    BY <1>1, <1>2, <1>6, <2>2, SettingsAre DEF Agrees, Target, Bound
  <2> QED
    BY <2>1, <2>2
<1>11. Agrees'
  <2>1. Proper(saved)' /\ Proper(config)' /\ Proper(loader.got)' /\ \A b \in Actors : Proper(seen'[b])
    BY <1>1, <1>2, <1>3 DEF Agrees, Proper
  <2>2. Target' = Target /\ Bound(config)' = Bound(seen[a])
    BY <1>2 DEF Target, Bound
  <2>3. Moved' => Moved
    BY <1>2, <1>5, ActorsAre DEF Moved, PcBecomes
  <2>4. /\ pc'["watcher"] = "idle" => pc["watcher"] = "idle"
        /\ pc'["watcher"] \in {"recheck", "saved"} => pc["watcher"] \in {"recheck", "saved"}
    BY <1>5, ActorsAre DEF PcBecomes
  <2> QED
    BY <1>1, <1>2, <1>4, <1>8, <1>9, <1>10, <2>1, <2>2, <2>3, <2>4 DEF Agrees, Proper
<1>12. Pending => Pending'
  BY <1>2, <1>5, ActorsAre DEF Pending, PcBecomes
<1> QED
  BY <1>2, <1>3, <1>4, <1>5, <1>6, <1>7, <1>11, <1>12, QuietStep

LEMMA SavesConfigStep ==
  ASSUME IInv, SavesConfig, Overlaps
  PROVE  IInv'
<1> DEFINE a == "command"
           s == seen[a]
<1>1. /\ Typed /\ Gated /\ Taken /\ Stopped /\ Restarts /\ Agrees /\ Reported
  BY Given
<1>2. /\ UNCHANGED <<local, net, seen, loader, queue, holds, handle, addr, live, busy,
                     running, exit, code, shutting, cut, first, final>>
      /\ pc[a] = "locked"
  BY DEF SavesConfig, reloads, servers, ending
<1>3. pc[a] \in Locked /\ a \in Actors /\ gate = a /\ \A b \in Actors : b # a => pc[b] \notin Locked
  <2>1. pc[a] \in Locked /\ a \in Actors
    BY <1>2, ActorsAre DEF Locked
  <2> QED
    BY <1>1, <2>1, Alone
<1>4. /\ overlapped' \in BOOLEAN /\ (overlapped => overlapped')
      /\ loader'.at # "idle" /\ Sections' => overlapped'
  BY <1>1, OverlapsOnly
<1>5. /\ loader'.got \in Setting /\ local' \in BOOLEAN /\ net' \in Addrs
      /\ loader' \in [at : {"idle", "changed", "loaded"}, got : Setting] /\ queue' \in Nat
      /\ seen' \in [Actors -> Setting] /\ s \in Setting /\ {saved, config} \subseteq Setting
  BY <1>1, <1>2, <1>3 DEF Typed
<1>6. pc["watcher"] # "saved" /\ pc["watcher"] # "recheck"
  BY <1>3, ActorsAre DEF Locked
<1>7. \E phase \in {"stop", "idle", "saved"} :
        /\ Goes(a, phase) /\ gate' = IF phase = "idle" THEN "free" ELSE gate
        /\ phase = "stop" => s.on /\ local /\ loader.at = "idle" /\ saved' = s /\ config' = s
        /\ phase = "idle" => saved' = saved /\ config' = config
        /\ phase = "saved" => ~s.on /\ saved' = s /\ config' = config
  <2>1. CASE s.on /\ local /\ loader.at = "idle" /\ saved' = s /\ config' = s /\ Goes(a, "stop")
             /\ UNCHANGED gate
    BY <2>1
  <2>2. CASE s.on /\ ~local /\ loader.at = "idle" /\ Leaves(a) /\ UNCHANGED <<saved, config>>
    BY <2>2 DEF Leaves, Rest
  <2>3. CASE ~s.on /\ saved' = s /\ Goes(a, "saved") /\ UNCHANGED <<config, gate>>
    BY <2>3
  <2> QED
    BY <2>1, <2>2, <2>3 DEF SavesConfig
<1>8. PICK phase \in {"stop", "idle", "saved"} :
        /\ Goes(a, phase) /\ gate' = IF phase = "idle" THEN "free" ELSE gate
        /\ phase = "stop" => s.on /\ local /\ loader.at = "idle" /\ saved' = s /\ config' = s
        /\ phase = "idle" => saved' = saved /\ config' = config
        /\ phase = "saved" => ~s.on /\ saved' = s /\ config' = config
  BY <1>7
<1>9. phase \in ActorPhases /\ (phase \in Locked <=> phase # "idle")
  BY DEF ActorPhases, Locked
<1>10. PcBecomes(a, phase)
  BY <1>1, <1>3, <1>8, <1>9, PcTurns
<1>11. Gated'
  BY <1>1, <1>2, <1>3, <1>8, <1>9, <1>10, ActorsAre DEF Gated, PcBecomes, Locked
<1>12. {saved', config', loader'.got} \subseteq Setting /\ gate' \in Actors \cup {"free"}
  BY <1>3, <1>5, <1>8
<1>13. Agrees'
  <2>1. Proper(s) /\ Proper(saved) /\ Proper(config)
    BY <1>1, <1>3 DEF Agrees
  <2>2. Proper(saved') /\ Proper(config')
    BY <1>8, <2>1
  <2>3. Proper(saved)' /\ Proper(config)' /\ Proper(loader.got)' /\ \A b \in Actors : Proper(seen'[b])
    BY <1>1, <1>2, <2>2 DEF Agrees, Proper
  <2>4. pc'["watcher"] = pc["watcher"] /\ pc'[a] = phase
    BY <1>10, ActorsAre DEF PcBecomes
  <2>5. Moved' = Moved
    BY <1>2, <2>4 DEF Moved
  <2>6. Sections' <=> Moved \/ phase = "saved"
    BY <1>2, <2>4 DEF Sections, Moved
  <2>7. Sections => Moved
    BY <1>2 DEF Sections, Moved
  <2>8. CASE phase = "stop"
    <3>1. Bound(config)' = Target' /\ local'
      BY <1>2, <1>8, <2>8 DEF Bound, Target
    <3> QED
      BY <1>1, <1>2, <1>4, <1>6, <1>8, <2>3, <2>4, <2>5, <2>6, <2>8, <3>1 DEF Agrees, Proper
  <2>9. CASE phase = "idle"
    <3>1. Bound(config)' = Bound(config) /\ Target' = Target
      BY <1>2, <1>8, <2>9 DEF Bound, Target
    <3> QED
      BY <1>1, <1>2, <1>4, <1>6, <1>8, <2>3, <2>4, <2>5, <2>6, <2>9, <3>1 DEF Agrees, Proper
  <2>10. CASE phase = "saved"
    <3>1. ~overlapped' => loader.at = "idle" /\ ~overlapped
      BY <1>2, <1>4, <2>6, <2>10
    <3>2. ~saved'.on /\ ~seen'[a].on
      BY <1>2, <1>8, <2>10
    <3> QED
      BY <1>1, <1>2, <1>4, <1>6, <1>8, <2>3, <2>4, <2>5, <2>10, <3>1, <3>2 DEF Agrees, Proper
  <2> QED
    BY <2>8, <2>9, <2>10
<1>14. Pending => Pending'
  BY <1>2, <1>10, ActorsAre DEF Pending, PcBecomes
<1>15. /\ phase = "stop" => pc[a] \in Locked
       /\ config' = config \/ phase = "stop"
       /\ phase \notin {"drain", "check", "bind", "done", "read"}
       /\ pc[a] \notin {"drain", "check", "bind", "stop", "done", "read"}
  BY <1>2, <1>3, <1>8
<1> HIDE DEF a, s
<1> QED
  BY <1>2, <1>3, <1>4, <1>5, <1>9, <1>10, <1>11, <1>12, <1>13, <1>14, <1>15, QuietStep

-----------------------------------------------------------------------------
\* The library and the network change; no actor moves.

LEMMA SettingsStep ==
  ASSUME IInv,
         UNCHANGED <<pc, seen, gate, holds, handle, addr, live, busy, exit, code, shutting,
                     cut, first, final>>,
         {saved', config', loader'.got} \subseteq Setting, local' \in BOOLEAN, net' \in Addrs,
         loader' \in [at : {"idle", "changed", "loaded"}, got : Setting], queue' \in Nat,
         overlapped' \in BOOLEAN, Agrees',
         config' = config \/ Pending', Pending => Pending'
  PROVE  IInv'
<1>1. /\ Typed /\ Gated /\ Taken /\ Stopped /\ Restarts /\ Agrees /\ Reported
  BY Given
<1>2. Typed' /\ Gated' /\ Taken' /\ Stopped' /\ Reported'
  BY <1>1 DEF Typed, Gated, Taken, NothingDetached, Stopped, Reported
<1>3. Restarts'
  <2>1. config' = config => Bound(config)' = Bound(config)
    BY DEF Bound
  <2> QED
    BY <1>1, <2>1 DEF Restarts
<1> QED
  BY <1>1, <1>2, <1>3 DEF IInv

LEMMA MoveStep ==
  ASSUME IInv, NEW n \in Addrs, Move(n), Overlaps
  PROVE  IInv'
<1>1. Typed /\ Agrees
  BY Given
<1>2. /\ UNCHANGED <<saved, local, config, pc, seen, gate, holds, loader, queue, handle, addr,
                     live, busy, exit, code, shutting, cut, first, final>>
      /\ net' \in Addrs
  BY DEF Move, actors, reloads, servers, ending
<1>3. overlapped' \in BOOLEAN
  BY <1>1, OverlapsOnly
<1>4. Agrees'
  <2>1. /\ \A a \in Actors : Proper(seen'[a])
        /\ pc'["watcher"] = "idle" => seen'["watcher"] = Off
        /\ pc'["watcher"] \in {"recheck", "saved"} => seen'["watcher"] # Off
    BY <1>1, <1>2 DEF Agrees
  <2> QED
    BY <1>1, <1>2, <2>1, AgreesKept
<1>5. Pending' = Pending
  BY <1>2 DEF Pending
<1> QED
  BY <1>1, <1>2, <1>3, <1>4, <1>5, SettingsStep DEF Typed

LEMMA ChangeLibraryStep ==
  ASSUME IInv, ChangeLibrary, Overlaps
  PROVE  IInv'
<1>1. Typed /\ Agrees
  BY Given
<1>2. /\ UNCHANGED <<config, net, pc, seen, gate, holds, queue, handle, addr,
                     live, busy, exit, code, shutting, cut, first, final>>
      /\ loader' = [loader EXCEPT !.at = "changed"]
      /\ saved' \in {Off, saved} /\ local' \in {TRUE, ~local}
  BY DEF ChangeLibrary, actors, servers, ending
<1>3. /\ loader' \in [at : {"idle", "changed", "loaded"}, got : Setting]
      /\ loader'.at = "changed" /\ loader'.got = loader.got
      /\ local' \in BOOLEAN /\ {saved', config', loader'.got} \subseteq Setting
      /\ net' \in Addrs /\ queue' \in Nat
  BY <1>1, <1>2, OffIs DEF Typed
<1>4. /\ overlapped' \in BOOLEAN /\ (overlapped => overlapped')
      /\ loader'.at # "idle" /\ Sections' => overlapped'
  BY <1>1, OverlapsOnly
<1>5. Agrees'
  <2>1. Proper(saved)' /\ Proper(config)' /\ Proper(loader.got)' /\ \A a \in Actors : Proper(seen'[a])
    BY <1>1, <1>2, <1>3, OffIs DEF Agrees, Proper
  <2>2. ~overlapped' => ~Moved' /\ pc'["watcher"] # "saved" /\ pc'["command"] # "saved"
    BY <1>1, <1>2, <1>3, <1>4 DEF Sections, Moved, Agrees
  <2>3. Moved' => seen'["watcher"].on
    BY <1>1, <1>2 DEF Agrees, Moved
  <2> QED
    BY <1>1, <1>2, <1>3, <1>4, <2>1, <2>2, <2>3 DEF Agrees, Proper
<1>6. Pending' = Pending
  BY <1>2 DEF Pending
<1> QED
  BY <1>2, <1>3, <1>4, <1>5, <1>6, SettingsStep

LEMMA LoadStep ==
  ASSUME IInv, Load, Overlaps
  PROVE  IInv'
<1>1. Typed /\ Agrees
  BY Given
<1>2. /\ UNCHANGED <<saved, local, config, net, pc, seen, gate, holds, queue, handle, addr,
                     live, busy, exit, code, shutting, cut, first, final>>
      /\ loader' = [at |-> "loaded", got |-> Loaded] /\ loader.at = "changed"
  BY DEF Load, settings, actors, servers, ending
<1>3. saved \in Setting /\ local \in BOOLEAN
  BY <1>1 DEF Typed
<1>4. Loaded \in Setting /\ Loaded.on = (saved.on /\ local) /\ Loaded.addr = saved.addr
  BY <1>3 DEF Loaded, Setting
<1>5. Bound(Loaded) = Target /\ Proper(Loaded)
  BY <1>1, <1>3, <1>4, SettingsAre DEF Bound, Target, Proper, Agrees
<1>6. /\ loader' \in [at : {"idle", "changed", "loaded"}, got : Setting]
      /\ loader'.at = "loaded" /\ loader'.got = Loaded
      /\ local' \in BOOLEAN /\ {saved', config', loader'.got} \subseteq Setting
      /\ net' \in Addrs /\ queue' \in Nat
  BY <1>1, <1>2, <1>4 DEF Typed
<1>7. /\ overlapped' \in BOOLEAN /\ (overlapped => overlapped')
      /\ loader'.at # "idle" /\ Sections' => overlapped'
  BY <1>1, OverlapsOnly
<1>8. Agrees'
  <2>1. Proper(saved)' /\ Proper(config)' /\ \A a \in Actors : Proper(seen'[a])
    BY <1>1, <1>2 DEF Agrees, Proper
  <2>2. Proper(loader'.got) /\ Bound(loader'.got) = Target
    BY <1>5, <1>6
  <2>3. Proper(loader.got)' /\ Bound(loader.got)' = Target'
    BY <1>2, <2>2 DEF Proper, Bound, Target
  <2>4. ~overlapped' => ~Moved' /\ pc'["watcher"] # "saved" /\ pc'["command"] # "saved"
    BY <1>1, <1>2, <1>6, <1>7 DEF Sections, Moved, Agrees
  <2>5. Moved' => seen'["watcher"].on
    BY <1>1, <1>2 DEF Agrees, Moved
  <2> QED
    BY <1>1, <1>2, <1>6, <1>7, <2>1, <2>3, <2>4, <2>5 DEF Agrees, Proper
<1>9. Pending' = Pending
  BY <1>2 DEF Pending
<1> QED
  BY <1>2, <1>6, <1>7, <1>8, <1>9, SettingsStep

LEMMA ApplyLoadedStep ==
  ASSUME IInv, ApplyLoaded, Overlaps
  PROVE  IInv'
<1>1. Typed /\ Agrees
  BY Given
<1>2. /\ UNCHANGED <<saved, local, net, pc, seen, gate, holds, handle, addr,
                     live, busy, exit, code, shutting, cut, first, final>>
      /\ loader' = [at |-> "idle", got |-> Off] /\ loader.at = "loaded"
      /\ config' = loader.got /\ queue' = queue + 1
  BY DEF ApplyLoaded, actors, servers, ending
<1>3. loader.got \in Setting /\ queue \in Nat
  BY <1>1 DEF Typed
<1>4. /\ loader' \in [at : {"idle", "changed", "loaded"}, got : Setting]
      /\ loader'.at = "idle" /\ loader'.got = Off
      /\ local' \in BOOLEAN /\ {saved', config', loader'.got} \subseteq Setting
      /\ net' \in Addrs /\ queue' \in Nat /\ queue' > 0
  BY <1>1, <1>2, <1>3, OffIs DEF Typed
<1>5. overlapped' \in BOOLEAN /\ (overlapped => overlapped')
  BY <1>1, OverlapsOnly
<1>6. Agrees'
  <2>1. Proper(saved)' /\ Proper(config)' /\ \A a \in Actors : Proper(seen'[a])
    BY <1>1, <1>2 DEF Agrees, Proper
  <2>2. Proper(loader.got)'
    BY <1>4, OffIs DEF Proper
  <2>3. Bound(config)' = Bound(loader.got) /\ Target' = Target
    BY <1>2 DEF Bound, Target
  <2>4. ~overlapped => ~Moved /\ pc["watcher"] # "saved" /\ pc["command"] # "saved"
    BY <1>1, <1>2 DEF Sections, Moved, Agrees
  <2>5. Moved' = Moved
    BY <1>2 DEF Moved
  <2>6. ~shutting /\ ~overlapped => (loader.got.on => local)
    <3>1. loader.got.on => Bound(loader.got) # "none"
      BY <1>1 DEF Agrees, Proper, Bound
    <3> QED
      BY <1>1, <1>2, <3>1 DEF Agrees, Target
  <2> QED
    BY <1>1, <1>2, <1>4, <1>5, <2>1, <2>2, <2>3, <2>4, <2>5, <2>6 DEF Agrees, Proper
<1>7. Pending'
  BY <1>4 DEF Pending
<1> QED
  BY <1>2, <1>4, <1>5, <1>6, <1>7, SettingsStep

-----------------------------------------------------------------------------
\* The exit.

LEMMA QuitStep ==
  ASSUME IInv, NEW c \in Codes, Quit(c), Overlaps
  PROVE  IInv'
<1> DEFINE o == "coordinator"
<1>1. /\ Typed /\ Gated /\ Taken /\ Stopped /\ Restarts /\ Agrees /\ Reported
  BY Given
<1>2. /\ UNCHANGED <<saved, local, config, net, seen, gate, holds, loader, queue, handle, addr,
                     live, busy, running, cut, final>>
      /\ exit \in {"running", "stopping"}
      /\ code' = IF code = 0 THEN c ELSE code
      /\ first' = IF first = 0 /\ pc[o] # "read" THEN c ELSE first
  BY DEF Quit, FirstFailure, settings, reloads, servers
<1>3. /\ overlapped' \in BOOLEAN /\ (overlapped => overlapped')
  BY <1>1, OverlapsOnly
<1>4. code' \in Codes /\ first' \in Codes
  BY <1>1, <1>2 DEF Typed
<1>5. CASE exit = "running"
  <2>1. exit' = "stopping" /\ shutting' = TRUE /\ Goes(o, "join")
    BY <1>5 DEF Quit
  <2>2. "join" \in ActorPhases /\ o \in Actors /\ "join" \notin Locked
    BY ActorsAre DEF ActorPhases, Locked
  <2>3. PcBecomes(o, "join") /\ pc[o] = "idle" /\ ~shutting
    BY <1>1, <1>5, <2>1, <2>2, PcTurns DEF Gated
  <2>4. Typed'
    BY <1>1, <1>2, <1>3, <1>4, <2>1, <2>3 DEF Typed, PcBecomes
  <2>5. Gated'
    BY <1>1, <1>2, <2>1, <2>2, <2>3, ActorsAre DEF Gated, PcBecomes, Locked
  <2>6. \A a \in Actors : pc'[a] # "join" => pc'[a] = pc[a]
    BY <2>3 DEF PcBecomes
  <2>7. \A a \in Actors : pc[a] \in {"drain", "bind"} => pc'[a] = pc[a]
    BY <2>3 DEF PcBecomes
  <2>8. Taken'
    BY <1>1, <1>2, <2>6, <2>7 DEF Taken, NothingDetached
  <2>9. Stopped'
    BY <1>1, <1>2, <2>3 DEF Stopped, PcBecomes
  <2>10. Restarts'
    BY <1>1, <1>2, <2>1, <2>6 DEF Restarts
  <2>11. Agrees'
    <3>1. pc'["watcher"] = pc["watcher"] /\ pc'["command"] = pc["command"]
      BY <2>3, ActorsAre DEF PcBecomes
    <3>2. /\ \A a \in Actors : Proper(seen'[a])
          /\ pc'["watcher"] = "idle" => seen'["watcher"] = Off
          /\ pc'["watcher"] \in {"recheck", "saved"} => seen'["watcher"] # Off
      BY <1>1, <1>2, <3>1 DEF Agrees
    <3> QED
      BY <1>1, <1>2, <2>1, <3>1, <3>2, AgreesKept
  <2>12. Reported'
    BY <1>1, <1>2, <2>1, <2>3 DEF Reported, PcBecomes
  <2> QED
    BY <2>4, <2>5, <2>8, <2>9, <2>10, <2>11, <2>12 DEF IInv
<1>6. CASE exit # "running"
  <2>1. UNCHANGED <<exit, shutting, pc>>
    BY <1>6 DEF Quit
  <2>2. Typed' /\ Gated' /\ Taken' /\ Stopped' /\ Restarts'
    BY <1>1, <1>2, <1>3, <1>4, <2>1 DEF Typed, Gated, Taken, NothingDetached, Stopped, Restarts,
                                        Pending, Bound
  <2>3. Agrees'
    <3>1. /\ \A a \in Actors : Proper(seen'[a])
          /\ pc'["watcher"] = "idle" => seen'["watcher"] = Off
          /\ pc'["watcher"] \in {"recheck", "saved"} => seen'["watcher"] # Off
      BY <1>1, <1>2, <2>1 DEF Agrees
    <3> QED
      BY <1>1, <1>2, <2>1, <3>1, AgreesKept
  <2>4. Reported'
    BY <1>1, <1>2, <2>1 DEF Reported
  <2> QED
    BY <2>2, <2>3, <2>4 DEF IInv
<1> QED
  BY <1>5, <1>6

\* A task that is dropped lets go of the gate, and of the listener it drains.
LEMMA DroppedStep ==
  ASSUME IInv, NEW a \in Actors, NEW phase \in {"ended", "done"}, Overlaps,
         Dropped(a), Goes(a, phase),
         UNCHANGED <<saved, local, config, net, seen, loader, queue, handle, addr, exit, code,
                     shutting, first, final>>,
         cut' \in BOOLEAN, cut = cut' \/ phase = "done",
         phase = "ended" => a \in Owned /\ pc["coordinator"] = "join",
         phase = "done" => a = "coordinator" /\ cut' /\ pc[a] \in Locked \cup {"queued"}
  PROVE  IInv'
<1>1. /\ Typed /\ Gated /\ Taken /\ Stopped /\ Restarts /\ Agrees /\ Reported
  BY Given
<1>2. phase \in ActorPhases /\ phase \notin Locked /\ 0 \in 0..MaxServers
  BY DEF ActorPhases, Locked
<1>3. /\ live' = live \ {holds[a]} /\ busy' = busy \ {holds[a]}
      /\ gate' = IF gate = a THEN "free" ELSE gate
      /\ holds' = [holds EXCEPT ![a] = 0]
  BY DEF Dropped, AbortsOnCancel, Gone
<1>4. PcBecomes(a, phase) /\ HoldsBecomes(a, 0)
  BY <1>1, <1>2, <1>3, PcTurns, HoldsTurns
<1>5. overlapped' \in BOOLEAN
  BY <1>1, OverlapsOnly
<1>6. shutting
  BY <1>1, ActorsAre DEF Gated, Locked
<1>7. pc["coordinator"] \notin {"done", "read"}
  BY ActorsAre DEF Locked
<1>8. Typed'
  BY <1>1, <1>3, <1>4, <1>5 DEF Typed, PcBecomes, HoldsBecomes
<1>9. Gated'
  <2>1. \A b \in Actors : gate' = b <=> pc'[b] \in Locked
    BY <1>1, <1>2, <1>3, <1>4, ActorsAre DEF Gated, PcBecomes
  <2>2. pc'["coordinator"] # "idle"
    BY <1>1, <1>4, <1>6, ActorsAre DEF Gated, PcBecomes
  <2> QED
    BY <1>1, <1>4, <1>6, <2>1, <2>2, ActorsAre DEF Gated, PcBecomes
<1>10. Taken'
  <2>1. \A b \in Actors : b # a => pc[b] = pc'[b] /\ holds'[b] = holds[b]
    BY <1>4 DEF PcBecomes, HoldsBecomes
  <2>2. pc'[a] \notin {"drain", "check", "bind"} /\ holds'[a] = 0
    BY <1>4 DEF PcBecomes, HoldsBecomes
  <2>3. ASSUME NEW b \in Actors, pc'[b] = "drain"
        PROVE  holds'[b] # 0 /\ holds'[b] \in live'
    <3>1. b # a /\ pc[b] = "drain" /\ holds[b] # 0 /\ holds[b] \in live /\ holds'[b] = holds[b]
      BY <1>1, <2>1, <2>2, <2>3 DEF Taken
    <3>2. pc[a] # "drain"
      BY <1>1, <3>1 DEF Gated, Locked
    <3>3. holds[a] = 0
      BY <1>1, <3>2 DEF Taken
    <3> QED
      BY <1>3, <3>1, <3>3
  <2>4. handle # 0 => handle \in live'
    <3>1. holds[a] # 0 => handle = 0
      BY <1>1 DEF Taken
    <3> QED
      BY <1>1, <1>3, <3>1 DEF Taken
  <2>5. NothingDetached'
    BY <1>1, <1>3, <2>1 DEF Taken, NothingDetached
  <2> QED
    BY <1>1, <2>1, <2>2, <2>3, <2>4, <2>5 DEF Taken
<1>11. Stopped'
  <2>1. cut' => pc'["coordinator"] \in {"done", "read"}
    BY <1>1, <1>4, <1>7 DEF Stopped, PcBecomes
  <2>2. pc'["coordinator"] \in {"done", "read"} => cut'
    BY <1>4, <1>7, ActorsAre DEF PcBecomes
  <2> QED
    BY <2>1, <2>2 DEF Stopped
<1>12. Restarts'
  <2>1. \A b \in Actors : pc'[b] = "bind" => pc[b] = "bind"
    BY <1>4 DEF PcBecomes
  <2> QED
    BY <1>1, <1>6, <2>1 DEF Restarts
<1>13. Agrees'
  <2>1. /\ pc'["watcher"] = pc["watcher"] \/ pc'["watcher"] = "ended"
        /\ pc'["command"] = pc["command"]
    BY <1>4, ActorsAre DEF PcBecomes
  <2>2. /\ \A b \in Actors : Proper(seen'[b])
        /\ pc'["watcher"] = "idle" => seen'["watcher"] = Off
        /\ pc'["watcher"] \in {"recheck", "saved"} => seen'["watcher"] # Off
    BY <1>1, <2>1 DEF Agrees
  <2> QED
    BY <1>1, <1>6, <2>1, <2>2, AgreesKept
<1>14. Reported'
  BY <1>1, <1>4, <1>7, ActorsAre DEF Reported, PcBecomes
<1> QED
  BY <1>8, <1>9, <1>10, <1>11, <1>12, <1>13, <1>14 DEF IInv

LEMMA CancelStep ==
  ASSUME IInv, NEW a \in Owned, Cancel(a), Overlaps
  PROVE  IInv'
<1>1. Typed
  BY Given
<1>2. /\ UNCHANGED <<saved, local, config, net, seen, loader, queue, handle, addr, exit, code,
                     shutting, cut, first, final>>
      /\ Dropped(a) /\ Goes(a, "ended") /\ pc["coordinator"] = "join"
  BY DEF Cancel, settings, reloads, ending
<1>3. cut' \in BOOLEAN /\ a \in Actors
  BY <1>1, <1>2, ActorsAre DEF Typed
<1>4. cut = cut'
  BY <1>2
<1> QED
  BY <1>2, <1>3, <1>4, DroppedStep

LEMMA TimeOutStep ==
  ASSUME IInv, TimeOut, Overlaps
  PROVE  IInv'
<1>1. /\ UNCHANGED <<saved, local, config, net, seen, loader, queue, handle, addr, exit, code,
                     shutting, first, final>>
      /\ Dropped("coordinator") /\ Goes("coordinator", "done")
      /\ pc["coordinator"] \in Locked \cup {"queued"} /\ cut' = TRUE
  BY DEF TimeOut, settings, reloads
<1>2. "coordinator" \in Actors /\ cut' \in BOOLEAN /\ cut'
  BY <1>1, ActorsAre
<1> QED
  BY <1>1, <1>2, DroppedStep

\* The exit reads its code and is allowed.
LEMMA ReadCodeStep ==
  ASSUME IInv, ReadCode, Overlaps
  PROVE  IInv'
<1> DEFINE o == "coordinator"
<1>1. /\ Typed /\ Gated /\ Taken /\ Stopped /\ Restarts /\ Agrees /\ Reported
  BY Given
<1>2. /\ UNCHANGED <<saved, local, config, net, seen, gate, holds, loader, queue, handle, addr,
                     live, busy, running, exit, code, shutting, cut, first>>
      /\ pc[o] = "done" /\ final' = code /\ Goes(o, "read")
  BY DEF ReadCode, settings, reloads, servers
<1>3. "read" \in ActorPhases /\ o \in Actors /\ "read" \notin Locked
  BY ActorsAre DEF ActorPhases, Locked
<1>4. PcBecomes(o, "read")
  BY <1>1, <1>2, <1>3, PcTurns
<1>5. overlapped' \in BOOLEAN
  BY <1>1, OverlapsOnly
<1>6. \A a \in Actors : /\ pc'[a] \in Locked <=> pc[a] \in Locked
                        /\ a # o => pc'[a] = pc[a]
  BY <1>2, <1>3, <1>4 DEF PcBecomes, Locked
<1>7. Typed'
  BY <1>1, <1>2, <1>4, <1>5 DEF Typed, PcBecomes
<1>8. Gated'
  BY <1>1, <1>2, <1>3, <1>4, <1>6, ActorsAre DEF Gated, PcBecomes
<1>9. Taken' /\ Stopped' /\ Restarts'
  <2>1. \A a \in Actors : \A phase \in {"drain", "check", "bind", "stop"} :
          pc'[a] = phase <=> pc[a] = phase
    BY <1>2, <1>4 DEF PcBecomes
  <2>2. Pending' = Pending /\ Bound(config)' = Bound(config)
    BY <1>2, <1>6, ActorsAre DEF Pending, Bound
  <2>3. pc'[o] = "read"
    BY <1>4 DEF PcBecomes
  <2> QED
    BY <1>1, <1>2, <2>1, <2>2, <2>3 DEF Taken, NothingDetached, Stopped, Restarts
<1>10. Agrees'
  <2>1. pc'["watcher"] = pc["watcher"] /\ pc'["command"] = pc["command"]
    BY <1>6, ActorsAre
  <2>2. /\ \A a \in Actors : Proper(seen'[a])
        /\ pc'["watcher"] = "idle" => seen'["watcher"] = Off
        /\ pc'["watcher"] \in {"recheck", "saved"} => seen'["watcher"] # Off
    BY <1>1, <1>2, <2>1 DEF Agrees
  <2> QED
    BY <1>1, <1>2, <2>1, <2>2, AgreesKept
<1>11. Reported'
  BY <1>1, <1>2, <1>4 DEF Reported, PcBecomes
<1> QED
  BY <1>7, <1>8, <1>9, <1>10, <1>11 DEF IInv

LEMMA LeaveStep ==
  ASSUME IInv, Leave, Overlaps
  PROVE  IInv'
<1>1. /\ Typed /\ Gated /\ Taken /\ Stopped /\ Restarts /\ Agrees /\ Reported
  BY Given
<1>2. /\ UNCHANGED <<saved, local, config, net, pc, seen, gate, holds, loader, queue, handle, addr,
                     live, busy, running, code, shutting, cut, first, final>>
      /\ exit' = "gone" /\ pc["coordinator"] = "read"
  BY DEF Leave, settings, actors, reloads, servers
<1>3. overlapped' \in BOOLEAN
  BY <1>1, OverlapsOnly
<1>4. Typed' /\ Taken' /\ Stopped' /\ Restarts' /\ Reported'
  BY <1>1, <1>2, <1>3 DEF Typed, Taken, NothingDetached, Stopped, Restarts, Pending, Bound, Reported
<1>5. Gated'
  BY <1>1, <1>2 DEF Gated
<1>6. Agrees'
  <2>1. /\ \A a \in Actors : Proper(seen'[a])
        /\ pc'["watcher"] = "idle" => seen'["watcher"] = Off
        /\ pc'["watcher"] \in {"recheck", "saved"} => seen'["watcher"] # Off
    BY <1>1, <1>2 DEF Agrees
  <2> QED
    BY <1>1, <1>2, <2>1, AgreesKept
<1> QED
  BY <1>4, <1>5, <1>6 DEF IInv

-----------------------------------------------------------------------------
\* The invariant, and what follows from it.

LEMMA InitIInv == Init => IInv
<1> SUFFICES ASSUME Init PROVE IInv
  OBVIOUS
<1>1. /\ saved \in Setting /\ Proper(saved) /\ local = TRUE /\ config = saved /\ net \in Addrs
      /\ pc = [a \in Actors |-> IF a = "startup" THEN "queued" ELSE "idle"]
      /\ seen = [a \in Actors |-> Off] /\ loader = [at |-> "idle", got |-> Off] /\ queue = 0
      /\ gate = "free" /\ holds = [a \in Actors |-> 0]
      /\ handle = 0 /\ addr = [s \in 1..MaxServers |-> "none"] /\ live = {} /\ busy = {}
      /\ exit = "running" /\ code = 0 /\ shutting = FALSE
      /\ cut = FALSE /\ first = 0 /\ overlapped = FALSE
  <2>1. saved \in Setting /\ Proper(saved)
    <3>1. CASE saved = Off
      BY <3>1, OffIs DEF Proper
    <3>2. CASE saved \in [on : {TRUE}, addr : Addrs]
      BY <3>2 DEF Setting, Proper
    <3> QED
      BY <3>1, <3>2 DEF Init
  <2> QED
    BY <2>1 DEF Init
<1>2. \A a \in Actors : /\ pc[a] = IF a = "startup" THEN "queued" ELSE "idle"
                        /\ seen[a] = Off /\ holds[a] = 0
  BY <1>1
<1>3. Typed
  <2>1. pc \in [Actors -> ActorPhases]
    BY <1>1 DEF ActorPhases
  <2>2. loader \in [at : {"idle", "changed", "loaded"}, got : Setting] /\ loader.got = Off
    BY <1>1, OffIs
  <2>3. 0 \in 0..MaxServers /\ 0 \in Codes
    OBVIOUS
  <2>4. /\ seen \in [Actors -> Setting] /\ holds \in [Actors -> 0..MaxServers]
        /\ addr \in [1..MaxServers -> Addrs \cup {"none"}]
    BY <1>1, <2>3, OffIs
  <2> QED
    BY <1>1, <2>1, <2>2, <2>3, <2>4, OffIs DEF Typed
<1>4. Gated
  BY <1>1, <1>2, ActorsAre DEF Gated, Locked
<1>5. Taken /\ Stopped /\ Restarts /\ Reported
  BY <1>1, <1>2, ActorsAre DEF Taken, NothingDetached, Stopped, Restarts, Reported
<1>6. Agrees
  <2>1. loader.at = "idle" /\ loader.got = Off /\ Proper(Off)
    BY <1>1, OffIs DEF Proper
  <2>2. ~Moved
    BY <1>2, ActorsAre DEF Moved
  <2> QED
    BY <1>1, <1>2, <2>1, <2>2, ActorsAre DEF Agrees, Target
<1> QED
  BY <1>3, <1>4, <1>5, <1>6 DEF IInv

LEMMA StepIInv == IInv /\ [Next]_vars => IInv'
<1> SUFFICES ASSUME IInv, [Next]_vars PROVE IInv'
  OBVIOUS
<1>1. CASE UNCHANGED vars
  <2>1. UNCHANGED <<saved, local, config, net, pc, seen, gate, holds, loader, queue, handle, addr,
                    live, busy, exit, code, shutting, cut, first, final, overlapped>>
    BY <1>1 DEF vars, settings, actors, reloads, servers, ending
  <2> QED
    BY <2>1 DEF IInv, Typed, Gated, Taken, NothingDetached, Stopped, Restarts, Pending, Bound,
                Agrees, Sections, Moved, Target, Proper, Reported
<1>2. CASE Act /\ Overlaps
  <2> USE <1>2
  <2>1. CASE Accept \/ (\E s \in live : Finish(s))
    BY <2>1, AcceptStep
  <2>2. CASE \E a \in Actors : Lock(a)
    BY <2>2, LockStep
  <2>3. CASE \E a \in Actors : Stop(a)
    BY <2>3, StopStep
  <2>4. CASE \E a \in Actors : Drain(a)
    BY <2>4, DrainStep
  <2>5. CASE \E a \in Actors : Check(a)
    BY <2>5, CheckStep
  <2>6. CASE \E a \in Actors : Bind(a)
    BY <2>6, BindStep
  <2>7. CASE \E n \in Addrs : Move(n)
    BY <2>7, MoveStep
  <2>8. CASE Observe \/ RetryServer \/ Recheck \/ StopWatching
    BY <2>8, ObserveStep, RetryServerStep, RecheckStep, StopWatchingStep
  <2>9. CASE \E a \in {"watcher", "command"} : Applies(a)
    BY <2>9, AppliesStep
  <2>10. CASE (\E s \in Setting : Configure(s)) \/ SavesConfig
    BY <2>10, ConfigureStep, SavesConfigStep
  <2>11. CASE ChangeLibrary \/ Load \/ ApplyLoaded \/ Spawned
    BY <2>11, ChangeLibraryStep, LoadStep, ApplyLoadedStep, SpawnedStep
  <2>12. CASE \E c \in Codes : Quit(c)
    BY <2>12, QuitStep
  <2>13. CASE Joined \/ TimeOut \/ ReadCode \/ Leave
    BY <2>13, JoinedStep, TimeOutStep, ReadCodeStep, LeaveStep
  <2>14. CASE \E a \in Owned : Cancel(a)
    BY <2>14, CancelStep
  <2> QED
    BY <2>1, <2>2, <2>3, <2>4, <2>5, <2>6, <2>7, <2>8, <2>9, <2>10, <2>11, <2>12, <2>13, <2>14,
       ActorsAre DEF Act, Coordinate
<1> QED
  BY <1>1, <1>2 DEF Next

\* The inductive invariant: who holds the gate and drains which listener, what keeps a
\* restart coming, and how far the configuration follows the database.
THEOREM Invariance == Spec => []IInv
<1>1. Init => IInv
  BY InitIInv
<1>2. IInv /\ [Next]_vars => IInv'
  BY StepIInv
<1> QED
  BY <1>1, <1>2, PTL DEF Spec

LEMMA OneListenerIs == IInv => OneListener
<1> SUFFICES ASSUME IInv PROVE OneListener
  OBVIOUS
<1>1. /\ Typed /\ Gated /\ Taken /\ Stopped
  BY Given
<1>2. TypeOK
  BY <1>1 DEF Typed, Gated, TypeOK
<1>3. ASSUME NEW s \in live, NEW t \in live
      PROVE  s = t
  <2>1. s # 0 /\ t # 0
    BY <1>1 DEF Typed
  <2>2. CASE handle # 0
    <3>1. \A a \in Actors : holds[a] = 0
      BY <1>1, <2>2 DEF Taken
    <3> QED
      BY <1>1, <2>1, <3>1 DEF Taken, NothingDetached
  <2>3. CASE handle = 0
    <3>1. PICK a \in Actors : holds[a] = s
      BY <1>1, <2>1, <2>3 DEF Taken, NothingDetached
    <3>2. PICK b \in Actors : holds[b] = t
      BY <1>1, <2>1, <2>3 DEF Taken, NothingDetached
    <3>3. pc[a] = "drain" /\ pc[b] = "drain"
      BY <1>1, <2>1, <3>1, <3>2 DEF Taken
    <3>4. a = b
      BY <1>1, <3>3 DEF Gated, Locked
    <3> QED
      BY <3>1, <3>2, <3>4
  <2> QED
    BY <2>2, <2>3
<1>4. NothingAfterStop
  <2>1. SUFFICES ASSUME pc["coordinator"] \in {"done", "read"}, ~cut, NEW s \in live
                 PROVE  FALSE
    BY DEF NothingAfterStop
  <2>2. s # 0 /\ handle = 0 /\ \A a \in Actors : holds[a] = 0
    BY <1>1, <2>1 DEF Typed, Stopped, Taken
  <2> QED
    BY <1>1, <2>1, <2>2 DEF Taken, NothingDetached
<1> QED
  BY <1>1, <1>2, <1>3, <1>4 DEF OneListener, Taken

LEMMA ServesItsConfigIs == IInv => ServesItsConfig
<1> SUFFICES ASSUME IInv, AtRest PROVE /\ handle # 0 => addr[handle] = Bound(config)
                                       /\ ~overlapped => Bound(config) = Target
  BY DEF ServesItsConfig, Target
<1>1. Typed /\ Restarts /\ Agrees
  BY Given
<1>2. /\ queue = 0 /\ loader.at = "idle" /\ ~shutting
      /\ \A a \in Actors : pc[a] \in {"idle", "ended"}
  BY DEF AtRest
<1>3. ~Pending /\ \A a \in Actors : pc[a] # "stop"
  BY <1>2, ActorsAre DEF Pending
<1>4. pc["watcher"] # "saved" /\ pc["command"] # "saved"
  BY <1>2, ActorsAre
<1> QED
  BY <1>1, <1>2, <1>3, <1>4 DEF Restarts, Agrees

\* Whatever restarts and cancellations meet (companion_api.rs,
\* trusted_lan_network_watcher.rs), one listener runs at most, none is left detached or
\* comes back after the exit has stopped it, and at rest it serves its configuration.
THEOREM RightListener == Spec => []ListenerIsRight
<1>1. IInv => ListenerIsRight
  BY OneListenerIs, ServesItsConfigIs DEF ListenerIsRight
<1> QED
  BY <1>1, Invariance, PTL

\* The code of the process is the first failure published to it (register_exit_code).
THEOREM FirstFailureReported == Spec => []FailuresAreReported
<1>1. IInv => FailuresAreReported
  BY DEF IInv, Reported, FailuresAreReported
<1> QED
  BY <1>1, Invariance, PTL
-----------------------------------------------------------------------------
(***************************************************************************)
(* BrowserSessions.                                                        *)
(*                                                                         *)
(* A browser is paired only once, so who was out when a request came in is *)
(* out for good (OutStaysOut), and a request goes on only where its browser*)
(* was seen paired after that.  A link that made a browser is never open   *)
(* again (MakersAreSpent).  What was read lies between the library the     *)
(* listener serves and the present one, which only moves away from it      *)
(* (ReadInOrder), so a last look that finds the two equal finds what was   *)
(* read in the same place.                                                 *)
(***************************************************************************)

\* What is known of a request at each of its points.
Kinds == {"none", "read", "write", "pair", "renew"}
Requests == [phase : Phases, kind : Kinds, sess : 0..MaxOpened,
             who : Browsers \cup {"none"}, link : Links \cup {"none"},
             out : SUBSET Browsers, saw : 0..MaxLib]
TypedRequests ==
  /\ req \in [Threads -> Requests] /\ authority \in Threads \cup {"free"}
  /\ unseen \subseteq Browsers /\ held \subseteq Browsers
  /\ maker \in [Browsers -> Links \cup {"none"}]

\* Who was out stays out: a browser is paired only once.
OutStaysOut == \A t \in Threads : req[t].out \subseteq Out

\* A session that was opened is that of a browser which was paired.
SessionsAreOfBrowsers ==
  /\ \A s \in 1..opened : owner[s] \in Browsers /\ browser[owner[s]] # "none"
  /\ Cardinality(sessions) <= Capacity

\* A request has the browser its session belongs to.
KnownByTheirSession == \A t \in Threads :
  /\ req[t].phase \in {"arrived", "known"} => req[t].sess \in 1..opened
  /\ req[t].phase = "known" => req[t].who = owner[req[t].sess]
  /\ req[t].phase \in {"found", "touched"} =>
       req[t].who \in Browsers /\ browser[req[t].who] # "none"
  /\ req[t].phase = "waiting" /\ req[t].kind = "pair" => req[t].link \in Links
  /\ req[t].phase = "waiting" /\ req[t].kind = "renew" => req[t].who \in Browsers

\* A link made at most one browser, and is no longer open when it did.
MakersAreSpent == \A b \in Browsers :
  /\ browser[b] = "paired" => maker[b] \in Links /\ link[maker[b]] = "used"
  /\ maker[b] # "none" => link[maker[b]] \in {"used", "gone"}
  /\ maker[b] # "none" => \A c \in Browsers \ {b} : maker[c] # maker[b]

\* The library only moves on, and only away from the one that is served.
ReadInOrder ==
  /\ bound <= lib
  /\ \A t \in Threads : req[t].phase = "read" => bound <= req[t].saw /\ req[t].saw <= lib

SessionInv == /\ TypedRequests /\ RevokedStayOut /\ OutStaysOut /\ SessionsAreOfBrowsers
              /\ KnownByTheirSession /\ MakersAreSpent /\ ReadInOrder /\ AnswersStayHome

USE SessionsAssumption

-----------------------------------------------------------------------------
LEMMA InitSessionInv == SessionsInit => SessionInv
<1> SUFFICES ASSUME SessionsInit PROVE SessionInv
  OBVIOUS
<1>1. TypedRequests /\ SessionsTypeOK
  BY DEF SessionsInit, TypedRequests, SessionsTypeOK, Requests, Kinds, Phases, Idle
<1>2. Cardinality(sessions) <= Capacity
  BY FS_EmptySet DEF SessionsInit
<1>3. RevokedStayOut /\ OutStaysOut /\ KnownByTheirSession /\ ReadInOrder /\ AnswersStayHome
  BY <1>1 DEF SessionsInit, Idle, RevokedStayOut, OutStaysOut, KnownByTheirSession,
              ReadInOrder, AnswersStayHome
<1>4. SessionsAreOfBrowsers /\ MakersAreSpent
  BY <1>2 DEF SessionsInit, SessionsAreOfBrowsers, MakersAreSpent
<1> QED BY <1>1, <1>3, <1>4 DEF SessionInv

-----------------------------------------------------------------------------
\* The store.

LEMMA OldestIsThere ==
  ASSUME NEW S \in SUBSET Nat, S # {}
  PROVE  Oldest(S) \in S /\ \A r \in S : Oldest(S) <= r
<1>1. PICK x \in S : \A y \in S : ~ (<<y, x>> \in OpToRel(<, Nat))
  BY NatLessThanWellFounded, WFMin
<1>2. ASSUME NEW y \in S PROVE x <= y
  <2>1. ~(y < x)
    BY <1>1 DEF OpToRel
  <2> QED BY <2>1
<1> QED BY <1>2 DEF Oldest

LEMMA KeptHasRoom ==
  ASSUME SessionsTypeOK, Cardinality(sessions) <= Capacity
  PROVE  /\ Kept \subseteq sessions /\ IsFiniteSet(Kept)
         /\ Cardinality(Kept) < Capacity
         /\ \A s \in sessions \ Kept : s = Oldest(sessions)
<1>1. sessions \in SUBSET Nat /\ IsFiniteSet(sessions) /\ Cardinality(sessions) \in Nat
  <2>1. opened \in Nat /\ sessions \subseteq 1..opened
    BY DEF SessionsTypeOK
  <2>2. IsFiniteSet(1..opened)
    BY <2>1, FS_Interval
  <2>3. IsFiniteSet(sessions)
    BY <2>1, <2>2, FS_Subset
  <2> QED BY <2>1, <2>3, FS_CardinalityType
<1>2. CASE Cardinality(sessions) < Capacity
  BY <1>1, <1>2 DEF Kept
<1>3. CASE ~(Cardinality(sessions) < Capacity)
  <2>1. Cardinality(sessions) = Capacity /\ sessions # {}
    BY <1>1, <1>3, FS_EmptySet
  <2>2. Oldest(sessions) \in sessions
    BY <1>1, <2>1, OldestIsThere
  <2>3. IsFiniteSet(sessions \ {Oldest(sessions)})
        /\ Cardinality(sessions \ {Oldest(sessions)}) = Cardinality(sessions) - 1
    BY <1>1, <2>2, FS_RemoveElement
  <2> QED BY <1>3, <2>1, <2>3 DEF Kept
<1> QED BY <1>2, <1>3

-----------------------------------------------------------------------------
\* A request keeps its shape through each of its steps, which change no other.
MovedAlone(t) == /\ req' \in [Threads -> Requests]
                 /\ \A u \in Threads : u # t => req'[u] = req[u]

\* What has become of a request: all of it, or of what its steps change.
Became(t, p, k, s, b, l, o, n) ==
  /\ req'[t].phase = p /\ req'[t].kind = k /\ req'[t].sess = s /\ req'[t].who = b
  /\ req'[t].link = l /\ req'[t].out = o /\ req'[t].saw = n
Becomes(t, p, b, n) == Became(t, p, req[t].kind, req[t].sess, b, req[t].link, req[t].out, n)
Over(t) == Became(t, "idle", "none", 0, "none", "none", {}, 0)

StoreTypes ==
  /\ link \in [Links -> {"none", "open", "used", "expired", "gone"}]
  /\ browser \in [Browsers -> {"none", "paired", "revoked", "gone"}]
  /\ unseen \subseteq Browsers /\ held \subseteq Browsers
  /\ lib \in 1..MaxLib /\ bound \in 1..MaxLib
  /\ opened \in 0..MaxOpened /\ sessions \subseteq 1..opened
  /\ owner \in [1..MaxOpened -> Browsers \cup {"none"}]
  /\ maker \in [Browsers -> Links \cup {"none"}]
  /\ req \in [Threads -> Requests] /\ authority \in Threads \cup {"free"}

GateIsHeld == \A t \in Threads : authority = t <=> req[t].phase \in {"found", "touched"}

LEMMA Types == TypedRequests /\ SessionsTypeOK <=> StoreTypes /\ GateIsHeld
<1>1. ASSUME req \in [Threads -> Requests], NEW t \in Threads PROVE req[t].phase \in Phases
  BY <1>1 DEF Requests
<1>2. ASSUME TypedRequests, SessionsTypeOK PROVE StoreTypes /\ GateIsHeld
  BY <1>2 DEF TypedRequests, SessionsTypeOK, StoreTypes, GateIsHeld
<1>3. ASSUME StoreTypes, GateIsHeld PROVE TypedRequests /\ SessionsTypeOK
  BY <1>1, <1>3 DEF TypedRequests, SessionsTypeOK, StoreTypes, GateIsHeld
<1> QED BY <1>2, <1>3

LEMMA EndsMoves ==
  ASSUME req \in [Threads -> Requests], NEW t \in Threads, Ends(t)
  PROVE  MovedAlone(t) /\ Over(t)
<1>1. Idle \in Requests
  BY DEF Requests, Idle, Phases, Kinds
<1>2. MovedAlone(t) /\ req'[t] = Idle
  BY <1>1 DEF MovedAlone, Ends
<1> QED BY <1>2 DEF Over, Became, Idle

LEMMA GoesMoves ==
  ASSUME req \in [Threads -> Requests], NEW t \in Threads, NEW p \in Phases, Reaches(t, p)
  PROVE  MovedAlone(t) /\ Becomes(t, p, req[t].who, req[t].saw)
<1> DEFINE r == [req[t] EXCEPT !.phase = p]
<1>1. r \in Requests
  BY DEF Requests
<1>2. MovedAlone(t) /\ req'[t] = r
  BY <1>1 DEF MovedAlone, Reaches
<1> QED BY <1>2 DEF Becomes, Became, Requests

LEMMA WhoMoves ==
  ASSUME req \in [Threads -> Requests], NEW t \in Threads, NEW p \in Phases,
         NEW b \in Browsers \cup {"none"}, req' = [req EXCEPT ![t].phase = p, ![t].who = b]
  PROVE  MovedAlone(t) /\ Becomes(t, p, b, req[t].saw)
<1> DEFINE r == [req[t] EXCEPT !.phase = p, !.who = b]
<1>1. r \in Requests
  BY DEF Requests
<1>2. MovedAlone(t) /\ req'[t] = r
  BY <1>1 DEF MovedAlone
<1> QED BY <1>2 DEF Becomes, Became, Requests

LEMMA SawMoves ==
  ASSUME req \in [Threads -> Requests], NEW t \in Threads, NEW p \in Phases,
         lib \in 0..MaxLib, req' = [req EXCEPT ![t].phase = p, ![t].saw = lib]
  PROVE  MovedAlone(t) /\ Becomes(t, p, req[t].who, lib)
<1> DEFINE r == [req[t] EXCEPT !.phase = p, !.saw = lib]
<1>1. r \in Requests
  BY DEF Requests
<1>2. MovedAlone(t) /\ req'[t] = r
  BY <1>1 DEF MovedAlone
<1> QED BY <1>2 DEF Becomes, Became, Requests

LEMMA ArriveMoves ==
  ASSUME req \in [Threads -> Requests], Out \in SUBSET Browsers,
         NEW t \in Threads, NEW k \in Kinds, NEW s \in 0..MaxOpened, Arrive(t, k, s)
  PROVE  MovedAlone(t) /\ Became(t, "arrived", k, s, "none", "none", Out, 0)
<1> DEFINE r == [Idle EXCEPT !.phase = "arrived", !.kind = k, !.sess = s, !.out = Out]
<1>1. ASSUME NEW x \in Requests, NEW o \in SUBSET Browsers
      PROVE  [x EXCEPT !.phase = "arrived", !.kind = k, !.sess = s, !.out = o] \in Requests
  BY DEF Requests, Phases
<1>2. Idle \in Requests
  BY DEF Requests, Idle, Phases, Kinds
<1>3. MovedAlone(t) /\ req'[t] = r
  BY <1>1, <1>2 DEF MovedAlone, Arrive
<1> QED BY <1>3 DEF Became, Idle

LEMMA KnockMoves ==
  ASSUME req \in [Threads -> Requests], Out \in SUBSET Browsers,
         NEW t \in Threads, NEW k \in Kinds, NEW l \in Links \cup {"none"},
         NEW b \in Browsers \cup {"none"}, Knock(t, k, l, b)
  PROVE  MovedAlone(t) /\ Became(t, "waiting", k, 0, b, l, Out, 0)
<1> DEFINE r == [Idle EXCEPT !.phase = "waiting", !.kind = k, !.link = l, !.who = b, !.out = Out]
<1>1. ASSUME NEW x \in Requests, NEW o \in SUBSET Browsers
      PROVE  [x EXCEPT !.phase = "waiting", !.kind = k, !.link = l, !.who = b, !.out = o]
               \in Requests
  BY DEF Requests, Phases
<1>2. Idle \in Requests
  BY DEF Requests, Idle, Phases, Kinds
<1>3. MovedAlone(t) /\ req'[t] = r
  BY <1>1, <1>2 DEF MovedAlone, Knock
<1> QED BY <1>3 DEF Became, Idle

-----------------------------------------------------------------------------
\* Each step of a request in these words.
Comes(t) == \/ \E s \in 1..opened : Arrive(t, "read", s) \/ Arrive(t, "write", s)
            \/ \E l \in Links : Knock(t, "pair", l, "none")
            \/ \E b \in held : Knock(t, "renew", "none", b)

LEMMA ComesEffect ==
  ASSUME StoreTypes, NEW t \in Threads, Comes(t)
  PROVE  /\ MovedAlone(t) /\ req[t].phase = "idle"
         /\ UNCHANGED <<database, lib, bound, store, authority, held>>
         /\ \/ \E k \in {"read", "write"}, s \in 1..opened :
                 Became(t, "arrived", k, s, "none", "none", Out, 0)
            \/ \E l \in Links : Became(t, "waiting", "pair", 0, "none", l, Out, 0)
            \/ \E b \in held : Became(t, "waiting", "renew", 0, b, "none", Out, 0)
<1>1. req \in [Threads -> Requests] /\ Out \in SUBSET Browsers /\ held \subseteq Browsers
      /\ 1..opened \subseteq 0..MaxOpened
  BY DEF StoreTypes, Out
<1>2. req[t].phase = "idle" /\ UNCHANGED <<database, lib, bound, store, authority, held>>
  <2>1. req[t] = Idle /\ UNCHANGED <<database, lib, bound, store, authority, held>>
    BY DEF Comes, Arrive, Knock
  <2> QED BY <2>1 DEF Idle
<1>3. ASSUME NEW k \in {"read", "write"}, NEW s \in 1..opened, Arrive(t, k, s)
      PROVE  MovedAlone(t) /\ Became(t, "arrived", k, s, "none", "none", Out, 0)
  BY <1>1, <1>3, ArriveMoves DEF Kinds
<1>4. ASSUME NEW l \in Links, Knock(t, "pair", l, "none")
      PROVE  MovedAlone(t) /\ Became(t, "waiting", "pair", 0, "none", l, Out, 0)
  BY <1>1, <1>4, KnockMoves DEF Kinds
<1>5. ASSUME NEW b \in held, Knock(t, "renew", "none", b)
      PROVE  MovedAlone(t) /\ Became(t, "waiting", "renew", 0, b, "none", Out, 0)
  BY <1>1, <1>5, KnockMoves DEF Kinds
<1> QED BY <1>2, <1>3, <1>4, <1>5 DEF Comes

LEMMA LookupEffect ==
  ASSUME StoreTypes, NEW t \in Threads, Lookup(t)
  PROVE  /\ MovedAlone(t) /\ req[t].phase = "arrived"
         /\ UNCHANGED <<database, lib, bound, store, authority, held>>
         /\ \/ /\ req[t].sess \in sessions
               /\ Becomes(t, "known", owner[req[t].sess], req[t].saw)
            \/ Over(t)
<1>1. req \in [Threads -> Requests] /\ sessions \subseteq 1..MaxOpened
      /\ owner \in [1..MaxOpened -> Browsers \cup {"none"}]
  BY DEF StoreTypes
<1>2. CASE req[t].sess \in sessions
  <2>1. owner[req[t].sess] \in Browsers \cup {"none"}
    BY <1>1, <1>2
  <2> QED BY <1>1, <1>2, <2>1, WhoMoves DEF Lookup, Phases
<1>3. CASE req[t].sess \notin sessions
  BY <1>1, <1>3, EndsMoves DEF Lookup
<1> QED BY <1>2, <1>3

\* The steps that only take a request from one point to the next.
Follows(t, from, to) ==
  /\ MovedAlone(t) /\ req[t].phase = from
  /\ Becomes(t, to, req[t].who, req[t].saw) \/ Over(t)

LEMMA PlainEffect ==
  ASSUME StoreTypes, NEW t \in Threads
  PROVE  /\ CheckPaired(t) => Follows(t, "known", "paired")
         /\ Admit(t) => Follows(t, "paired", "admitted")
         /\ Send(t) => Follows(t, "read", "sent")
         /\ Find(t) => Follows(t, "waiting", "found")
         /\ Touch(t) => Follows(t, "found", "touched")
         /\ Answered(t) => Follows(t, "sent", "idle")
         /\ Open(t) => Follows(t, "touched", "idle")
<1>1. req \in [Threads -> Requests]
  BY DEF StoreTypes
<1> QED BY <1>1, GoesMoves, EndsMoves
        DEF Follows, CheckPaired, Admit, Send, Find, Touch, Answered, Open, Phases

LEMMA SawEffect ==
  ASSUME StoreTypes, NEW t \in Threads, Read(t) \/ Write(t)
  PROVE  /\ MovedAlone(t) /\ req[t].phase = "admitted"
         /\ UNCHANGED <<database, lib, bound, store, authority, held>>
         /\ \/ Becomes(t, "read", req[t].who, lib)
            \/ lib = bound /\ Becomes(t, "sent", req[t].who, lib)
            \/ Over(t)
<1>1. req \in [Threads -> Requests] /\ lib \in 0..MaxLib
  BY DEF StoreTypes
<1> QED BY <1>1, SawMoves, EndsMoves DEF Read, Write, AtHome, Phases

LEMMA ConsumeEffect ==
  ASSUME StoreTypes, NEW t \in Threads, Consume(t)
  PROVE  /\ MovedAlone(t) /\ req[t].phase = "waiting" /\ req[t].kind = "pair"
            /\ authority = "free"
         /\ UNCHANGED <<unseen, lib, bound, store, held>>
         /\ \/ /\ link[req[t].link] = "open" /\ authority' = t
               /\ \E b \in Browsers :
                    /\ browser[b] = "none" /\ browser' = [browser EXCEPT ![b] = "paired"]
                    /\ maker' = [maker EXCEPT ![b] = req[t].link]
                    /\ link' = [link EXCEPT ![req[t].link] = "used"]
                    /\ Becomes(t, "found", b, req[t].saw)
            \/ Over(t) /\ UNCHANGED <<link, browser, maker, authority>>
<1>1. req \in [Threads -> Requests]
  BY DEF StoreTypes
<1> QED BY <1>1, WhoMoves, EndsMoves DEF Consume, Usable, Phases

-----------------------------------------------------------------------------
\* Types.

\* The steps that belong to no request.
Desktop ==
  \/ \E l \in Links : CreateLink(l) \/ Lapse(l)
  \/ \E b \in Browsers : Forgotten(b) \/ Revoke(b)
  \/ \E l \in {lib, lib + 1} : l <= MaxLib /\ Replace(l)
  \/ RevokeAll \/ Rebind \/ Expire

LEMMA DesktopFrame ==
  ASSUME Desktop \/ UNCHANGED sessionVars
  PROVE  UNCHANGED <<req, authority, held, owner, opened, maker>>
BY DEF Desktop, CreateLink, Lapse, Forgotten, Revoke, RevokeAll, Replace, Rebind, Expire,
       database, store, sessionVars

LEMMA TypesStep ==
  ASSUME StoreTypes, KnownByTheirSession, [SessionsNext]_sessionVars
  PROVE  StoreTypes'
<1>1. ASSUME NEW t \in Threads, Comes(t) PROVE StoreTypes'
  BY <1>1, ComesEffect DEF StoreTypes, MovedAlone, database, store
<1>2. ASSUME NEW t \in Threads, Lookup(t) PROVE StoreTypes'
  BY <1>2, LookupEffect DEF StoreTypes, MovedAlone, database, store
<1>3. ASSUME NEW t \in Threads, CheckPaired(t) \/ Admit(t) \/ Send(t) \/ Answered(t)
      PROVE  StoreTypes'
  BY <1>3, PlainEffect
     DEF StoreTypes, MovedAlone, Follows, CheckPaired, Admit, Send, Answered, database,
         store
<1>4. ASSUME NEW t \in Threads, Read(t) \/ Write(t) PROVE StoreTypes'
  BY <1>4, SawEffect DEF StoreTypes, MovedAlone, database, store
<1>5. ASSUME NEW t \in Threads, Consume(t) PROVE StoreTypes'
  <2>1. req[t].link \in Links \cup {"none"}
    BY DEF StoreTypes, Requests
  <2>2. MovedAlone(t) /\ authority' \in {t, authority}
        /\ UNCHANGED <<unseen, lib, bound, store, held>>
    BY <1>5, ConsumeEffect
  <2>3. /\ link' \in [Links -> {"none", "open", "used", "expired", "gone"}]
        /\ browser' \in [Browsers -> {"none", "paired", "revoked", "gone"}]
        /\ maker' \in [Browsers -> Links \cup {"none"}]
    <3>1. CASE UNCHANGED <<link, browser, maker>>
      BY <3>1 DEF StoreTypes
    <3>2. ASSUME NEW b \in Browsers, browser' = [browser EXCEPT ![b] = "paired"],
                 maker' = [maker EXCEPT ![b] = req[t].link],
                 link' = [link EXCEPT ![req[t].link] = "used"]
          PROVE  /\ link' \in [Links -> {"none", "open", "used", "expired", "gone"}]
                 /\ browser' \in [Browsers -> {"none", "paired", "revoked", "gone"}]
                 /\ maker' \in [Browsers -> Links \cup {"none"}]
      BY <2>1, <3>2 DEF StoreTypes
    <3> QED BY <1>5, <3>1, <3>2, ConsumeEffect
  <2> QED BY <2>2, <2>3 DEF StoreTypes, MovedAlone, store
<1>6. ASSUME NEW t \in Threads, Find(t) \/ Touch(t) PROVE StoreTypes'
  BY <1>6, PlainEffect DEF StoreTypes, MovedAlone, Follows, Find, Touch, database, store
<1>7. ASSUME NEW t \in Threads, Open(t) PROVE StoreTypes'
  <2>1. MovedAlone(t) /\ req[t].who \in Browsers \cup {"none"}
    BY <1>7, PlainEffect DEF Follows, StoreTypes, Requests
  <2>2. /\ UNCHANGED <<link, browser, unseen, maker, lib, bound>> /\ authority' = "free"
        /\ opened < MaxOpened /\ opened' = opened + 1 /\ held' = held \cup {req[t].who}
        /\ owner' = [owner EXCEPT ![opened + 1] = req[t].who]
        /\ sessions' = Kept \cup {opened + 1}
    BY <1>7 DEF Open, Insert, database
  <2>3. held' \subseteq Browsers
    BY <1>7, <2>2 DEF StoreTypes, KnownByTheirSession, Open
  <2>4. opened' \in 0..MaxOpened /\ Kept \subseteq sessions
    BY <2>2 DEF StoreTypes, Kept
  <2>5. owner' \in [1..MaxOpened -> Browsers \cup {"none"}]
        /\ sessions' \subseteq 1..opened'
    BY <2>1, <2>2, <2>4 DEF StoreTypes
  <2> QED BY <2>1, <2>2, <2>3, <2>4, <2>5 DEF StoreTypes, MovedAlone
<1>8. CASE Desktop
  <2>1. UNCHANGED <<req, authority, held, owner, opened, maker>>
    BY <1>8, DesktopFrame
  <2>2. /\ link' \in [Links -> {"none", "open", "used", "expired", "gone"}]
        /\ browser' \in [Browsers -> {"none", "paired", "revoked", "gone"}]
        /\ unseen' \subseteq Browsers /\ lib' \in 1..MaxLib /\ bound' \in 1..MaxLib
        /\ sessions' \subseteq sessions
    BY <1>8 DEF StoreTypes, Desktop, CreateLink, Lapse, Forgotten, Revoke, RevokeAll,
                Replace, BrowsersGone, Rebind, Expire, database, store
  <2> QED BY <2>1, <2>2 DEF StoreTypes
<1>9. CASE UNCHANGED sessionVars
  BY <1>9 DEF StoreTypes, sessionVars, database, store
<1> QED BY <1>1, <1>2, <1>3, <1>4, <1>5, <1>6, <1>7, <1>8, <1>9
           DEF SessionsNext, Comes, Desktop

LEMMA GateStep ==
  ASSUME StoreTypes, GateIsHeld, [SessionsNext]_sessionVars
  PROVE  GateIsHeld'
<1> USE DEF GateIsHeld
<1>1. ASSUME NEW t \in Threads, Comes(t) PROVE GateIsHeld'
  BY <1>1, ComesEffect DEF MovedAlone, Became
<1>2. ASSUME NEW t \in Threads, Lookup(t) PROVE GateIsHeld'
  BY <1>2, LookupEffect DEF MovedAlone, Becomes, Over, Became
<1>3. ASSUME NEW t \in Threads, CheckPaired(t) \/ Admit(t) \/ Send(t) \/ Answered(t)
      PROVE  GateIsHeld'
  <2>1. UNCHANGED authority
    BY <1>3 DEF CheckPaired, Admit, Send, Answered
  <2> QED BY <1>3, <2>1, PlainEffect DEF Follows, MovedAlone, Becomes, Over, Became
<1>4. ASSUME NEW t \in Threads, Read(t) \/ Write(t) PROVE GateIsHeld'
  BY <1>4, SawEffect DEF MovedAlone, Becomes, Over, Became
<1>5. ASSUME NEW t \in Threads, Consume(t) PROVE GateIsHeld'
  BY <1>5, ConsumeEffect DEF MovedAlone, Becomes, Over, Became
<1>6. ASSUME NEW t \in Threads, Find(t) PROVE GateIsHeld'
  <2>1. authority = "free" /\ \/ authority' = t /\ Reaches(t, "found")
                              \/ authority' = authority /\ Ends(t)
    BY <1>6 DEF Find
  <2>2. MovedAlone(t) /\ \/ authority' = t /\ req'[t].phase = "found"
                         \/ authority' = authority /\ req'[t].phase = "idle"
    BY <2>1, GoesMoves, EndsMoves DEF StoreTypes, Phases, Becomes, Over, Became
  <2> QED BY <2>1, <2>2 DEF MovedAlone
<1>7. ASSUME NEW t \in Threads, Touch(t) \/ Open(t) PROVE GateIsHeld'
  <2>1. authority = t /\ \/ authority' = authority /\ Reaches(t, "touched")
                         \/ authority' = "free" /\ Ends(t)
    BY <1>7 DEF Touch, Open
  <2>2. MovedAlone(t) /\ \/ authority' = t /\ req'[t].phase = "touched"
                         \/ authority' = "free" /\ req'[t].phase = "idle"
    BY <2>1, GoesMoves, EndsMoves DEF StoreTypes, Phases, Becomes, Over, Became
  <2> QED BY <2>1, <2>2 DEF MovedAlone
<1>8. CASE Desktop \/ UNCHANGED sessionVars
  BY <1>8, DesktopFrame
<1> QED BY <1>1, <1>2, <1>3, <1>4, <1>5, <1>6, <1>7, <1>8 DEF SessionsNext, Comes, Desktop

-----------------------------------------------------------------------------
\* Who is out stays out.

\* How the browsers change: paired once, then out for good.
LEMMA OutGrows == ASSUME StoreTypes, [SessionsNext]_sessionVars PROVE Out \subseteq Out'
<1>1. ASSUME NEW t \in Threads, Consume(t) PROVE Out \subseteq Out'
  BY <1>1, ConsumeEffect DEF StoreTypes, Out
<1>2. CASE Desktop
  BY <1>2 DEF StoreTypes, Out, Desktop, CreateLink, Lapse, Forgotten, Revoke, RevokeAll,
              Replace, BrowsersGone, Rebind, Expire, database
<1>3. CASE UNCHANGED browser
  BY <1>3 DEF Out
<1> QED BY <1>1, <1>2, <1>3
     DEF SessionsNext, Desktop, Arrive, Lookup, CheckPaired, Admit, Read, Send, Write,
         Answered, Knock, Find, Touch, Open, database, sessionVars

LEMMA OutStep ==
  ASSUME StoreTypes, OutStaysOut, [SessionsNext]_sessionVars
  PROVE  OutStaysOut'
<1>1. Out \subseteq Out' /\ \A t \in Threads : req[t].out \subseteq Out
  BY OutGrows DEF OutStaysOut
<1>2. ASSUME NEW t \in Threads, MovedAlone(t),
             req'[t].out \in {req[t].out, Out, {}}
      PROVE  OutStaysOut'
  BY <1>1, <1>2 DEF OutStaysOut, MovedAlone
<1>3. ASSUME NEW t \in Threads, Comes(t) PROVE OutStaysOut'
  BY <1>2, <1>3, ComesEffect DEF Became
<1>4. ASSUME NEW t \in Threads, Lookup(t) PROVE OutStaysOut'
  BY <1>2, <1>4, LookupEffect DEF Becomes, Over, Became
<1>5. ASSUME NEW t \in Threads, Read(t) \/ Write(t) PROVE OutStaysOut'
  BY <1>2, <1>5, SawEffect DEF Becomes, Over, Became
<1>6. ASSUME NEW t \in Threads, Consume(t) PROVE OutStaysOut'
  BY <1>2, <1>6, ConsumeEffect DEF Becomes, Over, Became
<1>7. ASSUME NEW t \in Threads,
             CheckPaired(t) \/ Admit(t) \/ Send(t) \/ Answered(t) \/ Find(t) \/ Touch(t)
             \/ Open(t)
      PROVE  OutStaysOut'
  BY <1>2, <1>7, PlainEffect DEF Follows, Becomes, Over, Became
<1>8. CASE Desktop \/ UNCHANGED sessionVars
  BY <1>1, <1>8, DesktopFrame DEF OutStaysOut
<1> QED BY <1>3, <1>4, <1>5, <1>6, <1>7, <1>8 DEF SessionsNext, Comes, Desktop

\* From where a browser was seen paired, its request does not have it among those out.
Passed == {"paired", "admitted", "read", "sent", "found", "touched"}
SeenIn == \A t \in Threads : req[t].phase \in Passed => req[t].who \notin req[t].out

LEMMA SeenInStep ==
  ASSUME StoreTypes, OutStaysOut, SeenIn, [SessionsNext]_sessionVars
  PROVE  SeenIn'
<1> USE DEF SeenIn, Passed
<1>1. \A t \in Threads : req[t].out \subseteq Out
  BY DEF OutStaysOut
<1>2. ASSUME NEW t \in Threads, Comes(t) PROVE SeenIn'
  BY <1>2, ComesEffect DEF MovedAlone, Became
<1>3. ASSUME NEW t \in Threads, Lookup(t) PROVE SeenIn'
  BY <1>3, LookupEffect DEF MovedAlone, Becomes, Over, Became
<1>4. ASSUME NEW t \in Threads, CheckPaired(t) \/ Find(t) PROVE SeenIn'
  <2>1. MovedAlone(t) /\ \/ /\ browser[req[t].who] = "paired"
                            /\ Becomes(t, req'[t].phase, req[t].who, req[t].saw)
                         \/ Over(t)
    BY <1>4, GoesMoves, EndsMoves
       DEF StoreTypes, CheckPaired, Find, Paired, Renewable, Phases, Becomes, Became
  <2>2. browser[req[t].who] = "paired" => req[t].who \notin Out
    BY DEF Out
  <2> QED BY <1>1, <2>1, <2>2 DEF MovedAlone, Becomes, Over, Became
<1>5. ASSUME NEW t \in Threads, Admit(t) \/ Send(t) \/ Answered(t) \/ Touch(t) \/ Open(t)
      PROVE  SeenIn'
  BY <1>5, PlainEffect DEF Follows, MovedAlone, Becomes, Over, Became
<1>6. ASSUME NEW t \in Threads, Read(t) \/ Write(t) PROVE SeenIn'
  BY <1>6, SawEffect DEF MovedAlone, Becomes, Over, Became
<1>7. ASSUME NEW t \in Threads, Consume(t) PROVE SeenIn'
  <2>1. ASSUME NEW b \in Browsers, browser[b] = "none" PROVE b \notin req[t].out
    BY <1>1, <2>1 DEF Out
  <2> QED BY <1>7, <2>1, ConsumeEffect DEF MovedAlone, Becomes, Over, Became
<1>8. CASE Desktop \/ UNCHANGED sessionVars
  BY <1>8, DesktopFrame
<1> QED BY <1>2, <1>3, <1>4, <1>5, <1>6, <1>7, <1>8 DEF SessionsNext, Comes, Desktop

-----------------------------------------------------------------------------
\* Sessions and whose they are.

LEMMA BrowsersStay ==
  ASSUME StoreTypes, [SessionsNext]_sessionVars
  PROVE  \A b \in Browsers : browser[b] # "none" => browser'[b] # "none"
<1>1. ASSUME NEW t \in Threads, Consume(t)
      PROVE  \A b \in Browsers : browser[b] # "none" => browser'[b] # "none"
  BY <1>1, ConsumeEffect DEF StoreTypes
<1>2. CASE Desktop
  BY <1>2 DEF StoreTypes, Desktop, CreateLink, Lapse, Forgotten, Revoke, RevokeAll, Replace,
              BrowsersGone, Rebind, Expire, database
<1>3. CASE UNCHANGED browser
  BY <1>3
<1> QED BY <1>1, <1>2, <1>3
     DEF SessionsNext, Desktop, Arrive, Lookup, CheckPaired, Admit, Read, Send, Write,
         Answered, Knock, Find, Touch, Open, database, sessionVars

\* The store changes in four ways.
LEMMA StoreStep ==
  ASSUME [SessionsNext]_sessionVars
  PROVE  \/ UNCHANGED store
         \/ /\ UNCHANGED <<opened, owner>>
            /\ \/ sessions' = {}
               \/ sessions # {} /\ sessions' = sessions \ {Oldest(sessions)}
         \/ \E t \in Threads : /\ CheckPaired(t) /\ ~Paired(t) /\ UNCHANGED <<opened, owner>>
                               /\ sessions' = sessions \ {req[t].sess}
         \/ \E t \in Threads : Open(t)
<1>1. CASE Desktop
  <2>1. CASE Expire
    BY <2>1 DEF Expire
  <2>2. CASE Rebind
    BY <2>2 DEF Rebind
  <2>3. CASE \E l \in Links : CreateLink(l) \/ Lapse(l)
    BY <2>3 DEF CreateLink, Lapse
  <2>4. CASE \E b \in Browsers : Forgotten(b) \/ Revoke(b)
    BY <2>4 DEF Forgotten, Revoke
  <2>5. CASE RevokeAll \/ \E l \in {lib, lib + 1} : l <= MaxLib /\ Replace(l)
    BY <2>5 DEF RevokeAll, Replace
  <2> QED BY <1>1, <2>1, <2>2, <2>3, <2>4, <2>5 DEF Desktop
<1>2. ASSUME NEW t \in Threads, CheckPaired(t)
      PROVE  \/ UNCHANGED store
             \/ /\ ~Paired(t) /\ UNCHANGED <<opened, owner>>
                /\ sessions' = sessions \ {req[t].sess}
  BY <1>2 DEF CheckPaired, store
<1>3. CASE UNCHANGED store
  BY <1>3
<1> QED BY <1>1, <1>2, <1>3
     DEF SessionsNext, Desktop, Arrive, Lookup, Admit, Read, Send, Write, Answered, Knock,
         Consume, Find, Touch, sessionVars

LEMMA SessionsStep ==
  ASSUME StoreTypes, GateIsHeld, KnownByTheirSession, SessionsAreOfBrowsers,
         [SessionsNext]_sessionVars
  PROVE  SessionsAreOfBrowsers'
<1>1. \A b \in Browsers : browser[b] # "none" => browser'[b] # "none"
  BY BrowsersStay
<1>2. sessions \subseteq 1..opened /\ opened \in 0..MaxOpened /\ IsFiniteSet(sessions)
      /\ Cardinality(sessions) \in Nat /\ Cardinality(sessions) <= Capacity
  <2>1. sessions \subseteq 1..opened /\ opened \in 0..MaxOpened
    BY DEF StoreTypes
  <2>2. IsFiniteSet(sessions)
    <3>1. IsFiniteSet(1..opened)
      BY <2>1, FS_Interval
    <3> QED BY <2>1, <3>1, FS_Subset
  <2> QED BY <2>1, <2>2, FS_CardinalityType DEF SessionsAreOfBrowsers
<1>3. ASSUME UNCHANGED <<opened, owner>>, sessions' \subseteq sessions
      PROVE  SessionsAreOfBrowsers'
  <2>1. Cardinality(sessions') <= Cardinality(sessions) /\ Cardinality(sessions') \in Nat
    BY <1>2, <1>3, FS_Subset, FS_CardinalityType
  <2> QED BY <1>1, <1>2, <1>3, <2>1 DEF SessionsAreOfBrowsers
<1>4. ASSUME NEW t \in Threads, Open(t)
      PROVE  SessionsAreOfBrowsers'
  <2>1. /\ opened < MaxOpened /\ opened' = opened + 1
        /\ owner' = [owner EXCEPT ![opened + 1] = req[t].who]
        /\ sessions' = Kept \cup {opened + 1} /\ UNCHANGED browser
        /\ req[t].phase = "touched"
    BY <1>4 DEF Open, Insert, database
  <2>2. req[t].who \in Browsers /\ browser[req[t].who] # "none"
    BY <2>1 DEF KnownByTheirSession
  <2>3. Cardinality(sessions') <= Capacity
    <3>1. SessionsTypeOK
      BY Types
    <3>2. Kept \subseteq sessions /\ IsFiniteSet(Kept) /\ Cardinality(Kept) < Capacity
      BY <1>2, <3>1, KeptHasRoom
    <3>3. opened + 1 \notin Kept
      BY <1>2, <3>2
    <3>4. Cardinality(Kept \cup {opened + 1}) = Cardinality(Kept) + 1
          /\ Cardinality(Kept) \in Nat
      BY <3>2, <3>3, FS_AddElement, FS_CardinalityType
    <3> QED BY <2>1, <3>2, <3>4
  <2>4. \A s \in 1..opened' : owner'[s] \in Browsers /\ browser'[owner'[s]] # "none"
    BY <2>1, <2>2 DEF SessionsAreOfBrowsers, StoreTypes
  <2> QED BY <2>3, <2>4 DEF SessionsAreOfBrowsers
<1> QED BY <1>3, <1>4, StoreStep DEF store

LEMMA KnownStep ==
  ASSUME StoreTypes, GateIsHeld, KnownByTheirSession, SessionsAreOfBrowsers,
         [SessionsNext]_sessionVars
  PROVE  KnownByTheirSession'
<1>0. /\ \A b \in Browsers : browser[b] # "none" => browser'[b] # "none"
      /\ opened' \in Nat /\ opened <= opened' /\ opened \in Nat
      /\ \A s \in 1..opened : owner'[s] = owner[s]
  <2>1. opened \in 0..MaxOpened /\ owner \in [1..MaxOpened -> Browsers \cup {"none"}]
    BY DEF StoreTypes
  <2>2. ASSUME NEW t \in Threads, Open(t)
        PROVE  opened' = opened + 1 /\ \A s \in 1..opened : owner'[s] = owner[s]
    BY <2>1, <2>2 DEF Open, Insert
  <2> QED BY <2>1, <2>2, StoreStep, BrowsersStay DEF store
<1> USE DEF KnownByTheirSession
<1>1. ASSUME NEW t \in Threads, Comes(t) PROVE KnownByTheirSession'
  BY <1>0, <1>1, ComesEffect DEF StoreTypes, MovedAlone, Became
<1>2. ASSUME NEW t \in Threads, Lookup(t) PROVE KnownByTheirSession'
  BY <1>0, <1>2, LookupEffect DEF MovedAlone, Becomes, Over, Became, store
<1>3. ASSUME NEW t \in Threads,
             CheckPaired(t) \/ Admit(t) \/ Send(t) \/ Answered(t) \/ Open(t)
      PROVE  KnownByTheirSession'
  BY <1>0, <1>3, PlainEffect DEF Follows, MovedAlone, Becomes, Over, Became
<1>4. ASSUME NEW t \in Threads, Read(t) \/ Write(t) PROVE KnownByTheirSession'
  BY <1>0, <1>4, SawEffect DEF MovedAlone, Becomes, Over, Became
<1>5. ASSUME NEW t \in Threads, Consume(t) PROVE KnownByTheirSession'
  BY <1>0, <1>5, ConsumeEffect DEF StoreTypes, MovedAlone, Becomes, Over, Became
<1>6. ASSUME NEW t \in Threads, Find(t) PROVE KnownByTheirSession'
  <2>1. MovedAlone(t) /\ \/ /\ browser[req[t].who] = "paired" /\ req[t].kind = "renew"
                            /\ req[t].phase = "waiting"
                            /\ Becomes(t, "found", req[t].who, req[t].saw)
                         \/ Over(t)
    BY <1>6, GoesMoves, EndsMoves DEF StoreTypes, Find, Renewable, Phases
  <2> QED BY <1>0, <2>1 DEF MovedAlone, Becomes, Over, Became
<1>7. ASSUME NEW t \in Threads, Touch(t) PROVE KnownByTheirSession'
  BY <1>0, <1>7, PlainEffect DEF Follows, MovedAlone, Becomes, Over, Became
<1>8. CASE Desktop \/ UNCHANGED sessionVars
  BY <1>0, <1>8, DesktopFrame
<1> QED BY <1>1, <1>2, <1>3, <1>4, <1>5, <1>6, <1>7, <1>8 DEF SessionsNext, Comes, Desktop

-----------------------------------------------------------------------------
\* Links.

LEMMA MakersStep ==
  ASSUME StoreTypes, GateIsHeld, KnownByTheirSession, MakersAreSpent,
         [SessionsNext]_sessionVars
  PROVE  MakersAreSpent'
<1> USE DEF MakersAreSpent
<1>1. ASSUME NEW t \in Threads, Consume(t) PROVE MakersAreSpent'
  <2>1. CASE UNCHANGED <<link, browser, maker>>
    BY <2>1
  <2>2. ASSUME NEW b \in Browsers, link[req[t].link] = "open", browser[b] = "none",
               browser' = [browser EXCEPT ![b] = "paired"],
               maker' = [maker EXCEPT ![b] = req[t].link],
               link' = [link EXCEPT ![req[t].link] = "used"]
        PROVE  MakersAreSpent'
    <3>1. req[t].link \in Links /\ req[t].link # "none"
      BY <1>1, ConsumeEffect DEF KnownByTheirSession
    <3>2. \A c \in Browsers : maker[c] # req[t].link
      BY <2>2, <3>1
    <3> QED BY <2>2, <3>1, <3>2 DEF StoreTypes
  <2> QED BY <1>1, <2>1, <2>2, ConsumeEffect
<1>2. ASSUME NEW l \in Links, CreateLink(l) \/ Lapse(l) PROVE MakersAreSpent'
  <2>1. \A b \in Browsers : maker[b] # l
    BY <1>2 DEF CreateLink, Lapse
  <2> QED BY <1>2, <2>1 DEF CreateLink, Lapse, StoreTypes
<1>3. ASSUME NEW b \in Browsers, Revoke(b) PROVE MakersAreSpent'
  BY <1>3 DEF Revoke, StoreTypes
<1>4. CASE RevokeAll
  BY <1>4 DEF RevokeAll, StoreTypes
<1>5. ASSUME NEW l, Replace(l) PROVE MakersAreSpent'
  BY <1>5 DEF Replace, BrowsersGone, StoreTypes
<1>6. CASE UNCHANGED <<link, browser, maker>>
  BY <1>6
<1> QED BY <1>1, <1>2, <1>3, <1>4, <1>5, <1>6
     DEF SessionsNext, Arrive, Lookup, CheckPaired, Admit, Read, Send, Write, Answered,
         Knock, Find, Touch, Open, Forgotten, Rebind, Expire, database, sessionVars

-----------------------------------------------------------------------------
\* What is read, and what is sent.

LEMMA ReadStep ==
  ASSUME StoreTypes, GateIsHeld, ReadInOrder, AnswersStayHome, [SessionsNext]_sessionVars
  PROVE  ReadInOrder' /\ AnswersStayHome'
<1> USE DEF ReadInOrder, AnswersStayHome
<1>0. lib \in Nat /\ bound \in Nat /\ bound <= lib
  BY DEF StoreTypes
<1>1. ASSUME NEW t \in Threads, Comes(t) PROVE ReadInOrder' /\ AnswersStayHome'
  BY <1>1, ComesEffect DEF MovedAlone, Became
<1>2. ASSUME NEW t \in Threads, Lookup(t) PROVE ReadInOrder' /\ AnswersStayHome'
  BY <1>2, LookupEffect DEF MovedAlone, Becomes, Over, Became
<1>3. ASSUME NEW t \in Threads,
             CheckPaired(t) \/ Admit(t) \/ Answered(t) \/ Find(t) \/ Touch(t) \/ Open(t)
      PROVE  ReadInOrder' /\ AnswersStayHome'
  <2>1. UNCHANGED <<lib, bound>>
    BY <1>3 DEF CheckPaired, Admit, Answered, Find, Touch, Open
  <2> QED BY <1>3, <2>1, PlainEffect DEF Follows, MovedAlone, Becomes, Over, Became
<1>4. ASSUME NEW t \in Threads, Send(t) PROVE ReadInOrder' /\ AnswersStayHome'
  <2>1. UNCHANGED <<lib, bound>> /\ \/ lib = bound /\ Reaches(t, "sent")
                                    \/ Ends(t)
    BY <1>4 DEF Send, MaySend, AtHome
  <2>2. MovedAlone(t) /\ req[t].phase = "read"
        /\ \/ lib = bound /\ Becomes(t, "sent", req[t].who, req[t].saw)
           \/ Over(t)
    BY <1>4, <2>1, GoesMoves, EndsMoves DEF StoreTypes, Send, Phases
  <2>3. req[t].saw \in Nat
    BY DEF StoreTypes, Requests
  <2> QED BY <1>0, <2>1, <2>2, <2>3 DEF MovedAlone, Becomes, Over, Became
<1>5. ASSUME NEW t \in Threads, Read(t) \/ Write(t) PROVE ReadInOrder' /\ AnswersStayHome'
  BY <1>0, <1>5, SawEffect DEF MovedAlone, Becomes, Over, Became
<1>6. ASSUME NEW t \in Threads, Consume(t) PROVE ReadInOrder' /\ AnswersStayHome'
  BY <1>6, ConsumeEffect DEF MovedAlone, Becomes, Over, Became
<1>7. ASSUME NEW l \in {lib, lib + 1}, Replace(l) PROVE ReadInOrder' /\ AnswersStayHome'
  <2>1. lib' \in Nat /\ lib <= lib' /\ UNCHANGED <<bound, req>>
    BY <1>0, <1>7 DEF Replace
  <2>2. \A t \in Threads : req[t].saw \in Nat
    BY DEF StoreTypes, Requests
  <2> QED BY <1>0, <2>1, <2>2
<1>8. CASE Rebind
  <2>1. bound' = lib /\ lib' = lib /\ \A t \in Threads : req'[t].phase = "idle"
    BY <1>8 DEF Rebind, Idle, database
  <2> QED BY <1>0, <2>1
<1>9. CASE UNCHANGED <<lib, bound, req>>
  BY <1>9
<1> QED BY <1>1, <1>2, <1>3, <1>4, <1>5, <1>6, <1>7, <1>8, <1>9
     DEF SessionsNext, Comes, CreateLink, Lapse, Forgotten, Revoke, RevokeAll, Expire,
         sessionVars, store, database

-----------------------------------------------------------------------------
LEMMA SessionInvStep == SessionInv /\ [SessionsNext]_sessionVars => SessionInv'
<1> SUFFICES ASSUME SessionInv, [SessionsNext]_sessionVars PROVE SessionInv'
  OBVIOUS
<1>1. /\ StoreTypes /\ GateIsHeld /\ SeenIn /\ OutStaysOut /\ SessionsAreOfBrowsers
      /\ KnownByTheirSession /\ MakersAreSpent /\ ReadInOrder /\ AnswersStayHome
  BY Types DEF SessionInv, RevokedStayOut, SeenIn, Passed
<1>2. StoreTypes' /\ GateIsHeld'
  BY <1>1, TypesStep, GateStep
<1>3. SeenIn' /\ OutStaysOut'
  BY <1>1, OutStep, SeenInStep
<1>4. SessionsAreOfBrowsers' /\ KnownByTheirSession'
  BY <1>1, SessionsStep, KnownStep
<1>5. MakersAreSpent' /\ ReadInOrder' /\ AnswersStayHome'
  BY <1>1, MakersStep, ReadStep
<1>6. TypedRequests' /\ SessionsTypeOK'
  <2>1. (StoreTypes /\ GateIsHeld)' => (TypedRequests /\ SessionsTypeOK)'
    BY Types, PTL
  <2> QED BY <1>2, <2>1
<1>7. RevokedStayOut'
  BY <1>3, <1>6 DEF RevokedStayOut, SeenIn, Passed
<1> QED BY <1>3, <1>4, <1>5, <1>6, <1>7 DEF SessionInv

\* The invariant is inductive, so it holds of every behaviour.
THEOREM SessionInvariance == SessionsSpec => []SessionInv
BY InitSessionInv, SessionInvStep, PTL DEF SessionsSpec

\* Every variable has its type, and the gate is held by exactly the request between
\* finding its browser and opening the session.
THEOREM SessionsTyped == SessionsSpec => []SessionsTypeOK
<1>1. SessionInv => SessionsTypeOK
  BY DEF SessionInv, RevokedStayOut
<1> QED BY <1>1, SessionInvariance, PTL

\* A browser that was out when a request came in is not admitted by it, however the
\* look-up, the check and a renewal interleave with the revocation.
THEOREM OutIsOut == SessionsSpec => []RevokedStayOut
<1>1. SessionInv => RevokedStayOut
  BY DEF SessionInv
<1> QED BY <1>1, SessionInvariance, PTL

\* A link pairs one browser, and none after its library was replaced.
THEOREM PairedOnce == SessionsSpec => []LinksPairOnce
<1>1. SessionInv => LinksPairOnce
  BY DEF SessionInv, MakersAreSpent, LinksPairOnce
<1> QED BY <1>1, SessionInvariance, PTL

\* What is sent was read in the library the listener serves.
THEOREM SentFromHome == SessionsSpec => []AnswersStayHome
<1>1. SessionInv => AnswersStayHome
  BY DEF SessionInv
<1> QED BY <1>1, SessionInvariance, PTL

\* What NobodyElseSignedOut says of one step.
SignedOutForCause ==
  /\ Cardinality(sessions') <= Capacity
  /\ \A s \in sessions \ sessions' :
       s = Oldest(sessions) \/ owner[s] \in Out \/ sessions' = {}

LEMMA SignOutStep ==
  ASSUME SessionInv, SessionInv', [SessionsNext]_sessionVars
  PROVE  SignedOutForCause
<1>1. Cardinality(sessions') <= Capacity
  BY DEF SessionInv, SessionsAreOfBrowsers
<1>2. StoreTypes /\ KnownByTheirSession /\ SessionsAreOfBrowsers /\ SessionsTypeOK
  BY Types DEF SessionInv, RevokedStayOut
<1>3. ASSUME NEW t \in Threads, CheckPaired(t), ~Paired(t),
             sessions' = sessions \ {req[t].sess}
      PROVE  \A s \in sessions \ sessions' : owner[s] \in Out
  <2>1. req[t].phase = "known"
    BY <1>3 DEF CheckPaired
  <2>2. /\ req[t].sess \in 1..opened /\ req[t].who = owner[req[t].sess]
        /\ req[t].who \in Browsers /\ browser[req[t].who] # "none"
    BY <1>2, <2>1 DEF KnownByTheirSession, SessionsAreOfBrowsers
  <2>3. req[t].who \in Out
    BY <1>2, <1>3, <2>2 DEF Paired, Out, StoreTypes
  <2> QED BY <1>3, <2>2, <2>3
<1>4. ASSUME NEW t \in Threads, Open(t)
      PROVE  \A s \in sessions \ sessions' : s = Oldest(sessions)
  <2>1. sessions' = Kept \cup {opened + 1}
    BY <1>4 DEF Open, Insert
  <2> QED BY <1>2, <2>1, KeptHasRoom DEF SessionsAreOfBrowsers
<1> QED BY <1>1, <1>3, <1>4, StoreStep DEF SignedOutForCause, store

\* Nobody loses a session but the oldest, a browser that is out, or all with the
\* listener; and the store stays within its capacity.
THEOREM OthersStaySignedIn == SessionsSpec => NobodyElseSignedOut
<1>1. SessionInv /\ SessionInv' /\ [SessionsNext]_sessionVars => SignedOutForCause
  BY SignOutStep
<1> QED BY <1>1, SessionInvariance, PTL DEF SessionsSpec, NobodyElseSignedOut,
                                            SignedOutForCause
=============================================================================
