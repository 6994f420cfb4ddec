-------------------------- MODULE DesktopLifecycle --------------------------
(***************************************************************************)
(* The Companion listener's restarts and rebinds, and the desktop's exit.  *)
(*                                                                         *)
(* Source: src/src-tauri/src/companion_api.rs (reconcile, stop, shutdown), *)
(* trusted_lan_network_watcher.rs, trusted_lan_config_commands.rs,         *)
(* trusted_lan_runtime_commands.rs, state.rs and desktop_lifecycle.rs.     *)
(*                                                                         *)
(* Whoever restarts the listener holds the reconcile gate: the task of the *)
(* start-up, the network watcher, the configuration command, the tasks a   *)
(* library change spawns, and the coordinator of the exit.  A library      *)
(* change writes the database and the runtime's configuration without it.  *)
(* The local-name advertisement, tray and window are left out.             *)
(***************************************************************************)
EXTENDS Naturals, FiniteSets

CONSTANTS Addrs,        \* addresses of the selected interface
          Codes,        \* exit codes; 0 is success
          MaxServers,   \* bound: listeners started
          MaxChanges,   \* bound: library changes and configuration commands
          MaxMoves,     \* bound: changes of the interface's address
          MaxQuits      \* bound: exit requests

ASSUME LifecycleAssumption ==
  /\ 0 \in Codes /\ Codes \subseteq Nat /\ "none" \notin Addrs
  /\ {MaxServers, MaxChanges, MaxMoves, MaxQuits} \subseteq Nat

Owned == {"startup", "watcher"}                 \* the tasks the exit joins
Actors == Owned \cup {"command", "reload", "coordinator"}
Locked == {"locked", "recheck", "saved", "stop", "drain", "check", "bind"}

VARIABLES saved, local,   \* the database: settings, and an authoritative role
          config,         \* the runtime's configuration
          net,            \* the address the interface has
          pc, seen,       \* of each actor; what it has read
          loader, queue,  \* the library change; reconciliations it has spawned
          gate, holds,    \* of the reconcile gate; the server an actor drains
          handle, addr, live, busy, running,  \* the listeners
          exit, code, shutting, cut,          \* the exit
          first, final, overlapped,           \* history
          changes, moves, quits

settings == <<saved, local, config, net>>
actors   == <<pc, seen, gate, holds>>
reloads  == <<loader, queue>>
servers  == <<handle, addr, live, busy, running>>
ending   == <<exit, code, shutting, cut, first, final>>
counts   == <<changes, moves, quits>>
vars == <<settings, actors, reloads, servers, ending, overlapped, counts>>

Off == [on |-> FALSE, addr |-> "none"]
Setting == [on : BOOLEAN, addr : Addrs \cup {"none"}]
Bound(c) == IF c.on THEN c.addr ELSE "none"     \* bind_address
Loaded == [on |-> saved.on /\ local, addr |-> saved.addr]

Init ==
  /\ saved \in {Off} \cup [on : {TRUE}, addr : Addrs] /\ local = TRUE
  /\ config = saved /\ net \in Addrs
  /\ pc = [a \in Actors |-> IF a = "startup" THEN "queued" ELSE "idle"]
  /\ seen = [a \in Actors |-> Off] /\ loader = [at |-> "idle", got |-> Off] /\ queue = 0
  /\ gate = "free" /\ holds = [a \in Actors |-> 0]
  /\ handle = 0 /\ addr = [s \in 1..MaxServers |-> "none"] /\ live = {} /\ busy = {}
  /\ running = FALSE /\ exit = "running" /\ code = 0 /\ shutting = FALSE
  /\ cut = FALSE /\ first = 0 /\ final = 0 /\ overlapped = FALSE
  /\ changes = 0 /\ moves = 0 /\ quits = 0

Goes(a, phase) == pc' = [pc EXCEPT ![a] = phase]
Rest(a) == IF a = "startup" THEN "ended" ELSE IF a = "coordinator" THEN "done" ELSE "idle"
Leaves(a) == Goes(a, Rest(a)) /\ gate' = "free"

-----------------------------------------------------------------------------
(* Requests served by a listener.                                          *)

Accept ==
  /\ handle # 0 /\ busy' = busy \cup {handle}
  /\ UNCHANGED <<settings, actors, reloads, handle, addr, live, running, ending, counts>>

Finish(s) ==
  /\ s \in busy /\ busy' = busy \ {s}
  /\ UNCHANGED <<settings, actors, reloads, handle, addr, live, running, ending, counts>>

-----------------------------------------------------------------------------
(* reconcile_trusted_lan_server_locked, for whoever holds the gate.        *)

Lock(a) ==
  /\ pc[a] = "queued" /\ gate = "free" /\ gate' = a
  /\ Goes(a, CASE a = "command" -> "locked"
               [] a = "watcher" /\ seen[a] # Off -> "recheck" [] OTHER -> "stop")
  /\ UNCHANGED <<settings, seen, reloads, holds, servers, ending, counts>>

Gone(s) == live' = live \ {s} /\ busy' = busy \ {s}

Stop(a) ==
  /\ pc[a] = "stop" /\ handle' = 0 /\ holds' = [holds EXCEPT ![a] = handle]
  /\ Goes(a, IF handle = 0 THEN "check" ELSE "drain")
  /\ UNCHANGED <<settings, seen, reloads, gate, addr, live, busy, running, ending, counts>>

MayAbort == shutting          \* wait_for_trusted_lan_stop

Drain(a) ==
  /\ pc[a] = "drain" /\ (holds[a] \in busy => MayAbort)
  /\ Gone(holds[a]) /\ holds' = [holds EXCEPT ![a] = 0] /\ Goes(a, "check")
  /\ UNCHANGED <<settings, seen, reloads, gate, handle, addr, running, ending, counts>>

Reopens(a) == a # "coordinator" /\ ~shutting /\ Bound(config) # "none"

Check(a) ==
  /\ pc[a] = "check"
  /\ IF Reopens(a)
     THEN Goes(a, "bind") /\ seen' = [seen EXCEPT ![a] = config] /\ UNCHANGED <<gate, running>>
     ELSE Leaves(a) /\ running' = FALSE /\ seen' = [seen EXCEPT ![a] = Off]
  /\ UNCHANGED <<settings, reloads, holds, handle, addr, live, busy, ending, counts>>

Bind(a) ==         \* TcpListener::bind and activate_trusted_lan_listener_locked
  /\ pc[a] = "bind" /\ Leaves(a) /\ seen' = [seen EXCEPT ![a] = Off]
  /\ LET s == Cardinality({t \in 1..MaxServers : addr[t] # "none"}) + 1 IN
     \/ /\ s <= MaxServers /\ seen[a].addr = net
        /\ handle' = s /\ addr' = [addr EXCEPT ![s] = seen[a].addr]
        /\ live' = live \cup {s} /\ running' = TRUE
     \/ running' = FALSE /\ UNCHANGED <<handle, addr, live>>
  /\ UNCHANGED <<settings, reloads, holds, busy, ending, counts>>

-----------------------------------------------------------------------------
(* The network watcher.                                                    *)

Move(n) ==
  /\ moves < MaxMoves /\ moves' = moves + 1 /\ n # net /\ net' = n
  /\ UNCHANGED <<saved, local, config, actors, reloads, servers, ending, changes, quits>>

Observe ==         \* what it has observed is the runtime's selection
  /\ pc["watcher"] = "idle" /\ ~shutting /\ config.on /\ config.addr # net
  /\ seen' = [seen EXCEPT !["watcher"] = config] /\ Goes("watcher", "queued")
  /\ UNCHANGED <<settings, reloads, gate, holds, servers, ending, counts>>

RetryServer ==
  /\ pc["watcher"] = "idle" /\ ~shutting /\ config.on /\ ~running
  /\ Goes("watcher", "queued")
  /\ UNCHANGED <<settings, seen, reloads, gate, holds, servers, ending, counts>>

StillMine == saved.on /\ saved.addr = seen["watcher"].addr

Recheck ==         \* under the gate, and then in the database
  /\ pc["watcher"] = "recheck"
  /\ IF config.addr = seen["watcher"].addr /\ StillMine
     THEN /\ saved' = [saved EXCEPT !.addr = net] /\ Goes("watcher", "saved")
          /\ seen' = [seen EXCEPT !["watcher"].addr = net] /\ UNCHANGED gate
     ELSE Leaves("watcher") /\ seen' = [seen EXCEPT !["watcher"] = Off] /\ UNCHANGED saved
  /\ UNCHANGED <<local, config, net, reloads, holds, servers, ending, counts>>

Applies(a) ==      \* apply_config
  /\ pc[a] = "saved" /\ config' = seen[a] /\ Goes(a, "stop")
  /\ UNCHANGED <<saved, local, net, seen, reloads, gate, holds, servers, ending, counts>>

StopWatching ==
  /\ pc["watcher"] = "idle" /\ shutting /\ Goes("watcher", "ended")
  /\ UNCHANGED <<settings, seen, reloads, gate, holds, servers, ending, counts>>

-----------------------------------------------------------------------------
(* The configuration command, and library changes.                         *)

Configure(s) ==
  /\ pc["command"] = "idle" /\ changes < MaxChanges /\ changes' = changes + 1
  /\ (s.on => s.addr # "none")
  /\ seen' = [seen EXCEPT !["command"] = s] /\ Goes("command", "queued")
  /\ UNCHANGED <<settings, reloads, gate, holds, servers, ending, moves, quits>>

SavesConfig ==     \* switching on is under the authority gate, in one step
  /\ pc["command"] = "locked" /\ LET s == seen["command"] IN
     \/ /\ s.on /\ local /\ loader.at = "idle"
        /\ saved' = s /\ config' = s /\ Goes("command", "stop") /\ UNCHANGED gate
     \/ /\ s.on /\ ~local /\ loader.at = "idle" /\ Leaves("command")
        /\ UNCHANGED <<saved, config>>
     \/ ~s.on /\ saved' = s /\ Goes("command", "saved") /\ UNCHANGED <<config, gate>>
  /\ UNCHANGED <<local, net, seen, reloads, holds, servers, ending, counts>>

ChangeLibrary ==   \* a restore or reset, or another role
  /\ loader.at = "idle" /\ changes < MaxChanges /\ changes' = changes + 1
  /\ loader' = [loader EXCEPT !.at = "changed"]
  /\ \/ saved' = Off /\ local' = TRUE
     \/ local' = ~local /\ UNCHANGED saved
  /\ UNCHANGED <<config, net, actors, queue, servers, ending, moves, quits>>

Load ==            \* reload_trusted_lan_runtime_after_library_change
  /\ loader.at = "changed" /\ loader' = [at |-> "loaded", got |-> Loaded]
  /\ UNCHANGED <<settings, actors, queue, servers, ending, counts>>

ApplyLoadedOnly == \* mutant: the listener is not reconciled
  /\ loader.at = "loaded" /\ config' = loader.got
  /\ loader' = [at |-> "idle", got |-> Off]
  /\ UNCHANGED <<saved, local, net, actors, queue, servers, ending, counts>>

ApplyLoaded ==     \* apply_loaded_config, and the task it spawns
  /\ loader.at = "loaded" /\ config' = loader.got
  /\ loader' = [at |-> "idle", got |-> Off] /\ queue' = queue + 1
  /\ UNCHANGED <<saved, local, net, actors, servers, ending, counts>>

Spawned ==
  /\ queue > 0 /\ pc["reload"] = "idle" /\ queue' = queue - 1 /\ Goes("reload", "queued")
  /\ UNCHANGED <<settings, seen, loader, gate, holds, servers, ending, counts>>

-----------------------------------------------------------------------------
(* The exit.                                                               *)

LastCode(c) == c                            \* mutant
FirstFailure(c) == IF code = 0 THEN c ELSE code       \* register_exit_code

Quit(c) ==
  /\ exit \in {"running", "stopping"} /\ quits < MaxQuits /\ quits' = quits + 1
  /\ code' = FirstFailure(c)
  /\ first' = IF first = 0 /\ pc["coordinator"] # "read" THEN c ELSE first
  /\ IF exit = "running" THEN exit' = "stopping" /\ shutting' = TRUE /\ Goes("coordinator", "join")
     ELSE UNCHANGED <<exit, shutting, pc>>
  /\ UNCHANGED <<settings, seen, gate, holds, reloads, servers, cut, final, changes, moves>>

(* The guard an aborted task holds is released and the server it drains    *)
(* is aborted with it.                                                     *)
DetachesOnCancel(a) == holds' = [holds EXCEPT ![a] = 0] /\ UNCHANGED <<live, busy>>  \* mutant
AbortsOnCancel(a) == holds' = [holds EXCEPT ![a] = 0] /\ Gone(holds[a])

Dropped(a) == AbortsOnCancel(a) /\ (gate' = IF gate = a THEN "free" ELSE gate)

CancelNever(a) == FALSE                     \* mutant: no deadline
Overdue(a) == pc[a] # "ended"

Cancel(a) ==       \* stop_background_tasks, past its deadline
  /\ pc["coordinator"] = "join" /\ Overdue(a) /\ Dropped(a) /\ Goes(a, "ended")
  /\ UNCHANGED <<settings, seen, reloads, handle, addr, running, ending, counts>>

Joined ==
  /\ pc["coordinator"] = "join" /\ \A a \in Owned : pc[a] = "ended"
  /\ Goes("coordinator", "queued")
  /\ UNCHANGED <<settings, seen, gate, holds, reloads, servers, ending, counts>>

TimeOut ==         \* COMPANION_SHUTDOWN_TIMEOUT
  /\ pc["coordinator"] \in Locked \cup {"queued"} /\ cut' = TRUE
  /\ Dropped("coordinator") /\ Goes("coordinator", "done")
  /\ UNCHANGED <<settings, seen, reloads, handle, addr, running, exit, code, shutting,
                 first, final, counts>>

ReadCode ==
  /\ pc["coordinator"] = "done" /\ final' = code /\ Goes("coordinator", "read")
  /\ UNCHANGED <<settings, seen, gate, holds, reloads, servers, exit, code, shutting, cut,
                 first, counts>>

Leave ==           \* the exit is allowed
  /\ pc["coordinator"] = "read" /\ exit' = "gone"
  /\ UNCHANGED <<settings, actors, reloads, servers, code, shutting, cut, first, final, counts>>

-----------------------------------------------------------------------------

Sections ==        \* writers of the configuration that do not exclude a change
  (pc["watcher"] \in {"queued", "recheck", "saved"} /\ seen["watcher"] # Off)
    \/ pc["command"] = "saved"

Coordinate ==
  \/ Lock("coordinator") \/ Stop("coordinator") \/ Drain("coordinator")
  \/ Check("coordinator") \/ Joined \/ TimeOut \/ ReadCode \/ Leave
  \/ \E a \in Owned : Cancel(a)

Act ==
  \/ Accept \/ (\E s \in live : Finish(s))
  \/ \E a \in Actors \ {"coordinator"} :
       Lock(a) \/ Stop(a) \/ Drain(a) \/ Check(a) \/ Bind(a)
  \/ (\E n \in Addrs : Move(n)) \/ Observe \/ RetryServer \/ Recheck \/ StopWatching
  \/ Applies("watcher") \/ Applies("command")
  \/ (\E s \in Setting : Configure(s)) \/ SavesConfig
  \/ ChangeLibrary \/ Load \/ ApplyLoaded \/ Spawned
  \/ (\E c \in Codes : Quit(c)) \/ Coordinate

Overlaps == overlapped' = (overlapped \/ (loader.at # "idle" /\ Sections)')
Next == exit # "gone" /\ Act /\ Overlaps

(* The deadlines make the coordinator go on, whatever it waits for.        *)
Fairness == WF_vars(exit # "gone" /\ Coordinate /\ Overlaps)
Spec == Init /\ [][Next]_vars /\ Fairness

-----------------------------------------------------------------------------
(* Properties.                                                             *)

(* Every variable has its type; the gate is held by exactly the actor that *)
(* is between taking and leaving it.                                       *)
TypeOK ==
  /\ {saved, config} \subseteq Setting /\ net \in Addrs /\ queue \in Nat
  /\ handle \in 0..MaxServers /\ live \subseteq 1..MaxServers /\ busy \subseteq live
  /\ holds \in [Actors -> 0..MaxServers] /\ code \in Codes
  /\ \A a \in Actors : gate = a <=> pc[a] \in Locked

(* Every listener that runs is the installed one or is drained by somebody *)
(* who will end it.                                                        *)
NothingDetached ==
  \A s \in live : s = handle \/ \E a \in Actors : holds[a] = s

(* Once the exit has stopped the listener in time, none runs again.        *)
NothingAfterStop == pc["coordinator"] \in {"done", "read"} /\ ~cut => live = {}

(* However restarts overlap and whichever of them is cancelled, a listener *)
(* starts only when the one before it has ended with all its requests, no  *)
(* listener is left detached, and no watcher, command or late              *)
(* reconciliation binds one anew once the exit has stopped it.             *)
OneListener ==
  TypeOK /\ NothingDetached /\ NothingAfterStop /\ \A s, t \in live : s = t

AtRest == gate = "free" /\ queue = 0 /\ loader.at = "idle" /\ ~shutting
          /\ \A a \in Actors : pc[a] \in {"idle", "ended"}

(* When nothing is under way the listener serves the address the runtime   *)
(* is configured with, none runs while access is switched off, and the     *)
(* runtime is configured as the database says for the library's role,      *)
(* unless a library change overlapped one of the two writers that do not   *)
(* exclude it: see the README.                                             *)
ServesItsConfig ==
  AtRest =>
    /\ handle # 0 => addr[handle] = Bound(config)
    /\ ~overlapped => Bound(config) = IF local THEN Bound(saved) ELSE "none"

(* The listener is the only one and the right one.                         *)
ListenerIsRight == OneListener /\ ServesItsConfig

(* The process exits with the first failure that was published to it       *)
(* before the coordinator took the code it exits with.                     *)
FailuresAreReported == exit = "gone" => final = first

(* Whoever holds the gate and however long its requests take, the          *)
(* application exits.                                                      *)
ExitEnds == exit = "stopping" ~> exit = "gone"
=============================================================================
