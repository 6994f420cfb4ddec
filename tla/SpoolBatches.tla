---------------------------- MODULE SpoolBatches ----------------------------
(***************************************************************************)
(* Registering a batch of rolls once, from a form that may be sent again.  *)
(*                                                                         *)
(* Source: src/src/backend/catalog_spool_batches.rs (the journal),         *)
(* inventory_catalog_batch_commands.rs and library_sync_catalog_batch_     *)
(* commands.rs under src/src-tauri/src (the local and the Client's way to  *)
(* it), src/ui/src/lib/bambu_batch_registration.ts (the controller).       *)
(*                                                                         *)
(* A controller serves one target: the library id and generation the form  *)
(* was filled in for.  It keeps its request in memory and in the storage   *)
(* of the window.  A batch is its id; its content never changes.           *)
(***************************************************************************)
EXTENDS Naturals, FiniteSets

CONSTANTS Batches,      \* batch ids
          MaxLibs,      \* bound: library ids
          MaxGen,       \* bound: target generation
          MaxSends,     \* bound: requests sent
          MaxRestores, MaxResets  \* bounds: of the library's database

ASSUME BatchesAssumption ==
  /\ "none" \notin Batches
  /\ MaxLibs \in Nat \ {0} /\ {MaxGen, MaxSends, MaxRestores, MaxResets} \subseteq Nat

VARIABLES lib, journal, era,     \* the authoritative library; era of its sessions
          remote,                \* the role: a Client of a Host, or a library of its own
          conf, gen, paired,     \* the target of the desktop, and its session's era
          mem, store,            \* the controllers: in memory, in storage
          wire,                  \* requests under way
          made, born, told,      \* history: times made, age when started, known
          sends, newest, restores, resets

library == <<lib, journal, era>>
target  == <<remote, conf, gen, paired>>
history == <<made, born, told>>
counts  == <<newest, restores, resets>>
batchVars == <<library, target, mem, store, wire, history, sends, counts>>

Keys == [lib : 1..MaxLibs, gen : 0..MaxGen]
NoReceipt == 0                 \* else: the library id beside the receipt
NoRecord == [batch |-> "none", status |-> "none", first |-> FALSE]
Key == [lib |-> conf, gen |-> gen]      \* catalogSpoolBatchTargetKey
Age == restores + resets

BatchesInit ==
  /\ lib = 1 /\ journal = [b \in Batches |-> NoReceipt] /\ era = 0
  /\ remote \in BOOLEAN /\ conf = 1 /\ gen = 0 /\ paired = 0
  /\ mem = [k \in Keys |-> NoRecord] /\ store = [k \in Keys |-> NoRecord]
  /\ wire = {} /\ made = [b \in Batches |-> 0] /\ born = [b \in Batches |-> 0]
  /\ told = {} /\ sends = 0 /\ newest = 1 /\ restores = 0 /\ resets = 0

-----------------------------------------------------------------------------
(* The controller: start, retry, nextDraft, and its constructor.           *)

Request(k, b) ==
  [batch |-> b, key |-> k, at |-> "desktop", era |-> 0, lib |-> 0, live |-> TRUE]
Sends(k, b, first) ==
  /\ sends < MaxSends /\ sends' = sends + 1
  /\ mem' = [mem EXCEPT ![k] = [batch |-> b, status |-> "saving", first |-> first]]
  /\ wire' = wire \cup {Request(k, b)}

Stored(k, b) == store' = [store EXCEPT ![k] = [batch |-> b, status |-> "pending", first |-> FALSE]]

Unused(b) == \A k \in Keys : mem[k].batch # b /\ store[k].batch # b

Start(k, b) ==
  /\ k = Key /\ mem[k] = NoRecord
  /\ Unused(b) /\ b \notin told /\ made[b] = 0 /\ \A r \in wire : r.batch # b
  /\ Stored(k, b) /\ Sends(k, b, TRUE) /\ born' = [born EXCEPT ![b] = Age]
  /\ UNCHANGED <<library, target, made, told, counts>>

Retryable(k) == mem[k].status = "uncertain"

Retry(k) ==
  /\ k = Key /\ Retryable(k)
  /\ Stored(k, mem[k].batch) /\ Sends(k, mem[k].batch, FALSE)
  /\ UNCHANGED <<library, target, history, counts>>

Finished(k) == mem[k].status \in {"complete", "rejected"}

NextDraft(k) ==
  /\ mem[k] # NoRecord /\ Finished(k)
  /\ mem' = [mem EXCEPT ![k] = NoRecord] /\ store' = [store EXCEPT ![k] = NoRecord]
  /\ UNCHANGED <<library, target, wire, history, sends, counts>>

Recalled(s) ==      \* what the constructor makes of a stored record
  IF s.status = "pending" THEN [s EXCEPT !.status = "uncertain"] ELSE s

Reload(left) ==
  /\ mem' = [k \in Keys |-> Recalled(store[k])]
  /\ wire' = {[r EXCEPT !.live = FALSE] : r \in left}
  /\ UNCHANGED <<library, target, store, history, sends, counts>>

(* The answer to request r, if anyone waits for it; `code` is "receipt" or *)
(* an error.  The record is stored again, which may fail.                  *)
RejectsOnRetry(k, code) == code \in {"invalid", "unsupported"}   \* mutant
Rejects(k, code) == mem[k].first /\ code \in {"invalid", "unsupported"}
StatusAfter(k, code) ==
  CASE code = "receipt" -> "complete"
    [] code # "receipt" /\ Rejects(k, code) -> "rejected"
    [] OTHER -> "uncertain"
Answers(r, code) ==
  /\ wire' = wire \ {r}
  /\ IF ~r.live THEN UNCHANGED <<mem, store, told>>
     ELSE LET status == StatusAfter(r.key, code) IN
       /\ mem' = [mem EXCEPT ![r.key].status = status, ![r.key].first = FALSE]
       /\ \/ store' = [store EXCEPT ![r.key] = [batch |-> r.batch, first |-> FALSE,
                          status |-> IF status = "uncertain" THEN "pending" ELSE status]]
          \/ UNCHANGED store
       /\ told' = IF status = "complete" THEN told \cup {r.batch} ELSE told

-----------------------------------------------------------------------------
(* The desktop's own checks.                                               *)

Preflight(r) ==    \* create_library_sync_host_catalog_spool_batch
  /\ remote /\ r \in wire /\ r.at = "desktop"
  /\ \/ /\ r.key = Key /\ lib = conf
        /\ \/ wire' = (wire \ {r}) \cup {[r EXCEPT !.at = "host", !.era = paired]}
              /\ UNCHANGED <<mem, store, told>>
           \/ Answers(r, "unsupported")
     \/ Answers(r, "other")
  /\ UNCHANGED <<library, target, made, born, sends, counts>>

Timeout(r) ==      \* 30 seconds; the request may still be on its way
  /\ r.live /\ r.at # "desktop"
  /\ mem' = [mem EXCEPT ![r.key].status = "uncertain", ![r.key].first = FALSE]
  /\ wire' = (wire \ {r}) \cup {[r EXCEPT !.live = FALSE]}
  /\ UNCHANGED <<library, target, store, history, sends, counts>>

-----------------------------------------------------------------------------
(* The library.                                                            *)

Authorized(r) ==   \* the Host's session check, before the gate
  /\ r \in wire /\ r.at = "host"
  /\ \/ /\ r.era = era /\ UNCHANGED <<mem, store, told>>
        /\ wire' = (wire \ {r}) \cup {[r EXCEPT !.at = "gate", !.lib = lib]}
     \/ Answers(r, "other")
  /\ UNCHANGED <<library, target, made, born, sends, counts>>

AdmittedAnyLibrary(r) == ~remote => r.key.gen = gen \* mutant
Admitted(r) ==     \* under the gate; a Host's server is bound to its library
  IF remote THEN r.lib = lib ELSE r.key = Key

Known(b) == journal[b] # NoReceipt

Makes(b) == /\ journal' = [journal EXCEPT ![b] = lib]
            /\ made' = [made EXCEPT ![b] = @ + 1]

Execute(r) == LET b == r.batch IN    \* one transaction
  /\ r \in wire /\ (remote => r.at = "gate")
  /\ \/ ~Admitted(r) /\ Answers(r, "other") /\ UNCHANGED <<journal, made>>
     \/ /\ Admitted(r) /\ Known(b) /\ UNCHANGED <<journal, made>>
        /\ Answers(r, IF journal[b] = lib THEN "receipt" ELSE "conflict")
     \/ /\ Admitted(r) /\ ~Known(b)
        /\ \/ Makes(b) /\ Answers(r, "receipt")
           \/ Answers(r, "invalid") /\ UNCHANGED <<journal, made>>
     \/ Admitted(r) /\ Answers(r, "other") /\ UNCHANGED <<journal, made>>  \* rolled back
  /\ UNCHANGED <<lib, era, target, born, sends, counts>>

Emptied == [b \in Batches |-> NoReceipt]
(* The library's id and sessions after a restore or reset to library l.    *)
Replaced(l) ==
  /\ lib' = l /\ era' = era + 1
  /\ IF remote THEN UNCHANGED target
     ELSE conf' = l /\ gen' = 0 /\ UNCHANGED <<remote, paired>>
  /\ UNCHANGED <<mem, store, wire, history, sends>>

JournalKept == UNCHANGED journal

Restore(l) ==      \* of a backup made while the library was l
  /\ l \in 1..newest /\ restores < MaxRestores /\ restores' = restores + 1
  /\ JournalKept /\ Replaced(l) /\ UNCHANGED <<newest, resets>>

Reset ==
  /\ newest < MaxLibs /\ resets < MaxResets /\ resets' = resets + 1
  /\ newest' = newest + 1 /\ journal' = Emptied
  /\ Replaced(newest + 1) /\ UNCHANGED restores

Retarget(l) ==     \* another Host library, or another role and back
  /\ l <= newest /\ gen < MaxGen /\ gen' = gen + 1
  /\ IF remote THEN conf' = l /\ UNCHANGED lib ELSE l = lib /\ UNCHANGED <<conf, lib>>
  /\ UNCHANGED <<journal, era, remote, paired, mem, store, wire, history, sends, counts>>

Pair ==
  /\ remote /\ lib = conf /\ paired # era /\ paired' = era
  /\ UNCHANGED <<library, remote, conf, gen, mem, store, wire, history, sends, counts>>

BatchesNext ==
  \/ \E k \in Keys : Retry(k) \/ NextDraft(k) \/ \E b \in Batches : Start(k, b)
  \/ Reload(wire)                                   \* the window
  \/ Reload({r \in wire : r.at # "desktop"})           \* the desktop restarts
  \/ \E r \in wire : Preflight(r) \/ Timeout(r) \/ Authorized(r) \/ Execute(r)
  \/ \E l \in 1..MaxLibs : Restore(l) \/ Retarget(l)
  \/ Reset \/ Pair

BatchesSpec == BatchesInit /\ [][BatchesNext]_batchVars

-----------------------------------------------------------------------------
(* Properties.                                                             *)

FormStatuses == {"none", "pending", "saving", "uncertain", "rejected", "complete"}
Records == [batch : Batches \cup {"none"}, status : FormStatuses, first : BOOLEAN]

(* Every variable has its type; a controller that is saving has exactly    *)
(* one live request under way.                                             *)
BatchesTypeOK ==
  /\ {lib, conf} \subseteq 1..newest /\ newest <= MaxLibs /\ gen \in 0..MaxGen
  /\ journal \in [Batches -> 0..MaxLibs] /\ paired <= era /\ remote \in BOOLEAN
  /\ mem \in [Keys -> Records] /\ store \in [Keys -> Records]
  /\ \A k \in Keys : mem[k].status = "saving" <=>
       Cardinality({r \in wire : r.key = k /\ r.live /\ r.batch = mem[k].batch}) = 1
  /\ made \in [Batches -> Nat] /\ told \subseteq Batches

(* A batch is made at most once, however often it is sent and however late *)
(* a copy arrives; a restore keeps the journal, and a reset changes the    *)
(* library id that every request carries.  A reset followed by a restore   *)
(* of the old library is left out: see the finding.                        *)
MadeOnce == restores = 0 \/ resets = 0 => \A b \in Batches : made[b] <= 1

(* A batch that was made is known to be, or its request is still kept.     *)
NothingForgotten ==
  \A b \in Batches : made[b] > 0 => b \in told \/ \E k \in Keys : store[k].batch = b

(* What the form says is true: complete means made; rejected, which lets   *)
(* the rolls be sent again as a new batch, means not made, and no copy of  *)
(* the request is left that could still make it.  It waits exactly while a *)
(* request is under way, and no crash or storage error makes it lose track *)
(* of rolls that were registered.                                          *)
AnswersAreTrue ==
  /\ BatchesTypeOK /\ NothingForgotten
  /\ \A k \in Keys : \A c \in {mem[k], store[k]} :
       /\ c.status = "complete" => made[c.batch] > 0
       /\ c.status = "rejected" => made[c.batch] = 0 /\ \A r \in wire : r.batch # c.batch

(* A request saved before a restore or a reset is not carried out after.   *)
NothingCrossesARestore ==
  [][\A b \in Batches : made'[b] # made[b] => born[b] = Age]_batchVars
=============================================================================
