--------------------------- MODULE PhysicalQuota ---------------------------
(***************************************************************************)
(* The physical quota of the operational SQLite database                   *)
(* (internal/storage/physical_linux.go): a VFS shim that admits every      *)
(* write that can extend a file before it happens, keeps its own state in  *)
(* two checksummed 4 KiB slots of <db>.quota, and raises the storage       *)
(* alerts that CatalogAlertMonitor.pollPhysical delivers.                  *)
(*                                                                         *)
(* One process at a time is inside a critical section (q.mu and flock):    *)
(* pc says where.  A save of the state is two steps, because a crash may   *)
(* leave the slot torn; a crash at any step releases the lock, forgets the *)
(* memory of the process and keeps the disk.  Sizes are in blocks of 4096  *)
(* bytes.  Abstracted: the journal and lock files (constant size), the     *)
(* text and channel of an alert, and the retry time of an alert (an alert  *)
(* whose retry is in the future becomes due as time passes).  An error of  *)
(* fsync itself is not modelled.                                           *)
(***************************************************************************)
EXTENDS Integers

CONSTANTS
  Limits,             \* limits a caller may configure, in blocks
  Default,            \* DefaultPhysicalQuota
  StateBlocks,        \* physicalStateSize
  AllocationReserve,  \* physicalAllocationReserve
  MaxFile,            \* bound on the length of each file SQLite writes
  MaxEpisode          \* bound on the alert episodes

ASSUME QuotaAssumption ==
  /\ Limits \subseteq Nat /\ Default \in Limits
  /\ StateBlocks \in Nat /\ AllocationReserve \in Nat
  /\ MaxFile \in [{"main", "wal", "shm"} -> Nat \ {0}]

VARIABLES
  control,   \* <db>.quota: "absent", "empty", or "sized" (two slots)
  slot,      \* the two slots as a reader finds them
  file,      \* length and allocated blocks of the main, WAL and shm files
  pc,        \* the critical section: "free" or the next step of its owner
  mem,       \* q.saved inside the section
  after,     \* pc after the save that is in progress
  op,        \* the write a guard section is about: path, end
  refs, natives, registered,  \* quotaRegistry: open DBs, native files, VFS
  sending,   \* the alert pollPhysical has claimed, its episode and outcome
  sent,      \* alerts Discord accepted, by episode (history)
  asked      \* limit of the first creation (history)

quotaVars == <<control, slot, file, pc, mem, after, op, refs, natives,
               registered, sending, sent, asked>>
registry == <<refs, natives, registered>>
disk == <<control, slot, file>>
alerting == <<sending, sent>>

Torn == [seq |-> -1]
NoState == [seq |-> -2]
NoOp == [path |-> "none", end |-> 0]
NotSending == [alert |-> "none"]
Paths == {"main", "wal", "shm"}
Ends(path) == IF path = "none" THEN {0} ELSE 1..MaxFile[path]

\* load: the valid slot with the higher sequence.
Valid == {i \in 0..1 : slot[i].seq > 0}
Readable == control = "sized" /\ Valid # {}
best == slot[CHOOSE i \in Valid : \A j \in Valid : slot[i].seq >= slot[j].seq]

\* What the two slots stand for: the durable ledger.
NoLedger == [limit |-> 0]
Content(s) == [limit |-> s.limit, base |-> s.base, episode |-> s.episode, warn |-> s.warn,
               full |-> s.full, armed |-> s.armed, exhausted |-> s.exhausted]
Ledger == INSTANCE QuotaLedger WITH ledger <- IF Readable THEN Content(best) ELSE NoLedger

Event(p, d) == [pending |-> p, delivered |-> d]

-----------------------------------------------------------------------------
\* Accounting.  A file counts with its length or its blocks, whichever is more.

max(a, b) == IF a >= b THEN a ELSE b
blocks(f) == max(f.len, f.alloc)
files == (IF control = "sized" THEN StateBlocks ELSE 0)
         + blocks(file["main"]) + blocks(file["wal"]) + blocks(file["shm"])
reserved(total, base, wal, main) ==
  total + max(0, base + wal - main) + AllocationReserve

usage(base) == reserved(files, base, blocks(file["wal"]), blocks(file["main"]))

\* projectedUsage: the same observation with the target grown to end.
growth(path, end) == IF path \in Paths THEN max(0, end - file[path].len) ELSE 0
projectedFiles(path, end) == files + growth(path, end)
projectedUsage(base, path, end) ==
  LET g == growth(path, end)
  IN reserved(files + g, base,
              blocks(file["wal"]) + (IF path = "wal" THEN g ELSE 0),
              blocks(file["main"]) + (IF path = "main" THEN g ELSE 0))

\* Mutant of Settled: an alert that is being sent may be replaced.
SettledAlways(e) == TRUE

\* An alert that is not waiting to be delivered.
Settled(e) == ~e.pending \/ e.delivered

\* observe: hysteresis of the alerts (90 % warns, a denial or 100 % is full,
\* below 85 % arms the next episode).
observe(s, used, denied) ==
  LET low == used < (s.limit * 85) \div 100
      high == used >= (s.limit * 9) \div 10
      out == denied \/ used >= s.limit
      armed == s.armed \/ low
      fresh == (high \/ denied) /\ armed /\ Settled(s.warn) /\ Settled(s.full)
      warn == IF fresh THEN Event(FALSE, FALSE) ELSE s.warn
      full == IF fresh THEN Event(FALSE, FALSE) ELSE s.full
  IN [seq |-> s.seq, limit |-> s.limit, base |-> s.base,
      episode |-> IF fresh THEN s.episode + 1 ELSE s.episode,
      warn |-> IF high /\ ~warn.pending THEN Event(TRUE, FALSE) ELSE warn,
      full |-> IF out /\ ~full.pending THEN Event(TRUE, FALSE) ELSE full,
      armed |-> armed /\ ~fresh,
      exhausted |-> out \/ (s.exhausted /\ ~low)]

\* Mutants of Admitted: decided on the usage before the write; the checkpoint
\* of what is written is not charged.
AdmittedCurrent(s, base, path, end) == usage(base) <= s.limit
AdmittedFilesOnly(s, base, path, end) ==
  projectedFiles(path, end) + AllocationReserve <= s.limit

\* guard's decision: WAL growth must leave room for the checkpoint; main may
\* spend that room; bytes that exist stay writable.
Admitted(s, base, path, end) ==
  LET u == projectedUsage(base, path, end)
      total == projectedFiles(path, end)
      grows == total > files
  IN /\ \/ u <= s.limit
        \/ ~grows /\ base = s.base
        \/ path = "main" /\ total + AllocationReserve <= s.limit
     /\ total <= s.limit
     /\ grows => total + AllocationReserve <= s.limit

-----------------------------------------------------------------------------
\* save: the next sequence goes to the slot of its parity, the older one.

\* Mutant of Write: the slot of the present sequence is overwritten.
WriteInPlace(s, next) ==
  /\ s.episode <= MaxEpisode
  /\ mem' = [s EXCEPT !.seq = @ + 2]
  /\ slot' = [slot EXCEPT ![s.seq % 2] = Torn]
  /\ pc' = "write" /\ after' = next

Write(s, next) ==
  /\ s.episode <= MaxEpisode
  /\ mem' = [s EXCEPT !.seq = @ + 1]
  /\ slot' = [slot EXCEPT ![(s.seq + 1) % 2] = Torn]
  /\ pc' = "write" /\ after' = next

Step(next) == pc' = next /\ UNCHANGED <<slot, mem, after>>
Put(s, next) == IF s = mem THEN Step(next) ELSE Write(s, next)

\* Leaving the section forgets its memory: every section starts with load.
Leave ==
  /\ pc' = "free" /\ mem' = NoState /\ after' = "free" /\ op' = NoOp

\* WriteAt and Sync returned.
SaveDone ==
  /\ pc = "write"
  /\ slot' = [slot EXCEPT ![mem.seq % 2] = mem]
  /\ IF after = "free" THEN Leave ELSE pc' = after /\ UNCHANGED <<mem, after, op>>
  /\ UNCHANGED <<control, file, registry, alerting, asked>>

\* WriteAt failed: the section ends with an error, the slot stays torn.
SaveFails ==
  /\ pc = "write"
  /\ sending' = IF after = "chosen" THEN [sending EXCEPT !.outcome = "failed"] ELSE sending
  /\ Leave
  /\ UNCHANGED <<disk, registry, sent, asked>>

-----------------------------------------------------------------------------
\* openPhysicalQuota: a first open creates the state file in steps, each of
\* which a crash may cut off; a later one loads it and never guesses.

created(l) == [seq |-> 0, limit |-> l, base |-> file["main"].len, episode |-> 0,
               warn |-> Event(FALSE, FALSE), full |-> Event(FALSE, FALSE),
               armed |-> TRUE, exhausted |-> FALSE]

configured(limit) == IF limit = 0 THEN Default ELSE limit

Create(limit) ==
  /\ control' = "empty"
  /\ IF files + StateBlocks + AllocationReserve > limit
       THEN UNCHANGED <<pc, mem>>
       ELSE pc' = "truncate" /\ mem' = created(limit)
  /\ UNCHANGED <<slot, file, after, op, registry, alerting>>

\* Mutant of OpenNew: an existing empty state file counts as a new one.
OpenNewOrEmpty(limit) ==
  /\ pc = "free" /\ ~registered /\ control \in {"absent", "empty"}
  /\ asked' = IF control = "absent" THEN configured(limit) ELSE asked
  /\ Create(configured(limit))

OpenNew(limit) ==
  /\ pc = "free" /\ ~registered /\ control = "absent"
  /\ asked' = configured(limit)
  /\ Create(configured(limit))

CreateState ==
  /\ pc = "truncate"
  /\ control' = "sized"
  /\ Write(mem, "register")
  /\ UNCHANGED <<file, op, registry, alerting, asked>>

Register ==
  /\ pc = "register"
  /\ registered' = TRUE /\ refs' = refs + 1
  /\ Leave
  /\ UNCHANGED <<disk, natives, alerting, asked>>

\* limit = 0 keeps the stored limit.  An empty or unreadable state, another
\* limit or files above the limit are errors that change nothing.
OpenOld(limit) ==
  /\ pc = "free" /\ ~registered /\ control # "absent"
  /\ Readable
  /\ limit \in {0, best.limit} /\ files <= best.limit
  /\ mem' = best /\ pc' = "register"
  /\ UNCHANGED <<disk, after, op, registry, alerting, asked>>

OpenRefused(limit) ==
  /\ pc = "free" /\ ~registered /\ control # "absent"
  /\ Readable => limit \notin {0, best.limit} \/ files > best.limit
  /\ UNCHANGED quotaVars

OpenShared(limit) ==
  /\ pc = "free" /\ registered /\ refs < 2
  /\ limit \in {0, best.limit}
  /\ refs' = refs + 1
  /\ UNCHANGED <<disk, pc, mem, after, op, natives, registered, alerting, asked>>

\* Mutant of Cleanup: the last DB.Close unregisters under a running query.
CleanupAtLastClose(r, n) == registered' = (registered /\ r # 0)

\* cleanupLocked: the VFS stays registered while a DB or a native file is open.
Cleanup(r, n) == registered' = (registered /\ (r # 0 \/ n # 0))

\* DB.Close, after the monitor's worker ended.
CloseDB ==
  /\ pc = "free" /\ refs > 0 /\ sending = NotSending
  /\ refs' = refs - 1
  /\ Cleanup(refs - 1, natives)
  /\ UNCHANGED <<disk, pc, mem, after, op, natives, alerting, asked>>

NativeOpen ==
  /\ pc = "free" /\ refs > 0 /\ natives = 0
  /\ natives' = natives + 1
  /\ UNCHANGED <<disk, pc, mem, after, op, refs, registered, alerting, asked>>

NativeClose ==
  /\ pc = "free" /\ natives > 0
  /\ natives' = natives - 1
  /\ Cleanup(refs, natives - 1)
  /\ UNCHANGED <<disk, pc, mem, after, op, refs, alerting, asked>>

-----------------------------------------------------------------------------
\* guard: quotaWrite, quotaShm and a growing quotaTruncate name a path and its
\* new end; quotaSync names none.  A WAL write at offset 0 starts a WAL cycle.

NewBase(path, reset) == IF path = "wal" /\ reset THEN file["main"].len ELSE best.base

Guard(path, end, reset) ==
  /\ pc = "free" /\ natives > 0
  /\ reset => path = "wal" /\ end = 1
  /\ IF Admitted(best, NewBase(path, reset), path, end)
       THEN /\ op' = [path |-> path, end |-> end]
            /\ mem' = best /\ UNCHANGED <<slot, after>>
            /\ pc' = IF NewBase(path, reset) = best.base THEN "admit" ELSE "base"
       ELSE /\ mem' = best /\ pc' = "deny"
            /\ UNCHANGED <<slot, after, op>>
  /\ UNCHANGED <<control, file, registry, alerting, asked>>

GuardStep ==
  /\ \/ pc = "base" /\ Write([mem EXCEPT !.base = file["main"].len], "admit") /\ UNCHANGED op
     \/ pc = "admit" /\ Put(observe(mem, projectedUsage(mem.base, op.path, op.end), FALSE), "io")
        /\ UNCHANGED op
     \/ pc \in {"deny", "settle"}
        /\ LET s == observe(mem, usage(mem.base), pc = "deny")
           IN IF s = mem THEN Leave /\ UNCHANGED slot
                         ELSE Write(s, "free") /\ UNCHANGED op
  /\ UNCHANGED <<control, file, registry, alerting, asked>>

\* fn: allocateNative takes the blocks first, then the native write sets the
\* length; a failure in between leaves blocks without length.
NativeIO ==
  /\ pc = "io"
  /\ \/ UNCHANGED file
     \/ /\ op.path \in Paths
        /\ \E len \in {file[op.path].len, max(file[op.path].len, op.end)} :
             file' = [file EXCEPT ![op.path] =
                        [len |-> len, alloc |-> max(@.alloc, op.end)]]
  /\ pc' = "settle"
  /\ UNCHANGED <<control, slot, mem, after, op, registry, alerting, asked>>

\* quotaTruncate to at most the present length needs no admission.
Truncate(path, size) ==
  /\ pc = "free" /\ natives > 0
  /\ size < file[path].len
  /\ file' = [file EXCEPT ![path] = [len |-> size, alloc |-> size]]
  /\ mem' = best /\ pc' = "settle"
  /\ UNCHANGED <<control, slot, after, op, registry, alerting, asked>>

-----------------------------------------------------------------------------
\* pollPhysical: claim a due alert under the lock, send it without the lock,
\* record the outcome under the lock.

Poll ==
  /\ pc = "free" /\ refs > 0 /\ sending = NotSending
  /\ mem' = best /\ pc' = "poll"
  /\ UNCHANGED <<disk, after, op, registry, alerting, asked>>

PollObserve ==
  /\ pc = "poll"
  /\ Put(observe(mem, usage(mem.base), FALSE), "claim")
  /\ UNCHANGED <<control, file, op, registry, alerting, asked>>

\* The attempt count and the next retry are saved before anything is sent.
PollClaim ==
  /\ pc = "claim"
  /\ \/ \E a \in {"warn", "full"} :
          mem[a].pending /\ ~mem[a].delivered /\ Write(mem, a) /\ UNCHANGED op
     \/ Leave /\ UNCHANGED slot
  /\ UNCHANGED <<control, file, registry, alerting, asked>>

PollSend ==
  /\ pc \in {"warn", "full"}
  /\ sending' = [alert |-> pc, episode |-> mem.episode, outcome |-> "open"]
  /\ Leave
  /\ UNCHANGED <<disk, registry, sent, asked>>

\* The chosen channel is saved before the message goes out; there may be no
\* eligible one.
PollChannel ==
  /\ pc = "free" /\ sending # NotSending /\ sending.outcome = "open"
  /\ \/ Write(best, "chosen") /\ UNCHANGED sending
     \/ sending' = [sending EXCEPT !.outcome = "failed"] /\ UNCHANGED <<slot, pc, mem, after>>
  /\ UNCHANGED <<control, file, op, registry, sent, asked>>

PollChosen ==
  /\ pc = "chosen"
  /\ sending' = [sending EXCEPT !.outcome = "chosen"]
  /\ Leave
  /\ UNCHANGED <<disk, registry, sent, asked>>

\* Notifier.Send: a message whose send fails may have arrived all the same.
NotifierSend ==
  /\ sending # NotSending /\ sending.outcome = "chosen"
  /\ \E o \in {"accepted", "failed"}, arrived \in BOOLEAN :
       /\ o = "accepted" => arrived
       /\ sending' = [sending EXCEPT !.outcome = o]
       /\ sent' = IF arrived THEN sent \cup {<<sending.episode, sending.alert>>} ELSE sent
  /\ UNCHANGED <<disk, pc, mem, after, op, registry, asked>>

PollFinish ==
  /\ pc = "free" /\ refs > 0 /\ sending # NotSending
  /\ sending.outcome \in {"accepted", "failed"}
  /\ Write(IF sending.outcome = "accepted" THEN [best EXCEPT ![sending.alert].delivered = TRUE]
                                           ELSE best, "free")
  /\ sending' = NotSending
  /\ UNCHANGED <<control, file, op, registry, sent, asked>>

\* The process dies: locks, memory and registry are gone, the disk stays.
Crash ==
  /\ pc # "free" \/ registered
  /\ Leave
  /\ refs' = 0 /\ natives' = 0 /\ registered' = FALSE
  /\ sending' = NotSending
  /\ UNCHANGED <<disk, sent, asked>>

-----------------------------------------------------------------------------
QuotaInit ==
  /\ control = "absent" /\ slot = [i \in 0..1 |-> Torn]
  /\ \E m, w \in 0..1 :
       file = [p \in Paths |-> LET n == IF p = "main" THEN m ELSE IF p = "wal" THEN w ELSE 0
                               IN [len |-> n, alloc |-> n]]
  /\ pc = "free" /\ mem = NoState /\ after = "free" /\ op = NoOp
  /\ refs = 0 /\ natives = 0 /\ registered = FALSE
  /\ sending = NotSending /\ sent = {} /\ asked = 0

QuotaNext ==
  \/ SaveDone \/ SaveFails
  \/ CreateState \/ Register
  \/ \E l \in Limits \cup {0} : OpenNew(l) \/ OpenOld(l) \/ OpenRefused(l) \/ OpenShared(l)
  \/ CloseDB \/ NativeOpen \/ NativeClose
  \/ \E path \in Paths \cup {"none"}, reset \in BOOLEAN : \E end \in Ends(path) :
       Guard(path, end, reset)
  \/ GuardStep \/ NativeIO
  \/ \E path \in {"main", "wal"} : \E size \in 0..MaxFile[path] : Truncate(path, size)
  \/ Poll \/ PollObserve \/ PollClaim \/ PollSend \/ PollChannel \/ PollChosen
  \/ NotifierSend \/ PollFinish
  \/ Crash

QuotaSpec == QuotaInit /\ [][QuotaNext]_quotaVars

\* Only the order and the parity of the sequence numbers matter, and of the
\* older readable slot only that it is readable: TLC distinguishes states up
\* to that.
Stale(i) == \E j \in 0..1 : slot[j].seq > slot[i].seq
QuotaView ==
  <<control, [i \in 0..1 |-> IF slot[i] = Torn THEN "torn"
                             ELSE IF Stale(i) THEN "stale" ELSE "best"],
    IF Readable THEN Content(best) ELSE NoLedger,
    IF mem = NoState THEN NoLedger ELSE Content(mem),
    file, pc, after, op, registry, alerting, asked>>

-----------------------------------------------------------------------------
(* Types of the disk, the section and the registry.                        *)
QuotaTypeOK ==
  /\ control \in {"absent", "empty", "sized"}
  /\ \A i \in 0..1 : slot[i].seq \in Nat \cup {-1}
  /\ \A p \in Paths : file[p].len \in 0..MaxFile[p] /\ file[p].alloc \in 0..MaxFile[p]
  /\ refs \in 0..2 /\ natives \in 0..1 /\ registered \in BOOLEAN
  /\ asked \in Limits \cup {0}

(* The files never exceed the stored limit once the quota has admitted the *)
(* database: the check guard makes after the native operation ("physical   *)
(* allocation invariant violated") never fires.                            *)
WithinLimit == registered /\ Readable => files <= best.limit

(* Space for the checkpoint of the whole WAL, once set aside, stays set    *)
(* aside: no write of WAL, index or main file, failed allocation,          *)
(* truncation, new WAL cycle or crash spends it on anything else.          *)
Funded == usage(best.base) <= best.limit
CheckpointStaysFunded ==
  [][Readable /\ Funded => (Readable /\ Funded)']_quotaVars

(* A crash or a failed write during creation never leads to a quota other  *)
(* than the one first configured: the state is refused rather than guessed.*)
NoGuessedLimit == Readable => best.limit = asked

(* The native callbacks of an open SQLite file always find their quota     *)
(* registered, also when the DB was closed under a running query.          *)
CallbackOwned == natives > 0 => registered

(* An alert marked delivered is the one Discord accepted: no new episode   *)
(* slips between sending an alert and confirming it.                       *)
ConfirmedWasSent ==
  Readable => \A a \in {"warn", "full"} : best[a].delivered => <<best.episode, a>> \in sent

(* The two slots implement an atomic durable ledger: whatever is cut off   *)
(* by a crash or a failed write, a reader finds the state before or after  *)
(* the save, limit and unconfirmed alerts included.                        *)
DurableLedger == Ledger!LedgerSpec

\* The files stay within a limit that was configured, callbacks find their owner, and
\* a confirmed alert was sent.
QuotaSound == QuotaTypeOK /\ WithinLimit /\ NoGuessedLimit /\ CallbackOwned /\ ConfirmedWasSent
=============================================================================
