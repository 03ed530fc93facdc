--------------------------- MODULE StorageProofs ----------------------------
(*************************************************************************)
(* What is kept on disk, for every plan of limits, file sizes, WAL       *)
(* lengths, records, queue capacities and failures.                      *)
(*                                                                       *)
(* The physical quota: the database never spends more than its limit,    *)
(* the catalog alert state on disk is what the abstract ledger allows,   *)
(* and a checkpoint, once funded, stays funded through native writes,    *)
(* truncations and crashes.  The log: every record is stored, on its     *)
(* way, or counted as lost exactly once.                                 *)
(*************************************************************************)
EXTENDS PhysicalQuota, LogStore, SequenceTheorems, TLAPS

\* PhysicalQuota: the limit, the records of the ledger, the alerts.

Absent == Event(FALSE, FALSE)
Raised == Event(TRUE, FALSE)
Events == {Absent, Raised, Event(TRUE, TRUE)}
States == [seq : Nat, limit : Limits, base : Nat, episode : Nat, warn : Events, full : Events,
           armed : BOOLEAN, exhausted : BOOLEAN]
Sizes == [len : Nat, alloc : Nat]
Alarms == {"warn", "full"}
Sendings == [alert : Alarms, episode : Nat, outcome : {"open", "chosen", "accepted", "failed"}]

\* Where the owner of the section has loaded the state; where it creates it; and
\* where it has admitted the write in op.
Held == {"register", "base", "admit", "io", "settle", "deny", "poll", "claim", "warn", "full", "chosen"}
Saving(next) == pc = "write" /\ after = next
Creating == pc = "truncate" \/ pc = "register" \/ Saving("register")
Granted == pc \in {"base", "admit", "io"} \/ Saving("admit") \/ Saving("io")

\* The two slots: one sequence number of each parity, the configured limit in both.
DiskShape ==
  /\ control \in {"absent", "empty", "sized"}
  /\ slot \in [0..1 -> {Torn} \cup States]
  /\ \A i \in 0..1 : slot[i] # Torn => slot[i].seq > 0 /\ slot[i].seq % 2 = i /\ slot[i].limit = asked
  /\ control # "sized" => slot[0] = Torn /\ slot[1] = Torn

FileShape ==
  /\ file \in [Paths -> Sizes]
  /\ \A p \in Paths : file[p].len <= MaxFile[p] /\ file[p].alloc <= MaxFile[p]
  /\ asked \in Limits \cup {0}

\* The section works on the state it loaded, and saves into the other slot.
SectionShape ==
  /\ pc \in {"free", "truncate", "write"} \cup Held
  /\ after \in {"free", "register", "admit", "io", "claim", "warn", "full", "chosen"}
  /\ IF pc = "free" THEN mem = NoState ELSE mem \in States /\ mem.limit = asked
  /\ pc = "truncate" => control = "empty" /\ mem = created(asked)
  /\ pc \in Held => Readable /\ mem = best
  /\ pc = "write" => control = "sized" /\ slot[mem.seq % 2] = Torn
  /\ pc = "write" => IF Readable THEN mem.seq = best.seq + 1 /\ after # "register"
                                 ELSE mem.seq = 1 /\ after = "register"

RegistryShape ==
  /\ refs \in 0..2 /\ natives \in 0..1 /\ registered \in BOOLEAN
  /\ refs > 0 \/ natives > 0 => registered
  /\ registered => Readable
  /\ Creating => ~registered

\* The files fit in the limit.
SpaceShape ==
  /\ registered => files <= asked
  /\ pc = "truncate" => files + StateBlocks <= asked
  /\ pc = "register" \/ Saving("register") => files <= asked

\* An alert that is being sent stays raised in its episode.
InFlight(s) == s.episode = sending.episode /\ s[sending.alert] = Raised
Vouched(s) == \A a \in Alarms : s[a].delivered => <<s.episode, a>> \in sent
AlertShape ==
  /\ sending = NotSending \/ sending \in Sendings
  /\ pc = "chosen" \/ Saving("chosen") => sending # NotSending
  /\ sending # NotSending => Readable /\ InFlight(best) /\ (pc = "write" => InFlight(mem))
  /\ sending # NotSending /\ sending.outcome = "accepted" => <<sending.episode, sending.alert>> \in sent
  /\ pc \in Alarms => mem[pc] = Raised
  /\ pc = "write" /\ after \in Alarms => mem[after] = Raised
  /\ Readable => Vouched(best)
  /\ pc = "write" => Vouched(mem)

\* What a save may change: the base; the alerts of the episode; the episode, once
\* its alerts are settled; or the delivery of a raised alert.
Rebased(s, t) ==
  /\ t.episode = s.episode /\ t.warn = s.warn /\ t.full = s.full
  /\ t.armed = s.armed /\ t.exhausted = s.exhausted
Crossed(s, t) ==
  /\ t.base = s.base /\ t.episode = s.episode
  /\ t.warn = s.warn \/ (s.warn = Absent /\ t.warn = Raised)
  /\ t.full = s.full \/ (s.full = Absent /\ t.full = Raised)
Advanced(s, t) ==
  /\ t.base = s.base /\ t.episode = s.episode + 1 /\ t.armed = FALSE
  /\ s.warn # Raised /\ s.full # Raised
  /\ t.warn \in {Absent, Raised} /\ t.full \in {Absent, Raised}
  /\ t.warn = Raised \/ t.full = Raised
Confirmed(s, t) ==
  /\ t.base = s.base /\ t.episode = s.episode /\ t.armed = s.armed /\ t.exhausted = s.exhausted
  /\ \/ s.warn = Raised /\ t.warn = Event(TRUE, TRUE) /\ t.full = s.full
     \/ s.full = Raised /\ t.full = Event(TRUE, TRUE) /\ t.warn = s.warn
Follows(s, t) == Rebased(s, t) \/ Crossed(s, t) \/ Advanced(s, t) \/ Confirmed(s, t)
Initial(t) ==
  /\ t.episode = 0 /\ t.warn = Absent /\ t.full = Absent /\ t.armed = TRUE /\ t.exhausted = FALSE
LedgerShape == pc = "write" => IF Readable THEN Follows(best, mem) ELSE Initial(mem)

\* Space is granted before it is used: the write in op fits with its checkpoint,
\* or changes no size, or is the checkpoint's own.
charged == IF pc = "base" THEN file["main"].len ELSE mem.base
Grant ==
  /\ op.end \in Nat /\ (op.path \in Paths => op.end \in 1..MaxFile[op.path])
  /\ projectedFiles(op.path, op.end) <= asked
  /\ \/ projectedUsage(charged, op.path, op.end) <= asked
     \/ pc # "base" /\ projectedFiles(op.path, op.end) = files
     \/ pc # "base" /\ op.path = "main" /\ projectedFiles(op.path, op.end) + AllocationReserve <= asked
GrantShape == Granted => Grant

\* A new base is saved only when its checkpoint is paid for.
FundShape == pc = "write" /\ Readable => mem.base = best.base \/ usage(mem.base) <= asked

QuotaInv ==
  /\ DiskShape /\ FileShape /\ SectionShape /\ RegistryShape
  /\ SpaceShape /\ AlertShape /\ LedgerShape /\ GrantShape /\ FundShape

-----------------------------------------------------------------------------
\* The slots as a reader finds them, for any pair of slots s with limit l.
ValidOf(s) == {i \in 0..1 : s[i].seq > 0}
BestOf(s) == s[CHOOSE i \in ValidOf(s) : \A j \in ValidOf(s) : s[i].seq >= s[j].seq]
SlotsOf(s, l) ==
  /\ s \in [0..1 -> {Torn} \cup States]
  /\ \A i \in 0..1 : s[i] # Torn => s[i].seq > 0 /\ s[i].seq % 2 = i /\ s[i].limit = l

\* Consecutive sequence numbers use different slots of the control file.
LEMMA Parity ==
  ASSUME NEW n \in Nat
  PROVE  n % 2 \in 0..1 /\ (n + 1) % 2 \in 0..1 /\ (n + 1) % 2 # n % 2
OBVIOUS

\* A slot is torn or holds a state, and validity tells which.
LEMMA ValidSlots ==
  ASSUME NEW s, NEW l, SlotsOf(s, l), NEW i \in 0..1
  PROVE  /\ i \in ValidOf(s) <=> s[i] # Torn
         /\ s[i] = Torn \/ s[i] \in States
         /\ s[i] # Torn => s[i].seq \in Nat
<1>1. s[i] = Torn \/ s[i] \in States
  BY DEF SlotsOf
<1>2. Torn.seq = -1 /\ ~(Torn.seq > 0)
  BY DEF Torn
<1>3. s[i] # Torn => s[i].seq > 0
  BY DEF SlotsOf
<1>4. i \in ValidOf(s) <=> s[i].seq > 0
  BY DEF ValidOf
<1>5. s[i] # Torn => s[i].seq \in Nat
  BY <1>1 DEF States
<1> QED  BY <1>1, <1>2, <1>3, <1>4, <1>5

\* The slot with the highest sequence is the one that is found.
LEMMA Found ==
  ASSUME NEW s, NEW l, SlotsOf(s, l), NEW i \in 0..1, s[i] # Torn,
         \A j \in 0..1 : s[j] # Torn => s[j].seq <= s[i].seq
  PROVE  ValidOf(s) # {} /\ BestOf(s) = s[i]
<1> DEFINE P(k) == \A j \in ValidOf(s) : s[k].seq >= s[j].seq
           c == CHOOSE k \in ValidOf(s) : P(k)
<1>1. i \in ValidOf(s)
  BY ValidSlots
<1>2. \A j \in ValidOf(s) : j \in 0..1 /\ s[j] # Torn /\ s[j].seq \in Nat
  BY ValidSlots DEF ValidOf
<1>3. P(i)
  BY <1>1, <1>2
<1>4. c \in ValidOf(s) /\ P(c)
  BY <1>1, <1>3, Zenon
<1>5. s[c].seq >= s[i].seq /\ s[i].seq >= s[c].seq
  BY <1>1, <1>3, <1>4
<1>6. s[c].seq = s[i].seq
  <2>1. s[c].seq \in Nat /\ s[i].seq \in Nat
    BY <1>1, <1>2, <1>4
  <2> HIDE DEF c, P
  <2> QED  BY <1>5, <2>1
<1>7. c = i
  <2>1. c \in 0..1 /\ s[c] # Torn
    BY <1>2, <1>4
  <2> HIDE DEF c
  <2>2. s[c].seq % 2 = c /\ s[i].seq % 2 = i
    BY <2>1 DEF SlotsOf
  <2> QED  BY <1>6, <2>2
<1> QED  BY <1>1, <1>7 DEF BestOf

\* Conversely, what is found is a slot with the highest sequence.
LEMMA FoundIsSlot ==
  ASSUME NEW s, NEW l, SlotsOf(s, l), ValidOf(s) # {}
  PROVE  \E i \in 0..1 : /\ s[i] # Torn /\ BestOf(s) = s[i]
                         /\ \A j \in 0..1 : s[j] # Torn => s[j].seq <= s[i].seq
<1>1. PICK i \in 0..1 : s[i] # Torn
  BY ValidSlots DEF ValidOf
<1>2. \A j \in 0..1 : s[j] # Torn => s[j].seq \in Nat
  BY ValidSlots
<1>3. CASE \A j \in 0..1 : s[j] # Torn => s[j].seq <= s[i].seq
  BY <1>1, <1>3, Found
<1>4. CASE \E j \in 0..1 : s[j] # Torn /\ ~(s[j].seq <= s[i].seq)
  <2>1. PICK j \in 0..1 : s[j] # Torn /\ ~(s[j].seq <= s[i].seq)
    BY <1>4
  <2>2. \A k \in 0..1 : k = i \/ k = j
    BY <2>1, <1>2, <1>1
  <2>3. \A k \in 0..1 : s[k] # Torn => s[k].seq <= s[j].seq
    BY <1>1, <1>2, <2>1, <2>2
  <2> QED  BY <2>1, <2>3, Found
<1> QED  BY <1>3, <1>4

\* The newest valid slot: a state with the configured limit, in the slot of its parity.
LEMMA BestShape ==
  ASSUME NEW s, NEW l, SlotsOf(s, l), ValidOf(s) # {}
  PROVE  /\ BestOf(s) \in States /\ BestOf(s).seq \in Nat /\ BestOf(s).seq > 0 /\ BestOf(s).limit = l
         /\ s[BestOf(s).seq % 2] = BestOf(s)
         /\ \A j \in 0..1 : s[j] # Torn => s[j].seq <= BestOf(s).seq
<1>1. PICK i \in 0..1 : /\ s[i] # Torn /\ BestOf(s) = s[i]
                        /\ \A j \in 0..1 : s[j] # Torn => s[j].seq <= s[i].seq
  BY FoundIsSlot
<1>2. s[i] \in States /\ s[i].seq \in Nat
  BY <1>1, ValidSlots
<1>3. s[i].seq > 0 /\ s[i].limit = l /\ s[i].seq % 2 = i
  BY <1>1 DEF SlotsOf
<1> QED  BY <1>1, <1>2, <1>3

\* Tearing the other slot loses nothing.
LEMMA Tear ==
  ASSUME NEW s, NEW l, SlotsOf(s, l), ValidOf(s) # {},
         NEW t, t = [s EXCEPT ![(BestOf(s).seq + 1) % 2] = Torn]
  PROVE  SlotsOf(t, l) /\ ValidOf(t) # {} /\ BestOf(t) = BestOf(s) /\ t[(BestOf(s).seq + 1) % 2] = Torn
<1> DEFINE b == BestOf(s)
           n == (b.seq + 1) % 2
           i == b.seq % 2
<1>1. b \in States /\ b.seq \in Nat /\ s[i] = b /\ \A j \in 0..1 : s[j] # Torn => s[j].seq <= b.seq
  BY BestShape
<1>2. i \in 0..1 /\ n \in 0..1 /\ n # i
  BY <1>1, Parity
<1>3. s[i] # Torn
  BY <1>1, <1>2, BestShape, ValidSlots DEF Torn
<1> HIDE DEF b, n, i
<1>4. t[n] = Torn /\ \A j \in 0..1 : j # n => t[j] = s[j]
  BY <1>2 DEF SlotsOf, n, b
<1>5. SlotsOf(t, l)
  <2>1. t \in [0..1 -> {Torn} \cup States]
    BY <1>2 DEF SlotsOf, n, b
  <2> QED  BY <1>4, <2>1 DEF SlotsOf
<1>6. \A j \in 0..1 : t[j] # Torn => t[j].seq <= t[i].seq
  BY <1>1, <1>2, <1>4
<1>7. ValidOf(t) # {} /\ BestOf(t) = t[i]
  BY <1>2, <1>3, <1>4, <1>5, <1>6, Found
<1> QED  BY <1>1, <1>2, <1>4, <1>5, <1>7 DEF n, b, i

\* Filling a slot with a higher sequence makes it the one that is found.
LEMMA Fill ==
  ASSUME NEW s, NEW l, SlotsOf(s, l), NEW m \in States, m.seq > 0, m.limit = l,
         ValidOf(s) # {} => BestOf(s).seq < m.seq,
         NEW t, t = [s EXCEPT ![m.seq % 2] = m]
  PROVE  SlotsOf(t, l) /\ ValidOf(t) # {} /\ BestOf(t) = m
<1> DEFINE n == m.seq % 2
<1>1. m.seq \in Nat /\ n \in 0..1 /\ m # Torn
  <2>1. m.seq \in Nat
    BY DEF States
  <2> QED  BY <2>1, Parity DEF Torn
<1>2. t[n] = m /\ \A j \in 0..1 : j # n => t[j] = s[j]
  BY <1>1 DEF SlotsOf
<1>3. SlotsOf(t, l)
  <2>1. t \in [0..1 -> {Torn} \cup States]
    BY <1>1 DEF SlotsOf
  <2> QED  BY <1>1, <1>2, <2>1 DEF SlotsOf
<1>4. ASSUME NEW j \in 0..1, s[j] # Torn PROVE s[j].seq <= m.seq
  <2>1. ValidOf(s) # {} /\ s[j].seq \in Nat
    BY <1>4, ValidSlots
  <2>2. s[j].seq <= BestOf(s).seq /\ BestOf(s).seq < m.seq /\ BestOf(s).seq \in Nat
    BY <1>4, <2>1, BestShape
  <2> QED  BY <1>1, <2>1, <2>2
<1> HIDE DEF n
<1>5. \A j \in 0..1 : t[j] # Torn => t[j].seq <= t[n].seq
  BY <1>1, <1>2, <1>4
<1> QED  BY <1>1, <1>2, <1>3, <1>5, Found

\* Readable and best in terms of the slots on disk.
LEMMA Reads ==
  /\ Readable <=> control = "sized" /\ ValidOf(slot) # {}
  /\ best = BestOf(slot)
BY DEF Readable, best, Valid, ValidOf, BestOf

\* The same for the next state.
LEMMA ReadsNext ==
  /\ Readable' <=> control' = "sized" /\ ValidOf(slot') # {}
  /\ best' = BestOf(slot')
BY DEF Readable, best, Valid, ValidOf, BestOf

-----------------------------------------------------------------------------
\* observe, for any outcome of its three comparisons.
Outcome(s, low, high, out, denied) ==
  LET armed == s.armed \/ low
      fresh == (high \/ denied) /\ armed /\ Settled(s.warn) /\ Settled(s.full)
      warn == IF fresh THEN Event(FALSE, FALSE) ELSE s.warn
      full == IF fresh THEN Event(FALSE, FALSE) ELSE s.full
  IN [seq |-> s.seq, limit |-> s.limit, base |-> s.base,
      episode |-> IF fresh THEN s.episode + 1 ELSE s.episode,
      warn |-> IF high /\ ~warn.pending THEN Event(TRUE, FALSE) ELSE warn,
      full |-> IF out /\ ~full.pending THEN Event(TRUE, FALSE) ELSE full,
      armed |-> armed /\ ~fresh,
      exhausted |-> out \/ (s.exhausted /\ ~low)]

\* The three states of an alert, field by field.
LEMMA EventFields ==
  /\ Absent.pending = FALSE /\ Absent.delivered = FALSE
  /\ Raised.pending = TRUE /\ Raised.delivered = FALSE
  /\ Event(TRUE, TRUE).pending = TRUE /\ Event(TRUE, TRUE).delivered = TRUE
  /\ Absent # Raised /\ Raised # Event(TRUE, TRUE) /\ Absent # Event(TRUE, TRUE)
BY DEF Absent, Raised, Event

\* An alert is settled unless it is raised and not delivered.
LEMMA SettledIs == ASSUME NEW e \in Events PROVE Settled(e) <=> e # Raised
BY EventFields DEF Settled, Events

\* An alert is pending unless it is absent.
LEMMA PendingIs == ASSUME NEW e \in Events PROVE e.pending <=> e # Absent
BY EventFields DEF Events

\* The fields of a control state.
LEMMA StateFields ==
  ASSUME NEW s \in States
  PROVE  /\ s.seq \in Nat /\ s.limit \in Limits /\ s.base \in Nat /\ s.episode \in Nat
         /\ s.warn \in Events /\ s.full \in Events
BY DEF States

Observed(s, t) ==
  /\ t \in States /\ t.seq = s.seq /\ t.limit = s.limit /\ t.base = s.base
  /\ Crossed(s, t) \/ Advanced(s, t)

\* Whatever thresholds were crossed, the new state is one observe may produce.
LEMMA OutcomeFollows ==
  ASSUME NEW s \in States, NEW low \in BOOLEAN, NEW high \in BOOLEAN, NEW out \in BOOLEAN,
         NEW denied \in BOOLEAN, denied => out
  PROVE  Observed(s, Outcome(s, low, high, out, denied))
<1> DEFINE armed == s.armed \/ low
           fresh == (high \/ denied) /\ armed /\ Settled(s.warn) /\ Settled(s.full)
           warn == IF fresh THEN Absent ELSE s.warn
           full == IF fresh THEN Absent ELSE s.full
           w == IF high /\ warn = Absent THEN Raised ELSE warn
           f == IF out /\ full = Absent THEN Raised ELSE full
           a == armed /\ ~fresh
           x == out \/ (s.exhausted /\ ~low)
           e == IF fresh THEN s.episode + 1 ELSE s.episode
           t == Outcome(s, low, high, out, denied)
<1>1. /\ s.seq \in Nat /\ s.limit \in Limits /\ s.base \in Nat /\ s.episode \in Nat
      /\ s.warn \in Events /\ s.full \in Events
  BY StateFields
<1>2. Absent \in Events /\ Raised \in Events
  BY DEF Events
<1>3. warn \in Events /\ full \in Events
  BY <1>1, <1>2
<1>4. w \in Events /\ f \in Events
  BY <1>2, <1>3
<1>5. (warn.pending <=> warn # Absent) /\ (full.pending <=> full # Absent)
  BY <1>3, PendingIs
<1>6. t = [seq |-> s.seq, limit |-> s.limit, base |-> s.base, episode |-> e,
           warn |-> w, full |-> f, armed |-> a, exhausted |-> x]
  BY <1>5 DEF Outcome, Absent, Raised
<1>7. e \in Nat /\ a \in BOOLEAN /\ x \in BOOLEAN
  BY <1>1
<1>8. fresh => s.warn # Raised /\ s.full # Raised /\ warn = Absent /\ full = Absent /\ e = s.episode + 1 /\ a = FALSE
  BY <1>1, SettledIs
<1>9. ~fresh => warn = s.warn /\ full = s.full /\ e = s.episode
  OBVIOUS
<1>10. fresh => high \/ out
  OBVIOUS
<1>11. /\ high /\ warn = Absent => w = Raised
       /\ ~(high /\ warn = Absent) => w = warn
       /\ out /\ full = Absent => f = Raised
       /\ ~(out /\ full = Absent) => f = full
  OBVIOUS
<1> HIDE DEF fresh, warn, full, w, f, a, x, e, t, armed
<1>12. t \in States
  BY <1>1, <1>4, <1>6, <1>7 DEF States
<1>13. /\ t.seq = s.seq /\ t.limit = s.limit /\ t.base = s.base /\ t.episode = e
       /\ t.warn = w /\ t.full = f /\ t.armed = a
  BY <1>6
<1>14. CASE fresh
  <2>1. Advanced(s, t)
    BY <1>8, <1>10, <1>11, <1>13, <1>14 DEF Advanced
  <2> QED  BY <1>12, <1>13, <2>1 DEF t, Observed
<1>15. CASE ~fresh
  <2>1. Crossed(s, t)
    BY <1>9, <1>11, <1>13, <1>15 DEF Crossed
  <2> QED  BY <1>12, <1>13, <2>1 DEF t, Observed
<1> QED  BY <1>14, <1>15

\* observe moves the alerts only along their protocol.
LEMMA ObserveFollows ==
  ASSUME NEW s \in States, NEW used, NEW denied \in BOOLEAN
  PROVE  Observed(s, observe(s, used, denied))
<1> DEFINE low == used < (s.limit * 85) \div 100
           high == used >= (s.limit * 9) \div 10
           out == denied \/ used >= s.limit
<1>1. observe(s, used, denied) = Outcome(s, low, high, out, denied)
  BY DEF observe, Outcome
<1>2. low \in BOOLEAN /\ high \in BOOLEAN /\ out \in BOOLEAN /\ (denied => out)
  OBVIOUS
<1> HIDE DEF low, high, out
<1> QED  BY <1>1, <1>2, OutcomeFollows

-----------------------------------------------------------------------------
\* Alerts through a change of the state.

\* Both alerts of a state are alert states.
LEMMA AlarmFields ==
  ASSUME NEW s \in States, NEW a \in Alarms
  PROVE  s[a] \in Events
BY DEF States, Alarms

\* A state is vouched when each delivered alert was really sent.
LEMMA VouchedIs ==
  ASSUME NEW s \in States
  PROVE  Vouched(s) <=> /\ s.warn.delivered => <<s.episode, "warn">> \in sent
                        /\ s.full.delivered => <<s.episode, "full">> \in sent
BY DEF Vouched, Alarms

\* Rebasing, crossing a threshold and a new episode mark nothing as delivered.
LEMMA VouchedKept ==
  ASSUME NEW s \in States, NEW t \in States, Vouched(s),
         Rebased(s, t) \/ Crossed(s, t) \/ Advanced(s, t)
  PROVE  Vouched(t)
<1>1. CASE Rebased(s, t)
  BY <1>1, VouchedIs DEF Rebased
<1>2. CASE Crossed(s, t)
  BY <1>2, VouchedIs, EventFields DEF Crossed
<1>3. CASE Advanced(s, t)
  BY <1>3, VouchedIs, EventFields DEF Advanced
<1> QED  BY <1>1, <1>2, <1>3

\* An alert being sent stays the one the state has raised.
LEMMA InFlightKept ==
  ASSUME NEW s \in States, NEW t \in States, sending \in Sendings, InFlight(s),
         Rebased(s, t) \/ Crossed(s, t) \/ Advanced(s, t)
  PROVE  InFlight(t)
<1>1. sending.alert \in Alarms
  BY DEF Sendings
<1>2. CASE sending.alert = "warn"
  BY <1>2, EventFields DEF InFlight, Rebased, Crossed, Advanced
<1>3. CASE sending.alert = "full"
  BY <1>3, EventFields DEF InFlight, Rebased, Crossed, Advanced
<1> QED  BY <1>1, <1>2, <1>3 DEF Alarms

-----------------------------------------------------------------------------
\* The parts of a step.

\* The slots on disk are well formed.
LEMMA DiskSlots == DiskShape => SlotsOf(slot, asked)
BY DEF DiskShape, SlotsOf

\* Nothing written: the disk reads as before.
LEMMA QuietDisk ==
  ASSUME DiskShape, UNCHANGED <<control, slot, asked>>
  PROVE  DiskShape' /\ best' = best /\ (Readable' <=> Readable)
<1>1. DiskShape'
  BY DEF DiskShape
<1>2. best' = best
  BY DEF best, Valid
<1>3. Readable' <=> Readable
  BY DEF Readable, Valid
<1> QED  BY <1>1, <1>2, <1>3

\* No file changes: the same space is used.
LEMMA QuietFiles ==
  ASSUME UNCHANGED <<control, file>>
  PROVE  files' = files
BY DEF files, blocks

\* What is read from disk is a state with the configured limit.
LEMMA BestInStates ==
  ASSUME DiskShape, Readable
  PROVE  best \in States /\ best.seq \in Nat /\ best.seq > 0 /\ best.limit = asked
BY DiskSlots, Reads, BestShape

\* Leaving the section.
LEMMA LeaveParts ==
  ASSUME QuotaInv, Leave, UNCHANGED <<control, slot, file, asked>>, registered' => registered \/ pc = "register"
  PROVE  /\ DiskShape' /\ FileShape' /\ SectionShape' /\ SpaceShape'
         /\ LedgerShape' /\ GrantShape' /\ FundShape'
         /\ best' = best /\ (Readable' <=> Readable)
<1>1. DiskShape' /\ best' = best /\ (Readable' <=> Readable)
  BY QuietDisk DEF QuotaInv
<1>2. FileShape'
  BY DEF QuotaInv, FileShape
<1>3. pc' = "free" /\ mem' = NoState /\ after' = "free"
  BY DEF Leave
<1>4. SectionShape'
  BY <1>3 DEF SectionShape, Held
<1>5. SpaceShape'
  <2>1. registered' => files <= asked
    BY DEF QuotaInv, SpaceShape
  <2> QED  BY <1>3, <2>1, QuietFiles DEF SpaceShape, Saving
<1>6. LedgerShape' /\ GrantShape' /\ FundShape'
  BY <1>3 DEF LedgerShape, GrantShape, FundShape, Granted, Saving
<1> QED  BY <1>1, <1>2, <1>4, <1>5, <1>6

\* Loading the state into the section, or going on with it.
LEMMA LoadParts ==
  ASSUME QuotaInv, Readable, mem' = best, pc' \in Held, UNCHANGED <<control, slot, file, asked, registered>>,
         after' \in {"free", "register", "admit", "io", "claim", "warn", "full", "chosen"},
         pc' = "register" => files <= asked,
         pc' \in {"base", "admit", "io"} => Grant'
  PROVE  /\ DiskShape' /\ FileShape' /\ SectionShape' /\ SpaceShape'
         /\ LedgerShape' /\ GrantShape' /\ FundShape'
         /\ best' = best /\ Readable'
<1>1. DiskShape' /\ best' = best /\ Readable'
  BY QuietDisk DEF QuotaInv
<1>2. FileShape'
  BY DEF QuotaInv, FileShape
<1>3. pc' # "write" /\ pc' # "free" /\ pc' # "truncate"
  BY DEF Held
<1>4. best \in States /\ best.limit = asked
  BY BestInStates DEF QuotaInv
<1>5. SectionShape'
  BY <1>1, <1>3, <1>4 DEF SectionShape
<1>6. SpaceShape'
  <2>1. registered' => files <= asked
    BY DEF QuotaInv, SpaceShape
  <2> QED  BY <1>3, <2>1, QuietFiles DEF SpaceShape, Saving
<1>7. LedgerShape' /\ GrantShape' /\ FundShape'
  BY <1>3 DEF LedgerShape, GrantShape, FundShape, Granted, Saving
<1> QED  BY <1>1, <1>2, <1>5, <1>6, <1>7

SameContent(t, s) ==
  /\ t.limit = s.limit /\ t.base = s.base /\ t.episode = s.episode /\ t.warn = s.warn /\ t.full = s.full
  /\ t.armed = s.armed /\ t.exhausted = s.exhausted

\* A write advances the sequence number and keeps the content.
LEMMA NextSeq ==
  ASSUME NEW s \in States, NEW t, t = [s EXCEPT !.seq = @ + 1]
  PROVE  t \in States /\ t.seq = s.seq + 1 /\ SameContent(t, s)
BY DEF States, SameContent

\* Whether a state may follow another depends on its content only.
LEMMA SameFollows ==
  ASSUME NEW r \in States, NEW s \in States, NEW t \in States, SameContent(t, s), Follows(r, s)
  PROVE  Follows(r, t)
BY DEF SameContent, Follows, Rebased, Crossed, Advanced, Confirmed

\* Starting a save: the other slot is torn.
LEMMA WriteParts ==
  ASSUME QuotaInv, Readable, UNCHANGED <<control, file, asked, registered>>,
         NEW s \in States, s.seq = best.seq, s.limit = asked, Follows(best, s),
         s.base = best.base \/ usage(s.base) <= asked,
         NEW next \in {"free", "admit", "io", "claim", "warn", "full", "chosen"},
         Write(s, next), next \in {"admit", "io"} => Grant'
  PROVE  /\ DiskShape' /\ FileShape' /\ SectionShape' /\ SpaceShape'
         /\ LedgerShape' /\ GrantShape' /\ FundShape'
         /\ best' = best /\ Readable' /\ mem' \in States /\ SameContent(mem', s)
         /\ pc' = "write" /\ after' = next
<1>1. /\ pc' = "write" /\ after' = next /\ mem' = [s EXCEPT !.seq = @ + 1]
      /\ slot' = [slot EXCEPT ![(s.seq + 1) % 2] = Torn]
  BY DEF Write
<1>2. mem' \in States /\ mem'.seq = s.seq + 1 /\ SameContent(mem', s)
  BY <1>1, NextSeq
<1>3. best \in States /\ best.seq \in Nat /\ best.limit = asked
  BY BestInStates DEF QuotaInv
<1>4. SlotsOf(slot', asked) /\ ValidOf(slot') # {} /\ BestOf(slot') = best /\ slot'[(best.seq + 1) % 2] = Torn
  BY <1>1, DiskSlots, Reads, Tear DEF QuotaInv
<1>5. control = "sized" /\ control' = "sized"
  BY DEF Readable
<1>6. DiskShape'
  BY <1>4, <1>5 DEF DiskShape, SlotsOf
<1>7. best' = best /\ Readable'
  BY <1>4, <1>5, ReadsNext
<1>8. FileShape'
  BY DEF QuotaInv, FileShape
<1>9. SectionShape'
  <2>1. slot'[mem'.seq % 2] = Torn /\ mem'.seq = best'.seq + 1 /\ mem'.limit = asked'
    BY <1>2, <1>4, <1>7 DEF SameContent
  <2> QED  BY <1>1, <1>2, <1>5, <1>7, <2>1 DEF SectionShape, Held
<1>10. SpaceShape'
  <2>1. registered' => files <= asked
    BY DEF QuotaInv, SpaceShape
  <2> QED  BY <1>1, <2>1, QuietFiles DEF SpaceShape, Saving
<1>11. LedgerShape'
  BY <1>2, <1>3, <1>7, SameFollows DEF LedgerShape
<1>12. GrantShape'
  BY <1>1 DEF GrantShape, Granted, Saving
<1>13. FundShape'
  BY <1>2, <1>7 DEF FundShape, SameContent, usage, files, blocks, reserved
<1> QED  BY <1>1, <1>2, <1>6, <1>7, <1>8, <1>9, <1>10, <1>11, <1>12, <1>13

\* The alerts stay sound while neither disk nor sender moves.
LEMMA AlertQuiet ==
  ASSUME AlertShape, UNCHANGED <<sending, sent>>, best' = best, Readable' <=> Readable,
         pc' \notin {"write", "warn", "full", "chosen"}
  PROVE  AlertShape'
BY DEF AlertShape, Saving, InFlight, Vouched, Alarms

\* The alerts stay sound when a legal successor is being written.
LEMMA AlertWrite ==
  ASSUME AlertShape, UNCHANGED <<sending, sent>>, best \in States, Readable, best' = best, Readable',
         NEW s \in States, mem' \in States, SameContent(mem', s),
         Rebased(best, s) \/ Crossed(best, s) \/ Advanced(best, s),
         pc' = "write", after' = "chosen" => sending # NotSending, after' \in Alarms => s[after'] = Raised
  PROVE  AlertShape'
<1>1. Vouched(s)
  BY VouchedKept DEF AlertShape
<1>2. sending # NotSending => InFlight(s)
  BY InFlightKept DEF AlertShape
<1>3. mem'.episode = s.episode /\ mem'.warn = s.warn /\ mem'.full = s.full
  BY DEF SameContent
<1>4. \A a \in Alarms : mem'[a] = s[a]
  BY <1>3 DEF Alarms
<1>5. sending # NotSending => sending.alert \in Alarms
  BY DEF AlertShape, Sendings
<1>6. Vouched(mem)'
  BY <1>1, <1>3, <1>4 DEF Vouched
<1>7. sending # NotSending => InFlight(mem)'
  BY <1>2, <1>3, <1>4, <1>5 DEF InFlight
<1>8. Vouched(best)' /\ (sending # NotSending => InFlight(best)')
  BY DEF AlertShape, Vouched, InFlight
<1>9. after' \in Alarms => mem'[after'] = Raised
  BY <1>4
<1>10. pc' \notin Alarms /\ pc' # "chosen"
  BY DEF Alarms
<1> QED  BY <1>6, <1>7, <1>8, <1>9, <1>10 DEF AlertShape, Saving

\* The registry stays sound while no handle opens or closes.
LEMMA RegistryQuiet ==
  ASSUME RegistryShape, UNCHANGED <<refs, natives, registered>>, Readable => Readable', Creating' => ~registered
  PROVE  RegistryShape'
BY DEF RegistryShape

\* The parts of the invariant.
LEMMA Parts ==
  ASSUME QuotaInv
  PROVE  /\ DiskShape /\ FileShape /\ SectionShape /\ RegistryShape
         /\ SpaceShape /\ AlertShape /\ LedgerShape /\ GrantShape /\ FundShape
BY DEF QuotaInv

\* The initial state.
LEMMA QuotaStarts == QuotaInit => QuotaInv
<1> SUFFICES ASSUME QuotaInit PROVE QuotaInv
  OBVIOUS
<1>1. DiskShape
  BY DEF QuotaInit, DiskShape
<1>2. FileShape
  <2>1. PICK m \in 0..1, w \in 0..1 :
          file = [p \in Paths |-> LET n == IF p = "main" THEN m ELSE IF p = "wal" THEN w ELSE 0
                                  IN [len |-> n, alloc |-> n]]
    BY DEF QuotaInit
  <2>2. \A p \in Paths : \E n \in 0..1 : file[p] = [len |-> n, alloc |-> n]
    BY <2>1
  <2>3. \A p \in Paths : MaxFile[p] \in Nat /\ MaxFile[p] >= 1
    BY QuotaAssumption DEF Paths
  <2>4. \A p \in Paths : file[p] \in Sizes /\ file[p].len <= MaxFile[p] /\ file[p].alloc <= MaxFile[p]
    BY <2>2, <2>3 DEF Sizes
  <2>5. file \in [Paths -> Sizes]
    BY <2>1, <2>4
  <2> QED  BY <2>4, <2>5 DEF QuotaInit, FileShape
<1>3. ~Readable
  BY DEF QuotaInit, Readable
<1>4. SectionShape /\ SpaceShape /\ LedgerShape /\ GrantShape /\ FundShape
  BY DEF QuotaInit, SectionShape, SpaceShape, LedgerShape, GrantShape, FundShape, Granted, Saving, Held
<1>5. RegistryShape
  <2>1. refs \in 0..2 /\ natives \in 0..1 /\ ~(refs > 0) /\ ~(natives > 0)
    BY DEF QuotaInit
  <2>2. registered = FALSE
    BY DEF QuotaInit
  <2> QED  BY <2>1, <2>2, Zenon DEF RegistryShape
<1>6. AlertShape
  BY <1>3 DEF QuotaInit, AlertShape, Saving, Alarms
<1> QED  BY <1>1, <1>2, <1>4, <1>5, <1>6 DEF QuotaInv

\* A completed write is what the next reader finds.
LEMMA SaveDoneParts ==
  ASSUME QuotaInv, SaveDone
  PROVE  DiskShape' /\ Readable' /\ best' = mem /\ mem \in States
<1>1. /\ pc = "write" /\ slot' = [slot EXCEPT ![mem.seq % 2] = mem] /\ UNCHANGED <<control, asked>>
  BY DEF SaveDone
<1>2. mem \in States /\ mem.limit = asked /\ control = "sized"
  BY <1>1, Parts DEF SectionShape
<1>3. mem.seq > 0 /\ (ValidOf(slot) # {} => BestOf(slot).seq < mem.seq)
  <2>1. CASE Readable
    <3>1. mem.seq = best.seq + 1 /\ best.seq \in Nat
      BY <1>1, <2>1, Parts, BestInStates DEF SectionShape
    <3> QED  BY <3>1, Reads
  <2>2. CASE ~Readable
    <3>1. mem.seq = 1 /\ ValidOf(slot) = {}
      BY <1>1, <1>2, <2>2, Parts, Reads DEF SectionShape
    <3> QED  BY <3>1
  <2> QED  BY <2>1, <2>2
<1>4. SlotsOf(slot', asked) /\ ValidOf(slot') # {} /\ BestOf(slot') = mem
  BY <1>1, <1>2, <1>3, Parts, DiskSlots, Fill
<1>5. DiskShape'
  BY <1>1, <1>2, <1>4 DEF DiskShape, SlotsOf
<1> QED  BY <1>1, <1>2, <1>4, <1>5, ReadsNext

\* A write of the control file completes.
LEMMA SaveDoneKeeps == ASSUME QuotaInv, SaveDone PROVE QuotaInv'
<1>1. DiskShape' /\ Readable' /\ best' = mem /\ mem \in States
  BY SaveDoneParts
<1>2. /\ pc = "write" /\ UNCHANGED <<control, file, refs, natives, registered, sending, sent, asked>>
      /\ \/ after = "free" /\ pc' = "free" /\ mem' = NoState /\ after' = "free"
         \/ after # "free" /\ pc' = after /\ UNCHANGED <<mem, after, op>>
  BY DEF SaveDone, Leave, registry, alerting
<1>3. FileShape'
  BY <1>2, Parts DEF FileShape
<1>4. after \in {"free", "register", "admit", "io", "claim", "warn", "full", "chosen"}
  BY Parts DEF SectionShape
<1>5. mem.limit = asked
  BY <1>2, Parts DEF SectionShape
<1>6. SectionShape'
  BY <1>1, <1>2, <1>4, <1>5 DEF SectionShape, Held
<1>7. RegistryShape'
  <2>1. Creating' => Creating
    BY <1>2, <1>4 DEF Creating, Saving
  <2> QED  BY <1>1, <1>2, <2>1, Parts, RegistryQuiet DEF RegistryShape
<1>8. SpaceShape'
  <2>1. files' = files
    BY <1>2, QuietFiles
  <2> QED  BY <1>2, <1>4, <2>1, Parts DEF SpaceShape, Saving
<1>9. AlertShape'
  <2>1. Vouched(best)'
    BY <1>1, <1>2, Parts DEF AlertShape, Vouched
  <2>2. sending # NotSending => InFlight(best)'
    BY <1>1, <1>2, Parts DEF AlertShape, InFlight
  <2>3. pc' \in Alarms => mem' [pc'] = Raised
    BY <1>2, Parts DEF AlertShape, Alarms
  <2>4. pc' # "write"
    BY <1>2, <1>4
  <2>5. pc' = "chosen" => sending # NotSending
    BY <1>2, Parts DEF AlertShape, Saving
  <2> QED  BY <1>1, <1>2, <2>1, <2>2, <2>3, <2>4, <2>5, Parts DEF AlertShape, Saving
<1>10. LedgerShape' /\ FundShape'
  BY <1>2, <1>4 DEF LedgerShape, FundShape
<1>11. GrantShape'
  <2> SUFFICES ASSUME Granted' PROVE Grant'
    BY DEF GrantShape
  <2>1. after \in {"admit", "io"} /\ pc' = after /\ UNCHANGED <<mem, op>>
    BY <1>2, <1>4 DEF Granted, Saving
  <2>2. Grant
    BY <1>2, <2>1, Parts DEF GrantShape, Granted, Saving
  <2> QED  BY <1>2, <2>1, <2>2 DEF Grant, charged, projectedFiles, projectedUsage, growth, files, blocks, reserved
<1> QED  BY <1>1, <1>3, <1>6, <1>7, <1>8, <1>9, <1>10, <1>11 DEF QuotaInv

\* A write of the control file fails.
LEMMA SaveFailsKeeps == ASSUME QuotaInv, SaveFails PROVE QuotaInv'
<1>1. /\ pc = "write" /\ Leave /\ UNCHANGED <<control, slot, file, asked, refs, natives, registered, sent>>
      /\ sending' = IF after = "chosen" THEN [sending EXCEPT !.outcome = "failed"] ELSE sending
  BY DEF SaveFails, disk, registry
<1>2. /\ DiskShape' /\ FileShape' /\ SectionShape' /\ SpaceShape' /\ LedgerShape' /\ GrantShape' /\ FundShape'
      /\ best' = best /\ (Readable' <=> Readable)
  BY <1>1, LeaveParts
<1>3. RegistryShape'
  BY <1>1, <1>2, Parts, RegistryQuiet DEF Creating, Saving, Leave
<1>4. pc' = "free"
  BY <1>1 DEF Leave
<1>5. AlertShape'
  <2>1. CASE after # "chosen"
    BY <1>1, <1>2, <1>4, <2>1, Parts, AlertQuiet
  <2>2. CASE after = "chosen"
    <3>1. sending \in Sendings /\ Readable /\ InFlight(best) /\ Vouched(best)
      BY <1>1, <2>2, Parts DEF AlertShape, Saving
    <3>2. /\ sending' \in Sendings /\ sending'.outcome = "failed"
          /\ sending'.episode = sending.episode /\ sending'.alert = sending.alert
      BY <1>1, <2>2, <3>1 DEF Sendings
    <3>3. InFlight(best)' /\ Vouched(best)'
      BY <1>1, <1>2, <3>1, <3>2 DEF InFlight, Vouched
    <3> QED  BY <1>2, <1>4, <3>1, <3>2, <3>3 DEF AlertShape, Saving, Alarms
  <2> QED  BY <2>1, <2>2
<1> QED  BY <1>2, <1>3, <1>5 DEF QuotaInv

-----------------------------------------------------------------------------
\* Sizes.

base0 == IF control = "sized" THEN StateBlocks ELSE 0

\* File sizes and the space they use are natural numbers.
LEMMA SizesNat ==
  ASSUME FileShape
  PROVE  /\ \A p \in Paths : file[p].len \in Nat /\ file[p].alloc \in Nat /\ blocks(file[p]) \in Nat
         /\ base0 \in Nat /\ files \in Nat /\ asked \in Nat
         /\ files = base0 + blocks(file["main"]) + blocks(file["wal"]) + blocks(file["shm"])
<1>1. \A p \in Paths : file[p].len \in Nat /\ file[p].alloc \in Nat
  BY DEF FileShape, Sizes
<1>2. \A p \in Paths : blocks(file[p]) \in Nat
  BY <1>1 DEF blocks, max
<1>3. base0 \in Nat /\ asked \in Nat
  BY QuotaAssumption DEF base0, FileShape
<1>4. files = base0 + blocks(file["main"]) + blocks(file["wal"]) + blocks(file["shm"])
  BY DEF files, base0
<1>5. "main" \in Paths /\ "wal" \in Paths /\ "shm" \in Paths
  BY DEF Paths
<1>6. files \in Nat
  BY <1>2, <1>3, <1>4, <1>5
<1> QED  BY <1>1, <1>2, <1>3, <1>4, <1>6

\* Growth is a natural number.
LEMMA GrowthNat ==
  ASSUME FileShape, NEW path, NEW end \in Nat
  PROVE  growth(path, end) \in Nat
<1>1. \A p \in Paths : file[p].len \in Nat
  BY SizesNat
<1> QED  BY <1>1 DEF growth, max

\* The room a checkpoint needs grows with every file.
LEMMA UsageGrows ==
  ASSUME NEW c \in Nat, NEW m \in Nat, NEW w \in Nat, NEW h \in Nat, NEW g \in Nat, NEW b \in Nat,
         NEW dm \in {0, g}, NEW dw \in {0, g}, dm + dw <= g
  PROVE  /\ reserved(c + m + w + h, b, w, m) \in Nat
         /\ reserved(c + m + w + h + g, b, w + dw, m + dm) \in Nat
         /\ reserved(c + m + w + h, b, w, m) <= reserved(c + m + w + h + g, b, w + dw, m + dm)
BY QuotaAssumption DEF reserved, max

\* A projected use covers the present one.
LEMMA ProjectedCovers ==
  ASSUME FileShape, NEW path, NEW end \in Nat, NEW b \in Nat
  PROVE  /\ projectedFiles(path, end) \in Nat /\ files <= projectedFiles(path, end)
         /\ usage(b) \in Nat /\ projectedUsage(b, path, end) \in Nat
         /\ usage(b) <= projectedUsage(b, path, end)
<1> DEFINE g == growth(path, end)
           m == blocks(file["main"])
           w == blocks(file["wal"])
           h == blocks(file["shm"])
           c == base0
           dm == IF path = "main" THEN g ELSE 0
           dw == IF path = "wal" THEN g ELSE 0
<1>1. g \in Nat
  BY GrowthNat
<1>2. m \in Nat /\ w \in Nat /\ h \in Nat /\ c \in Nat /\ files = c + m + w + h /\ files \in Nat
  BY SizesNat DEF Paths
<1>3. dm \in {0, g} /\ dw \in {0, g} /\ dm + dw <= g
  BY <1>1
<1>4. usage(b) = reserved(files, b, w, m)
  BY DEF usage
<1>5. projectedUsage(b, path, end) = reserved(files + g, b, w + dw, m + dm)
  BY DEF projectedUsage
<1>6. projectedFiles(path, end) = files + g
  BY DEF projectedFiles
<1> HIDE DEF g, m, w, h, c, dm, dw
<1>7. /\ reserved(c + m + w + h, b, w, m) \in Nat
      /\ reserved(c + m + w + h + g, b, w + dw, m + dm) \in Nat
      /\ reserved(c + m + w + h, b, w, m) <= reserved(c + m + w + h + g, b, w + dw, m + dm)
  BY <1>1, <1>2, <1>3, UsageGrows
<1>8. /\ usage(b) \in Nat /\ projectedUsage(b, path, end) \in Nat
      /\ usage(b) <= projectedUsage(b, path, end)
  BY <1>2, <1>4, <1>5, <1>7
<1> QED  BY <1>1, <1>2, <1>6, <1>8

-----------------------------------------------------------------------------
\* Creation and registry.

\* A catalog is opened for the first time.
LEMMA OpenNewKeeps == ASSUME QuotaInv, NEW l \in Limits \cup {0}, OpenNew(l) PROVE QuotaInv'
<1> DEFINE limit == configured(l)
<1>1. /\ pc = "free" /\ ~registered /\ control = "absent" /\ asked' = limit /\ control' = "empty"
      /\ UNCHANGED <<slot, file, after, op, refs, natives, registered, sending, sent>>
      /\ \/ pc' = pc /\ mem' = mem
         \/ /\ files + StateBlocks + AllocationReserve <= limit
            /\ pc' = "truncate" /\ mem' = created(limit)
  <2>1. files \in Nat /\ limit \in Nat
    BY Parts, SizesNat, QuotaAssumption DEF configured
  <2> QED  BY <2>1, QuotaAssumption DEF OpenNew, Create, registry, alerting
<1>2. limit \in Limits /\ limit \in Nat
  BY QuotaAssumption DEF configured
<1>3. slot[0] = Torn /\ slot[1] = Torn /\ ~Readable /\ ~Readable'
  BY <1>1, Parts DEF DiskShape, Readable
<1>4. DiskShape'
  BY <1>1, <1>3, Parts DEF DiskShape
<1>5. FileShape'
  BY <1>1, <1>2, Parts DEF FileShape
<1>6. created(limit) \in States /\ created(limit).limit = limit /\ created(limit)' = created(limit)
  <2>1. file["main"].len \in Nat
    BY Parts, SizesNat DEF Paths
  <2>2. Event(FALSE, FALSE) \in Events
    BY DEF Events, Absent
  <2> QED  BY <1>1, <1>2, <2>1, <2>2 DEF created, States
<1>7. SectionShape'
  <2>1. CASE pc' = "truncate" /\ mem' = created(limit)
    <3>1. mem' \in States /\ mem'.limit = asked' /\ mem' = created(asked)'
      BY <1>1, <1>6, <2>1
    <3>2. after' \in {"free", "register", "admit", "io", "claim", "warn", "full", "chosen"}
      BY <1>1, Parts DEF SectionShape
    <3> QED  BY <1>1, <2>1, <3>1, <3>2 DEF SectionShape, Held
  <2>2. CASE pc' = pc /\ mem' = mem
    BY <1>1, <2>2, Parts DEF SectionShape, Held
  <2> QED  BY <1>1, <2>1, <2>2
<1>8. RegistryShape'
  BY <1>1, <1>3, Parts, RegistryQuiet
<1>9. SpaceShape'
  <2>1. files' = files
    BY <1>1 DEF files, blocks
  <2>2. files \in Nat
    BY Parts, SizesNat
  <2>3. pc' = "truncate" => files + StateBlocks <= limit
    BY <1>1, <1>2, <2>2, QuotaAssumption
  <2> QED  BY <1>1, <2>1, <2>3 DEF SpaceShape, Saving
<1>10. AlertShape'
  <2>1. sending = NotSending
    BY <1>3, Parts DEF AlertShape
  <2> QED  BY <1>1, <1>3, <2>1 DEF AlertShape, Saving, Alarms
<1>11. LedgerShape' /\ GrantShape' /\ FundShape'
  BY <1>1 DEF LedgerShape, GrantShape, FundShape, Granted, Saving
<1> QED  BY <1>4, <1>5, <1>7, <1>8, <1>9, <1>10, <1>11 DEF QuotaInv

\* Its control state is created.
LEMMA CreateStateKeeps == ASSUME QuotaInv, CreateState PROVE QuotaInv'
<1>1. /\ pc = "truncate" /\ control' = "sized" /\ pc' = "write" /\ after' = "register"
      /\ mem' = [mem EXCEPT !.seq = @ + 1] /\ slot' = [slot EXCEPT ![(mem.seq + 1) % 2] = Torn]
      /\ UNCHANGED <<file, op, refs, natives, registered, sending, sent, asked>>
  BY DEF CreateState, Write, registry, alerting
<1>2. mem \in States /\ mem = created(asked) /\ mem.limit = asked /\ control = "empty"
  BY <1>1, Parts DEF SectionShape
<1>3. slot[0] = Torn /\ slot[1] = Torn /\ ~Readable /\ slot \in [0..1 -> {Torn} \cup States]
  BY <1>2, Parts DEF DiskShape, Readable
<1>4. slot' = slot
  BY <1>1, <1>3
<1>5. mem.seq = 0 /\ Initial(mem)
  BY <1>2 DEF created, Initial, Absent
<1>6. mem' \in States /\ mem'.seq = 1 /\ SameContent(mem', mem)
  BY <1>1, <1>2, <1>5, NextSeq
<1>7. ~Readable'
  BY <1>3, <1>4 DEF Readable, Valid, Torn
<1>8. DiskShape' /\ FileShape'
  BY <1>1, <1>3, <1>4, Parts DEF DiskShape, FileShape
<1>9. SectionShape'
  <2>1. slot'[mem'.seq % 2] = Torn
    BY <1>3, <1>4, <1>6
  <2> QED  BY <1>1, <1>2, <1>6, <1>7, <2>1 DEF SectionShape, Held, SameContent
<1>10. ~registered
  BY <1>1, Parts DEF RegistryShape, Creating
<1>11. RegistryShape'
  BY <1>1, <1>3, <1>10, Parts, RegistryQuiet
<1>12. SpaceShape'
  <2>1. files + StateBlocks <= asked
    BY <1>1, Parts DEF SpaceShape
  <2>2. files' = files + StateBlocks
    <3>1. \A p \in Paths : blocks(file[p]) \in Nat
      BY Parts, SizesNat
    <3>2. /\ files = 0 + blocks(file["main"]) + blocks(file["wal"]) + blocks(file["shm"])
          /\ files' = StateBlocks + blocks(file["main"]) + blocks(file["wal"]) + blocks(file["shm"])
      BY <1>1, <1>2 DEF files, blocks
    <3> QED  BY <3>1, <3>2, QuotaAssumption DEF Paths
  <2> QED  BY <1>1, <1>10, <2>1, <2>2 DEF SpaceShape, Saving
<1>13. AlertShape'
  <2>1. sending = NotSending
    BY <1>3, Parts DEF AlertShape
  <2>2. Vouched(mem)'
    <3>1. mem'.warn = Absent /\ mem'.full = Absent
      BY <1>5, <1>6 DEF Initial, SameContent
    <3>2. \A a \in Alarms : mem'[a] = Absent
      BY <3>1 DEF Alarms
    <3> QED  BY <3>2, EventFields DEF Vouched
  <2> QED  BY <1>1, <1>7, <2>1, <2>2 DEF AlertShape, Saving, Alarms
<1>14. LedgerShape' /\ GrantShape' /\ FundShape'
  <2>1. Initial(mem)'
    BY <1>5, <1>6 DEF Initial, SameContent
  <2> QED  BY <1>1, <1>7, <2>1 DEF LedgerShape, GrantShape, FundShape, Granted, Saving
<1> QED  BY <1>8, <1>9, <1>11, <1>12, <1>13, <1>14 DEF QuotaInv

\* Its handle is registered.
LEMMA RegisterKeeps == ASSUME QuotaInv, Register PROVE QuotaInv'
<1>1. /\ pc = "register" /\ registered' = TRUE /\ refs' = refs + 1 /\ Leave
      /\ UNCHANGED <<control, slot, file, asked, natives, sending, sent>>
  BY DEF Register, disk, alerting
<1>2. Readable /\ ~registered
  BY <1>1, Parts DEF SectionShape, Held, RegistryShape, Creating
<1>3. /\ DiskShape' /\ FileShape' /\ SectionShape' /\ SpaceShape' /\ LedgerShape' /\ GrantShape' /\ FundShape'
      /\ best' = best /\ (Readable' <=> Readable)
  BY <1>1, LeaveParts
<1>4. refs \in 0..2 /\ ~(refs > 0) /\ natives \in 0..1
  BY <1>2, Parts DEF RegistryShape
<1>5. refs' \in 0..2
  BY <1>1, <1>4
<1>6. RegistryShape'
  BY <1>1, <1>2, <1>3, <1>4, <1>5 DEF RegistryShape, Creating, Saving, Leave
<1>7. AlertShape'
  BY <1>1, <1>3, Parts, AlertQuiet DEF Leave
<1> QED  BY <1>3, <1>6, <1>7 DEF QuotaInv

\* An existing catalog is opened.
LEMMA OpenOldKeeps == ASSUME QuotaInv, NEW l, OpenOld(l) PROVE QuotaInv'
<1>1. /\ pc = "free" /\ ~registered /\ Readable /\ files <= best.limit /\ mem' = best /\ pc' = "register"
      /\ UNCHANGED <<control, slot, file, after, op, refs, natives, registered, sending, sent, asked>>
  BY DEF OpenOld, disk, registry, alerting
<1>2. best.limit = asked /\ after' \in {"free", "register", "admit", "io", "claim", "warn", "full", "chosen"}
  BY <1>1, Parts, BestInStates DEF SectionShape
<1>3. /\ DiskShape' /\ FileShape' /\ SectionShape' /\ SpaceShape' /\ LedgerShape' /\ GrantShape' /\ FundShape'
      /\ best' = best /\ Readable'
  BY <1>1, <1>2, LoadParts DEF Held
<1>4. RegistryShape'
  BY <1>1, <1>3, Parts, RegistryQuiet
<1>5. AlertShape'
  BY <1>1, <1>3, Parts, AlertQuiet
<1> QED  BY <1>3, <1>4, <1>5 DEF QuotaInv

\* Databases and native files open and close while the section is free.
LEMMA RegistryKeeps ==
  ASSUME QuotaInv, pc = "free", RegistryShape', registered' => registered,
         UNCHANGED <<control, slot, file, pc, mem, after, op, sending, sent, asked>>
  PROVE  QuotaInv'
<1>1. DiskShape' /\ best' = best /\ (Readable' <=> Readable)
  BY Parts, QuietDisk
<1>2. FileShape' /\ SectionShape'
  BY <1>1, Parts DEF FileShape, SectionShape, Held
<1>3. SpaceShape'
  BY Parts, QuietFiles DEF SpaceShape, Saving
<1>4. AlertShape'
  BY <1>1, Parts, AlertQuiet
<1>5. LedgerShape' /\ GrantShape' /\ FundShape'
  BY DEF LedgerShape, GrantShape, FundShape, Granted, Saving
<1> QED  BY <1>1, <1>2, <1>3, <1>4, <1>5 DEF QuotaInv

\* An open catalog is opened once more.
LEMMA OpenSharedKeeps == ASSUME QuotaInv, NEW l, OpenShared(l) PROVE QuotaInv'
<1>1. /\ pc = "free" /\ registered /\ refs < 2 /\ refs' = refs + 1
      /\ UNCHANGED <<control, slot, file, pc, mem, after, op, natives, registered, sending, sent, asked>>
  BY DEF OpenShared, disk, alerting
<1>2. refs' \in 0..2
  BY <1>1, Parts DEF RegistryShape
<1>3. Readable'
  BY <1>1, Parts, QuietDisk DEF RegistryShape
<1>4. RegistryShape'
  BY <1>1, <1>2, <1>3, Parts DEF RegistryShape, Creating, Saving
<1> QED  BY <1>1, <1>4, RegistryKeeps

\* A handle is closed.
LEMMA CloseDBKeeps == ASSUME QuotaInv, CloseDB PROVE QuotaInv'
<1>1. /\ pc = "free" /\ refs > 0 /\ refs' = refs - 1 /\ registered' = (registered /\ (refs - 1 # 0 \/ natives # 0))
      /\ UNCHANGED <<control, slot, file, pc, mem, after, op, natives, sending, sent, asked>>
  BY DEF CloseDB, Cleanup, disk, alerting
<1>2. refs \in 0..2 /\ natives \in 0..1
  BY Parts DEF RegistryShape
<1>3. refs' \in 0..2 /\ (refs' > 0 <=> refs - 1 # 0) /\ (natives > 0 <=> natives # 0)
  BY <1>1, <1>2
<1>4. registered /\ Readable'
  BY <1>1, Parts, QuietDisk DEF RegistryShape
<1>5. registered' \in BOOLEAN /\ (registered' => registered) /\ (refs' > 0 \/ natives' > 0 => registered')
  BY <1>1, <1>3, <1>4
<1>6. RegistryShape'
  BY <1>1, <1>2, <1>3, <1>4, <1>5 DEF RegistryShape, Creating, Saving
<1> QED  BY <1>1, <1>5, <1>6, RegistryKeeps

\* SQLite opens its files.
LEMMA NativeOpenKeeps == ASSUME QuotaInv, NativeOpen PROVE QuotaInv'
<1>1. /\ pc = "free" /\ refs > 0 /\ natives = 0 /\ natives' = natives + 1
      /\ UNCHANGED <<control, slot, file, pc, mem, after, op, refs, registered, sending, sent, asked>>
  BY DEF NativeOpen, disk, alerting
<1>2. natives' \in 0..1
  BY <1>1
<1>3. registered /\ Readable'
  BY <1>1, Parts, QuietDisk DEF RegistryShape
<1>4. RegistryShape'
  BY <1>1, <1>2, <1>3, Parts DEF RegistryShape, Creating, Saving
<1> QED  BY <1>1, <1>4, RegistryKeeps

\* SQLite closes its files.
LEMMA NativeCloseKeeps == ASSUME QuotaInv, NativeClose PROVE QuotaInv'
<1>1. /\ pc = "free" /\ natives > 0 /\ natives' = natives - 1
      /\ registered' = (registered /\ (refs # 0 \/ natives - 1 # 0))
      /\ UNCHANGED <<control, slot, file, pc, mem, after, op, refs, sending, sent, asked>>
  BY DEF NativeClose, Cleanup, disk, alerting
<1>2. refs \in 0..2 /\ natives \in 0..1
  BY Parts DEF RegistryShape
<1>3. natives' \in 0..1 /\ (natives' > 0 <=> natives - 1 # 0) /\ (refs > 0 <=> refs # 0)
  BY <1>1, <1>2
<1>4. registered /\ Readable'
  BY <1>1, Parts, QuietDisk DEF RegistryShape
<1>5. registered' \in BOOLEAN /\ (registered' => registered) /\ (refs' > 0 \/ natives' > 0 => registered')
  BY <1>1, <1>3, <1>4
<1>6. RegistryShape'
  BY <1>1, <1>2, <1>3, <1>4, <1>5 DEF RegistryShape, Creating, Saving
<1> QED  BY <1>1, <1>5, <1>6, RegistryKeeps

-----------------------------------------------------------------------------
\* Guarded writes.

\* An operation enters the guarded section.
LEMMA GuardKeeps ==
  ASSUME QuotaInv, NEW path \in Paths \cup {"none"}, NEW reset \in BOOLEAN, NEW end \in Ends(path),
         Guard(path, end, reset)
  PROVE  QuotaInv'
<1> DEFINE b == NewBase(path, reset)
<1>1. /\ pc = "free" /\ natives > 0 /\ mem' = best
      /\ UNCHANGED <<control, slot, file, after, refs, natives, registered, sending, sent, asked>>
      /\ \/ /\ Admitted(best, b, path, end) /\ op' = [path |-> path, end |-> end]
            /\ pc' = IF b = best.base THEN "admit" ELSE "base"
         \/ pc' = "deny"
  BY DEF Guard, registry, alerting
<1>2. registered /\ Readable
  BY <1>1, Parts DEF RegistryShape
<1>3. best \in States /\ best.limit = asked /\ best.base \in Nat
  BY <1>2, Parts, BestInStates, StateFields
<1>4. end \in Nat /\ (path \in Paths => end \in 1..MaxFile[path])
  BY QuotaAssumption DEF Ends, Paths
<1>5. b \in Nat /\ (b = best.base \/ (path = "wal" /\ b = file["main"].len))
  <2>1. file["main"].len \in Nat
    BY Parts, SizesNat DEF Paths
  <2> QED  BY <1>3, <2>1 DEF NewBase
<1>6. /\ files \in Nat /\ asked \in Nat
      /\ projectedFiles(path, end) \in Nat /\ files <= projectedFiles(path, end)
  BY <1>4, <1>5, Parts, SizesNat, ProjectedCovers
<1>7. ASSUME Admitted(best, b, path, end), op' = [path |-> path, end |-> end],
             pc' = IF b = best.base THEN "admit" ELSE "base"
      PROVE  Grant'
  <2>1. /\ projectedFiles(path, end) <= asked
        /\ \/ projectedUsage(b, path, end) <= asked
           \/ ~(projectedFiles(path, end) > files) /\ b = best.base
           \/ path = "main" /\ projectedFiles(path, end) + AllocationReserve <= asked
    BY <1>3, <1>7 DEF Admitted
  <2>2. ~(projectedFiles(path, end) > files) => projectedFiles(path, end) = files
    BY <1>6
  <2>3. op'.path = path /\ op'.end = end
    BY <1>7
  <2>4. /\ projectedFiles(op.path, op.end)' = projectedFiles(path, end) /\ files' = files
        /\ projectedUsage(charged, op.path, op.end)' = projectedUsage(charged', path, end)
    BY <1>1, <2>3 DEF projectedFiles, projectedUsage, growth, files, blocks, reserved
  <2>5. charged' = b /\ (b = best.base => pc' # "base") /\ (b # best.base => path # "main")
    BY <1>1, <1>5, <1>7 DEF charged
  <2> QED  BY <1>1, <1>4, <2>1, <2>2, <2>3, <2>4, <2>5 DEF Grant
<1>8. pc' \in {"admit", "base", "deny"} /\ (pc' \in {"base", "admit", "io"} => Grant')
  BY <1>1, <1>7
<1>9. after' \in {"free", "register", "admit", "io", "claim", "warn", "full", "chosen"}
  BY <1>1, Parts DEF SectionShape
<1>10. pc' \in Held /\ pc' # "register"
  BY <1>8 DEF Held
<1>11. /\ DiskShape' /\ FileShape' /\ SectionShape' /\ SpaceShape' /\ LedgerShape' /\ GrantShape' /\ FundShape'
       /\ best' = best /\ Readable'
  BY <1>1, <1>2, <1>8, <1>9, <1>10, LoadParts
<1>12. RegistryShape'
  BY <1>1, <1>8, <1>11, Parts, RegistryQuiet DEF Creating, Saving
<1>13. AlertShape'
  BY <1>1, <1>2, <1>8, <1>11, Parts, AlertQuiet
<1> QED  BY <1>11, <1>12, <1>13 DEF QuotaInv

\* A save of what observe made of the state, or the next step without one.
LEMMA ObservedWrite ==
  ASSUME QuotaInv, Readable, mem = best, NEW used, NEW denied \in BOOLEAN,
         NEW next \in {"free", "admit", "io", "claim"},
         Write(observe(mem, used, denied), next),
         UNCHANGED <<control, file, op, refs, natives, registered, sending, sent, asked>>,
         next \in {"admit", "io"} => Granted /\ pc # "base"
  PROVE  QuotaInv'
<1> DEFINE s == observe(mem, used, denied)
<1>1. best \in States /\ best.limit = asked
  BY Parts, BestInStates
<1>2. Observed(best, s)
  BY <1>1, ObserveFollows
<1>3. s \in States /\ s.seq = best.seq /\ s.limit = asked /\ s.base = best.base /\ (Crossed(best, s) \/ Advanced(best, s))
  BY <1>1, <1>2 DEF Observed
<1>4. mem' = [s EXCEPT !.seq = @ + 1] /\ pc' = "write" /\ after' = next
  BY DEF Write
<1> HIDE DEF s
<1>5. mem'.base = mem.base
  BY <1>3, <1>4, NextSeq DEF SameContent
<1>6. next \in {"admit", "io"} => Grant'
  BY <1>4, <1>5, Parts DEF GrantShape, Grant, charged, projectedFiles, projectedUsage, growth, files, blocks, reserved
<1>7. Write(s, next)
  BY DEF s
<1>8. /\ DiskShape' /\ FileShape' /\ SectionShape' /\ SpaceShape' /\ LedgerShape' /\ GrantShape' /\ FundShape'
      /\ best' = best /\ Readable' /\ mem' \in States /\ SameContent(mem', s) /\ pc' = "write" /\ after' = next
  BY <1>3, <1>6, <1>7, WriteParts DEF Follows
<1>9. RegistryShape'
  BY <1>8, Parts, RegistryQuiet DEF Creating, Saving
<1>10. AlertShape'
  <2>1. after' # "chosen" /\ after' \notin Alarms
    BY <1>8 DEF Alarms
  <2> QED  BY <1>1, <1>3, <1>8, <2>1, Parts, AlertWrite
<1> QED  BY <1>8, <1>9, <1>10 DEF QuotaInv

\* The next step of a section that has the stored state.
LEMMA StepKeeps ==
  ASSUME QuotaInv, Readable, mem = best, NEW next \in {"io", "claim"}, pc' = next,
         UNCHANGED <<slot, mem, after, control, file, op, refs, natives, registered, sending, sent, asked>>,
         next = "io" => Granted /\ pc # "base"
  PROVE  QuotaInv'
<1>1. pc' \in {"base", "admit", "io"} => Grant'
  BY Parts DEF GrantShape, Grant, charged, projectedFiles, projectedUsage, growth, files, blocks, reserved
<1>2. after' \in {"free", "register", "admit", "io", "claim", "warn", "full", "chosen"}
  BY Parts DEF SectionShape
<1>3. /\ DiskShape' /\ FileShape' /\ SectionShape' /\ SpaceShape' /\ LedgerShape' /\ GrantShape' /\ FundShape'
      /\ best' = best /\ Readable'
  BY <1>1, <1>2, LoadParts DEF Held
<1>4. RegistryShape'
  BY <1>3, Parts, RegistryQuiet DEF Creating, Saving
<1>5. AlertShape'
  BY <1>3, Parts, AlertQuiet
<1> QED  BY <1>3, <1>4, <1>5 DEF QuotaInv

\* In the guarded section the state in memory is the one on disk.
LEMMA HeldState == ASSUME QuotaInv, pc \in Held PROVE Readable /\ mem = best /\ mem \in States /\ mem.limit = asked
BY DEF QuotaInv, SectionShape, Held

\* An operation leaves the section without changing anything.
LEMMA LeaveQuietKeeps ==
  ASSUME QuotaInv, Leave, UNCHANGED <<control, slot, file, asked, refs, natives, registered, sending, sent>>
  PROVE  QuotaInv'
<1>1. /\ DiskShape' /\ FileShape' /\ SectionShape' /\ SpaceShape' /\ LedgerShape' /\ GrantShape' /\ FundShape'
      /\ best' = best /\ (Readable' <=> Readable)
  BY LeaveParts
<1>2. RegistryShape'
  BY <1>1, Parts, RegistryQuiet DEF Creating, Saving, Leave
<1>3. AlertShape'
  BY <1>1, Parts, AlertQuiet DEF Leave
<1> QED  BY <1>1, <1>2, <1>3 DEF QuotaInv

\* The base size of the main file is being recorded.
LEMMA BaseKeeps ==
  ASSUME QuotaInv, pc = "base", Write([mem EXCEPT !.base = file["main"].len], "admit"),
         UNCHANGED <<op, control, file, refs, natives, registered, sending, sent, asked>>
  PROVE  QuotaInv'
<1> DEFINE b == file["main"].len
           s == [mem EXCEPT !.base = b]
<1>1. Readable /\ mem = best /\ best \in States /\ best.limit = asked
  BY HeldState DEF Held
<1>2. b \in Nat
  BY Parts, SizesNat DEF Paths
<1>3. s \in States /\ s.seq = best.seq /\ s.limit = asked /\ s.base = b /\ Rebased(best, s)
  BY <1>1, <1>2 DEF States, Rebased
<1>4. mem' = [s EXCEPT !.seq = @ + 1] /\ pc' = "write" /\ after' = "admit"
  BY DEF Write
<1>5. Write(s, "admit")
  OBVIOUS
<1>6. Grant
  BY Parts DEF GrantShape, Granted
<1>7. projectedUsage(b, op.path, op.end) <= asked
  BY <1>6 DEF Grant, charged
<1> HIDE DEF s
<1>8. mem'.base = b
  BY <1>3, <1>4, NextSeq DEF SameContent
<1>9. Grant'
  <2>1. charged' = b /\ charged = b
    BY <1>4, <1>8 DEF charged
  <2>2. /\ projectedFiles(op.path, op.end)' = projectedFiles(op.path, op.end)
        /\ projectedUsage(charged, op.path, op.end)' = projectedUsage(b, op.path, op.end)
    BY <2>1 DEF projectedFiles, projectedUsage, growth, files, blocks, reserved
  <2> QED  BY <1>6, <1>7, <2>2 DEF Grant
<1>10. usage(s.base) <= asked
  <2>1. /\ usage(b) \in Nat /\ projectedUsage(b, op.path, op.end) \in Nat /\ asked \in Nat
        /\ usage(b) <= projectedUsage(b, op.path, op.end)
    BY <1>2, <1>6, Parts, ProjectedCovers, SizesNat DEF Grant
  <2> HIDE DEF b
  <2> QED  BY <1>3, <1>7, <2>1
<1>11. /\ DiskShape' /\ FileShape' /\ SectionShape' /\ SpaceShape' /\ LedgerShape' /\ GrantShape' /\ FundShape'
       /\ best' = best /\ Readable' /\ mem' \in States /\ SameContent(mem', s) /\ pc' = "write" /\ after' = "admit"
  BY <1>1, <1>3, <1>5, <1>9, <1>10, WriteParts DEF Follows
<1>12. RegistryShape'
  BY <1>11, Parts, RegistryQuiet DEF Creating, Saving
<1>13. AlertShape'
  <2>1. after' # "chosen" /\ after' \notin Alarms
    BY <1>11 DEF Alarms
  <2> QED  BY <1>1, <1>3, <1>11, <2>1, Parts, AlertWrite
<1> QED  BY <1>11, <1>12, <1>13 DEF QuotaInv

\* The admission decides.
LEMMA GuardStepKeeps == ASSUME QuotaInv, GuardStep PROVE QuotaInv'
<1>1. UNCHANGED <<control, file, refs, natives, registered, sending, sent, asked>>
  BY DEF GuardStep, registry, alerting
<1>2. CASE pc = "base" /\ Write([mem EXCEPT !.base = file["main"].len], "admit") /\ UNCHANGED op
  BY <1>1, <1>2, BaseKeeps
<1>3. CASE /\ pc = "admit" /\ UNCHANGED op
           /\ Put(observe(mem, projectedUsage(mem.base, op.path, op.end), FALSE), "io")
  <2>1. Readable /\ mem = best
    BY <1>3, HeldState DEF Held
  <2>2. Granted /\ pc # "base"
    BY <1>3 DEF Granted
  <2>3. CASE Step("io")
    BY <1>1, <1>3, <2>1, <2>2, <2>3, StepKeeps DEF Step
  <2>4. CASE Write(observe(mem, projectedUsage(mem.base, op.path, op.end), FALSE), "io")
    BY <1>1, <1>3, <2>1, <2>2, <2>4, ObservedWrite
  <2> QED  BY <1>3, <2>3, <2>4 DEF Put
<1>4. CASE /\ pc \in {"deny", "settle"}
           /\ LET s == observe(mem, usage(mem.base), pc = "deny")
              IN IF s = mem THEN Leave /\ UNCHANGED slot ELSE Write(s, "free") /\ UNCHANGED op
  <2>1. Readable /\ mem = best
    BY <1>4, HeldState DEF Held
  <2>2. CASE Leave /\ UNCHANGED slot
    BY <1>1, <2>2, LeaveQuietKeeps
  <2>3. CASE Write(observe(mem, usage(mem.base), pc = "deny"), "free") /\ UNCHANGED op
    <3>1. (pc = "deny") \in BOOLEAN
      OBVIOUS
    <3> QED  BY <1>1, <2>1, <2>3, <3>1, ObservedWrite
  <2> QED  BY <1>4, <2>2, <2>3
<1> QED  BY <1>2, <1>3, <1>4 DEF GuardStep

\* File sizes after a step.
LEMMA SizesNatNext ==
  ASSUME FileShape'
  PROVE  /\ \A p \in Paths : file'[p].len \in Nat /\ file'[p].alloc \in Nat /\ blocks(file'[p]) \in Nat
         /\ files' = base0' + blocks(file'["main"]) + blocks(file'["wal"]) + blocks(file'["shm"])
<1>1. \A p \in Paths : file'[p].len \in Nat /\ file'[p].alloc \in Nat
  BY DEF FileShape, Sizes
<1>2. \A p \in Paths : blocks(file'[p]) \in Nat
  BY <1>1 DEF blocks, max
<1>3. files' = base0' + blocks(file'["main"]) + blocks(file'["wal"]) + blocks(file'["shm"])
  BY DEF files, base0, blocks
<1> QED  BY <1>1, <1>2, <1>3

\* One file changes by at most g blocks more.
LEMMA OneFile ==
  ASSUME FileShape, FileShape', UNCHANGED control, NEW p \in Paths, NEW g \in Nat,
         \A q \in Paths : q # p => file'[q] = file[q],
         blocks(file'[p]) <= blocks(file[p]) + g
  PROVE  files' <= files + g
<1>1. /\ \A q \in Paths : blocks(file[q]) \in Nat
      /\ base0 \in Nat
      /\ files = base0 + blocks(file["main"]) + blocks(file["wal"]) + blocks(file["shm"])
  BY SizesNat
<1>2. /\ \A q \in Paths : blocks(file'[q]) \in Nat
      /\ files' = base0' + blocks(file'["main"]) + blocks(file'["wal"]) + blocks(file'["shm"])
      /\ base0' = base0
  BY SizesNatNext DEF base0
<1>3. \A q \in Paths : q # p => blocks(file'[q]) = blocks(file[q])
  OBVIOUS
<1> DEFINE B(q) == blocks(file[q])
           C(q) == blocks(file'[q])
<1>4. /\ B("main") \in Nat /\ B("wal") \in Nat /\ B("shm") \in Nat
      /\ C("main") \in Nat /\ C("wal") \in Nat /\ C("shm") \in Nat
      /\ files = base0 + B("main") + B("wal") + B("shm") /\ files' = base0 + C("main") + C("wal") + C("shm")
  BY <1>1, <1>2 DEF Paths
<1>5. \/ p = "main" /\ C("main") <= B("main") + g /\ C("wal") = B("wal") /\ C("shm") = B("shm")
      \/ p = "wal" /\ C("wal") <= B("wal") + g /\ C("main") = B("main") /\ C("shm") = B("shm")
      \/ p = "shm" /\ C("shm") <= B("shm") + g /\ C("main") = B("main") /\ C("wal") = B("wal")
  BY <1>3 DEF Paths
<1> HIDE DEF B, C
<1> QED  BY <1>1, <1>4, <1>5

\* A native write takes no more than what was projected.
LEMMA WrittenFile ==
  ASSUME FileShape, UNCHANGED asked, NEW p \in Paths, NEW end \in 1..MaxFile[p],
         NEW len \in {file[p].len, max(file[p].len, end)},
         file' = [file EXCEPT ![p] = [len |-> len, alloc |-> max(@.alloc, end)]]
  PROVE  /\ FileShape' /\ \A q \in Paths : q # p => file'[q] = file[q]
         /\ blocks(file'[p]) \in Nat /\ blocks(file[p]) <= blocks(file'[p])
         /\ blocks(file'[p]) <= blocks(file[p]) + growth(p, end)
         /\ growth(p, end) = 0 => blocks(file'[p]) = blocks(file[p])
<1> DEFINE l == file[p].len
           a == file[p].alloc
           M == MaxFile[p]
<1>1. l \in Nat /\ a \in Nat /\ M \in Nat /\ l <= M /\ a <= M /\ end \in Nat /\ end <= M
  BY SizesNat, QuotaAssumption DEF FileShape, Paths
<1>2. file'[p] = [len |-> len, alloc |-> max(a, end)] /\ \A q \in Paths : q # p => file'[q] = file[q]
  BY DEF FileShape
<1>3. /\ len \in Nat /\ len <= M /\ (len = l \/ len = max(l, end)) /\ max(a, end) \in Nat /\ max(a, end) <= M
  BY <1>1 DEF max
<1>4. growth(p, end) = max(0, end - l)
  BY DEF growth
<1>5. blocks(file[p]) = max(l, a) /\ blocks(file'[p]) = max(len, max(a, end))
  BY <1>2 DEF blocks
<1>6. FileShape'
  <2>1. [len |-> len, alloc |-> max(a, end)] \in Sizes
    BY <1>3 DEF Sizes
  <2>2. file' \in [Paths -> Sizes]
    BY <2>1 DEF FileShape
  <2>3. file'[p].len <= MaxFile[p] /\ file'[p].alloc <= MaxFile[p]
    BY <1>2, <1>3
  <2> QED  BY <1>2, <2>2, <2>3 DEF FileShape
<1> HIDE DEF l, a, M
<1>7. /\ max(len, max(a, end)) \in Nat /\ max(l, a) <= max(len, max(a, end))
      /\ max(len, max(a, end)) <= max(l, a) + max(0, end - l)
      /\ max(0, end - l) = 0 => max(len, max(a, end)) = max(l, a)
  BY <1>1, <1>3 DEF max
<1> QED  BY <1>2, <1>4, <1>5, <1>6, <1>7

\* A truncated file uses no more space, the others what they did.
LEMMA TruncatedFile ==
  ASSUME FileShape, UNCHANGED asked, NEW p \in Paths, NEW size \in Nat, size < file[p].len,
         file' = [file EXCEPT ![p] = [len |-> size, alloc |-> size]]
  PROVE  /\ FileShape' /\ \A q \in Paths : q # p => file'[q] = file[q]
         /\ blocks(file'[p]) \in Nat /\ blocks(file'[p]) <= blocks(file[p])
<1>1. file[p].len \in Nat /\ file[p].alloc \in Nat /\ MaxFile[p] \in Nat /\ file[p].len <= MaxFile[p]
  BY SizesNat, QuotaAssumption DEF FileShape, Paths
<1>2. file'[p] = [len |-> size, alloc |-> size] /\ \A q \in Paths : q # p => file'[q] = file[q]
  BY DEF FileShape
<1>3. blocks(file'[p]) = size /\ size <= blocks(file[p])
  BY <1>1, <1>2 DEF blocks, max
<1>4. FileShape'
  <2>1. file' \in [Paths -> Sizes]
    BY DEF FileShape, Sizes
  <2>2. file'[p].len <= MaxFile[p] /\ file'[p].alloc <= MaxFile[p]
    BY <1>1, <1>2
  <2> QED  BY <1>2, <2>1, <2>2 DEF FileShape
<1> QED  BY <1>2, <1>3, <1>4

\* The files changed under the owner of the section, who goes on to settle.
LEMMA SettleKeeps ==
  ASSUME QuotaInv, Readable, mem' = best, pc' = "settle", FileShape',
         registered => files' <= asked,
         UNCHANGED <<control, slot, after, refs, natives, registered, sending, sent, asked>>
  PROVE  QuotaInv'
<1>1. DiskShape' /\ best' = best /\ Readable'
  BY Parts, QuietDisk
<1>2. best \in States /\ best.limit = asked
  BY Parts, BestInStates
<1>3. SectionShape'
  BY <1>1, <1>2, Parts DEF SectionShape, Held
<1>4. SpaceShape'
  BY DEF SpaceShape, Saving
<1>5. LedgerShape' /\ GrantShape' /\ FundShape'
  BY DEF LedgerShape, GrantShape, FundShape, Granted, Saving
<1>6. RegistryShape'
  BY <1>1, Parts, RegistryQuiet DEF Creating, Saving
<1>7. AlertShape'
  BY <1>1, Parts, AlertQuiet
<1> QED  BY <1>1, <1>3, <1>4, <1>5, <1>6, <1>7 DEF QuotaInv

\* What the native write of a granted operation may do to the files.
LEMMA NativeWrites ==
  ASSUME QuotaInv, NativeIO
  PROVE  /\ pc = "io" /\ Readable /\ mem = best /\ Grant /\ FileShape'
         /\ \/ file' = file
            \/ /\ op.path \in Paths /\ \A q \in Paths : q # op.path => file'[q] = file[q]
               /\ blocks(file'[op.path]) \in Nat /\ blocks(file[op.path]) <= blocks(file'[op.path])
               /\ blocks(file'[op.path]) <= blocks(file[op.path]) + growth(op.path, op.end)
               /\ growth(op.path, op.end) = 0 => blocks(file'[op.path]) = blocks(file[op.path])
<1>1. pc = "io" /\ asked' = asked
  BY DEF NativeIO
<1>2. Readable /\ mem = best
  BY <1>1, HeldState DEF Held
<1>3. Grant
  BY <1>1, Parts DEF GrantShape, Granted
<1>4. CASE file' = file
  BY <1>1, <1>2, <1>3, <1>4, Parts DEF FileShape
<1>5. CASE /\ op.path \in Paths
           /\ \E len \in {file[op.path].len, max(file[op.path].len, op.end)} :
                file' = [file EXCEPT ![op.path] = [len |-> len, alloc |-> max(@.alloc, op.end)]]
  <2>1. op.end \in 1..MaxFile[op.path]
    BY <1>3, <1>5 DEF Grant
  <2>2. PICK len \in {file[op.path].len, max(file[op.path].len, op.end)} :
          file' = [file EXCEPT ![op.path] = [len |-> len, alloc |-> max(@.alloc, op.end)]]
    BY <1>5
  <2>3. /\ FileShape' /\ \A q \in Paths : q # op.path => file'[q] = file[q]
        /\ blocks(file'[op.path]) \in Nat /\ blocks(file[op.path]) <= blocks(file'[op.path])
        /\ blocks(file'[op.path]) <= blocks(file[op.path]) + growth(op.path, op.end)
        /\ growth(op.path, op.end) = 0 => blocks(file'[op.path]) = blocks(file[op.path])
    BY <1>1, <1>5, <2>1, <2>2, Parts, WrittenFile
  <2> QED  BY <1>1, <1>2, <1>3, <1>5, <2>3
<1> QED  BY <1>4, <1>5 DEF NativeIO

\* SQLite performs the admitted operation.
LEMMA NativeIOKeeps == ASSUME QuotaInv, NativeIO PROVE QuotaInv'
<1>1. /\ pc = "io" /\ Readable /\ mem = best /\ Grant /\ FileShape'
  BY NativeWrites
<1>2. /\ pc' = "settle" /\ UNCHANGED <<control, slot, mem, after, op, refs, natives, registered, sending, sent, asked>>
  BY DEF NativeIO, registry, alerting
<1>3. op.end \in Nat /\ projectedFiles(op.path, op.end) <= asked
  BY <1>1 DEF Grant
<1>4. growth(op.path, op.end) \in Nat /\ projectedFiles(op.path, op.end) = files + growth(op.path, op.end)
      /\ files \in Nat /\ asked \in Nat
  BY <1>3, Parts, GrowthNat, SizesNat DEF projectedFiles
<1>5. files' <= files + growth(op.path, op.end)
  <2>1. CASE file' = file
    <3>1. files' = files
      BY <1>2, <2>1, QuietFiles
    <3> QED  BY <1>4, <3>1
  <2>2. CASE file' # file
    BY <1>1, <1>2, <1>4, <2>2, Parts, NativeWrites, OneFile
  <2> QED  BY <2>1, <2>2
<1>6. files' \in Nat
  <2>1. base0' \in Nat
    BY QuotaAssumption DEF base0
  <2> QED  BY <1>1, <2>1, SizesNatNext DEF Paths
<1>7. files' <= asked
  BY <1>3, <1>4, <1>5, <1>6
<1> QED  BY <1>1, <1>2, <1>7, SettleKeeps

\* SQLite truncates a file.
LEMMA TruncateKeeps ==
  ASSUME QuotaInv, NEW path \in {"main", "wal"}, NEW size \in 0..MaxFile[path], Truncate(path, size)
  PROVE  QuotaInv'
<1>1. /\ pc = "free" /\ natives > 0 /\ size < file[path].len
      /\ file' = [file EXCEPT ![path] = [len |-> size, alloc |-> size]]
      /\ mem' = best /\ pc' = "settle"
      /\ UNCHANGED <<control, slot, after, op, refs, natives, registered, sending, sent, asked>>
  BY DEF Truncate, registry, alerting
<1>2. registered /\ Readable /\ files <= asked
  BY <1>1, Parts DEF RegistryShape, SpaceShape
<1>3. path \in Paths /\ size \in Nat
  BY DEF Paths
<1>4. /\ FileShape' /\ \A q \in Paths : q # path => file'[q] = file[q]
      /\ blocks(file'[path]) \in Nat /\ blocks(file'[path]) <= blocks(file[path])
  BY <1>1, <1>3, Parts, TruncatedFile
<1>5. blocks(file'[path]) <= blocks(file[path]) + 0
  BY <1>3, <1>4, Parts, SizesNat
<1>6. files' <= files + 0
  BY <1>1, <1>3, <1>4, <1>5, Parts, OneFile
<1>7. files' \in Nat /\ files \in Nat /\ asked \in Nat
  <2>1. base0' \in Nat
    BY QuotaAssumption DEF base0
  <2> QED  BY <1>4, <2>1, Parts, SizesNat, SizesNatNext DEF Paths
<1>8. files' <= asked
  BY <1>2, <1>6, <1>7
<1> QED  BY <1>1, <1>2, <1>4, <1>8, SettleKeeps

-----------------------------------------------------------------------------
\* Alerts.

\* The poller enters the section.
LEMMA PollKeeps == ASSUME QuotaInv, Poll PROVE QuotaInv'
<1>1. /\ pc = "free" /\ refs > 0 /\ mem' = best /\ pc' = "poll"
      /\ UNCHANGED <<control, slot, file, after, op, refs, natives, registered, sending, sent, asked>>
  BY DEF Poll, disk, registry, alerting
<1>2. Readable
  BY <1>1, Parts DEF RegistryShape
<1>3. after' \in {"free", "register", "admit", "io", "claim", "warn", "full", "chosen"}
  BY <1>1, Parts DEF SectionShape
<1>4. /\ DiskShape' /\ FileShape' /\ SectionShape' /\ SpaceShape' /\ LedgerShape' /\ GrantShape' /\ FundShape'
      /\ best' = best /\ Readable'
  BY <1>1, <1>2, <1>3, LoadParts DEF Held
<1>5. RegistryShape'
  BY <1>1, <1>4, Parts, RegistryQuiet DEF Creating, Saving
<1>6. AlertShape'
  BY <1>1, <1>2, <1>4, Parts, AlertQuiet
<1> QED  BY <1>4, <1>5, <1>6 DEF QuotaInv

\* The poller observes the use.
LEMMA PollObserveKeeps == ASSUME QuotaInv, PollObserve PROVE QuotaInv'
<1>1. /\ pc = "poll" /\ Put(observe(mem, usage(mem.base), FALSE), "claim")
      /\ UNCHANGED <<control, file, op, refs, natives, registered, sending, sent, asked>>
  BY DEF PollObserve, registry, alerting
<1>2. Readable /\ mem = best
  BY <1>1, HeldState DEF Held
<1>3. CASE Step("claim")
  BY <1>1, <1>2, <1>3, StepKeeps DEF Step
<1>4. CASE Write(observe(mem, usage(mem.base), FALSE), "claim")
  BY <1>1, <1>2, <1>4, ObservedWrite
<1> QED  BY <1>1, <1>3, <1>4 DEF Put

\* Keeping the alerts as they are is a legal observation.
LEMMA SameIsCrossed == ASSUME NEW s \in States PROVE Crossed(s, s)
BY DEF Crossed

\* A save that repeats the stored state.
LEMMA ResaveKeeps ==
  ASSUME QuotaInv, Readable, NEW next \in {"free", "warn", "full", "chosen"}, Write(best, next),
         UNCHANGED <<control, file, op, refs, natives, registered, sending, sent, asked>>,
         next = "chosen" => sending # NotSending, next \in Alarms => best[next] = Raised
  PROVE  QuotaInv'
<1>1. best \in States /\ best.limit = asked /\ Crossed(best, best)
  BY Parts, BestInStates, SameIsCrossed
<1>2. /\ DiskShape' /\ FileShape' /\ SectionShape' /\ SpaceShape' /\ LedgerShape' /\ GrantShape' /\ FundShape'
      /\ best' = best /\ Readable' /\ mem' \in States /\ SameContent(mem', best) /\ pc' = "write" /\ after' = next
  BY <1>1, WriteParts DEF Follows
<1>3. RegistryShape'
  BY <1>2, Parts, RegistryQuiet DEF Creating, Saving
<1>4. AlertShape'
  BY <1>1, <1>2, Parts, AlertWrite
<1> QED  BY <1>2, <1>3, <1>4 DEF QuotaInv

\* The attempt is being recorded before anything is sent, or there is none to make.
LEMMA PollClaimKeeps == ASSUME QuotaInv, PollClaim PROVE QuotaInv'
<1>1. pc = "claim" /\ UNCHANGED <<control, file, refs, natives, registered, sending, sent, asked>>
  BY DEF PollClaim, registry, alerting
<1>2. Readable /\ mem = best /\ mem \in States
  BY <1>1, HeldState DEF Held
<1>3. CASE Leave /\ UNCHANGED slot
  BY <1>1, <1>3, LeaveQuietKeeps
<1>4. CASE \E a \in {"warn", "full"} :
             mem[a].pending /\ ~mem[a].delivered /\ Write(mem, a) /\ UNCHANGED op
  <2>1. PICK a \in {"warn", "full"} : mem[a].pending /\ ~mem[a].delivered /\ Write(mem, a) /\ UNCHANGED op
    BY <1>4
  <2>2. mem[a] \in Events
    BY <1>2, AlarmFields DEF Alarms
  <2>3. mem[a] = Raised
    BY <2>1, <2>2, EventFields DEF Events
  <2> QED  BY <1>1, <1>2, <2>1, <2>3, ResaveKeeps
<1> QED  BY <1>3, <1>4 DEF PollClaim

\* The recorded attempt begins, outside the section.
LEMMA PollSendKeeps == ASSUME QuotaInv, PollSend PROVE QuotaInv'
<1>1. /\ pc \in Alarms /\ Leave /\ sending' = [alert |-> pc, episode |-> mem.episode, outcome |-> "open"]
      /\ UNCHANGED <<control, slot, file, refs, natives, registered, sent, asked>>
  BY DEF PollSend, disk, registry, Alarms
<1>2. Readable /\ mem = best /\ mem \in States /\ mem[pc] = Raised
  BY <1>1, HeldState, Parts DEF Held, Alarms, AlertShape
<1>3. /\ DiskShape' /\ FileShape' /\ SectionShape' /\ SpaceShape' /\ LedgerShape' /\ GrantShape' /\ FundShape'
      /\ best' = best /\ (Readable' <=> Readable)
  BY <1>1, LeaveParts
<1>4. RegistryShape'
  BY <1>1, <1>3, Parts, RegistryQuiet DEF Creating, Saving, Leave
<1>5. AlertShape'
  <2>1. /\ sending' \in Sendings /\ sending'.alert = pc /\ sending'.episode = best.episode
        /\ sending'.outcome # "accepted"
    <3>1. mem.episode \in Nat
      BY <1>2, StateFields
    <3> QED  BY <1>1, <1>2, <3>1 DEF Sendings
  <2>2. InFlight(best)' /\ Vouched(best)'
    BY <1>1, <1>2, <1>3, <2>1, Parts DEF InFlight, Vouched, AlertShape
  <2>3. pc' = "free"
    BY <1>1 DEF Leave
  <2> QED  BY <1>2, <1>3, <2>1, <2>2, <2>3 DEF AlertShape, Saving, Alarms
<1> QED  BY <1>3, <1>4, <1>5 DEF QuotaInv

\* The outcome of the alert that is being sent changes, and maybe what was sent.
LEMMA OutcomeAlert ==
  ASSUME AlertShape, sending # NotSending, best' = best, Readable' <=> Readable,
         NEW o \in {"chosen", "accepted", "failed"}, sending' = [sending EXCEPT !.outcome = o],
         sent \subseteq sent', o = "accepted" => <<sending.episode, sending.alert>> \in sent',
         pc' = "free" \/ (pc' = pc /\ mem' = mem /\ after' = after)
  PROVE  AlertShape'
<1>1. sending \in Sendings /\ Readable /\ InFlight(best) /\ Vouched(best)
  BY DEF AlertShape
<1>2. /\ sending' \in Sendings /\ sending'.outcome = o
      /\ sending'.episode = sending.episode /\ sending'.alert = sending.alert
  BY <1>1 DEF Sendings
<1>3. InFlight(best)' /\ Vouched(best)'
  BY <1>1, <1>2 DEF InFlight, Vouched
<1>4. sending' # NotSending
  BY <1>2 DEF Sendings, NotSending, Alarms
<1>5. CASE pc' = "free"
  BY <1>1, <1>2, <1>3, <1>5 DEF AlertShape, Saving, Alarms
<1>6. CASE pc' = pc /\ mem' = mem /\ after' = after
  <2>1. pc = "write" => InFlight(mem)' /\ Vouched(mem)'
    BY <1>2, <1>6 DEF AlertShape, InFlight, Vouched
  <2> QED  BY <1>1, <1>2, <1>3, <1>4, <1>6, <2>1 DEF AlertShape, Saving
<1> QED  BY <1>5, <1>6

\* The chosen channel is recorded.
LEMMA PollChosenKeeps == ASSUME QuotaInv, PollChosen PROVE QuotaInv'
<1>1. /\ pc = "chosen" /\ Leave /\ sending' = [sending EXCEPT !.outcome = "chosen"]
      /\ UNCHANGED <<control, slot, file, refs, natives, registered, sent, asked>>
  BY DEF PollChosen, disk, registry
<1>2. /\ DiskShape' /\ FileShape' /\ SectionShape' /\ SpaceShape' /\ LedgerShape' /\ GrantShape' /\ FundShape'
      /\ best' = best /\ (Readable' <=> Readable)
  BY <1>1, LeaveParts
<1>3. RegistryShape'
  BY <1>1, <1>2, Parts, RegistryQuiet DEF Creating, Saving, Leave
<1>4. sending # NotSending /\ pc' = "free"
  BY <1>1, Parts DEF AlertShape, Leave
<1>5. AlertShape'
  BY <1>1, <1>2, <1>4, Parts, OutcomeAlert
<1> QED  BY <1>2, <1>3, <1>5 DEF QuotaInv

\* Nothing but the alert that is being sent changes.
LEMMA SendingKeeps ==
  ASSUME QuotaInv, AlertShape',
         UNCHANGED <<control, slot, file, pc, mem, after, op, refs, natives, registered, asked>>
  PROVE  QuotaInv'
<1>1. DiskShape' /\ best' = best /\ (Readable' <=> Readable)
  BY Parts, QuietDisk
<1>2. FileShape' /\ SectionShape'
  BY <1>1, Parts DEF FileShape, SectionShape, created
<1>3. SpaceShape'
  BY Parts, QuietFiles DEF SpaceShape, Saving
<1>4. RegistryShape'
  BY <1>1, Parts DEF RegistryShape, Creating, Saving
<1>5. LedgerShape' /\ FundShape'
  BY <1>1, Parts DEF LedgerShape, FundShape, usage, files, blocks, reserved
<1>6. GrantShape'
  BY Parts DEF GrantShape, Granted, Saving, Grant, charged, projectedFiles, projectedUsage, growth, files, blocks, reserved
<1> QED  BY <1>1, <1>2, <1>3, <1>4, <1>5, <1>6 DEF QuotaInv

\* A channel is chosen and being recorded, or none is eligible.
LEMMA PollChannelKeeps == ASSUME QuotaInv, PollChannel PROVE QuotaInv'
<1>1. /\ pc = "free" /\ sending # NotSending
      /\ UNCHANGED <<control, file, op, refs, natives, registered, sent, asked>>
  BY DEF PollChannel, registry
<1>2. Readable
  BY <1>1, Parts DEF AlertShape
<1>3. CASE Write(best, "chosen") /\ UNCHANGED sending
  <2>1. "chosen" \notin Alarms
    BY DEF Alarms
  <2> QED  BY <1>1, <1>2, <1>3, <2>1, ResaveKeeps
<1>4. CASE sending' = [sending EXCEPT !.outcome = "failed"] /\ UNCHANGED <<slot, pc, mem, after>>
  <2>1. best' = best /\ (Readable' <=> Readable)
    BY <1>1, <1>4, Parts, QuietDisk
  <2>2. AlertShape'
    BY <1>1, <1>4, <2>1, Parts, OutcomeAlert
  <2> QED  BY <1>1, <1>4, <2>2, SendingKeeps
<1> QED  BY <1>3, <1>4 DEF PollChannel

\* Discord accepts or refuses it.
LEMMA NotifierSendKeeps == ASSUME QuotaInv, NotifierSend PROVE QuotaInv'
<1>1. /\ sending # NotSending
      /\ UNCHANGED <<control, slot, file, pc, mem, after, op, refs, natives, registered, asked>>
  BY DEF NotifierSend, disk, registry
<1>2. PICK o \in {"accepted", "failed"}, arrived \in BOOLEAN :
         /\ o = "accepted" => arrived
         /\ sending' = [sending EXCEPT !.outcome = o]
         /\ sent' = IF arrived THEN sent \cup {<<sending.episode, sending.alert>>} ELSE sent
  BY DEF NotifierSend
<1>3. sent \subseteq sent' /\ (o = "accepted" => <<sending.episode, sending.alert>> \in sent')
  BY <1>2
<1>4. best' = best /\ (Readable' <=> Readable)
  BY <1>1, Parts, QuietDisk
<1>5. AlertShape'
  BY <1>1, <1>2, <1>3, <1>4, Parts, OutcomeAlert
<1> QED  BY <1>1, <1>5, SendingKeeps

\* A raised alert becomes a delivered one.
LEMMA DeliveredEvent == [Raised EXCEPT !.delivered = TRUE] = Event(TRUE, TRUE)
<1>1. ASSUME NEW p, NEW d, NEW e
      PROVE  [[pending |-> p, delivered |-> d] EXCEPT !.delivered = e] = [pending |-> p, delivered |-> e]
  OBVIOUS
<1> QED  BY <1>1 DEF Raised, Event

\* A state in which one alert was confirmed.
LEMMA DeliveredState ==
  ASSUME NEW s \in States, NEW a \in Alarms, s[a] = Raised, NEW t, t = [s EXCEPT ![a].delivered = TRUE]
  PROVE  /\ t \in States /\ t.seq = s.seq /\ t.limit = s.limit /\ t.base = s.base /\ t.episode = s.episode
         /\ Confirmed(s, t) /\ \A c \in Alarms : c # a => t[c] = s[c]
<1>1. [s[a] EXCEPT !.delivered = TRUE] = Event(TRUE, TRUE) /\ Event(TRUE, TRUE) \in Events
  BY DeliveredEvent DEF Events
<1>2. t = [s EXCEPT ![a] = Event(TRUE, TRUE)]
  BY <1>1 DEF States
<1>3. CASE a = "warn"
  <2>1. t = [s EXCEPT !.warn = Event(TRUE, TRUE)] /\ s.warn = Raised
    BY <1>2, <1>3
  <2>2. /\ t \in States /\ t.seq = s.seq /\ t.limit = s.limit /\ t.base = s.base /\ t.episode = s.episode
        /\ t.warn = Event(TRUE, TRUE) /\ t.full = s.full /\ t.armed = s.armed /\ t.exhausted = s.exhausted
    BY <1>1, <2>1 DEF States
  <2> QED  BY <1>3, <2>1, <2>2 DEF Confirmed, Alarms
<1>4. CASE a = "full"
  <2>1. t = [s EXCEPT !.full = Event(TRUE, TRUE)] /\ s.full = Raised
    BY <1>2, <1>4
  <2>2. /\ t \in States /\ t.seq = s.seq /\ t.limit = s.limit /\ t.base = s.base /\ t.episode = s.episode
        /\ t.full = Event(TRUE, TRUE) /\ t.warn = s.warn /\ t.armed = s.armed /\ t.exhausted = s.exhausted
    BY <1>1, <2>1 DEF States
  <2> QED  BY <1>4, <2>1, <2>2 DEF Confirmed, Alarms
<1> QED  BY <1>3, <1>4 DEF Alarms

\* The confirmation is written.
LEMMA PollFinishKeeps == ASSUME QuotaInv, PollFinish PROVE QuotaInv'
<1> DEFINE s == IF sending.outcome = "accepted" THEN [best EXCEPT ![sending.alert].delivered = TRUE] ELSE best
<1>1. /\ pc = "free" /\ sending # NotSending /\ Write(s, "free") /\ sending' = NotSending
      /\ UNCHANGED <<control, file, op, refs, natives, registered, sent, asked>>
  BY DEF PollFinish, registry
<1>2. /\ sending \in Sendings /\ Readable /\ InFlight(best) /\ Vouched(best) /\ sending.alert \in Alarms
      /\ sending.outcome = "accepted" => <<sending.episode, sending.alert>> \in sent
  BY <1>1, Parts DEF AlertShape, Sendings
<1>3. best \in States /\ best.limit = asked /\ Crossed(best, best)
  BY <1>2, Parts, BestInStates, SameIsCrossed
<1>4. /\ s \in States /\ s.seq = best.seq /\ s.limit = asked /\ s.base = best.base /\ s.episode = best.episode
      /\ Follows(best, s) /\ Vouched(s)
  <2>1. CASE sending.outcome # "accepted"
    BY <1>2, <1>3, <2>1 DEF Follows
  <2>2. CASE sending.outcome = "accepted"
    <3>1. s = [best EXCEPT ![sending.alert].delivered = TRUE] /\ best[sending.alert] = Raised
      BY <1>2, <2>2 DEF InFlight
    <3>2. /\ s \in States /\ s.seq = best.seq /\ s.limit = best.limit /\ s.base = best.base
          /\ s.episode = best.episode /\ Confirmed(best, s) /\ \A c \in Alarms : c # sending.alert => s[c] = best[c]
      BY <1>2, <1>3, <3>1, DeliveredState
    <3>3. Vouched(s)
      BY <1>2, <2>2, <3>2 DEF Vouched, InFlight
    <3> QED  BY <1>3, <3>2, <3>3 DEF Follows
  <2> QED  BY <2>1, <2>2
<1> HIDE DEF s
<1>5. /\ DiskShape' /\ FileShape' /\ SectionShape' /\ SpaceShape' /\ LedgerShape' /\ GrantShape' /\ FundShape'
      /\ best' = best /\ Readable' /\ mem' \in States /\ SameContent(mem', s) /\ pc' = "write" /\ after' = "free"
  BY <1>1, <1>2, <1>4, WriteParts
<1>6. RegistryShape'
  BY <1>1, <1>5, Parts, RegistryQuiet DEF Creating, Saving
<1>7. AlertShape'
  <2>1. Vouched(best)'
    BY <1>1, <1>2, <1>5 DEF Vouched
  <2>2. Vouched(mem)'
    <3>1. mem'.episode = s.episode /\ \A a \in Alarms : mem'[a] = s[a]
      BY <1>5 DEF SameContent, Alarms
    <3> QED  BY <1>1, <1>4, <3>1 DEF Vouched
  <2> QED  BY <1>1, <1>5, <2>1, <2>2 DEF AlertShape, Saving, Alarms
<1> QED  BY <1>5, <1>6, <1>7 DEF QuotaInv

\* The process dies, tearing the slot being written.
LEMMA CrashKeeps == ASSUME QuotaInv, Crash PROVE QuotaInv'
<1>1. /\ Leave /\ refs' = 0 /\ natives' = 0 /\ registered' = FALSE /\ sending' = NotSending
      /\ UNCHANGED <<control, slot, file, sent, asked>>
  BY DEF Crash, disk
<1>2. /\ DiskShape' /\ FileShape' /\ SectionShape' /\ SpaceShape' /\ LedgerShape' /\ GrantShape' /\ FundShape'
      /\ best' = best /\ (Readable' <=> Readable)
  BY <1>1, LeaveParts
<1>3. RegistryShape'
  <2>1. refs' \in 0..2 /\ natives' \in 0..1 /\ ~(refs' > 0) /\ ~(natives' > 0)
    BY <1>1
  <2> QED  BY <1>1, <2>1, Zenon DEF RegistryShape
<1>4. AlertShape'
  <2>1. Readable => Vouched(best)'
    BY <1>1, <1>2, Parts DEF AlertShape, Vouched
  <2> QED  BY <1>1, <1>2, <2>1 DEF AlertShape, Saving, Alarms, Leave
<1> QED  BY <1>2, <1>3, <1>4 DEF QuotaInv

\* Every step keeps the invariant.
LEMMA QuotaKeeps == QuotaInv /\ [QuotaNext]_quotaVars => QuotaInv'
<1> SUFFICES ASSUME QuotaInv, [QuotaNext]_quotaVars PROVE QuotaInv'
  OBVIOUS
<1>1. CASE UNCHANGED quotaVars
  <2>1. UNCHANGED <<control, slot, file, pc, mem, after, op, refs, natives, registered, sending, sent, asked>>
    BY <1>1 DEF quotaVars
  <2>2. AlertShape'
    <3>1. best' = best /\ (Readable' <=> Readable)
      BY <2>1, Parts, QuietDisk
    <3> QED  BY <2>1, <3>1, Parts DEF AlertShape, Saving, InFlight, Vouched
  <2> QED  BY <2>1, <2>2, SendingKeeps
<1>2. CASE \E l \in Limits \cup {0} : OpenNew(l) \/ OpenOld(l) \/ OpenRefused(l) \/ OpenShared(l)
  BY <1>1, <1>2, OpenNewKeeps, OpenOldKeeps, OpenSharedKeeps DEF OpenRefused
<1>3. CASE \E path \in Paths \cup {"none"}, reset \in BOOLEAN : \E end \in Ends(path) : Guard(path, end, reset)
  BY <1>3, GuardKeeps
<1>4. CASE \E path \in {"main", "wal"} : \E size \in 0..MaxFile[path] : Truncate(path, size)
  BY <1>4, TruncateKeeps
<1> QED  BY <1>1, <1>2, <1>3, <1>4, SaveDoneKeeps, SaveFailsKeeps, CreateStateKeeps, RegisterKeeps, CloseDBKeeps,
            NativeOpenKeeps, NativeCloseKeeps, GuardStepKeeps, NativeIOKeeps, PollKeeps, PollObserveKeeps,
            PollClaimKeeps, PollSendKeeps, PollChannelKeeps, PollChosenKeeps, NotifierSendKeeps, PollFinishKeeps,
            CrashKeeps DEF QuotaNext

\* The invariant implies the property.
LEMMA QuotaImplies == QuotaInv => QuotaSound
<1> SUFFICES ASSUME QuotaInv PROVE QuotaSound
  OBVIOUS
<1>1. QuotaTypeOK
  <2>1. \A i \in 0..1 : slot[i].seq \in Nat \cup {-1}
    BY Parts DEF DiskShape, States, Torn
  <2>2. \A p \in Paths : file[p].len \in 0..MaxFile[p] /\ file[p].alloc \in 0..MaxFile[p]
    <3>1. \A p \in Paths : MaxFile[p] \in Nat
      BY QuotaAssumption DEF Paths
    <3> QED  BY <3>1, Parts, SizesNat DEF FileShape
  <2> QED  BY <2>1, <2>2, Parts DEF QuotaTypeOK, DiskShape, FileShape, RegistryShape
<1>2. WithinLimit /\ NoGuessedLimit
  BY Parts, BestInStates DEF WithinLimit, NoGuessedLimit, SpaceShape
<1>3. CallbackOwned
  BY Parts DEF CallbackOwned, RegistryShape
<1>4. ConfirmedWasSent
  BY Parts DEF ConfirmedWasSent, AlertShape, Vouched, Alarms
<1> QED  BY <1>1, <1>2, <1>3, <1>4 DEF QuotaSound

\* The admission of physical_linux.go (admit, guard, observe, save) keeps the files
\* within the stored limit whatever the limits, file bounds and reserves are: a reader
\* finds the limit first configured or nothing, native callbacks find their quota
\* registered, and an alert is marked delivered only after Discord took it, through
\* crashes and failed writes at every step.
THEOREM QuotaHolds == QuotaSpec => []QuotaSound
<1>1. QuotaSpec => []QuotaInv
  BY QuotaStarts, QuotaKeeps, PTL DEF QuotaSpec
<1> QED  BY <1>1, QuotaImplies, PTL

-----------------------------------------------------------------------------
\* The atomic ledger.

\* Without a write the disk reads as before.
LEMMA QuietBest ==
  ASSUME UNCHANGED <<control, slot>>
  PROVE  best' = best /\ (Readable' <=> Readable)
BY DEF best, Readable, Valid

\* A write in progress leaves the newest state readable.
LEMMA TearBest ==
  ASSUME DiskShape, Readable, NEW s, NEW next, s.seq = best.seq, Write(s, next), UNCHANGED control
  PROVE  best' = best /\ Readable'
<1>1. slot' = [slot EXCEPT ![(best.seq + 1) % 2] = Torn]
  BY DEF Write
<1>2. ValidOf(slot') # {} /\ BestOf(slot') = best
  BY <1>1, DiskSlots, Reads, Tear
<1> QED  BY <1>2, ReadsNext, Reads

\* So does the write of an observation.
LEMMA ObservedBest ==
  ASSUME QuotaInv, Readable, mem = best, NEW used, NEW denied \in BOOLEAN, NEW next,
         Write(observe(mem, used, denied), next), UNCHANGED control
  PROVE  best' = best /\ Readable'
<1>1. best \in States
  BY Parts, BestInStates
<1>2. observe(mem, used, denied).seq = best.seq
  BY <1>1, ObserveFollows DEF Observed
<1> HIDE DEF QuotaInv
<1> QED  BY <1>2, Parts, TearBest

\* Only the end of a save changes what a reader finds, and only the creation
\* makes an unreadable state readable.
LEMMA OnlySaves ==
  ASSUME QuotaInv, QuotaNext, ~SaveDone
  PROVE  (Readable' <=> Readable) /\ (Readable => best' = best)
<1>1. CASE UNCHANGED <<control, slot>>
  BY <1>1, QuietBest
<1>2. ASSUME NEW l, OpenNew(l) PROVE ~Readable /\ ~Readable'
  BY <1>2 DEF OpenNew, Create, Readable
<1>3. CASE CreateState
  <2>1. /\ pc = "truncate" /\ slot' = [slot EXCEPT ![(mem.seq + 1) % 2] = Torn]
    BY <1>3 DEF CreateState, Write
  <2>2. control = "empty" /\ slot[0] = Torn /\ slot[1] = Torn /\ slot \in [0..1 -> {Torn} \cup States]
    BY <2>1, Parts DEF SectionShape, DiskShape
  <2>3. slot' = slot
    BY <2>1, <2>2
  <2> QED  BY <2>2, <2>3 DEF Readable, Valid, Torn
<1>4. CASE GuardStep
  <2>1. UNCHANGED control
    BY <1>4 DEF GuardStep
  <2>2. pc \in {"base", "admit", "deny", "settle"}
    BY <1>4 DEF GuardStep
  <2>3. Readable /\ mem = best /\ mem \in States
    BY <2>2, HeldState DEF Held
  <2>4. CASE Write([mem EXCEPT !.base = file["main"].len], "admit")
    <3>1. [mem EXCEPT !.base = file["main"].len].seq = best.seq
      BY <2>3 DEF States
    <3> QED  BY <2>1, <2>3, <2>4, <3>1, Parts, TearBest
  <2>5. CASE Put(observe(mem, projectedUsage(mem.base, op.path, op.end), FALSE), "io")
    <3>1. CASE UNCHANGED slot
      BY <2>1, <3>1, QuietBest
    <3>2. CASE Write(observe(mem, projectedUsage(mem.base, op.path, op.end), FALSE), "io")
      BY <2>1, <2>3, <3>2, ObservedBest
    <3> QED  BY <2>5, <3>1, <3>2 DEF Put, Step
  <2>6. CASE Leave /\ UNCHANGED slot
    BY <2>1, <2>6, QuietBest
  <2>7. CASE Write(observe(mem, usage(mem.base), pc = "deny"), "free")
    <3>1. (pc = "deny") \in BOOLEAN
      OBVIOUS
    <3> QED  BY <2>1, <2>3, <2>7, <3>1, ObservedBest
  <2> QED  BY <1>4, <2>4, <2>5, <2>6, <2>7 DEF GuardStep
<1>5. CASE PollObserve
  <2>1. UNCHANGED control /\ pc = "poll" /\ Put(observe(mem, usage(mem.base), FALSE), "claim")
    BY <1>5 DEF PollObserve
  <2>2. Readable /\ mem = best
    BY <2>1, HeldState DEF Held
  <2>3. CASE UNCHANGED slot
    BY <2>1, <2>3, QuietBest
  <2>4. CASE Write(observe(mem, usage(mem.base), FALSE), "claim")
    BY <2>1, <2>2, <2>4, ObservedBest
  <2> QED  BY <2>1, <2>3, <2>4 DEF Put, Step
<1>6. CASE PollClaim
  <2>1. UNCHANGED control /\ pc = "claim" /\ (UNCHANGED slot \/ \E a \in {"warn", "full"} : Write(mem, a))
    BY <1>6 DEF PollClaim
  <2>2. Readable /\ mem = best
    BY <2>1, HeldState DEF Held
  <2> QED  BY <2>1, <2>2, Parts, QuietBest, TearBest
<1>7. CASE PollChannel
  <2>1. UNCHANGED control /\ sending # NotSending /\ (UNCHANGED slot \/ Write(best, "chosen"))
    BY <1>7 DEF PollChannel
  <2>2. Readable
    BY <2>1, Parts DEF AlertShape
  <2> QED  BY <2>1, <2>2, Parts, QuietBest, TearBest
<1>8. CASE PollFinish
  <2> DEFINE s == IF sending.outcome = "accepted" THEN [best EXCEPT ![sending.alert].delivered = TRUE] ELSE best
  <2>1. UNCHANGED control /\ sending # NotSending /\ Write(s, "free")
    BY <1>8 DEF PollFinish
  <2>2. Readable /\ sending.alert \in Alarms /\ best[sending.alert] = Raised
    BY <2>1, Parts DEF AlertShape, Sendings, InFlight
  <2>3. best \in States
    BY <2>2, Parts, BestInStates
  <2>4. s.seq = best.seq
    BY <2>2, <2>3, DeliveredState
  <2> QED  BY <2>1, <2>2, <2>4, Parts, TearBest
<1>9. CASE \/ SaveFails \/ Register \/ CloseDB \/ NativeOpen \/ NativeClose \/ NativeIO \/ Poll \/ PollSend
           \/ PollChosen \/ NotifierSend \/ Crash
           \/ \E l \in Limits \cup {0} : OpenOld(l) \/ OpenRefused(l) \/ OpenShared(l)
           \/ \E path \in Paths \cup {"none"}, reset \in BOOLEAN : \E end \in Ends(path) : Guard(path, end, reset)
           \/ \E path \in {"main", "wal"} : \E size \in 0..MaxFile[path] : Truncate(path, size)
  <2>1. UNCHANGED <<control, slot>>
    BY <1>9 DEF SaveFails, Register, CloseDB, NativeOpen, NativeClose, NativeIO, Poll, PollSend, PollChosen,
                NotifierSend, Crash, OpenOld, OpenRefused, OpenShared, Guard, Truncate, disk, quotaVars
  <2> QED  BY <1>1, <2>1
<1> QED  BY <1>2, <1>3, <1>4, <1>5, <1>6, <1>7, <1>8, <1>9 DEF QuotaNext

durable == IF Readable THEN Content(best) ELSE NoLedger

\* The content of a state as an entry of the ledger.
LEMMA ContentIs ==
  ASSUME NEW s \in States
  PROVE  /\ Content(s) = Ledger!Entry(s.limit, s.base, s.episode, s.warn, s.full, s.armed, s.exhausted)
         /\ Content(s) # NoLedger
         /\ Content(s).limit = s.limit /\ Content(s).base = s.base /\ Content(s).episode = s.episode
         /\ Content(s).warn = s.warn /\ Content(s).full = s.full
         /\ Content(s).armed = s.armed /\ Content(s).exhausted = s.exhausted
<1>1. Content(s) = Ledger!Entry(s.limit, s.base, s.episode, s.warn, s.full, s.armed, s.exhausted)
  BY DEF Content, Ledger!Entry
<1>2. "base" \in DOMAIN Content(s) /\ "base" \notin DOMAIN NoLedger
  BY DEF Content, NoLedger
<1> QED  BY <1>1, <1>2 DEF Content

\* Alert states of the two specifications.
LEMMA AlertNames ==
  Ledger!Absent = Absent /\ Ledger!Raised = Raised /\ Ledger!Confirmed = Event(TRUE, TRUE)
BY DEF Ledger!Absent, Ledger!Raised, Ledger!Confirmed, Absent, Raised, Event

\* An entry in which the warning was confirmed.
LEMMA ConfirmedWarn ==
  ASSUME NEW l, NEW b, NEW e, NEW w, NEW f, NEW a, NEW x, NEW v, NEW r, r = Ledger!Entry(l, b, e, w, f, a, x)
  PROVE  [r EXCEPT !["warn"] = v] = Ledger!Entry(l, b, e, v, f, a, x)
BY DEF Ledger!Entry

\* An entry in which the exhaustion alert was confirmed.
LEMMA ConfirmedFull ==
  ASSUME NEW l, NEW b, NEW e, NEW w, NEW f, NEW a, NEW x, NEW v, NEW r, r = Ledger!Entry(l, b, e, w, f, a, x)
  PROVE  [r EXCEPT !["full"] = v] = Ledger!Entry(l, b, e, w, v, a, x)
BY DEF Ledger!Entry

\* The end of a save is one step of the ledger.
LEMMA SaveIsStep ==
  ASSUME QuotaInv, SaveDone
  PROVE  Ledger!LedgerNext
<1>1. Readable' /\ best' = mem /\ mem \in States /\ pc = "write"
  BY SaveDoneParts DEF SaveDone
<1> DEFINE old == IF Readable THEN Content(best) ELSE NoLedger
           new == (IF Readable THEN Content(best) ELSE NoLedger)'
<1>2. new = Content(mem)
  BY <1>1 DEF Content
<1>3. /\ new = Ledger!Entry(mem.limit, mem.base, mem.episode, mem.warn, mem.full, mem.armed, mem.exhausted)
      /\ new # NoLedger /\ new.base = mem.base /\ mem.base \in Nat
  BY <1>1, <1>2, ContentIs, StateFields
<1>4. mem.limit \in Limits /\ mem.armed \in BOOLEAN /\ mem.exhausted \in BOOLEAN
  BY <1>1 DEF States
<1>5. CASE ~Readable
  <2>1. Initial(mem)
    BY <1>1, <1>5, Parts DEF LedgerShape
  <2>2. old = NoLedger
    BY <1>5
  <2>3. new = Ledger!Entry(mem.limit, new.base, 0, Ledger!Absent, Ledger!Absent, TRUE, FALSE)
    BY <1>3, <2>1, AlertNames DEF Initial
  <2> HIDE DEF new, old
  <2>4. \E l \in Limits : new = Ledger!Entry(l, new.base, 0, Ledger!Absent, Ledger!Absent, TRUE, FALSE)
    BY <1>4, <2>3
  <2>5. Ledger!Create
    BY <1>3, <2>2, <2>4 DEF Ledger!Create, old, new
  <2> QED  BY <2>5 DEF Ledger!LedgerNext
<1>6. CASE Readable
  <2>1. best \in States /\ best.limit = asked /\ mem.limit = asked /\ Follows(best, mem)
    BY <1>1, <1>6, Parts, BestInStates DEF LedgerShape, SectionShape
  <2>2. /\ old # NoLedger
        /\ old.limit = mem.limit /\ old.base = best.base /\ old.episode = best.episode
        /\ old.warn = best.warn /\ old.full = best.full
        /\ old.armed = best.armed /\ old.exhausted = best.exhausted
        /\ old = Ledger!Entry(best.limit, best.base, best.episode, best.warn, best.full, best.armed, best.exhausted)
    BY <1>6, <2>1, ContentIs
  <2> HIDE DEF new, old
  <2>3. CASE Rebased(best, mem)
    <3>1. new = [old EXCEPT !.base = new.base]
      BY <1>3, <2>1, <2>2, <2>3 DEF Rebased, Ledger!Entry
    <3>2. Ledger!Rebase
      BY <1>3, <2>2, <3>1 DEF Ledger!Rebase, new, old
    <3> QED  BY <3>2 DEF Ledger!LedgerNext
  <2>4. CASE Crossed(best, mem)
    <3>1. /\ mem.warn \in {old.warn, Ledger!Raised} /\ mem.full \in {old.full, Ledger!Raised}
          /\ old.warn = Ledger!Absent \/ mem.warn = old.warn
          /\ old.full = Ledger!Absent \/ mem.full = old.full
          /\ new = Ledger!Entry(old.limit, old.base, old.episode, mem.warn, mem.full, mem.armed, mem.exhausted)
      BY <1>3, <2>2, <2>4, AlertNames DEF Crossed
    <3>2. \E a, e \in BOOLEAN, w \in {old.warn, Ledger!Raised}, f \in {old.full, Ledger!Raised} :
            /\ old.warn = Ledger!Absent \/ w = old.warn
            /\ old.full = Ledger!Absent \/ f = old.full
            /\ new = Ledger!Entry(old.limit, old.base, old.episode, w, f, a, e)
      BY <1>4, <3>1, Zenon
    <3>3. Ledger!Cross
      BY <2>2, <3>2 DEF Ledger!Cross, new, old
    <3> QED  BY <3>3 DEF Ledger!LedgerNext
  <2>5. CASE Advanced(best, mem)
    <3>1. /\ mem.warn \in {Ledger!Absent, Ledger!Raised} /\ mem.full \in {Ledger!Absent, Ledger!Raised}
          /\ mem.warn = Ledger!Raised \/ mem.full = Ledger!Raised
          /\ old.warn # Ledger!Raised /\ old.full # Ledger!Raised
          /\ new = Ledger!Entry(old.limit, old.base, old.episode + 1, mem.warn, mem.full, FALSE, mem.exhausted)
      BY <1>3, <2>2, <2>5, AlertNames DEF Advanced
    <3>2. \E e \in BOOLEAN, w, f \in {Ledger!Absent, Ledger!Raised} :
            /\ w = Ledger!Raised \/ f = Ledger!Raised
            /\ new = Ledger!Entry(old.limit, old.base, old.episode + 1, w, f, FALSE, e)
      BY <1>4, <3>1, Zenon
    <3>3. Ledger!NextEpisode
      BY <2>2, <3>1, <3>2 DEF Ledger!NextEpisode, new, old
    <3> QED  BY <3>3 DEF Ledger!LedgerNext
  <2>6. CASE Confirmed(best, mem)
    <3>1. CASE best.warn = Raised /\ mem.warn = Event(TRUE, TRUE) /\ mem.full = best.full
      <4>0. new = Ledger!Entry(best.limit, best.base, best.episode, Ledger!Confirmed, best.full, best.armed, best.exhausted)
        BY <1>3, <2>1, <2>6, <3>1, AlertNames DEF Confirmed
      <4>1. old["warn"] = Ledger!Raised /\ new = [old EXCEPT !["warn"] = Ledger!Confirmed]
        <5>1. old["warn"] = Ledger!Raised
          BY <2>2, <3>1, AlertNames
        <5>2. [old EXCEPT !["warn"] = Ledger!Confirmed]
              = Ledger!Entry(best.limit, best.base, best.episode, Ledger!Confirmed, best.full, best.armed, best.exhausted)
          BY <2>2, ConfirmedWarn
        <5> QED  BY <4>0, <5>1, <5>2
      <4>2. Ledger!Confirm
        BY <2>2, <4>1 DEF Ledger!Confirm, Ledger!Thresholds, new, old
      <4> QED  BY <4>2 DEF Ledger!LedgerNext
    <3>2. CASE best.full = Raised /\ mem.full = Event(TRUE, TRUE) /\ mem.warn = best.warn
      <4>0. new = Ledger!Entry(best.limit, best.base, best.episode, best.warn, Ledger!Confirmed, best.armed, best.exhausted)
        BY <1>3, <2>1, <2>6, <3>2, AlertNames DEF Confirmed
      <4>1. old["full"] = Ledger!Raised /\ new = [old EXCEPT !["full"] = Ledger!Confirmed]
        <5>1. old["full"] = Ledger!Raised
          BY <2>2, <3>2, AlertNames
        <5>2. [old EXCEPT !["full"] = Ledger!Confirmed]
              = Ledger!Entry(best.limit, best.base, best.episode, best.warn, Ledger!Confirmed, best.armed, best.exhausted)
          BY <2>2, ConfirmedFull
        <5> QED  BY <4>0, <5>1, <5>2
      <4>2. Ledger!Confirm
        BY <2>2, <4>1 DEF Ledger!Confirm, Ledger!Thresholds, new, old
      <4> QED  BY <4>2 DEF Ledger!LedgerNext
    <3> QED  BY <2>6, <3>1, <3>2 DEF Confirmed
  <2> QED  BY <2>1, <2>3, <2>4, <2>5, <2>6 DEF Follows
<1> QED  BY <1>5, <1>6

\* The two checksummed slots implement the atomic ledger of QuotaLedger: each save is
\* one ledger step, and everything else, torn slots and crashes included, leaves what
\* load finds unchanged.
THEOREM LedgerIsDurable == QuotaSpec => DurableLedger
<1>1. QuotaInit => Ledger!LedgerInit
  BY DEF QuotaInit, Ledger!LedgerInit, Readable
<1>2. QuotaInv /\ [QuotaNext]_quotaVars => [Ledger!LedgerNext]_(IF Readable THEN Content(best) ELSE NoLedger)
  <2> SUFFICES ASSUME QuotaInv, [QuotaNext]_quotaVars
               PROVE  \/ Ledger!LedgerNext
                      \/ (IF Readable THEN Content(best) ELSE NoLedger)' = IF Readable THEN Content(best) ELSE NoLedger
    OBVIOUS
  <2>1. CASE SaveDone
    BY <2>1, SaveIsStep
  <2>2. CASE QuotaNext /\ ~SaveDone
    <3>1. (Readable' <=> Readable) /\ (Readable => best' = best)
      BY <2>2, OnlySaves
    <3> QED  BY <3>1 DEF Content
  <2>3. CASE UNCHANGED quotaVars
    <3>1. best' = best /\ (Readable' <=> Readable)
      BY <2>3, QuietBest DEF quotaVars
    <3> QED  BY <3>1 DEF Content
  <2> QED  BY <2>1, <2>2, <2>3
<1>3. QuotaSpec => []QuotaInv
  BY QuotaStarts, QuotaKeeps, PTL DEF QuotaSpec
<1> QED  BY <1>1, <1>2, <1>3, PTL DEF QuotaSpec, DurableLedger, Ledger!LedgerSpec

-----------------------------------------------------------------------------
\* The checkpoint's room.  c: state blocks, m, w, h: main, WAL and shm, b: base,
\* g: growth, L: limit.

\* Growth of the main file within its grant keeps the checkpoint funded.
LEMMA MainSpends ==
  ASSUME NEW c \in Nat, NEW m \in Nat, NEW w \in Nat, NEW h \in Nat, NEW b \in Nat, NEW g \in Nat, NEW L \in Nat,
         NEW n \in Nat, m <= n, n <= m + g, g = 0 => n = m,
         reserved(c + m + w + h, b, w, m) <= L,
         \/ reserved(c + m + w + h + g, b, w, m + g) <= L \/ g = 0
         \/ c + m + w + h + g + AllocationReserve <= L
  PROVE  reserved(c + n + w + h, b, w, n) <= L
BY QuotaAssumption DEF reserved, max

\* Growth of the log within its grant keeps the checkpoint funded.
LEMMA WalSpends ==
  ASSUME NEW c \in Nat, NEW m \in Nat, NEW w \in Nat, NEW h \in Nat, NEW b \in Nat, NEW g \in Nat, NEW L \in Nat,
         NEW n \in Nat, w <= n, n <= w + g, g = 0 => n = w,
         reserved(c + m + w + h, b, w, m) <= L,
         reserved(c + m + w + h + g, b, w + g, m) <= L \/ g = 0
  PROVE  reserved(c + m + n + h, b, n, m) <= L
BY QuotaAssumption DEF reserved, max

\* Growth of the shared memory file within its grant keeps the checkpoint funded.
LEMMA ShmSpends ==
  ASSUME NEW c \in Nat, NEW m \in Nat, NEW w \in Nat, NEW h \in Nat, NEW b \in Nat, NEW g \in Nat, NEW L \in Nat,
         NEW n \in Nat, h <= n, n <= h + g, g = 0 => n = h,
         reserved(c + m + w + h, b, w, m) <= L,
         reserved(c + m + w + h + g, b, w, m) <= L \/ g = 0
  PROVE  reserved(c + m + w + n, b, w, m) <= L
BY QuotaAssumption DEF reserved, max

\* Smaller files keep the checkpoint funded.
LEMMA ShrinkingFrees ==
  ASSUME NEW c \in Nat, NEW m \in Nat, NEW w \in Nat, NEW h \in Nat, NEW b \in Nat, NEW L \in Nat,
         NEW n \in Nat, NEW v \in Nat, n <= m, v <= w,
         reserved(c + m + w + h, b, w, m) <= L
  PROVE  reserved(c + n + v + h, b, v, n) <= L
BY QuotaAssumption DEF reserved, max

M0 == blocks(file["main"])
W0 == blocks(file["wal"])
H0 == blocks(file["shm"])

\* The use in terms of the three files.
LEMMA UsageIs ==
  ASSUME FileShape, NEW b
  PROVE  /\ base0 \in Nat /\ M0 \in Nat /\ W0 \in Nat /\ H0 \in Nat
         /\ usage(b) = reserved(base0 + M0 + W0 + H0, b, W0, M0)
<1>1. files = base0 + M0 + W0 + H0 /\ base0 \in Nat /\ M0 \in Nat /\ W0 \in Nat /\ H0 \in Nat
  BY SizesNat DEF M0, W0, H0, Paths
<1>2. usage(b) = reserved(files, b, W0, M0)
  BY DEF usage, M0, W0
<1> QED  BY <1>1, <1>2

\* What it means that the checkpoint is funded.
LEMMA FundedIs ==
  ASSUME QuotaInv, Readable
  PROVE  /\ Funded <=> reserved(base0 + M0 + W0 + H0, best.base, W0, M0) <= asked
         /\ best.base \in Nat /\ asked \in Nat
BY Parts, BestInStates, UsageIs, StateFields, SizesNat DEF Funded

\* The same after a step.
LEMMA FundedIsNext ==
  ASSUME QuotaInv', Readable', UNCHANGED <<control, asked>>, best' = best
  PROVE  Funded' <=> reserved(base0 + M0' + W0' + H0', best.base, W0', M0') <= asked
<1>1. FileShape' /\ best'.limit = asked'
  <2>1. FileShape' /\ DiskShape'
    BY DEF QuotaInv
  <2>2. SlotsOf(slot', asked')
    BY <2>1 DEF DiskShape, SlotsOf
  <2> QED  BY <2>1, <2>2, ReadsNext, BestShape
<1>2. files' = base0' + M0' + W0' + H0' /\ base0' = base0
  BY <1>1, SizesNatNext DEF M0, W0, H0, base0, blocks
<1>3. Funded' <=> reserved(files', best'.base, W0', M0') <= best'.limit
  BY DEF Funded, usage, reserved, M0, W0
<1> QED  BY <1>1, <1>2, <1>3

\* An admitted operation keeps the checkpoint funded.
LEMMA NativeIOFunds ==
  ASSUME QuotaInv, QuotaInv', NativeIO, Readable, Funded
  PROVE  Readable' /\ Funded'
<1>1. UNCHANGED <<control, slot, asked>> /\ pc = "io"
  BY DEF NativeIO
<1>2. best' = best /\ Readable'
  BY <1>1, QuietBest
<1>3. mem = best /\ Grant /\ FileShape
  BY NativeWrites, Parts
<1> DEFINE g == growth(op.path, op.end)
           c == base0
           b == best.base
<1>4. /\ reserved(c + M0 + W0 + H0, b, W0, M0) <= asked /\ b \in Nat /\ asked \in Nat
      /\ c \in Nat /\ M0 \in Nat /\ W0 \in Nat /\ H0 \in Nat /\ files = c + M0 + W0 + H0
  BY <1>3, FundedIs, UsageIs, SizesNat DEF M0, W0, H0
<1>5. g \in Nat
  BY <1>3, GrowthNat DEF Grant
<1>6. \/ projectedUsage(b, op.path, op.end) <= asked \/ g = 0
      \/ op.path = "main" /\ c + M0 + W0 + H0 + g + AllocationReserve <= asked
  <2>1. charged = b
    BY <1>1, <1>3 DEF charged
  <2>2. projectedFiles(op.path, op.end) = files + g
    BY DEF projectedFiles
  <2>3. files + g = files => g = 0
    BY <1>4, <1>5
  <2> HIDE DEF g, b, c
  <2> QED  BY <1>3, <1>4, <2>1, <2>2, <2>3 DEF Grant
<1>7. projectedUsage(b, op.path, op.end)
      = reserved(c + M0 + W0 + H0 + g, b, W0 + (IF op.path = "wal" THEN g ELSE 0), M0 + (IF op.path = "main" THEN g ELSE 0))
  BY <1>4 DEF projectedUsage, M0, W0
<1>8. reserved(c + M0' + W0' + H0', b, W0', M0') <= asked
  <2>1. CASE file' = file
    <3>1. M0' = M0 /\ W0' = W0 /\ H0' = H0
      BY <2>1 DEF M0, W0, H0, blocks
    <3> QED  BY <1>4, <3>1
  <2>2. CASE file' # file
    <3>1. /\ op.path \in Paths /\ \A q \in Paths : q # op.path => file'[q] = file[q]
          /\ blocks(file'[op.path]) \in Nat /\ blocks(file[op.path]) <= blocks(file'[op.path])
          /\ blocks(file'[op.path]) <= blocks(file[op.path]) + g
          /\ g = 0 => blocks(file'[op.path]) = blocks(file[op.path])
      BY <2>2, NativeWrites
    <3>2. M0' = blocks(file'["main"]) /\ W0' = blocks(file'["wal"]) /\ H0' = blocks(file'["shm"])
      BY DEF M0, W0, H0, blocks
    <3>3. CASE op.path = "main"
      <4>1. W0' = W0 /\ H0' = H0 /\ M0' \in Nat /\ M0 <= M0' /\ M0' <= M0 + g /\ (g = 0 => M0' = M0)
        BY <3>1, <3>2, <3>3 DEF M0, W0, H0, Paths
      <4>2. projectedUsage(b, op.path, op.end) = reserved(c + M0 + W0 + H0 + g, b, W0, M0 + g)
        BY <1>4, <1>7, <3>3
      <4>3. \/ reserved(c + M0 + W0 + H0 + g, b, W0, M0 + g) <= asked \/ g = 0
            \/ c + M0 + W0 + H0 + g + AllocationReserve <= asked
        BY <1>4, <1>5, <1>6, <4>2
      <4> DEFINE n == M0'
      <4>4. n \in Nat /\ M0 <= n /\ n <= M0 + g /\ (g = 0 => n = M0)
        BY <4>1
      <4> HIDE DEF g, b, c, n
      <4>5. reserved(c + n + W0 + H0, b, W0, n) <= asked
        BY <1>4, <1>5, <4>3, <4>4, MainSpends
      <4> QED  BY <4>1, <4>5 DEF n
    <3>4. CASE op.path = "wal"
      <4>1. M0' = M0 /\ H0' = H0 /\ W0' \in Nat /\ W0 <= W0' /\ W0' <= W0 + g /\ (g = 0 => W0' = W0)
        BY <3>1, <3>2, <3>4 DEF M0, W0, H0, Paths
      <4>2. projectedUsage(b, op.path, op.end) = reserved(c + M0 + W0 + H0 + g, b, W0 + g, M0)
        BY <1>4, <1>7, <3>4
      <4>3. \/ reserved(c + M0 + W0 + H0 + g, b, W0 + g, M0) <= asked \/ g = 0
        BY <1>4, <1>5, <1>6, <3>4, <4>2
      <4> DEFINE n == W0'
      <4>4. n \in Nat /\ W0 <= n /\ n <= W0 + g /\ (g = 0 => n = W0)
        BY <4>1
      <4> HIDE DEF g, b, c, n
      <4>5. reserved(c + M0 + n + H0, b, n, M0) <= asked
        BY <1>4, <1>5, <4>3, <4>4, WalSpends
      <4> QED  BY <4>1, <4>5 DEF n
    <3>5. CASE op.path = "shm"
      <4>1. M0' = M0 /\ W0' = W0 /\ H0' \in Nat /\ H0 <= H0' /\ H0' <= H0 + g /\ (g = 0 => H0' = H0)
        BY <3>1, <3>2, <3>5 DEF M0, W0, H0, Paths
      <4>2. projectedUsage(b, op.path, op.end) = reserved(c + M0 + W0 + H0 + g, b, W0, M0)
        BY <1>4, <1>7, <3>5
      <4>3. \/ reserved(c + M0 + W0 + H0 + g, b, W0, M0) <= asked \/ g = 0
        BY <1>4, <1>5, <1>6, <3>5, <4>2
      <4> DEFINE n == H0'
      <4>4. n \in Nat /\ H0 <= n /\ n <= H0 + g /\ (g = 0 => n = H0)
        BY <4>1
      <4> HIDE DEF g, b, c, n
      <4>5. reserved(c + M0 + W0 + n, b, W0, M0) <= asked
        BY <1>4, <1>5, <4>3, <4>4, ShmSpends
      <4> QED  BY <4>1, <4>5 DEF n
    <3> QED  BY <3>1, <3>3, <3>4, <3>5 DEF Paths
  <2> QED  BY <2>1, <2>2
<1> QED  BY <1>1, <1>2, <1>8, FundedIsNext

\* A truncation keeps the checkpoint funded.
LEMMA TruncateFunds ==
  ASSUME QuotaInv, QuotaInv', NEW path \in {"main", "wal"}, NEW size \in 0..MaxFile[path], Truncate(path, size),
         Readable, Funded
  PROVE  Readable' /\ Funded'
<1>1. /\ UNCHANGED <<control, slot, asked>> /\ size < file[path].len
      /\ file' = [file EXCEPT ![path] = [len |-> size, alloc |-> size]]
  BY DEF Truncate
<1>2. best' = best /\ Readable'
  BY <1>1, QuietBest
<1>3. path \in Paths /\ size \in Nat /\ FileShape
  BY Parts DEF Paths
<1>4. /\ \A q \in Paths : q # path => file'[q] = file[q]
      /\ blocks(file'[path]) \in Nat /\ blocks(file'[path]) <= blocks(file[path])
  BY <1>1, <1>3, TruncatedFile
<1>5. /\ reserved(base0 + M0 + W0 + H0, best.base, W0, M0) <= asked /\ best.base \in Nat /\ asked \in Nat
      /\ base0 \in Nat /\ M0 \in Nat /\ W0 \in Nat /\ H0 \in Nat
  BY <1>3, FundedIs, UsageIs
<1>6. M0' = blocks(file'["main"]) /\ W0' = blocks(file'["wal"]) /\ H0' = blocks(file'["shm"])
  BY DEF M0, W0, H0, blocks
<1>7. M0' \in Nat /\ W0' \in Nat /\ M0' <= M0 /\ W0' <= W0 /\ H0' = H0
  <2>1. CASE path = "main"
    BY <1>4, <1>5, <1>6, <2>1 DEF M0, W0, H0, Paths
  <2>2. CASE path = "wal"
    BY <1>4, <1>5, <1>6, <2>2 DEF M0, W0, H0, Paths
  <2> QED  BY <2>1, <2>2
<1>8. reserved(base0 + M0' + W0' + H0', best.base, W0', M0') <= asked
  BY <1>5, <1>7, ShrinkingFrees
<1> QED  BY <1>1, <1>2, <1>8, FundedIsNext

\* A completed write keeps the checkpoint funded.
LEMMA SaveFunds ==
  ASSUME QuotaInv, SaveDone, Readable, Funded
  PROVE  Readable' /\ Funded'
<1>1. Readable' /\ best' = mem /\ pc = "write" /\ UNCHANGED <<control, file>>
  BY SaveDoneParts DEF SaveDone
<1>2. mem.limit = asked /\ best.limit = asked /\ (mem.base = best.base \/ usage(mem.base) <= asked)
  BY <1>1, Parts, BestInStates DEF SectionShape, FundShape
<1>3. usage(mem.base) <= asked
  BY <1>2 DEF Funded
<1>4. Funded' <=> usage(mem.base) <= mem.limit
  BY <1>1 DEF Funded, usage, files, blocks, reserved
<1> QED  BY <1>1, <1>2, <1>3, <1>4

\* Once usage() (the files and what a checkpoint of the whole WAL needs) fits in the
\* limit, it fits after every step of projectedUsage's admission, of a native write,
\* of a truncation, of a new WAL cycle and of a crash.
THEOREM CheckpointFunded == QuotaSpec => CheckpointStaysFunded
<1>1. QuotaSpec => []QuotaInv
  BY QuotaStarts, QuotaKeeps, PTL DEF QuotaSpec
<1>2. QuotaInv /\ QuotaInv' /\ [QuotaNext]_quotaVars => [Readable /\ Funded => (Readable /\ Funded)']_quotaVars
  <2> SUFFICES ASSUME QuotaInv, QuotaInv', [QuotaNext]_quotaVars, Readable, Funded
               PROVE  Readable' /\ Funded'
    OBVIOUS
  <2>1. CASE SaveDone
    BY <2>1, SaveFunds
  <2>2. CASE NativeIO
    BY <2>2, NativeIOFunds
  <2>3. CASE \E path \in {"main", "wal"} : \E size \in 0..MaxFile[path] : Truncate(path, size)
    BY <2>3, TruncateFunds
  <2>4. ASSUME UNCHANGED <<control, file>>, best' = best, Readable' PROVE Readable' /\ Funded'
    BY <2>4 DEF Funded, usage, files, blocks, reserved
  <2>5. CASE UNCHANGED quotaVars
    BY <2>4, <2>5, QuietBest DEF quotaVars
  <2>6. CASE QuotaNext /\ ~SaveDone /\ UNCHANGED <<control, file>>
    BY <2>4, <2>6, OnlySaves
  <2>7. ASSUME NEW l, OpenNew(l) PROVE FALSE
    BY <2>7 DEF OpenNew, Readable
  <2>8. ~CreateState
    BY Parts DEF CreateState, SectionShape, Readable
  <2>9. CASE \/ SaveFails \/ Register \/ CloseDB \/ NativeOpen \/ NativeClose \/ GuardStep \/ Poll \/ PollSend
             \/ PollObserve \/ PollClaim \/ PollChannel \/ PollFinish \/ PollChosen \/ NotifierSend \/ Crash
             \/ \E l \in Limits \cup {0} : OpenOld(l) \/ OpenRefused(l) \/ OpenShared(l)
             \/ \E path \in Paths \cup {"none"}, reset \in BOOLEAN : \E end \in Ends(path) : Guard(path, end, reset)
    <3>1. UNCHANGED <<control, file>>
      BY <2>9 DEF SaveFails, Register, CloseDB, NativeOpen, NativeClose, GuardStep, Poll, PollSend, PollObserve,
                  PollClaim, PollChannel, PollFinish, PollChosen, NotifierSend, Crash, OpenOld, OpenRefused,
                  OpenShared, Guard, disk, quotaVars
    <3>2. QuotaNext
      BY <2>9 DEF QuotaNext
    <3> QED  BY <2>1, <2>6, <3>1, <3>2
  <2> QED  BY <2>1, <2>2, <2>3, <2>5, <2>7, <2>8, <2>9 DEF QuotaNext
<1> QED  BY <1>1, <1>2, PTL DEF QuotaSpec, CheckpointStaysFunded

-----------------------------------------------------------------------------
\* LogStore: where a record is.

Records == 1..MaxRecords
Metrics == [written : Nat, removed : Nat, failures : Nat, overflow : Nat,
            oversized : Nat, lost : Nat, rows : Nat]
Flushing == {"maintain", "insert", "settle"}

\* The types, and where the writer holds a record in its hand.
WriterShape ==
  /\ queue \in Seq(Records) /\ Len(queue) <= Buffer
  /\ batch \in Seq(Records) /\ Len(batch) <= batchLimit
  /\ table \in Seq(Records) /\ hand \in 0..MaxRecords
  /\ logPC \in {"down", "select", "append", "ended"} \cup Flushing
  /\ resume \in {"select", "append", "ended"}
  /\ closer \in {"none", "waiting", "done", "expired"}
  /\ metrics \in Metrics /\ captured \in 0..MaxRecords /\ opened \in Nat
  /\ logPC \in {"select", "append"} => Len(batch) < batchLimit
  /\ hand # NoRecord <=> logPC = "append" \/ (logPC \in Flushing /\ resume = "append")

\* What Close and the last flush have done.
ClosedShape ==
  /\ closer # "none" \/ canceled => closed
  /\ closer = "done" => logPC = "ended"
  /\ logPC \in Flushing /\ resume = "ended" => closed /\ queue = <<>>
  /\ logPC = "ended" => closed /\ queue = <<>> /\ batch = <<>>

\* Until the writer is cancelled, an accepted record is on disk, on its way there,
\* or was in a batch that failed.
OnItsWay ==
  /\ logPC = "settle" => ToSet(batch) \subseteq landed
  /\ ~canceled => accepted \subseteq landed \cup dropped \cup ToSet(queue) \cup ToSet(batch) \cup ({hand} \ {NoRecord})
  /\ metrics.failures = 0 => dropped = {}

LogInv == WriterShape /\ ClosedShape /\ OnItsWay /\ EveryRecordCounted /\ RowsExact

\* Nothing is in an empty sequence.
LEMMA EmptySet == ToSet(<<>>) = {}
BY DEF ToSet

\* What an appended sequence holds.
LEMMA AppendSet ==
  ASSUME NEW S, NEW s \in Seq(S), NEW e \in S
  PROVE  /\ Append(s, e) \in Seq(S) /\ Len(Append(s, e)) = Len(s) + 1
         /\ ToSet(Append(s, e)) = ToSet(s) \cup {e}
<1>1. Append(s, e) \in Seq(S) /\ Len(Append(s, e)) = Len(s) + 1
  OBVIOUS
<1>2. ToSet(s) \cup {e} \subseteq ToSet(Append(s, e))
  <2>1. Append(s, e)[Len(s) + 1] = e /\ Len(s) + 1 \in DOMAIN Append(s, e)
    OBVIOUS
  <2>2. \A i \in DOMAIN s : i \in DOMAIN Append(s, e) /\ Append(s, e)[i] = s[i]
    OBVIOUS
  <2> QED  BY <2>1, <2>2 DEF ToSet
<1>3. ToSet(Append(s, e)) \subseteq ToSet(s) \cup {e}
  BY DEF ToSet
<1> QED  BY <1>1, <1>2, <1>3

\* What the head and the tail of a sequence hold.
LEMMA TailSet ==
  ASSUME NEW S, NEW s \in Seq(S), s # <<>>
  PROVE  /\ Tail(s) \in Seq(S) /\ Len(Tail(s)) = Len(s) - 1 /\ Head(s) \in S
         /\ ToSet(s) \subseteq ToSet(Tail(s)) \cup {Head(s)}
<1>1. Tail(s) \in Seq(S) /\ Len(Tail(s)) = Len(s) - 1 /\ Head(s) \in S /\ Head(s) = s[1]
  OBVIOUS
<1>2. ASSUME NEW i \in DOMAIN s PROVE s[i] \in ToSet(Tail(s)) \cup {Head(s)}
  <2>1. CASE i = 1
    BY <1>1, <2>1
  <2>2. CASE i # 1
    <3>1. i - 1 \in DOMAIN Tail(s) /\ Tail(s)[i - 1] = s[i]
      BY <2>2
    <3> QED  BY <3>1 DEF ToSet
  <2> QED  BY <2>1, <2>2
<1> QED  BY <1>1, <1>2 DEF ToSet

\* The invariant implies the property.
LEMMA LogImplies == LogInv => LogSound
<1> SUFFICES ASSUME LogInv PROVE LogSound
  OBVIOUS
<1>1. LogTypeOK
  <2>1. \A m \in DOMAIN metrics : metrics[m] \in Nat
    BY DEF LogInv, WriterShape, Metrics
  <2> QED  BY <2>1 DEF LogInv, WriterShape, LogTypeOK, Records, Flushing
<1>2. CloseFlushes
  <2> SUFFICES ASSUME closer = "done", ~canceled PROVE accepted \subseteq landed \cup dropped
    BY DEF CloseFlushes, LogInv, OnItsWay
  <2>1. logPC = "ended" /\ queue = <<>> /\ batch = <<>>
    BY DEF LogInv, ClosedShape
  <2>2. hand = NoRecord
    BY <2>1 DEF LogInv, WriterShape, Flushing
  <2> QED  BY <2>1, <2>2, EmptySet DEF LogInv, OnItsWay
<1> QED  BY <1>1, <1>2 DEF LogInv, LogSound

\* The initial state.
LEMMA LogStarts == LogInit => LogInv
<1> SUFFICES ASSUME LogInit PROVE LogInv
  OBVIOUS
<1>1. Zero \in Metrics
  BY DEF Zero, Metrics
<1>2. WriterShape
  BY <1>1, LogAssumption DEF LogInit, WriterShape, Records, Flushing, NoRecord
<1>3. ClosedShape /\ OnItsWay
  BY EmptySet DEF LogInit, ClosedShape, OnItsWay, Flushing
<1>4. EveryRecordCounted /\ RowsExact
  BY DEF LogInit, EveryRecordCounted, RowsExact
<1> QED  BY <1>2, <1>3, <1>4 DEF LogInv

-----------------------------------------------------------------------------
\* A step that leaves the batch to the writer and keeps the books.

Tally == metrics.written + metrics.lost + metrics.overflow + metrics.oversized

\* The counters are natural numbers.
LEMMA MetricsNat ==
  ASSUME NEW m \in Metrics
  PROVE  /\ m.written \in Nat /\ m.lost \in Nat /\ m.overflow \in Nat /\ m.oversized \in Nat
         /\ m.failures \in Nat /\ m.removed \in Nat /\ m.rows \in Nat
BY DEF Metrics

Book(w, rm, f, ov, os, l, r) ==
  [written |-> w, removed |-> rm, failures |-> f, overflow |-> ov, oversized |-> os, lost |-> l, rows |-> r]

\* So is what the process holds of a queue, a batch and a hand.
LEMMA HeldNat ==
  ASSUME NEW q \in Seq(Records), NEW b \in Seq(Records), NEW where, NEW h
  PROVE  Len(q) + (IF where = "settle" THEN 0 ELSE Len(b)) + (IF h = NoRecord THEN 0 ELSE 1) \in Nat
<1>1. Len(q) \in Nat /\ Len(b) \in Nat
  OBVIOUS
<1> DEFINE inBatch == IF where = "settle" THEN 0 ELSE Len(b)
           inHand == IF h = NoRecord THEN 0 ELSE 1
<1>2. inBatch \in Nat /\ inHand \in Nat
  BY <1>1
<1> HIDE DEF inBatch, inHand
<1>3. Len(q) + inBatch + inHand \in Nat
  BY <1>1, <1>2
<1> QED  BY <1>3 DEF inBatch, inHand

\* Both sides of the books are natural numbers.
LEMMA BooksNat == ASSUME WriterShape PROVE Holding \in Nat /\ Tally \in Nat /\ captured \in Nat /\ opened \in Nat
<1>1. Holding \in Nat
  BY HeldNat DEF WriterShape, Holding
<1>2. Tally \in Nat
  BY MetricsNat DEF WriterShape, Tally
<1> QED  BY <1>1, <1>2, LogAssumption DEF WriterShape

\* The same after a step.
LEMMA BooksNatNext == ASSUME WriterShape' PROVE Holding' \in Nat /\ Tally' \in Nat /\ captured' \in Nat
<1>1. Holding' \in Nat
  BY HeldNat DEF WriterShape, Holding
<1>2. Tally' \in Nat
  BY MetricsNat DEF WriterShape, Tally
<1> QED  BY <1>1, <1>2, LogAssumption DEF WriterShape

\* Two ways of adding up the counters.
LEMMA Counted ==
  ASSUME NEW m \in Metrics, NEW n, NEW h \in Nat
  PROVE  n = h + m.written + m.lost + m.overflow + m.oversized
         <=> n = h + (m.written + m.lost + m.overflow + m.oversized)
BY MetricsNat

\* A step that changes both sides of the books alike keeps them.
LEMMA BooksKept ==
  ASSUME WriterShape, WriterShape', EveryRecordCounted, logPC # "down", UNCHANGED opened,
         captured' + Holding + Tally = captured + Holding' + Tally'
  PROVE  EveryRecordCounted'
<1>1. Holding \in Nat /\ Tally \in Nat /\ captured \in Nat /\ opened \in Nat
  BY BooksNat
<1>2. Holding' \in Nat /\ Tally' \in Nat /\ captured' \in Nat
  BY BooksNatNext
<1>3. captured - opened = Holding + Tally
  BY <1>1, Counted DEF EveryRecordCounted, Tally, WriterShape
<1>4. captured' - opened' = Holding' + Tally'
  BY <1>1, <1>2, <1>3
<1> QED  BY <1>2, <1>4, Counted DEF EveryRecordCounted, Tally, WriterShape

\* The same for a step of the writer, which moves records between the queue, its
\* hand, the batch and the counters.
InBatch == IF logPC = "settle" THEN 0 ELSE Len(batch)
InHand == IF hand = NoRecord THEN 0 ELSE 1

\* The parts of what the process holds.
LEMMA PartsNat ==
  ASSUME WriterShape
  PROVE  /\ Len(queue) \in Nat /\ Len(batch) \in Nat /\ Len(table) \in Nat
         /\ InBatch \in Nat /\ InHand \in Nat /\ Tally \in Nat
<1>1. Len(queue) \in Nat /\ Len(batch) \in Nat /\ Len(table) \in Nat
  BY DEF WriterShape
<1> QED  BY <1>1, BooksNat DEF InBatch, InHand

\* A step that only moves records between the places keeps the books.
LEMMA BooksBalance ==
  ASSUME WriterShape, WriterShape', EveryRecordCounted, logPC # "down", UNCHANGED <<captured, opened>>,
         Len(queue') + InBatch' + InHand' + Tally' = Len(queue) + InBatch + InHand + Tally
  PROVE  EveryRecordCounted'
<1>1. Len(queue) \in Nat /\ InBatch \in Nat /\ InHand \in Nat /\ Tally \in Nat /\ captured \in Nat
  BY PartsNat, BooksNat
<1>2. Holding' \in Nat /\ Tally' \in Nat
  BY BooksNatNext
<1>3. Holding = Len(queue) + InBatch + InHand /\ Holding' = Len(queue') + InBatch' + InHand'
  BY DEF Holding, InBatch, InHand
<1>4. Holding \in Nat
  BY BooksNat
<1>5. captured' + Holding + Tally = captured + Holding' + Tally'
  <2>1. Holding' + Tally' = Holding + Tally
    BY <1>3
  <2>2. captured' = captured
    OBVIOUS
  <2> DEFINE held == Holding heldNext == Holding' told == Tally toldNext == Tally'
  <2>3. /\ held \in Nat /\ heldNext \in Nat /\ told \in Nat /\ toldNext \in Nat
        /\ heldNext + toldNext = held + told
    BY <1>1, <1>2, <1>4, <2>1
  <2> HIDE DEF held, heldNext, told, toldNext
  <2>4. captured + held + told = captured + heldNext + toldNext
    BY <1>1, <2>3
  <2> QED  BY <2>2, <2>4 DEF held, heldNext, told, toldNext
<1> QED  BY <1>5, BooksKept

\* A record is captured, or dropped and counted.
LEMMA CaptureKeeps == ASSUME LogInv, Capture PROVE LogInv'
<1>1. WriterShape /\ ClosedShape /\ OnItsWay /\ EveryRecordCounted /\ RowsExact
  BY DEF LogInv
<1>2. /\ logPC # "down" /\ captured < MaxRecords /\ captured' = captured + 1
      /\ UNCHANGED <<closed, canceled, batch, hand, logPC, resume, table, closer, opened, landed, dropped>>
  BY DEF Capture, writer
<1>3. CASE queue' = Append(queue, captured + 1) /\ accepted' = accepted \cup {captured + 1}
           /\ UNCHANGED metrics /\ ~closed /\ Len(queue) < Buffer
  <2>1. captured + 1 \in Records
    BY <1>1, <1>2, LogAssumption DEF WriterShape, Records
  <2>2. queue' \in Seq(Records) /\ Len(queue') = Len(queue) + 1 /\ ToSet(queue') = ToSet(queue) \cup {captured + 1}
    BY <1>1, <1>3, <2>1, AppendSet DEF WriterShape
  <2>3. WriterShape'
    BY <1>1, <1>2, <1>3, <2>2, LogAssumption DEF WriterShape
  <2>4. ClosedShape'
    BY <1>1, <1>2, <1>3 DEF ClosedShape
  <2>5. OnItsWay'
    BY <1>1, <1>2, <1>3, <2>2 DEF OnItsWay
  <2>6. EveryRecordCounted'
    <3>1. Tally' = Tally
      BY <1>3 DEF Tally
    <3>0. Holding' = Holding + 1
      <4> DEFINE inBatch == IF logPC = "settle" THEN 0 ELSE Len(batch)
                 inHand == IF hand = NoRecord THEN 0 ELSE 1
      <4>1. Len(queue) \in Nat /\ inBatch \in Nat /\ inHand \in Nat
        BY <1>1 DEF WriterShape
      <4>2. Holding = Len(queue) + inBatch + inHand /\ Holding' = Len(queue') + inBatch + inHand
        BY <1>2 DEF Holding
      <4> HIDE DEF inBatch, inHand
      <4> QED  BY <2>2, <4>1, <4>2
    <3>2. Holding \in Nat /\ Tally \in Nat /\ captured \in Nat
      BY <1>1, BooksNat
    <3>3. captured' + Holding + Tally = captured + Holding' + Tally'
      BY <1>2, <3>0, <3>1, <3>2
    <3> QED  BY <1>1, <1>2, <2>3, <3>3, BooksKept
  <2>7. RowsExact'
    BY <1>1, <1>2, <1>3 DEF RowsExact
  <2> QED  BY <2>3, <2>4, <2>5, <2>6, <2>7 DEF LogInv
<1>4. ASSUME UNCHANGED <<queue, accepted>>, metrics' \in Metrics, metrics'.rows = metrics.rows,
             metrics'.failures = 0 => metrics.failures = 0,
             Tally' = Tally + 1
      PROVE  LogInv'
  <2>1. WriterShape'
    BY <1>1, <1>2, <1>4, LogAssumption DEF WriterShape
  <2>2. ClosedShape' /\ OnItsWay'
    BY <1>1, <1>2, <1>4 DEF ClosedShape, OnItsWay
  <2>3. EveryRecordCounted'
    <3>1. Holding' = Holding
      BY <1>2, <1>4 DEF Holding
    <3>2. Holding \in Nat /\ Tally \in Nat /\ captured \in Nat
      BY <1>1, BooksNat
    <3>3. captured' + Holding + Tally = captured + Holding' + Tally'
      BY <1>2, <1>4, <3>1, <3>2
    <3> QED  BY <1>1, <1>2, <2>1, <3>3, BooksKept
  <2>4. RowsExact'
    BY <1>1, <1>2, <1>4 DEF RowsExact
  <2> QED  BY <2>1, <2>2, <2>3, <2>4 DEF LogInv
<1>5. /\ metrics \in Metrics /\ metrics.written \in Nat /\ metrics.lost \in Nat /\ metrics.overflow \in Nat
      /\ metrics.oversized \in Nat /\ metrics.failures \in Nat /\ metrics.removed \in Nat /\ metrics.rows \in Nat
  BY <1>1, MetricsNat DEF WriterShape
<1>6. CASE UNCHANGED <<queue, accepted>> /\ metrics' = [metrics EXCEPT !.lost = @ + 1]
  <2>1. metrics' \in Metrics /\ metrics'.rows = metrics.rows /\ metrics'.failures = metrics.failures
    BY <1>5, <1>6 DEF Metrics
  <2>2. Tally' = Tally + 1
    BY <1>5, <1>6 DEF Metrics, Tally
  <2> QED  BY <1>4, <1>6, <2>1, <2>2
<1>7. CASE UNCHANGED <<queue, accepted>> /\ metrics' = [metrics EXCEPT !.overflow = @ + 1]
  <2>1. metrics' \in Metrics /\ metrics'.rows = metrics.rows /\ metrics'.failures = metrics.failures
    BY <1>5, <1>7 DEF Metrics
  <2>2. Tally' = Tally + 1
    BY <1>5, <1>7 DEF Metrics, Tally
  <2> QED  BY <1>4, <1>7, <2>1, <2>2
<1>8. CASE UNCHANGED <<queue, accepted>> /\ metrics' = [metrics EXCEPT !.oversized = @ + 1]
  <2>1. metrics' \in Metrics /\ metrics'.rows = metrics.rows /\ metrics'.failures = metrics.failures
    BY <1>5, <1>8 DEF Metrics
  <2>2. Tally' = Tally + 1
    BY <1>5, <1>8 DEF Metrics, Tally
  <2> QED  BY <1>4, <1>8, <2>1, <2>2
<1>9. CASE UNCHANGED <<queue, accepted>> /\ metrics' = [metrics EXCEPT !.failures = @ + 1, !.lost = @ + 1]
  <2>1. metrics' = Book(metrics.written, metrics.removed, metrics.failures + 1, metrics.overflow,
                        metrics.oversized, metrics.lost + 1, metrics.rows)
    BY <1>5, <1>9 DEF Metrics, Book
  <2>2. metrics.failures + 1 \in Nat /\ metrics.lost + 1 \in Nat /\ metrics.failures + 1 # 0
    BY <1>5
  <2>3. /\ metrics' \in Metrics /\ metrics'.rows = metrics.rows /\ metrics'.failures # 0
        /\ metrics'.lost = metrics.lost + 1 /\ metrics'.written = metrics.written
        /\ metrics'.overflow = metrics.overflow /\ metrics'.oversized = metrics.oversized
    <3>1. metrics' \in Metrics
      BY <1>5, <2>1, <2>2 DEF Book, Metrics
    <3> QED  BY <2>1, <2>2, <3>1 DEF Book
  <2>4. Tally' = Tally + 1
    BY <1>5, <2>3, MetricsNat DEF Tally
  <2> QED  BY <1>4, <1>9, <2>3, <2>4
<1> QED  BY <1>3, <1>6, <1>7, <1>8, <1>9 DEF Capture, Enqueue

-----------------------------------------------------------------------------
\* The writer's steps.

\* The writer receives a record.
LEMMA ReceiveKeeps == ASSUME LogInv, Receive PROVE LogInv'
<1>1. WriterShape /\ ClosedShape /\ OnItsWay /\ EveryRecordCounted /\ RowsExact
  BY DEF LogInv
<1>2. /\ logPC = "select" /\ queue # <<>> /\ queue' = Tail(queue) /\ hand' = Head(queue)
      /\ UNCHANGED <<closed, canceled, batch, table, metrics, closer, captured, opened, accepted, landed, dropped>>
  BY DEF Receive
<1>3. (logPC' = "append" /\ UNCHANGED resume) \/ (logPC' = "maintain" /\ resume' = "append")
  BY DEF Receive, Flush
<1>4. /\ queue' \in Seq(Records) /\ Len(queue') = Len(queue) - 1 /\ hand' \in Records
      /\ ToSet(queue) \subseteq ToSet(queue') \cup {hand'}
  BY <1>1, <1>2, TailSet DEF WriterShape
<1>5. hand = NoRecord /\ hand' # NoRecord
  BY <1>1, <1>2, <1>4 DEF WriterShape, Records, NoRecord, Flushing
<1>6. WriterShape'
  BY <1>1, <1>2, <1>3, <1>4, <1>5, LogAssumption DEF WriterShape, Records, Flushing
<1>7. ClosedShape'
  BY <1>1, <1>2, <1>3 DEF ClosedShape, Flushing
<1>8. OnItsWay'
  BY <1>1, <1>2, <1>3, <1>4, <1>5 DEF OnItsWay
<1>9. EveryRecordCounted'
  <2>1. InBatch' = InBatch /\ InHand = 0 /\ InHand' = 1 /\ Tally' = Tally
    BY <1>2, <1>3, <1>5 DEF InBatch, InHand, Tally
  <2>2. Len(queue') + InBatch' + InHand' + Tally' = Len(queue) + InBatch + InHand + Tally
    BY <1>1, <1>4, <2>1, PartsNat
  <2> QED  BY <1>1, <1>2, <1>6, <2>2, BooksBalance
<1>10. RowsExact'
  BY <1>1, <1>2 DEF RowsExact
<1> QED  BY <1>6, <1>7, <1>8, <1>9, <1>10 DEF LogInv

\* It appends the record to the batch.
LEMMA AppendHandKeeps == ASSUME LogInv, AppendHand PROVE LogInv'
<1>1. WriterShape /\ ClosedShape /\ OnItsWay /\ EveryRecordCounted /\ RowsExact
  BY DEF LogInv
<1>2. /\ logPC = "append" /\ batch' = Append(batch, hand) /\ hand' = NoRecord
      /\ UNCHANGED <<queue, closed, canceled, table, metrics, closer, captured, opened, accepted, landed, dropped>>
  BY DEF AppendHand
<1>3. \/ Len(batch) + 1 >= batchLimit /\ logPC' = "maintain" /\ resume' = "select"
      \/ ~(Len(batch) + 1 >= batchLimit) /\ logPC' = "select" /\ UNCHANGED resume
  BY DEF AppendHand
<1>4. hand \in Records /\ hand # NoRecord /\ Len(batch) < batchLimit /\ Len(batch) \in Nat /\ batchLimit \in Nat
  BY <1>1, <1>2, LogAssumption DEF WriterShape, Records, NoRecord
<1>5. /\ batch' \in Seq(Records) /\ Len(batch') = Len(batch) + 1
      /\ ToSet(batch') = ToSet(batch) \cup {hand}
  BY <1>1, <1>2, <1>4, AppendSet DEF WriterShape
<1>6. WriterShape'
  <2>1. Len(batch') <= batchLimit /\ (logPC' = "select" => Len(batch') < batchLimit)
    BY <1>3, <1>4, <1>5
  <2> QED  BY <1>1, <1>2, <1>3, <1>5, <2>1, LogAssumption DEF WriterShape, Flushing, NoRecord
<1>7. ClosedShape'
  BY <1>1, <1>2, <1>3 DEF ClosedShape, Flushing
<1>8. OnItsWay'
  BY <1>1, <1>2, <1>3, <1>5 DEF OnItsWay
<1>9. EveryRecordCounted'
  <2>1. InBatch' = InBatch + 1 /\ InHand = 1 /\ InHand' = 0 /\ Tally' = Tally
    BY <1>2, <1>3, <1>4, <1>5 DEF InBatch, InHand, Tally
  <2>2. Len(queue') + InBatch' + InHand' + Tally' = Len(queue) + InBatch + InHand + Tally
    BY <1>1, <1>2, <2>1, PartsNat
  <2> QED  BY <1>1, <1>2, <1>6, <2>2, BooksBalance
<1>10. RowsExact'
  BY <1>1, <1>2, <1>3 DEF RowsExact
<1> QED  BY <1>6, <1>7, <1>8, <1>9, <1>10 DEF LogInv

\* A step that only moves the writer on, towards a flush or back from one with
\* an empty batch.
LEMMA PhaseKeeps ==
  ASSUME LogInv, logPC \in {"select", "maintain"},
         UNCHANGED <<queue, closed, canceled, batch, hand, table, metrics, closer, captured, opened, accepted, landed, dropped>>,
         \/ TickerFlush \/ RunClosed \/ MaintainDone
  PROVE  LogInv'
<1>1. WriterShape /\ ClosedShape /\ OnItsWay /\ EveryRecordCounted /\ RowsExact
  BY DEF LogInv
<1>2. \/ logPC = "select" /\ logPC' = "maintain" /\ resume' = "select"
      \/ logPC = "select" /\ logPC' = "maintain" /\ resume' = "ended" /\ closed /\ queue = <<>>
      \/ logPC = "select" /\ logPC' = "ended" /\ UNCHANGED resume /\ closed /\ queue = <<>> /\ batch = <<>>
      \/ logPC = "maintain" /\ logPC' = "insert" /\ UNCHANGED resume
  BY DEF TickerFlush, RunClosed, MaintainDone, Flush
<1>3. WriterShape'
  BY <1>1, <1>2 DEF WriterShape, Flushing
<1>4. ClosedShape'
  BY <1>1, <1>2 DEF ClosedShape, Flushing
<1>5. OnItsWay'
  BY <1>1, <1>2 DEF OnItsWay
<1>6. EveryRecordCounted' /\ RowsExact'
  BY <1>1, <1>2 DEF EveryRecordCounted, Holding, RowsExact
<1> QED  BY <1>3, <1>4, <1>5, <1>6 DEF LogInv

\* The batch leaves the writer: it was committed, or it is given up.
LEMMA BatchEnds ==
  ASSUME LogInv, logPC \in Flushing, batch' = <<>>, logPC' = resume, metrics' \in Metrics,
         UNCHANGED <<queue, closed, canceled, hand, resume, table, closer, captured, opened, accepted, landed>>,
         metrics'.rows = metrics.rows, Tally' = Tally + InBatch,
         \/ /\ metrics'.failures # 0 /\ dropped \subseteq dropped'
            /\ logPC = "settle" \/ ToSet(batch) \subseteq dropped'
         \/ logPC = "settle" /\ metrics'.failures = metrics.failures /\ dropped' = dropped
  PROVE  LogInv'
<1>1. WriterShape /\ ClosedShape /\ OnItsWay /\ EveryRecordCounted /\ RowsExact
  BY DEF LogInv
<1>2. batch' \in Seq(Records) /\ Len(batch') = 0 /\ ToSet(batch') = {}
  BY EmptySet
<1>3. WriterShape'
  BY <1>1, <1>2, LogAssumption DEF WriterShape, Flushing
<1>4. ClosedShape'
  BY <1>1 DEF WriterShape, ClosedShape, Flushing
<1>5. OnItsWay'
  BY <1>1, <1>2 DEF WriterShape, OnItsWay
<1>6. EveryRecordCounted'
  <2>1. InBatch' = 0 /\ InHand' = InHand
    BY <1>2 DEF InBatch, InHand
  <2>2. Len(queue') + InBatch' + InHand' + Tally' = Len(queue) + InBatch + InHand + Tally
    BY <1>1, <2>1, PartsNat
  <2> QED  BY <1>1, <1>3, <2>2, BooksBalance DEF Flushing
<1>7. RowsExact'
  BY <1>1 DEF RowsExact, Flushing
<1> QED  BY <1>3, <1>4, <1>5, <1>6, <1>7 DEF LogInv

\* A write fails.
LEMMA WriteFailsKeeps == ASSUME LogInv, WriteFails PROVE LogInv'
<1>1. WriterShape
  BY DEF LogInv
<1>2. /\ metrics \in Metrics /\ metrics.written \in Nat /\ metrics.lost \in Nat /\ metrics.overflow \in Nat
      /\ metrics.oversized \in Nat /\ metrics.failures \in Nat /\ metrics.removed \in Nat /\ metrics.rows \in Nat
  BY <1>1, MetricsNat DEF WriterShape
<1>3. InBatch \in Nat
  BY <1>1, PartsNat
<1>4. metrics' = Book(metrics.written, metrics.removed, metrics.failures + 1, metrics.overflow,
                      metrics.oversized, metrics.lost + InBatch, metrics.rows)
  BY <1>2 DEF WriteFails, FlushFails, Metrics, Book, InBatch
<1>5. metrics.failures + 1 \in Nat /\ metrics.lost + InBatch \in Nat /\ metrics.failures + 1 # 0
  BY <1>2, <1>3
<1>6. metrics' \in Metrics
  BY <1>2, <1>4, <1>5 DEF Book, Metrics
<1>7. /\ metrics'.rows = metrics.rows /\ metrics'.failures # 0
      /\ metrics'.lost = metrics.lost + InBatch /\ metrics'.written = metrics.written
      /\ metrics'.overflow = metrics.overflow /\ metrics'.oversized = metrics.oversized
  BY <1>4, <1>5 DEF Book
<1>8. Tally' = Tally + InBatch
  BY <1>2, <1>3, <1>7 DEF Tally
<1>9. /\ logPC \in Flushing /\ batch' = <<>> /\ logPC' = resume
      /\ UNCHANGED <<queue, closed, canceled, hand, resume, table, closer, captured, opened, accepted, landed>>
      /\ dropped \subseteq dropped' /\ (logPC = "settle" \/ ToSet(batch) \subseteq dropped')
  BY DEF WriteFails, FlushFails, Flushing
<1> QED  BY <1>6, <1>7, <1>8, <1>9, BatchEnds

\* A batch is settled.
LEMMA FlushSettles == ASSUME LogInv, Settle PROVE LogInv'
<1>1. WriterShape
  BY DEF LogInv
<1>2. /\ logPC = "settle" /\ batch' = <<>> /\ logPC' = resume /\ metrics' = metrics
      /\ UNCHANGED <<queue, closed, canceled, hand, resume, table, closer, captured, opened, accepted, landed, dropped>>
  BY DEF Settle
<1>3. InBatch = 0 /\ Tally' = Tally /\ Tally \in Nat
  BY <1>1, <1>2, PartsNat DEF InBatch, Tally
<1>4. Tally' = Tally + InBatch
  BY <1>3
<1>5. metrics' \in Metrics /\ logPC \in Flushing
  BY <1>1, <1>2 DEF WriterShape, Flushing
<1> QED  BY <1>2, <1>4, <1>5, BatchEnds

\* A batch is committed.
LEMMA CommitKeeps == ASSUME LogInv, Commit PROVE LogInv'
<1>1. WriterShape /\ ClosedShape /\ OnItsWay /\ EveryRecordCounted /\ RowsExact
  BY DEF LogInv
<1>2. /\ logPC = "insert" /\ logPC' = "settle" /\ table' = table \o batch
      /\ landed' = landed \cup ToSet(batch)
      /\ UNCHANGED <<queue, closed, canceled, batch, hand, resume, closer, captured, opened, accepted, dropped>>
  BY DEF Commit
<1>3. /\ metrics \in Metrics /\ metrics.written \in Nat /\ metrics.lost \in Nat /\ metrics.overflow \in Nat
      /\ metrics.oversized \in Nat /\ metrics.failures \in Nat /\ metrics.removed \in Nat /\ metrics.rows \in Nat
  BY <1>1, MetricsNat DEF WriterShape
<1>4. Len(batch) \in Nat /\ Len(table) \in Nat
  BY <1>1, PartsNat
<1>5. metrics' = Book(metrics.written + Len(batch), metrics.removed, metrics.failures, metrics.overflow,
                      metrics.oversized, metrics.lost, metrics.rows + Len(batch))
  BY <1>3 DEF Commit, Metrics, Book
<1>6. metrics.written + Len(batch) \in Nat /\ metrics.rows + Len(batch) \in Nat
  BY <1>3, <1>4
<1>7. metrics' \in Metrics
  BY <1>3, <1>5, <1>6 DEF Book, Metrics
<1>8. /\ metrics'.rows = metrics.rows + Len(batch) /\ metrics'.failures = metrics.failures
      /\ metrics'.lost = metrics.lost /\ metrics'.written = metrics.written + Len(batch)
      /\ metrics'.overflow = metrics.overflow /\ metrics'.oversized = metrics.oversized
  BY <1>5 DEF Book
<1>9. table' \in Seq(Records) /\ Len(table') = Len(table) + Len(batch)
  BY <1>1, <1>2, ConcatProperties DEF WriterShape
<1>10. WriterShape'
  BY <1>1, <1>2, <1>7, <1>9, LogAssumption DEF WriterShape, Flushing
<1>11. ClosedShape'
  BY <1>1, <1>2 DEF ClosedShape, Flushing
<1>12. OnItsWay'
  BY <1>1, <1>2, <1>8 DEF OnItsWay
<1>13. EveryRecordCounted'
  <2>1. InBatch' = 0 /\ InBatch = Len(batch) /\ InHand' = InHand
    BY <1>2 DEF InBatch, InHand
  <2>2. Tally' = Tally + Len(batch)
    BY <1>3, <1>4, <1>8 DEF Tally
  <2>3. Len(queue') = Len(queue)
    BY <1>2
  <2>4. Len(queue') + InBatch' + InHand' + Tally' = Len(queue) + InBatch + InHand + Tally
    BY <1>1, <1>4, <2>1, <2>2, <2>3, PartsNat
  <2> QED  BY <1>1, <1>2, <1>10, <2>4, BooksBalance
<1>14. RowsExact'
  BY <1>1, <1>2, <1>8, <1>9 DEF RowsExact
<1> QED  BY <1>10, <1>11, <1>12, <1>13, <1>14 DEF LogInv

\* Retention deletes old rows.
LEMMA MaintainDeletesKeeps == ASSUME LogInv, MaintainDeletes PROVE LogInv'
<1>1. WriterShape /\ ClosedShape /\ OnItsWay /\ EveryRecordCounted /\ RowsExact
  BY DEF LogInv
<1>2. /\ logPC = "maintain"
      /\ UNCHANGED <<queue, closed, canceled, batch, hand, logPC, resume, closer, captured, opened, accepted, landed, dropped>>
  BY DEF MaintainDeletes, writer
<1>3. PICK n \in Expired : /\ table' = SubSeq(table, n + 1, Len(table))
                           /\ metrics' = [metrics EXCEPT !.removed = @ + n, !.rows = @ - n]
  BY DEF MaintainDeletes
<1>4. Len(table) \in Nat
  BY <1>1, PartsNat
<1>5. n \in Nat /\ n > 0 /\ n < Len(table)
  <2>1. remove \in Nat
    BY <1>4 DEF remove
  <2> QED  BY <1>4, <2>1 DEF Expired
<1>6. /\ metrics \in Metrics /\ metrics.written \in Nat /\ metrics.lost \in Nat /\ metrics.overflow \in Nat
      /\ metrics.oversized \in Nat /\ metrics.failures \in Nat /\ metrics.removed \in Nat /\ metrics.rows \in Nat
  BY <1>1, MetricsNat DEF WriterShape
<1>7. metrics.rows = Len(table)
  BY <1>1, <1>2 DEF RowsExact
<1>8. metrics' = Book(metrics.written, metrics.removed + n, metrics.failures, metrics.overflow,
                      metrics.oversized, metrics.lost, metrics.rows - n)
  BY <1>3, <1>6 DEF Metrics, Book
<1>9. metrics.removed + n \in Nat /\ metrics.rows - n \in Nat
  BY <1>4, <1>5, <1>6, <1>7
<1>10. metrics' \in Metrics
  BY <1>6, <1>8, <1>9 DEF Book, Metrics
<1>11. /\ metrics'.rows = metrics.rows - n /\ metrics'.failures = metrics.failures
       /\ metrics'.lost = metrics.lost /\ metrics'.written = metrics.written
       /\ metrics'.overflow = metrics.overflow /\ metrics'.oversized = metrics.oversized
  BY <1>8 DEF Book
<1>12. table' \in Seq(Records) /\ Len(table') = Len(table) - n
  BY <1>1, <1>3, <1>4, <1>5, SubSeqProperties DEF WriterShape
<1>13. WriterShape'
  BY <1>1, <1>2, <1>10, <1>12, LogAssumption DEF WriterShape, Flushing
<1>14. ClosedShape' /\ OnItsWay'
  BY <1>1, <1>2, <1>11 DEF ClosedShape, OnItsWay, Flushing
<1>15. EveryRecordCounted'
  <2>1. InBatch' = InBatch /\ InHand' = InHand /\ Tally' = Tally /\ Len(queue') = Len(queue)
    BY <1>2, <1>11 DEF InBatch, InHand, Tally
  <2>2. Len(queue') + InBatch' + InHand' + Tally' = Len(queue) + InBatch + InHand + Tally
    BY <2>1
  <2> QED  BY <1>1, <1>2, <1>13, <2>2, BooksBalance
<1>16. RowsExact'
  BY <1>2, <1>7, <1>11, <1>12 DEF RowsExact
<1> QED  BY <1>13, <1>14, <1>15, <1>16 DEF LogInv

\* The writer is told to end.
LEMMA RunCanceledKeeps == ASSUME LogInv, RunCanceled PROVE LogInv'
<1>1. WriterShape /\ ClosedShape /\ OnItsWay /\ EveryRecordCounted /\ RowsExact
  BY DEF LogInv
<1>2. /\ logPC = "select" /\ canceled /\ queue' = <<>> /\ batch' = <<>> /\ logPC' = "ended"
      /\ metrics' = [metrics EXCEPT !.lost = @ + Len(batch) + Len(queue)]
      /\ UNCHANGED <<closed, canceled, hand, resume, table, closer, captured, opened, accepted, landed, dropped>>
  BY DEF RunCanceled
<1>3. /\ metrics \in Metrics /\ metrics.written \in Nat /\ metrics.lost \in Nat /\ metrics.overflow \in Nat
      /\ metrics.oversized \in Nat /\ metrics.failures \in Nat /\ metrics.removed \in Nat /\ metrics.rows \in Nat
  BY <1>1, MetricsNat DEF WriterShape
<1>4. Len(batch) \in Nat /\ Len(queue) \in Nat
  BY <1>1, PartsNat
<1>5. metrics' = Book(metrics.written, metrics.removed, metrics.failures, metrics.overflow,
                      metrics.oversized, metrics.lost + Len(batch) + Len(queue), metrics.rows)
  BY <1>2, <1>3 DEF Metrics, Book
<1>6. metrics.lost + Len(batch) + Len(queue) \in Nat
  BY <1>3, <1>4
<1>7. metrics' \in Metrics
  BY <1>3, <1>5, <1>6 DEF Book, Metrics
<1>8. /\ metrics'.rows = metrics.rows /\ metrics'.lost = metrics.lost + Len(batch) + Len(queue)
      /\ metrics'.written = metrics.written
      /\ metrics'.overflow = metrics.overflow /\ metrics'.oversized = metrics.oversized
  BY <1>5 DEF Book
<1>9. /\ queue' \in Seq(Records) /\ Len(queue') = 0 /\ batch' \in Seq(Records) /\ Len(batch') = 0
      /\ ToSet(batch') = {}
  BY <1>2, EmptySet
<1>10. hand = NoRecord
  BY <1>1, <1>2 DEF WriterShape, Flushing
<1>11. WriterShape'
  BY <1>1, <1>2, <1>7, <1>9, <1>10, LogAssumption DEF WriterShape, Flushing
<1>12. ClosedShape'
  BY <1>1, <1>2 DEF ClosedShape, Flushing
<1>13. OnItsWay'
  BY <1>1, <1>2 DEF OnItsWay
<1>14. EveryRecordCounted'
  <2>1. InBatch' = 0 /\ InBatch = Len(batch) /\ InHand' = InHand
    BY <1>2, <1>9 DEF InBatch, InHand
  <2>2. Tally' = Tally + Len(batch) + Len(queue)
    BY <1>3, <1>4, <1>8 DEF Tally
  <2>3. Len(queue') + InBatch' + InHand' + Tally' = Len(queue) + InBatch + InHand + Tally
    BY <1>1, <1>4, <1>9, <2>1, <2>2, PartsNat
  <2> QED  BY <1>1, <1>2, <1>11, <2>3, BooksBalance
<1>15. RowsExact'
  BY <1>1, <1>2, <1>8 DEF RowsExact
<1> QED  BY <1>11, <1>12, <1>13, <1>14, <1>15 DEF LogInv

\* Close waits for the writer, or gives up.
LEMMA CloseKeeps == ASSUME LogInv, CloseStore \/ CloseDone \/ CloseExpires PROVE LogInv'
<1>1. WriterShape /\ ClosedShape /\ OnItsWay /\ EveryRecordCounted /\ RowsExact
  BY DEF LogInv
<1>2. UNCHANGED <<queue, batch, hand, logPC, resume, table, metrics, captured, opened, accepted, landed, dropped>>
  BY DEF CloseStore, CloseDone, CloseExpires, writer
<1>3. \/ closer = "none" /\ closed' = TRUE /\ closer' = "waiting" /\ UNCHANGED canceled
      \/ logPC = "ended" /\ closer = "waiting" /\ closer' = "done" /\ UNCHANGED <<closed, canceled>>
      \/ closer = "waiting" /\ closer' = "expired" /\ canceled' = TRUE /\ UNCHANGED closed
  BY DEF CloseStore, CloseDone, CloseExpires
<1>4. WriterShape'
  BY <1>1, <1>2, <1>3 DEF WriterShape
<1>5. ClosedShape'
  BY <1>1, <1>2, <1>3 DEF ClosedShape
<1>6. OnItsWay'
  BY <1>1, <1>2, <1>3 DEF OnItsWay
<1>7. EveryRecordCounted' /\ RowsExact'
  BY <1>1, <1>2 DEF EveryRecordCounted, Holding, RowsExact
<1> QED  BY <1>4, <1>5, <1>6, <1>7 DEF LogInv

\* A process starts anew, with the rows of the database.
LEMMA FreshKeeps ==
  ASSUME LogInv, NEW n \in Nat, Fresh(n),
         logPC' \in {"down", "select"}, logPC' = "select" => n = Len(table)
  PROVE  LogInv'
<1>1. WriterShape
  BY DEF LogInv
<1>2. /\ queue' = <<>> /\ closed' = FALSE /\ canceled' = FALSE /\ batch' = <<>> /\ hand' = NoRecord
      /\ resume' = "select" /\ closer' = "none" /\ accepted' = {} /\ landed' = {} /\ dropped' = {} /\ opened' = captured
      /\ table' = table /\ captured' = captured
  BY DEF Fresh
<1>3. metrics' = Book(0, 0, 0, 0, 0, 0, n)
  BY DEF Fresh, Zero, Book
<1>4. metrics' \in Metrics
  BY <1>3 DEF Book, Metrics
<1>5. /\ metrics'.rows = n /\ metrics'.lost = 0 /\ metrics'.written = 0
      /\ metrics'.overflow = 0 /\ metrics'.oversized = 0
  BY <1>3 DEF Book
<1>6. queue' \in Seq(Records) /\ Len(queue') = 0 /\ batch' \in Seq(Records) /\ Len(batch') = 0
  BY <1>2
<1>7. captured \in Nat
  BY <1>1, BooksNat
<1>8. WriterShape'
  BY <1>1, <1>2, <1>4, <1>6, <1>7, LogAssumption DEF WriterShape, Flushing, NoRecord
<1>9. ClosedShape' /\ OnItsWay'
  BY <1>2 DEF ClosedShape, OnItsWay, Flushing
<1>10. EveryRecordCounted'
  <2>1. Holding' = 0
    BY <1>2, <1>6 DEF Holding
  <2>2. captured' - opened' = 0
    BY <1>2, <1>7
  <2> QED  BY <1>5, <2>1, <2>2 DEF EveryRecordCounted
<1>11. RowsExact'
  BY <1>2, <1>5 DEF RowsExact
<1> QED  BY <1>8, <1>9, <1>10, <1>11 DEF LogInv

\* Every step keeps the invariant.
LEMMA LogKeeps == LogInv /\ [LogNext]_logVars => LogInv'
<1> SUFFICES ASSUME LogInv, [LogNext]_logVars PROVE LogInv'
  OBVIOUS
<1>1. CASE TickerFlush \/ RunClosed \/ MaintainDone
  BY <1>1, PhaseKeeps DEF TickerFlush, RunClosed, MaintainDone
<1>2. CASE Exit
  BY <1>2, FreshKeeps DEF Exit
<1>3. CASE Open
  <2>1. Len(table) \in Nat
    BY PartsNat DEF LogInv
  <2> QED  BY <1>3, <2>1, FreshKeeps DEF Open
<1>4. CASE UNCHANGED logVars
  BY <1>4 DEF logVars, LogInv, WriterShape, ClosedShape, OnItsWay, EveryRecordCounted, Holding, RowsExact
<1> QED  BY <1>1, <1>2, <1>3, <1>4, CaptureKeeps, ReceiveKeeps, AppendHandKeeps, WriteFailsKeeps,
            FlushSettles, CommitKeeps, MaintainDeletesKeeps, RunCanceledKeeps, CloseKeeps DEF LogNext, RunStep

\* The writer of the log store counts every captured record exactly once (queued, in
\* its hand or batch, written, or lost with its cause), Close leaves no accepted record
\* behind except in a batch that failed before its commit, and the row counter is the length
\* of the table through retention, failures and restarts.
THEOREM LogAccountsForAll == LogSpec => []LogSound
<1>1. LogSpec => []LogInv
  BY LogStarts, LogKeeps, PTL DEF LogSpec
<1> QED  BY <1>1, LogImplies, PTL

=============================================================================
