---------------------------- MODULE QuotaLedger ----------------------------
(***************************************************************************)
(* What the physical quota of the operational database promises to keep,   *)
(* whatever happens to the process that writes it: one ledger with the     *)
(* limit, the main-file length at the start of the WAL cycle (base) and    *)
(* the two alerts of the current episode.  A change of the ledger is       *)
(* atomic and a crash is a stuttering step.  PhysicalQuota implements it   *)
(* with two checksummed slots.                                             *)
(***************************************************************************)
EXTENDS Integers

CONSTANTS
  Limits,     \* configurable limits, in blocks
  NoLedger    \* the ledger before the quota is first created

VARIABLE ledger

\* An alert is absent, raised and not yet confirmed, or confirmed.
Absent == [pending |-> FALSE, delivered |-> FALSE]
Raised == [pending |-> TRUE, delivered |-> FALSE]
Confirmed == [pending |-> TRUE, delivered |-> TRUE]
Alerts == {Absent, Raised, Confirmed}
Thresholds == {"warn", "full"}
Entry(limit, base, episode, warn, full, armed, exhausted) ==
  [limit |-> limit, base |-> base, episode |-> episode, warn |-> warn, full |-> full,
   armed |-> armed, exhausted |-> exhausted]

LedgerInit == ledger = NoLedger

Create ==
  /\ ledger = NoLedger
  /\ ledger' # NoLedger /\ ledger'.base \in Nat
  /\ \E l \in Limits : ledger' = Entry(l, ledger'.base, 0, Absent, Absent, TRUE, FALSE)

\* A new WAL cycle starts from another main-file length.
Rebase ==
  /\ ledger # NoLedger
  /\ ledger' # NoLedger /\ ledger'.base \in Nat
  /\ ledger' = [ledger EXCEPT !.base = ledger'.base]

\* Usage crosses a threshold within the current episode: an absent alert may
\* be raised, nothing raised is taken back.
Cross ==
  /\ ledger # NoLedger
  /\ \E a, e \in BOOLEAN, w \in {ledger.warn, Raised}, f \in {ledger.full, Raised} :
       /\ ledger.warn = Absent \/ w = ledger.warn
       /\ ledger.full = Absent \/ f = ledger.full
       /\ ledger' = Entry(ledger.limit, ledger.base, ledger.episode, w, f, a, e)

\* The next episode starts only when nothing raised is still unconfirmed, and
\* it starts with an alert.
NextEpisode ==
  /\ ledger # NoLedger
  /\ ledger.warn # Raised /\ ledger.full # Raised
  /\ \E e \in BOOLEAN, w, f \in {Absent, Raised} :
       /\ w = Raised \/ f = Raised
       /\ ledger' = Entry(ledger.limit, ledger.base, ledger.episode + 1, w, f, FALSE, e)

\* Discord accepted one raised alert.
Confirm ==
  /\ ledger # NoLedger
  /\ \E t \in Thresholds : ledger[t] = Raised /\ ledger' = [ledger EXCEPT ![t] = Confirmed]

LedgerNext == Create \/ Rebase \/ Cross \/ NextEpisode \/ Confirm

LedgerSpec == LedgerInit /\ [][LedgerNext]_ledger
=============================================================================
