----------------------------- MODULE QueueReply -----------------------------
(***************************************************************************)
(* The answer to /queue (internal/discord/queue.go).  buildQueueLayout     *)
(* fills one Discord message row by row under a budget of components and   *)
(* of text; beginQueueDelivery lets a newer /queue of a channel supersede  *)
(* an older one that is still being sent.  The budgets and the sizes of    *)
(* heading, footer and rows are scaled down; an illustrated row costs      *)
(* three components, and a separator two units, as in the code.            *)
(***************************************************************************)
EXTENDS Naturals, Sequences, FiniteSets

CONSTANTS
  TextBudget, ComponentBudget,   \* queueTextBudget, queueComponentBudget
  RowSizes,                      \* sizes a row's text may have
  MaxRows,                       \* bound: songs in the queue
  Replies                        \* /queue commands of one channel

ASSUME ReplyAssumption ==
  /\ TextBudget \in Nat /\ TextBudget >= 6   \* heading and longest footer
  /\ ComponentBudget \in Nat /\ ComponentBudget >= 4
  /\ RowSizes \subseteq Nat \ {0} /\ MaxRows \in Nat

VARIABLES
  layPC,      \* "idle", "current", "rows", "laid", "refused"
  queueRange, \* first and last position asked for, and the length of the queue
  layout,     \* units and components counted, kinds and text of the rows so far
  omitted,    \* currentOmitted
  rejected,   \* size of the row that did not fit, 0 if none
  deliveries, \* id registered for the channel, 0 if none
  queueSequence,
  reply       \* per command: where it is, its id, whether its context is cancelled

layoutVars == <<layPC, queueRange, layout, omitted, rejected>>
deliveryVars == <<deliveries, queueSequence, reply>>
replyVars == <<layoutVars, deliveryVars>>

Heading == 1
Separator == 2
EmptyLayout == [units |-> Heading, components |-> 3, kinds |-> <<>>, text |-> 0, shown |-> 0]
NoReply == [pc |-> "idle", id |-> 0, canceled |-> FALSE]

ReplyInit ==
  /\ layPC = "idle" /\ queueRange = [first |-> 1, last |-> 0, total |-> 0]
  /\ layout = EmptyLayout /\ omitted = FALSE /\ rejected = 0
  /\ deliveries = 0 /\ queueSequence = 0 /\ reply = [r \in Replies |-> NoReply]

-----------------------------------------------------------------------------
\* buildQueueLayout

\* footerFor: it names the next position while songs remain, and an omitted
\* current song.
Footer(shown, without) ==
  2 + (IF queueRange.first + shown <= queueRange.total THEN 1 ELSE 0) + (IF without THEN 2 ELSE 0)

\* The options of the command; 0 stands for one that is not given.
AskQueue ==
  /\ layPC = "idle"
  /\ \E total \in 0..MaxRows, from, to, limit \in 0..(MaxRows + 1) :
       LET first == IF from = 0 THEN 1 ELSE from
           last == IF to = 0 THEN total ELSE to
           wrong == from > total \/ to > total \/ (to # 0 /\ to < first)
       IN /\ layPC' = IF wrong THEN "refused" ELSE "current"
          /\ queueRange' = [first |-> first, total |-> total,
                            last |-> IF limit # 0 /\ first <= last /\ limit < last - first + 1
                                       THEN first + limit - 1 ELSE last]
  /\ UNCHANGED <<layout, omitted, rejected, deliveryVars>>

Compacting == \E i \in DOMAIN layout.kinds : layout.kinds[i] = "compact"

\* Mutant of Kind: no component is held back for the compact tail.
KindUnreserved(art) ==
  IF art THEN IF layout.components + 3 <= ComponentBudget THEN "illustrated" ELSE "compact"
  ELSE IF ~Compacting /\ layout.components + 3 <= ComponentBudget THEN "preview" ELSE "compact"

\* Mutant of Kind: a plain row is laid out alone while one component is left.
KindOutOfOrder(art) ==
  IF art THEN IF layout.components + 4 <= ComponentBudget THEN "illustrated" ELSE "compact"
  ELSE IF layout.components + 2 <= ComponentBudget THEN "preview" ELSE "compact"

\* A row has its artwork or stands alone while components remain besides the
\* one reserved for the tail; the others share one text.
Kind(art) ==
  IF art THEN IF layout.components + 4 <= ComponentBudget THEN "illustrated" ELSE "compact"
  ELSE IF ~Compacting /\ layout.components + 4 <= ComponentBudget THEN "preview" ELSE "compact"

Cost(kind) == IF kind = "illustrated" THEN 3
              ELSE IF kind = "preview" \/ ~Compacting THEN 1 ELSE 0

\* Mutant of RowFits: the footer is left out of the candidate's text.
RowFitsBody(size, kind, shown) ==
  /\ layout.units + size <= TextBudget
  /\ layout.components + Cost(kind) <= ComponentBudget

RowFits(size, kind, shown) ==
  /\ layout.units + size + Footer(shown, omitted) <= TextBudget
  /\ layout.components + Cost(kind) <= ComponentBudget

\* add: the row with its footer, or nothing.
Add(kind, size, isSong) ==
  layout' = [units |-> layout.units + size,
             components |-> layout.components + Cost(kind),
             kinds |-> Append(layout.kinds, kind),
             text |-> layout.text + size,
             shown |-> layout.shown + (IF isSong THEN 1 ELSE 0)]

RowUnits(kind, size) == IF kind = "compact" /\ Compacting THEN size + Separator ELSE size

\* The song being played, if any, comes first and takes no position.
AddCurrent ==
  /\ layPC = "current" /\ layPC' = "rows"
  /\ \/ UNCHANGED <<layout, omitted>>
     \/ \E size \in RowSizes, art \in BOOLEAN :
          IF RowFits(size, Kind(art), 0)
            THEN Add(Kind(art), size, FALSE) /\ UNCHANGED omitted
            ELSE omitted' = TRUE /\ UNCHANGED layout
  /\ UNCHANGED <<queueRange, rejected, deliveryVars>>

More == queueRange.first + layout.shown <= queueRange.last

AddSong ==
  /\ layPC = "rows" /\ More
  /\ \E size \in RowSizes, art \in BOOLEAN :
       LET kind == Kind(art)
           units == RowUnits(kind, size)
       IN IF RowFits(units, kind, layout.shown + 1)
            THEN Add(kind, units, TRUE) /\ UNCHANGED <<layPC, rejected>>
            ELSE layPC' = "laid" /\ rejected' = units /\ UNCHANGED layout
  /\ UNCHANGED <<queueRange, omitted, deliveryVars>>

\* The footer closes the message; an empty queue has a line of its own.
LayoutDone ==
  /\ layPC = "rows" /\ ~More /\ layPC' = "laid"
  /\ layout' = IF queueRange.total = 0 /\ layout.kinds = <<>> /\ ~omitted
                 THEN [layout EXCEPT !.components = @ + 1] ELSE layout
  /\ UNCHANGED <<queueRange, omitted, rejected, deliveryVars>>

-----------------------------------------------------------------------------
\* replyQueue's delivery

Goes(r, pc) == reply' = [reply EXCEPT ![r].pc = pc]

\* beginQueueDelivery: the delivery registered for the channel is cancelled.
BeginDelivery(r) ==
  /\ reply[r] = NoReply
  /\ queueSequence' = queueSequence + 1 /\ deliveries' = queueSequence + 1
  /\ reply' = [x \in Replies |->
       IF x = r THEN [pc |-> "sending", id |-> queueSequence + 1, canceled |-> FALSE]
       ELSE IF deliveries # 0 /\ reply[x].id = deliveries
         THEN [reply[x] EXCEPT !.canceled = TRUE] ELSE reply[x]]
  /\ UNCHANGED layoutVars

\* UpdateInteractionResponse succeeds unless its context was cancelled first;
\* it fails on its own, after 20 s or by the cancellation, and the short
\* notice follows.
UpdateSent(r) ==
  /\ reply[r].pc = "sending" /\ ~reply[r].canceled
  /\ Goes(r, "finish")
  /\ UNCHANGED <<deliveries, queueSequence, layoutVars>>

UpdateFails(r) ==
  /\ reply[r].pc = "sending" /\ Goes(r, "notice")
  /\ UNCHANGED <<deliveries, queueSequence, layoutVars>>

NoticeEnds(r) ==
  /\ reply[r].pc = "notice" /\ Goes(r, "finish")
  /\ UNCHANGED <<deliveries, queueSequence, layoutVars>>

\* Mutant of FinishDelivery: whatever is registered for the channel is removed.
FinishDeliveryAny(r) ==
  /\ reply[r].pc = "finish"
  /\ reply' = [reply EXCEPT ![r].pc = "done", ![r].canceled = TRUE]
  /\ deliveries' = 0
  /\ UNCHANGED <<queueSequence, layoutVars>>

\* The deferred finish: only its own registration is removed.
FinishDelivery(r) ==
  /\ reply[r].pc = "finish"
  /\ reply' = [reply EXCEPT ![r].pc = "done", ![r].canceled = TRUE]
  /\ deliveries' = IF deliveries = reply[r].id THEN 0 ELSE deliveries
  /\ UNCHANGED <<queueSequence, layoutVars>>

DeliveryStep(r) ==
  BeginDelivery(r) \/ UpdateSent(r) \/ UpdateFails(r) \/ NoticeEnds(r) \/ FinishDelivery(r)

LayoutStep == AskQueue \/ AddCurrent \/ AddSong \/ LayoutDone

\* The layout is built before the delivery is registered and neither reads the
\* other: a behaviour exercises one of them.
ReplyNext ==
  \/ deliveries = 0 /\ queueSequence = 0 /\ LayoutStep
  \/ layPC = "idle" /\ \E r \in Replies : DeliveryStep(r)
ReplySpec == ReplyInit /\ [][ReplyNext]_replyVars

-----------------------------------------------------------------------------
Rows(kind) == Cardinality({i \in DOMAIN layout.kinds : layout.kinds[i] = kind})
RenderedComponents ==
  3 + 3 * Rows("illustrated") + Rows("preview") + (IF Compacting THEN 1 ELSE 0)

(* The message as it is rendered, with the footer of its last state, stays *)
(* within both budgets, and the shared text at the end of the body holds   *)
(* the last rows only, so the songs are in queue order.                    *)
OneMessage ==
  layPC = "laid" =>
    /\ RenderedComponents <= ComponentBudget
    /\ Heading + layout.text + Footer(layout.shown, omitted) <= TextBudget
    /\ \A i, j \in DOMAIN layout.kinds :
         i < j /\ layout.kinds[i] = "compact" => layout.kinds[j] = "compact"

(* A song asked for is left out only when its text does not fit: artwork   *)
(* never uses up the component the remaining songs need.                   *)
OnlyTextCuts ==
  layPC = "laid" /\ rejected # 0 =>
    layout.units + rejected + Footer(layout.shown + 1, omitted) > TextBudget

\* The answer fits into one message, in order, and holds every song whose text fits.
LayoutSound == OneMessage /\ OnlyTextCuts

(* At most one delivery of a channel is not cancelled: a late finish of an *)
(* older one never hides the newer one from the next /queue.               *)
Live(r) == reply[r].pc = "sending" /\ ~reply[r].canceled
OneLiveDelivery == \A r, s \in Replies : Live(r) /\ Live(s) => r = s
=============================================================================
