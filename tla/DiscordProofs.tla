--------------------------- MODULE DiscordProofs ----------------------------
(*************************************************************************)
(* What the bot does at Discord: the layout and the delivery of /queue,  *)
(* the REST rate limiter, the voice gateway session of an incident and   *)
(* the announcements, for any number of requests, routes, channels, rows *)
(* and replies.                                                          *)
(*************************************************************************)
EXTENDS QueueReply, RestLimiter, IncidentGateway, Announcements, FiniteSetTheorems, TLAPS

\* QueueReply: at most one delivery is not cancelled.

States == {"idle", "sending", "notice", "finish", "done"}

\* What the deliveries look like.
DeliveryTypeOK ==
  /\ queueSequence \in Nat /\ deliveries \in 0..queueSequence
  /\ reply \in [Replies -> [pc : States, id : Nat, canceled : BOOLEAN]]

\* Identifiers come from the sequence and are not shared.
IdsDistinct ==
  /\ \A r \in Replies : reply[r].id <= queueSequence
  /\ \A r \in Replies : reply[r].pc # "idle" => reply[r].id # 0
  /\ \A r, s \in Replies : reply[r].id = reply[s].id /\ reply[r].id # 0 => r = s

\* The registration of a live delivery is not removed by others.
LiveIsRegistered == \A r \in Replies : Live(r) => reply[r].id = deliveries

DeliveryInv == DeliveryTypeOK /\ IdsDistinct /\ LiveIsRegistered

\* Only one command can own the registered identifier.
LEMMA InvImpliesOneLive == DeliveryInv => OneLiveDelivery
<1> SUFFICES ASSUME DeliveryInv, NEW r \in Replies, NEW s \in Replies, Live(r), Live(s)
             PROVE  r = s
  BY DEF OneLiveDelivery
<1>1. reply[r].id = reply[s].id
  BY DEF DeliveryInv, LiveIsRegistered
<1>2. reply[r].id # 0
  BY DEF DeliveryInv, IdsDistinct, Live
<1> QED  BY <1>1, <1>2 DEF DeliveryInv, IdsDistinct

\* The initial state.
LEMMA InitDelivery == ReplyInit => DeliveryInv
BY DEF ReplyInit, NoReply, DeliveryInv, DeliveryTypeOK, IdsDistinct, LiveIsRegistered, Live, States

\* A step that leaves the deliveries alone.
LEMMA LayoutKeeps == ASSUME DeliveryInv, UNCHANGED deliveryVars PROVE DeliveryInv'
BY DEF DeliveryInv, DeliveryTypeOK, IdsDistinct, LiveIsRegistered, Live, deliveryVars

\* A newer /queue supersedes the registered delivery.
LEMMA BeginKeeps ==
  ASSUME DeliveryInv, NEW r \in Replies, BeginDelivery(r) PROVE DeliveryInv'
<1> USE DEF DeliveryInv, BeginDelivery, NoReply
<1>1. DeliveryTypeOK'
  <2>1. queueSequence' \in Nat /\ deliveries' \in 0..queueSequence'
    BY DEF DeliveryTypeOK
  <2>2. \A x \in Replies : reply'[x] \in [pc : States, id : Nat, canceled : BOOLEAN]
    <3> TAKE x \in Replies
    <3>1. reply[x] \in [pc : States, id : Nat, canceled : BOOLEAN]
      BY DEF DeliveryTypeOK
    <3>2. CASE x = r
      BY <3>2 DEF DeliveryTypeOK, States
    <3>3. CASE x # r /\ reply'[x] = [reply[x] EXCEPT !.canceled = TRUE]
      BY <3>1, <3>3
    <3>4. CASE x # r /\ reply'[x] = reply[x]
      BY <3>1, <3>4
    <3> QED  BY <3>2, <3>3, <3>4
  <2>3. reply' = [x \in Replies |-> reply'[x]]
    OBVIOUS
  <2> QED  BY <2>1, <2>2, <2>3 DEF DeliveryTypeOK
<1>2. IdsDistinct'
  BY DEF DeliveryTypeOK, IdsDistinct, States
<1>3. LiveIsRegistered'
  <2> SUFFICES ASSUME NEW x \in Replies, Live(x)' PROVE reply'[x].id = deliveries'
    BY DEF LiveIsRegistered
  <2>1. CASE x = r
    BY <2>1 DEF DeliveryTypeOK
  <2>2. CASE x # r
    <3>1. Live(x)
      BY <2>2 DEF DeliveryTypeOK, Live
    <3>2. deliveries # 0 /\ reply[x].id = deliveries
      BY <3>1 DEF LiveIsRegistered, IdsDistinct, Live
    <3>3. reply'[x].canceled
      BY <2>2, <3>2 DEF DeliveryTypeOK
    <3> QED  BY <3>3 DEF Live
  <2> QED  BY <2>1, <2>2
<1> QED  BY <1>1, <1>2, <1>3

\* The message or the short notice is sent.
LEMMA SendKeeps ==
  ASSUME DeliveryInv, NEW r \in Replies, UpdateSent(r) \/ UpdateFails(r) \/ NoticeEnds(r)
  PROVE  DeliveryInv'
<1> USE DEF DeliveryInv, UpdateSent, UpdateFails, NoticeEnds, Goes
<1>1. DeliveryTypeOK'
  BY DEF DeliveryTypeOK, States
<1>2. IdsDistinct'
  BY DEF DeliveryTypeOK, IdsDistinct, States
<1>3. LiveIsRegistered'
  BY DEF DeliveryTypeOK, LiveIsRegistered, Live, States
<1> QED  BY <1>1, <1>2, <1>3

\* The identifier removed is that of a delivery that is no longer live.
LEMMA FinishKeeps ==
  ASSUME DeliveryInv, NEW r \in Replies, FinishDelivery(r) PROVE DeliveryInv'
<1> USE DEF DeliveryInv, FinishDelivery
<1>1. DeliveryTypeOK'
  <2>1. queueSequence' \in Nat /\ deliveries' \in 0..queueSequence'
    BY DEF DeliveryTypeOK
  <2>2. reply[r] \in [pc : States, id : Nat, canceled : BOOLEAN]
    BY DEF DeliveryTypeOK
  <2>3. [reply[r] EXCEPT !.pc = "done", !.canceled = TRUE]
          \in [pc : States, id : Nat, canceled : BOOLEAN]
    BY <2>2 DEF States
  <2> QED  BY <2>1, <2>3 DEF DeliveryTypeOK
<1>2. IdsDistinct'
  BY DEF DeliveryTypeOK, IdsDistinct, States
<1>3. LiveIsRegistered'
  <2> SUFFICES ASSUME NEW x \in Replies, Live(x)' PROVE reply'[x].id = deliveries'
    BY DEF LiveIsRegistered
  <2>1. x # r /\ Live(x) /\ reply'[x].id = reply[x].id
    BY DEF DeliveryTypeOK, Live
  <2>2. reply[x].id = deliveries /\ deliveries # 0
    BY <2>1 DEF LiveIsRegistered, IdsDistinct, Live
  <2>3. deliveries # reply[r].id
    BY <2>1, <2>2 DEF IdsDistinct
  <2> QED  BY <2>1, <2>2, <2>3
<1> QED  BY <1>1, <1>2, <1>3

\* Every step keeps the deliveries sound.
LEMMA StepKeeps == DeliveryInv /\ [ReplyNext]_replyVars => DeliveryInv'
<1> SUFFICES ASSUME DeliveryInv, [ReplyNext]_replyVars PROVE DeliveryInv'
  OBVIOUS
<1>1. CASE LayoutStep
  <2>1. UNCHANGED deliveryVars
    BY <1>1 DEF LayoutStep, AskQueue, AddCurrent, AddSong, LayoutDone
  <2> QED  BY <2>1, LayoutKeeps
<1>2. ASSUME NEW r \in Replies, DeliveryStep(r) PROVE DeliveryInv'
  BY <1>2, BeginKeeps, SendKeeps, FinishKeeps DEF DeliveryStep
<1>3. CASE UNCHANGED replyVars
  BY <1>3, LayoutKeeps DEF replyVars
<1> QED  BY <1>1, <1>2, <1>3 DEF ReplyNext

\* A /queue that supersedes another finds it registered, whatever finished before:
\* beginQueueDelivery leaves at most one delivery of the channel that is not cancelled.
THEOREM OneDelivery == ReplySpec => []OneLiveDelivery
<1>1. ReplySpec => []DeliveryInv
  BY InitDelivery, StepKeeps, PTL DEF ReplySpec
<1> QED  BY <1>1, InvImpliesOneLive, PTL

-----------------------------------------------------------------------------
\* QueueReply: an answer fits one message, and only its text cuts it short.
Kinds == {"illustrated", "preview", "compact"}
\* The rows of a kind, whether some are in the shared text, and the components of them all.
CountIn(s, kind) == Cardinality({i \in DOMAIN s : s[i] = kind})
Mixed(s) == \E i \in DOMAIN s : s[i] = "compact"
Rendered(s) == 3 + 3 * CountIn(s, "illustrated") + CountIn(s, "preview") + (IF Mixed(s) THEN 1 ELSE 0)
Layouts == [units : Nat, components : Nat, kinds : Seq(Kinds), text : Nat, shown : Nat]

\* What the layout looks like; its units are the heading and the rows.
LayoutShape ==
  /\ layPC \in {"idle", "current", "rows", "laid", "refused"}
  /\ queueRange \in [first : Nat, last : Nat, total : Nat]
  /\ layout \in Layouts /\ omitted \in BOOLEAN /\ rejected \in Nat
  /\ layout.units = Heading + layout.text

\* Nothing is laid out before the rows begin.
Unbuilt ==
  /\ layPC \in {"idle", "current", "refused"} => layout = EmptyLayout /\ ~omitted
  /\ layPC # "laid" => rejected = 0

\* The components counted are the ones rendered, one is left for the shared text
\* until there is one, and then no row can have artwork or stand alone any more.
ComponentsCounted ==
  /\ Rendered(layout.kinds) <= ComponentBudget
  /\ layPC # "laid" =>
       /\ layout.components = Rendered(layout.kinds)
       /\ ~Compacting => layout.components + 1 <= ComponentBudget
       /\ Compacting => layout.components + 4 > ComponentBudget

\* The shared text is the end of the list.
CompactLast(s) == \A i, j \in DOMAIN s : i < j /\ s[i] = "compact" => s[j] = "compact"

\* The invariant of the layout.
LayoutInv ==
  /\ LayoutShape /\ Unbuilt /\ ComponentsCounted
  /\ CompactLast(layout.kinds)
  /\ layout.units + Footer(layout.shown, omitted) <= TextBudget
  /\ OnlyTextCuts

-----------------------------------------------------------------------------
\* The rows of each kind.
LEMMA CountFacts ==
  ASSUME NEW s \in Seq(Kinds), NEW kind
  PROVE  IsFiniteSet({i \in DOMAIN s : s[i] = kind}) /\ CountIn(s, kind) \in Nat
<1>1. DOMAIN s = 1..Len(s) /\ Len(s) \in Nat
  OBVIOUS
<1>2. IsFiniteSet(1..Len(s))
  BY <1>1, FS_Interval
<1>3. IsFiniteSet({i \in DOMAIN s : s[i] = kind})
  BY <1>1, <1>2, FS_Subset
<1> QED BY <1>3, FS_CardinalityType DEF CountIn

\* One more row of a kind.
LEMMA CountAppend ==
  ASSUME NEW s \in Seq(Kinds), NEW k \in Kinds, NEW kind
  PROVE  CountIn(Append(s, k), kind) = CountIn(s, kind) + (IF k = kind THEN 1 ELSE 0)
<1> DEFINE n == Len(s) + 1
           S == {i \in DOMAIN s : s[i] = kind}
           T == {i \in DOMAIN Append(s, k) : Append(s, k)[i] = kind}
<1>1. /\ DOMAIN s = 1..Len(s) /\ DOMAIN Append(s, k) = 1..n /\ Len(s) \in Nat
      /\ Append(s, k)[n] = k /\ \A i \in 1..Len(s) : Append(s, k)[i] = s[i]
  OBVIOUS
<1>2. n \notin S /\ T = IF k = kind THEN S \cup {n} ELSE S
  BY <1>1
<1>3. IsFiniteSet(S) /\ Cardinality(S) \in Nat
  BY CountFacts DEF CountIn
<1>4. CountIn(s, kind) = Cardinality(S) /\ CountIn(Append(s, k), kind) = Cardinality(T)
  BY DEF CountIn
<1> HIDE DEF n, S, T
<1>5. CASE k = kind
  BY <1>2, <1>3, <1>4, <1>5, FS_AddElement
<1>6. CASE k # kind
  BY <1>2, <1>3, <1>4, <1>6
<1> QED BY <1>5, <1>6

\* The shared text appears with the first compact row.
LEMMA MixedAppend ==
  ASSUME NEW s \in Seq(Kinds), NEW k \in Kinds
  PROVE  Mixed(Append(s, k)) <=> Mixed(s) \/ k = "compact"
<1>1. /\ DOMAIN s = 1..Len(s) /\ DOMAIN Append(s, k) = 1..(Len(s) + 1) /\ Len(s) \in Nat
      /\ Append(s, k)[Len(s) + 1] = k /\ \A i \in 1..Len(s) : Append(s, k)[i] = s[i]
  OBVIOUS
<1> QED BY <1>1 DEF Mixed

\* What a row adds to the components.
LEMMA RenderedAppend ==
  ASSUME NEW s \in Seq(Kinds), NEW k \in Kinds
  PROVE  /\ Rendered(s) \in Nat /\ Rendered(Append(s, k)) \in Nat
         /\ Rendered(Append(s, k)) = Rendered(s) +
              (IF k = "illustrated" THEN 3 ELSE IF k = "preview" \/ ~Mixed(s) THEN 1 ELSE 0)
<1> DEFINE a == CountIn(s, "illustrated") b == CountIn(s, "preview")
           c == CountIn(Append(s, k), "illustrated") d == CountIn(Append(s, k), "preview")
<1>1. a \in Nat /\ b \in Nat
  BY CountFacts
<1>2. /\ c = a + (IF k = "illustrated" THEN 1 ELSE 0)
      /\ d = b + (IF k = "preview" THEN 1 ELSE 0)
  BY CountAppend
<1>3. Mixed(Append(s, k)) <=> Mixed(s) \/ k = "compact"
  BY MixedAppend
<1>4. /\ Rendered(s) = 3 + 3 * a + b + (IF Mixed(s) THEN 1 ELSE 0)
      /\ Rendered(Append(s, k)) = 3 + 3 * c + d + (IF Mixed(Append(s, k)) THEN 1 ELSE 0)
  BY DEF Rendered
<1> HIDE DEF a, b, c, d
<1> QED BY <1>1, <1>2, <1>3, <1>4 DEF Kinds

\* A row laid out after a compact one is compact.
LEMMA CompactAppend ==
  ASSUME NEW s \in Seq(Kinds), NEW k \in Kinds, CompactLast(s), Mixed(s) => k = "compact"
  PROVE  CompactLast(Append(s, k))
<1>1. /\ DOMAIN s = 1..Len(s) /\ DOMAIN Append(s, k) = 1..(Len(s) + 1) /\ Len(s) \in Nat
      /\ Append(s, k)[Len(s) + 1] = k /\ \A i \in 1..Len(s) : Append(s, k)[i] = s[i]
  OBVIOUS
<1> QED BY <1>1 DEF CompactLast, Mixed

\* The footer takes at most five units.
LEMMA FooterSmall ==
  ASSUME queueRange \in [first : Nat, last : Nat, total : Nat], NEW n \in Nat, NEW w \in BOOLEAN
  PROVE  Footer(n, w) \in 0..5
BY DEF Footer

-----------------------------------------------------------------------------
\* The answer before any row.
LEMMA EmptyFacts ==
  /\ EmptyLayout \in Layouts /\ EmptyLayout.units = 1 /\ EmptyLayout.components = 3 /\ EmptyLayout.kinds = <<>>
  /\ EmptyLayout.text = 0 /\ EmptyLayout.shown = 0
  /\ Rendered(<<>>) = 3 /\ ~Mixed(<<>>) /\ CompactLast(<<>>)
<1>1. \A k : CountIn(<<>>, k) = 0
  <2> TAKE k
  <2>1. {i \in DOMAIN <<>> : <<>>[i] = k} = {}
    OBVIOUS
  <2> QED BY <2>1, FS_EmptySet DEF CountIn
<1>2. ~Mixed(<<>>) /\ CompactLast(<<>>)
  BY DEF Mixed, CompactLast
<1>3. Rendered(<<>>) = 3
  BY <1>1, <1>2 DEF Rendered
<1> QED BY <1>2, <1>3 DEF EmptyLayout, Layouts, Heading

\* The names the model uses for the rows.
LEMMA NamesAre ==
  /\ Compacting <=> Mixed(layout.kinds)
  /\ RenderedComponents = Rendered(layout.kinds)
BY DEF Compacting, Mixed, RenderedComponents, Rendered, Rows, CountIn

\* The initial state.
LEMMA LayoutStarts == ReplyInit => LayoutInv
<1> SUFFICES ASSUME ReplyInit PROVE LayoutInv
  OBVIOUS
<1>1. /\ layPC = "idle" /\ queueRange = [first |-> 1, last |-> 0, total |-> 0] /\ layout = EmptyLayout
      /\ omitted = FALSE /\ rejected = 0
  BY DEF ReplyInit
<1>2. queueRange \in [first : Nat, last : Nat, total : Nat]
  BY <1>1
<1>3. layout.shown \in Nat /\ omitted \in BOOLEAN /\ layout.units = 1 /\ layout.text = 0 /\ layout \in Layouts
  <2>1. layout = EmptyLayout /\ omitted \in BOOLEAN
    BY <1>1
  <2> QED BY <2>1, EmptyFacts
<1>4. LayoutShape /\ Unbuilt
  <2>1. LayoutShape
    BY <1>1, <1>2, <1>3 DEF LayoutShape, Heading
  <2> QED BY <1>1, <2>1 DEF Unbuilt
<1>5. ComponentsCounted /\ CompactLast(layout.kinds)
  BY <1>1, EmptyFacts, NamesAre, ReplyAssumption DEF ComponentsCounted
<1>6. layout.units + Footer(layout.shown, omitted) <= TextBudget
  <2>1. Footer(layout.shown, omitted) \in 0..5
    BY <1>2, <1>3, FooterSmall
  <2> QED BY <1>3, <2>1, ReplyAssumption
<1>7. OnlyTextCuts
  BY <1>1 DEF OnlyTextCuts
<1> QED BY <1>4, <1>5, <1>6, <1>7 DEF LayoutInv

\* The options of the command are read.
LEMMA AskKeeps == ASSUME LayoutInv, AskQueue PROVE LayoutInv'
<1>1. /\ layPC = "idle" /\ layPC' \in {"refused", "current"} /\ UNCHANGED <<layout, omitted, rejected>>
      /\ layout = EmptyLayout /\ ~omitted /\ rejected = 0
  BY DEF LayoutInv, Unbuilt, AskQueue
<1>2. queueRange' \in [first : Nat, last : Nat, total : Nat]
  <2>1. PICK total \in 0..MaxRows, from \in 0..(MaxRows + 1), to \in 0..(MaxRows + 1), limit \in 0..(MaxRows + 1) :
          LET first == IF from = 0 THEN 1 ELSE from
              last == IF to = 0 THEN total ELSE to
          IN queueRange' = [first |-> first, total |-> total,
                            last |-> IF limit # 0 /\ first <= last /\ limit < last - first + 1
                                       THEN first + limit - 1 ELSE last]
    BY DEF AskQueue
  <2> DEFINE f == IF from = 0 THEN 1 ELSE from
             l == IF to = 0 THEN total ELSE to
             m == IF limit # 0 /\ f <= l /\ limit < l - f + 1 THEN f + limit - 1 ELSE l
  <2>2. queueRange' = [first |-> f, total |-> total, last |-> m]
    BY <2>1
  <2>3. f \in Nat /\ l \in Nat /\ total \in Nat /\ m \in Nat
    BY ReplyAssumption
  <2> HIDE DEF f, l, m
  <2> QED BY <2>2, <2>3
<1>3. LayoutShape' /\ Unbuilt'
  BY <1>1, <1>2 DEF LayoutInv, LayoutShape, Unbuilt
<1>4. ComponentsCounted' /\ CompactLast(layout.kinds)'
  BY <1>1 DEF LayoutInv, ComponentsCounted, Compacting, CompactLast
<1>5. (layout.units + Footer(layout.shown, omitted) <= TextBudget)'
  <2>1. Footer(layout.shown, omitted)' \in 0..5
    BY <1>1, <1>2, EmptyFacts DEF Footer
  <2> QED BY <1>1, <2>1, EmptyFacts, ReplyAssumption
<1>6. OnlyTextCuts'
  BY <1>1 DEF OnlyTextCuts
<1> QED BY <1>3, <1>4, <1>5, <1>6 DEF LayoutInv

\* The kind of the next row, and what it costs.
LEMMA KindFacts ==
  ASSUME LayoutInv, layPC # "laid", NEW art \in BOOLEAN
  PROVE  /\ Kind(art) \in Kinds /\ Cost(Kind(art)) \in Nat
         /\ Mixed(layout.kinds) => Kind(art) = "compact"
         /\ Kind(art) # "compact" => layout.components + 4 <= ComponentBudget
         /\ Kind(art) = "compact" /\ ~Mixed(layout.kinds) => layout.components + 4 > ComponentBudget
         /\ layout.components + Cost(Kind(art)) <= ComponentBudget
         /\ Cost(Kind(art)) = IF Kind(art) = "illustrated" THEN 3
                              ELSE IF Kind(art) = "preview" \/ ~Mixed(layout.kinds) THEN 1 ELSE 0
<1>1. /\ layout.components \in Nat /\ ComponentBudget \in Nat
      /\ layout.components <= ComponentBudget
      /\ ~Compacting => layout.components + 1 <= ComponentBudget
      /\ Compacting => layout.components + 4 > ComponentBudget
  BY ReplyAssumption DEF LayoutInv, LayoutShape, Layouts, ComponentsCounted
<1> QED BY <1>1, NamesAre DEF Kind, Cost, Kinds

\* A row that fits is added.
LEMMA AddKeeps ==
  ASSUME LayoutInv, layPC \in {"current", "rows"}, layPC' = "rows", NEW art \in BOOLEAN, NEW size \in Nat,
         NEW isSong \in BOOLEAN, Add(Kind(art), size, isSong), UNCHANGED <<queueRange, omitted, rejected>>,
         layout.units + size + Footer(layout.shown + (IF isSong THEN 1 ELSE 0), omitted) <= TextBudget
  PROVE  LayoutInv'
<1> DEFINE k == Kind(art) c == Cost(Kind(art)) s == layout.kinds
           n == layout.shown + (IF isSong THEN 1 ELSE 0)
<1>1. /\ k \in Kinds /\ c \in Nat /\ (Mixed(s) => k = "compact")
      /\ k # "compact" => layout.components + 4 <= ComponentBudget
      /\ k = "compact" /\ ~Mixed(s) => layout.components + 4 > ComponentBudget
      /\ layout.components + c <= ComponentBudget
      /\ c = IF k = "illustrated" THEN 3 ELSE IF k = "preview" \/ ~Mixed(s) THEN 1 ELSE 0
  BY KindFacts
<1>2. /\ s \in Seq(Kinds) /\ layout.units \in Nat /\ layout.components \in Nat /\ layout.text \in Nat
      /\ layout.shown \in Nat /\ layout.units = Heading + layout.text /\ CompactLast(s)
      /\ layout.components = Rendered(s) /\ rejected = 0 /\ ComponentBudget \in Nat
      /\ Mixed(s) => layout.components + 4 > ComponentBudget
  BY NamesAre, ReplyAssumption DEF LayoutInv, LayoutShape, Layouts, ComponentsCounted, Unbuilt
<1>3. layout' = [units |-> layout.units + size, components |-> layout.components + c, kinds |-> Append(s, k),
                 text |-> layout.text + size, shown |-> n]
  BY DEF Add
<1>4. /\ Rendered(Append(s, k)) \in Nat
      /\ Rendered(Append(s, k)) = Rendered(s) + c
      /\ CompactLast(Append(s, k)) /\ Append(s, k) \in Seq(Kinds)
      /\ Mixed(Append(s, k)) <=> Mixed(s) \/ k = "compact"
  BY <1>1, <1>2, RenderedAppend, CompactAppend, MixedAppend
<1>5. n \in Nat
  BY <1>2
<1>6. layout.units + size + Footer(n, omitted) <= TextBudget
  OBVIOUS
<1>7. layout'.shown = n => Footer(layout.shown, omitted)' = Footer(n, omitted)
  BY DEF Footer
<1> HIDE DEF k, c, s, n
<1>8. /\ layout' \in Layouts /\ layout'.units = layout.units + size /\ layout'.components = layout.components + c
      /\ layout'.kinds = Append(s, k) /\ layout'.text = layout.text + size /\ layout'.shown = n
  <2> DEFINE u == layout.units + size d == layout.components + c x == layout.text + size q == Append(s, k)
  <2>1. u \in Nat /\ d \in Nat /\ x \in Nat /\ q \in Seq(Kinds)
    BY <1>1, <1>2, <1>4
  <2>2. layout' = [units |-> u, components |-> d, kinds |-> q, text |-> x, shown |-> n]
    BY <1>3
  <2> HIDE DEF u, d, x, q
  <2>3. layout' \in Layouts /\ layout'.units = u /\ layout'.components = d /\ layout'.kinds = q /\ layout'.text = x /\ layout'.shown = n
    BY <1>5, <2>1, <2>2 DEF Layouts
  <2> QED BY <2>3 DEF u, d, x, q
<1>9. LayoutShape' /\ Unbuilt'
  BY <1>2, <1>8 DEF LayoutInv, LayoutShape, Unbuilt, Heading
<1>10. Compacting' <=> Mixed(Append(s, k))
  BY <1>8 DEF Compacting, Mixed
<1>11. ComponentsCounted'
  BY <1>1, <1>2, <1>4, <1>8, <1>10 DEF ComponentsCounted, Kinds
<1>12. (layout.units + Footer(layout.shown, omitted) <= TextBudget)'
  BY <1>6, <1>7, <1>8
<1>13. OnlyTextCuts'
  BY <1>2 DEF OnlyTextCuts
<1> QED BY <1>4, <1>8, <1>9, <1>11, <1>12, <1>13 DEF LayoutInv

\* The layout pauses: the same rows, another step.
LEMMA SameRows ==
  ASSUME LayoutInv, layPC \in {"current", "rows"}, layPC' \in {"rows", "laid"}, UNCHANGED <<queueRange, layout>>,
         omitted' \in BOOLEAN, omitted' # omitted => layout = EmptyLayout,
         rejected' \in Nat, layPC' = "rows" => rejected' = 0,
         rejected' # 0 => UNCHANGED omitted /\ layout.units + rejected' + Footer(layout.shown + 1, omitted) > TextBudget
  PROVE  LayoutInv'
<1>1. LayoutShape' /\ Unbuilt'
  BY DEF LayoutInv, LayoutShape, Unbuilt
<1>2. ComponentsCounted' /\ CompactLast(layout.kinds)'
  BY DEF LayoutInv, ComponentsCounted, Compacting, CompactLast
<1>3. (layout.units + Footer(layout.shown, omitted) <= TextBudget)'
  <2>1. CASE UNCHANGED omitted
    BY <2>1 DEF LayoutInv, Footer
  <2>2. CASE layout = EmptyLayout
    <3>1. Footer(layout.shown, omitted)' \in 0..5
      BY <2>2, EmptyFacts DEF Footer
    <3> QED BY <2>2, <3>1, EmptyFacts, ReplyAssumption
  <2> QED BY <2>1, <2>2
<1>4. OnlyTextCuts'
  <2>1. UNCHANGED omitted => Footer(layout.shown + 1, omitted)' = Footer(layout.shown + 1, omitted)
    BY DEF Footer
  <2> QED BY <2>1 DEF OnlyTextCuts
<1> QED BY <1>1, <1>2, <1>3, <1>4 DEF LayoutInv

\* The song being played comes first, or is left out.
LEMMA CurrentKeeps == ASSUME LayoutInv, AddCurrent PROVE LayoutInv'
<1>1. layPC = "current" /\ layPC' = "rows" /\ UNCHANGED <<queueRange, rejected>> /\ layout = EmptyLayout /\ ~omitted /\ rejected = 0
  BY DEF AddCurrent, LayoutInv, Unbuilt
<1>2. CASE UNCHANGED <<layout, omitted>>
  BY <1>1, <1>2, SameRows DEF LayoutInv, LayoutShape
<1>3. CASE omitted' = TRUE /\ UNCHANGED layout
  BY <1>1, <1>3, SameRows DEF LayoutInv, LayoutShape
<1>4. ASSUME NEW size \in RowSizes, NEW art \in BOOLEAN, RowFits(size, Kind(art), 0), Add(Kind(art), size, FALSE),
             UNCHANGED omitted
      PROVE  LayoutInv'
  <2>1. layout.shown + (IF FALSE THEN 1 ELSE 0) = 0 /\ size \in Nat
    BY <1>1, EmptyFacts, ReplyAssumption
  <2>2. layout.units + size + Footer(layout.shown + (IF FALSE THEN 1 ELSE 0), omitted) <= TextBudget
    BY <1>4, <2>1 DEF RowFits
  <2> QED BY <1>1, <1>4, <2>1, <2>2, AddKeeps
<1> QED BY <1>2, <1>3, <1>4 DEF AddCurrent

\* A song is added, or its text does not fit.
LEMMA SongKeeps == ASSUME LayoutInv, AddSong PROVE LayoutInv'
<1>1. layPC = "rows" /\ UNCHANGED <<queueRange, omitted>> /\ rejected = 0
  BY DEF AddSong, LayoutInv, Unbuilt
<1>2. PICK size \in RowSizes, art \in BOOLEAN :
        LET kind == Kind(art)
            units == RowUnits(kind, size)
        IN IF RowFits(units, kind, layout.shown + 1)
             THEN Add(kind, units, TRUE) /\ UNCHANGED <<layPC, rejected>>
             ELSE layPC' = "laid" /\ rejected' = units /\ UNCHANGED layout
  BY DEF AddSong
<1> DEFINE units == RowUnits(Kind(art), size)
<1>3. units \in Nat
  BY ReplyAssumption DEF RowUnits, Separator
<1>4. layout.components + Cost(Kind(art)) <= ComponentBudget
  BY <1>1, KindFacts
<1>5. \/ RowFits(units, Kind(art), layout.shown + 1) /\ Add(Kind(art), units, TRUE) /\ UNCHANGED <<layPC, rejected>>
      \/ ~RowFits(units, Kind(art), layout.shown + 1) /\ layPC' = "laid" /\ rejected' = units /\ UNCHANGED layout
  BY <1>2
<1> HIDE DEF units
<1>6. ASSUME RowFits(units, Kind(art), layout.shown + 1), Add(Kind(art), units, TRUE), UNCHANGED <<layPC, rejected>>
      PROVE  LayoutInv'
  <2>1. layout.units + units + Footer(layout.shown + (IF TRUE THEN 1 ELSE 0), omitted) <= TextBudget
    BY <1>6 DEF RowFits
  <2> QED BY <1>1, <1>3, <1>6, <2>1, AddKeeps
<1>7. ASSUME ~RowFits(units, Kind(art), layout.shown + 1), layPC' = "laid", rejected' = units, UNCHANGED layout
      PROVE  LayoutInv'
  <2>1. Footer(layout.shown + 1, omitted) \in 0..5 /\ layout.units \in Nat
    BY FooterSmall DEF LayoutInv, LayoutShape, Layouts
  <2>2. layout.units + units + Footer(layout.shown + 1, omitted) > TextBudget
    BY <1>3, <1>4, <1>7, <2>1, ReplyAssumption DEF RowFits
  <2> QED BY <1>1, <1>3, <1>7, <2>2, SameRows DEF LayoutInv, LayoutShape
<1> QED BY <1>5, <1>6, <1>7

\* The footer closes the message.
LEMMA DoneKeeps == ASSUME LayoutInv, LayoutDone PROVE LayoutInv'
<1>1. layPC = "rows" /\ layPC' = "laid" /\ UNCHANGED <<queueRange, omitted, rejected>> /\ rejected = 0 /\ omitted \in BOOLEAN
  BY DEF LayoutDone, LayoutInv, Unbuilt, LayoutShape
<1>2. CASE layout' = layout
  BY <1>1, <1>2, SameRows
<1>3. CASE layout' = [layout EXCEPT !.components = @ + 1]
  <2>1. /\ layout' \in Layouts /\ layout'.units = layout.units /\ layout'.kinds = layout.kinds
        /\ layout'.text = layout.text /\ layout'.shown = layout.shown
    BY <1>3 DEF LayoutInv, LayoutShape, Layouts
  <2>2. LayoutShape' /\ Unbuilt'
    BY <1>1, <2>1 DEF LayoutInv, LayoutShape, Unbuilt
  <2>3. ComponentsCounted' /\ CompactLast(layout.kinds)'
    BY <1>1, <2>1 DEF LayoutInv, ComponentsCounted
  <2>4. Footer(layout.shown, omitted)' = Footer(layout.shown, omitted)
    BY <1>1, <2>1 DEF Footer
  <2>5. OnlyTextCuts'
    BY <1>1 DEF OnlyTextCuts
  <2> QED BY <2>1, <2>2, <2>3, <2>4, <2>5 DEF LayoutInv
<1> QED BY <1>2, <1>3 DEF LayoutDone

\* Every step keeps the layout sound.
LEMMA LayoutInvKept == LayoutInv /\ [ReplyNext]_replyVars => LayoutInv'
<1> SUFFICES ASSUME LayoutInv, [ReplyNext]_replyVars PROVE LayoutInv'
  OBVIOUS
<1>1. CASE UNCHANGED layoutVars
  <2>1. UNCHANGED <<layPC, queueRange, layout, omitted, rejected>>
    BY <1>1 DEF layoutVars
  <2> QED BY <2>1 DEF LayoutInv, LayoutShape, Unbuilt, ComponentsCounted, Compacting, CompactLast, OnlyTextCuts, Footer
<1>2. CASE LayoutStep
  BY <1>2, AskKeeps, CurrentKeeps, SongKeeps, DoneKeeps DEF LayoutStep
<1>3. ASSUME NEW r \in Replies, DeliveryStep(r) PROVE UNCHANGED layoutVars
  BY <1>3 DEF DeliveryStep, BeginDelivery, UpdateSent, UpdateFails, NoticeEnds, FinishDelivery
<1> QED BY <1>1, <1>2, <1>3 DEF ReplyNext, replyVars

\* The invariant implies the property.
LEMMA LayoutImplies == LayoutInv => LayoutSound
<1> SUFFICES ASSUME LayoutInv PROVE LayoutSound
  OBVIOUS
<1>1. RenderedComponents <= ComponentBudget
  BY NamesAre DEF LayoutInv, ComponentsCounted
<1>2. Heading + layout.text + Footer(layout.shown, omitted) <= TextBudget
  BY DEF LayoutInv, LayoutShape
<1>3. OneMessage
  BY <1>1, <1>2 DEF OneMessage, LayoutInv, CompactLast
<1> QED BY <1>3 DEF LayoutSound, LayoutInv

\* An answer of /queue (listQueue and its layout, queue.go) never exceeds the text
\* or the component budget of one message, shows rows in order with the compact
\* ones last, and leaves a song out only because its text does not fit.
THEOREM AnswerFits == ReplySpec => []LayoutSound
<1>1. ReplyInit => LayoutInv
  BY LayoutStarts
<1>2. LayoutInv /\ [ReplyNext]_replyVars => LayoutInv'
  BY LayoutInvKept
<1>3. LayoutInv => LayoutSound
  BY LayoutImplies
<1> QED BY <1>1, <1>2, <1>3, PTL DEF ReplySpec

-----------------------------------------------------------------------------
\* RestLimiter: a route is not left locked.

\* What the buckets and the requests look like.
Buckets == [holder : Requests \cup {None}, limited : BOOLEAN, future : BOOLEAN]
Waits == [pc : {"idle", "lock", "sleep", "sent"}, b : Nat]
LimiterTypeOK ==
  /\ created \in Nat /\ created <= MaxBuckets
  /\ buckets \in [Routes -> Nat] /\ \A route \in Routes : buckets[route] <= created
  /\ bucket \in [1..MaxBuckets -> Buckets]
  /\ request \in [Requests -> Waits]
  /\ \A r \in Requests : /\ request[r].b <= created
                         /\ request[r].pc # "idle" => request[r].b # 0

\* The bucket object a request obtained is in the map, if at all, for its route.
BucketOfRoute ==
  /\ \A r \in Requests, route \in Routes :
       buckets[route] # 0 /\ buckets[route] = request[r].b => route = routeOf[r]
  /\ \A route, other \in Routes :
       buckets[route] # 0 /\ buckets[route] = buckets[other] => route = other

\* A locked bucket that is still in the map was locked by a request that has not
\* ended; once it ended, an object it left locked is no longer in the map.
InFlightOn(r, b) == r \in Requests /\ request[r].pc \in {"sleep", "sent"} /\ request[r].b = b
HolderInFlight ==
  \A route \in Routes : buckets[route] # 0 /\ Held(buckets[route]) =>
    InFlightOn(bucket[buckets[route]].holder, buckets[route])

LockInv == LimiterTypeOK /\ BucketOfRoute /\ HolderInFlight

LimiterInv == LockInv /\ OnlyTheHolderReleases /\ FatalOnlyIfOvertaken

\* The invariant implies the property.
LEMMA LimiterImplies == LimiterInv => LimiterSound
<1>1. LockInv => LockedMeansInFlight
  BY LimiterAssumption
  DEF LockInv, LimiterTypeOK, BucketOfRoute, HolderInFlight, InFlightOn, LockedMeansInFlight, Held
<1> QED  BY <1>1 DEF LimiterInv, LimiterSound

\* The initial state.
LEMMA LimiterStarts == LimiterInit => LimiterInv
<1> SUFFICES ASSUME LimiterInit PROVE LimiterInv
  OBVIOUS
<1>1. Free \in Buckets /\ Idle \in Waits /\ Idle.b = 0 /\ Idle.pc = "idle"
  BY DEF Free, Buckets, Idle, Waits, None
<1>2. LimiterTypeOK
  BY <1>1, LimiterAssumption DEF LimiterInit, LimiterTypeOK
<1>3. BucketOfRoute /\ HolderInFlight
  BY <1>1 DEF LimiterInit, BucketOfRoute, HolderInFlight
<1>4. OnlyTheHolderReleases /\ FatalOnlyIfOvertaken
  BY <1>1 DEF LimiterInit, OnlyTheHolderReleases, FatalOnlyIfOvertaken
<1> QED  BY <1>2, <1>3, <1>4 DEF LockInv, LimiterInv

\* The other bucket objects and the other requests are as they were.
LEMMA BucketSet ==
  ASSUME LimiterTypeOK, NEW o \in 1..MaxBuckets, NEW new \in Buckets,
         bucket' = [bucket EXCEPT ![o] = new]
  PROVE  /\ bucket' \in [1..MaxBuckets -> Buckets]
         /\ bucket'[o] = new /\ \A b \in 1..MaxBuckets : b # o => bucket'[b] = bucket[b]
BY DEF LimiterTypeOK

\* One request changes.
LEMMA RequestSet ==
  ASSUME LimiterTypeOK, NEW r \in Requests, NEW new \in Waits,
         request' = [request EXCEPT ![r] = new]
  PROVE  /\ request' \in [Requests -> Waits]
         /\ request'[r] = new /\ \A x \in Requests : x # r => request'[x] = request[x]
BY DEF LimiterTypeOK

\* Buckets of the map and of waiting requests exist.
LEMMA BucketOfMap ==
  ASSUME LimiterTypeOK
  PROVE  /\ \A route \in Routes : buckets[route] # 0 => buckets[route] \in 1..MaxBuckets
         /\ \A r \in Requests : request[r].pc # "idle" => request[r].b \in 1..MaxBuckets
BY LimiterAssumption DEF LimiterTypeOK, Waits

\* A request finds or creates the bucket of its route.
LEMMA GetBucketKeeps == ASSUME LockInv, NEW r \in Requests, GetBucket(r) PROVE LockInv'
<1> USE LimiterAssumption
<1>1. routeOf[r] \in Routes
  OBVIOUS
<1>2. LimiterTypeOK /\ BucketOfRoute /\ HolderInFlight /\ request[r].pc = "idle"
  BY DEF LockInv, GetBucket, Idle
<1>3. CASE buckets[routeOf[r]] # 0
  <2> DEFINE new == [pc |-> "lock", b |-> buckets[routeOf[r]]]
  <2>1. /\ request' = [request EXCEPT ![r] = new] /\ UNCHANGED <<buckets, bucket, created>>
    BY <1>3 DEF GetBucket
  <2>2. new \in Waits /\ new.pc = "lock" /\ new.b = buckets[routeOf[r]]
    BY <1>1, <1>2 DEF Waits, LimiterTypeOK
  <2> HIDE DEF new
  <2>3. /\ request' \in [Requests -> Waits] /\ request'[r] = new
        /\ \A x \in Requests : x # r => request'[x] = request[x]
    BY <1>2, <2>1, <2>2, RequestSet
  <2>4. LimiterTypeOK'
    BY <1>1, <1>2, <1>3, <2>1, <2>2, <2>3 DEF LimiterTypeOK
  <2>5. BucketOfRoute'
    BY <1>1, <1>2, <1>3, <2>1, <2>2, <2>3 DEF BucketOfRoute
  <2>6. HolderInFlight'
    BY <1>2, <2>1, <2>3 DEF HolderInFlight, Held, InFlightOn
  <2> QED  BY <2>4, <2>5, <2>6 DEF LockInv
<1>4. CASE buckets[routeOf[r]] = 0
  <2> DEFINE o == created + 1
             new == [pc |-> "lock", b |-> o]
  <2>1. /\ created < MaxBuckets /\ created' = created + 1
        /\ bucket' = [bucket EXCEPT ![o] = Free]
        /\ buckets' = [buckets EXCEPT ![routeOf[r]] = o]
        /\ request' = [request EXCEPT ![r] = new]
    BY <1>4 DEF GetBucket
  <2>2. /\ Free \in Buckets /\ Free.holder = None /\ o \in 1..MaxBuckets
        /\ new \in Waits /\ new.pc = "lock" /\ new.b = o
    BY <1>2, <2>1 DEF Free, Buckets, Waits, LimiterTypeOK
  <2>3. /\ buckets' \in [Routes -> Nat] /\ buckets'[routeOf[r]] = o
        /\ \A route \in Routes : route # routeOf[r] => buckets'[route] = buckets[route]
        /\ \A route \in Routes : buckets[route] < o
        /\ \A x \in Requests : request[x].b < o
    BY <1>1, <1>2, <2>1, <2>2 DEF LimiterTypeOK, Waits
  <2>f. o \in Nat /\ created \in Nat /\ o > created
    BY <1>2 DEF LimiterTypeOK
  <2> HIDE DEF new, o
  <2>4. /\ request' \in [Requests -> Waits] /\ request'[r] = new
        /\ \A x \in Requests : x # r => request'[x] = request[x]
    BY <1>2, <2>1, <2>2, RequestSet
  <2>5. /\ bucket' \in [1..MaxBuckets -> Buckets]
        /\ bucket'[o] = Free /\ \A b \in 1..MaxBuckets : b # o => bucket'[b] = bucket[b]
    BY <1>2, <2>1, <2>2, BucketSet
  <2>6. LimiterTypeOK'
    <3>1. created' \in Nat /\ created' <= MaxBuckets /\ o = created'
      BY <1>2, <2>1 DEF LimiterTypeOK, o
    <3>2. \A route \in Routes : buckets'[route] <= created'
      BY <2>3, <2>f, <3>1
    <3>3. \A x \in Requests : request'[x].b <= created' /\ (request'[x].pc # "idle" => request'[x].b # 0)
      <4> SUFFICES ASSUME NEW x \in Requests
                   PROVE  request'[x].b <= created' /\ (request'[x].pc # "idle" => request'[x].b # 0)
        OBVIOUS
      <4>1. CASE x = r
        BY <4>1, <2>2, <2>4, <3>1
      <4>2. CASE x # r
        <5>1. request[x].b \in Nat
          BY <1>2 DEF LimiterTypeOK, Waits
        <5> QED  BY <1>2, <4>2, <5>1, <2>3, <2>4, <3>1 DEF LimiterTypeOK
      <4> QED  BY <4>1, <4>2
    <3> QED  BY <2>3, <2>4, <2>5, <3>1, <3>2, <3>3 DEF LimiterTypeOK
  <2>7. BucketOfRoute'
    BY <1>1, <1>2, <2>2, <2>3, <2>4 DEF BucketOfRoute
  <2>8. HolderInFlight'
    <3> SUFFICES ASSUME NEW route \in Routes, buckets'[route] # 0, bucket'[buckets'[route]].holder # None
                 PROVE  InFlightOn(bucket[buckets[route]].holder, buckets[route])'
      BY DEF HolderInFlight, Held
    <3>1. route # routeOf[r]
      BY <2>2, <2>3, <2>5
    <3>2. buckets'[route] = buckets[route] /\ bucket'[buckets[route]] = bucket[buckets[route]]
      BY <1>2, <3>1, <2>3, <2>5, BucketOfMap
    <3> QED  BY <1>2, <2>4, <3>2 DEF HolderInFlight, Held, InFlightOn
  <2> QED  BY <2>6, <2>7, <2>8 DEF LockInv
<1> QED  BY <1>3, <1>4

\* A step that changes the bucket object and the place of one request, which
\* keeps the object it obtained or ends.
LEMMA OneRequestStep ==
  ASSUME LockInv, NEW r \in Requests, NEW new \in Waits,
         request' = [request EXCEPT ![r] = new], UNCHANGED <<buckets, created>>,
         new.b \in {request[r].b, 0}, new.pc # "idle" => new.b # 0,
         bucket' \in [1..MaxBuckets -> Buckets]
  PROVE  LimiterTypeOK' /\ BucketOfRoute'
<1>1. LimiterTypeOK /\ BucketOfRoute
  BY DEF LockInv
<1>2. /\ request' \in [Requests -> Waits] /\ request'[r] = new
      /\ \A x \in Requests : x # r => request'[x] = request[x]
  BY <1>1, RequestSet
<1>3. LimiterTypeOK'
  BY <1>1, <1>2 DEF LimiterTypeOK
<1>4. BucketOfRoute'
  BY <1>1, <1>2 DEF BucketOfRoute
<1> QED  BY <1>3, <1>4

\* It takes the bucket's lock.
LEMMA LockKeeps == ASSUME LockInv, NEW r \in Requests, Lock(r) PROVE LockInv'
<1> DEFINE o == request[r].b
<1>1. LimiterTypeOK /\ BucketOfRoute /\ HolderInFlight
  BY DEF LockInv
<1>2. PICK pc \in {"sleep", "sent"} : request' = [request EXCEPT ![r].pc = pc]
  BY DEF Lock, Moves
<1> DEFINE new == [request[r] EXCEPT !.pc = pc]
           locked == [bucket[o] EXCEPT !.holder = r]
<1>3. /\ request[r].pc = "lock" /\ o \in 1..MaxBuckets /\ bucket[o].holder = None
      /\ bucket' = [bucket EXCEPT ![o].holder = r] /\ UNCHANGED <<buckets, created>>
  BY <1>1, BucketOfMap DEF Lock, Held
<1>4. new \in Waits /\ new.pc = pc /\ new.b = o /\ request' = [request EXCEPT ![r] = new]
  BY <1>1, <1>2 DEF LimiterTypeOK, Waits
<1>5. locked \in Buckets /\ locked.holder = r /\ bucket' = [bucket EXCEPT ![o] = locked]
  BY <1>1, <1>3 DEF LimiterTypeOK, Buckets
<1> HIDE DEF new, locked
<1>6. /\ request'[r] = new /\ \A x \in Requests : x # r => request'[x] = request[x]
  BY <1>1, <1>4, RequestSet
<1>7. /\ bucket' \in [1..MaxBuckets -> Buckets] /\ bucket'[o] = locked
      /\ \A b \in 1..MaxBuckets : b # o => bucket'[b] = bucket[b]
  BY <1>1, <1>3, <1>5, BucketSet
<1>8. LimiterTypeOK' /\ BucketOfRoute'
  <2>1. new.b \in {request[r].b, 0} /\ (new.pc # "idle" => new.b # 0)
    BY <1>3, <1>4
  <2> QED  BY <1>3, <1>4, <1>7, <2>1, OneRequestStep
<1>9. HolderInFlight'
  <2> SUFFICES ASSUME NEW route \in Routes, buckets[route] # 0, bucket'[buckets[route]].holder # None
               PROVE  InFlightOn(bucket[buckets[route]].holder, buckets[route])'
    BY <1>3 DEF HolderInFlight, Held
  <2>1. CASE buckets[route] = o
    BY <2>1, <1>2, <1>3, <1>4, <1>5, <1>6, <1>7 DEF InFlightOn
  <2>2. CASE buckets[route] # o
    <3>1. bucket'[buckets[route]] = bucket[buckets[route]]
      BY <1>1, <1>7, <2>2, BucketOfMap
    <3>2. InFlightOn(bucket[buckets[route]].holder, buckets[route])
      BY <1>1, <3>1 DEF HolderInFlight, Held
    <3> QED  BY <1>3, <1>6, <3>1, <3>2 DEF InFlightOn
  <2> QED  BY <2>1, <2>2
<1> QED  BY <1>8, <1>9 DEF LockInv

\* The cooldown of the bucket ends.
LEMMA CooldownKeeps == ASSUME LockInv, NEW r \in Requests, CooldownOver(r) PROVE LockInv'
<1> DEFINE o == request[r].b
           new == [request[r] EXCEPT !.pc = "sent"]
           past == [bucket[o] EXCEPT !.future = FALSE]
<1>1. LimiterTypeOK /\ BucketOfRoute /\ HolderInFlight
  BY DEF LockInv
<1>2. request[r].pc = "sleep" /\ UNCHANGED <<buckets, created>> /\ o \in 1..MaxBuckets /\ o # 0
  BY <1>1, BucketOfMap DEF CooldownOver
<1>3. new \in Waits /\ new.pc = "sent" /\ new.b = o /\ request' = [request EXCEPT ![r] = new]
  BY <1>1 DEF CooldownOver, Moves, LimiterTypeOK, Waits
<1>4. past \in Buckets /\ past.holder = bucket[o].holder
  BY <1>1, <1>2 DEF LimiterTypeOK, Buckets
<1>5. bucket' = [bucket EXCEPT ![o] = past] \/ bucket' = bucket
  BY DEF CooldownOver
<1> HIDE DEF new, past
<1>6. /\ request'[r] = new /\ \A x \in Requests : x # r => request'[x] = request[x]
  BY <1>1, <1>3, RequestSet
<1>7. /\ bucket' \in [1..MaxBuckets -> Buckets]
      /\ \A b \in 1..MaxBuckets : bucket'[b].holder = bucket[b].holder
  <2>1. CASE bucket' = bucket
    BY <1>1, <2>1 DEF LimiterTypeOK
  <2>2. CASE bucket' = [bucket EXCEPT ![o] = past]
    BY <1>1, <1>2, <1>4, <2>2, BucketSet
  <2> QED  BY <1>5, <2>1, <2>2
<1>8. LimiterTypeOK' /\ BucketOfRoute'
  <2>1. new.b \in {request[r].b, 0} /\ (new.pc # "idle" => new.b # 0)
    BY <1>2, <1>3
  <2> QED  BY <1>2, <1>3, <1>7, <2>1, OneRequestStep
<1>9. HolderInFlight'
  <2> SUFFICES ASSUME NEW route \in Routes, buckets[route] # 0, bucket'[buckets[route]].holder # None
               PROVE  InFlightOn(bucket[buckets[route]].holder, buckets[route])'
    BY <1>2 DEF HolderInFlight, Held
  <2>1. bucket'[buckets[route]].holder = bucket[buckets[route]].holder
    BY <1>1, <1>7, BucketOfMap
  <2>2. InFlightOn(bucket[buckets[route]].holder, buckets[route])
    BY <1>1, <2>1 DEF HolderInFlight, Held
  <2> QED  BY <1>2, <1>3, <1>6, <2>1, <2>2 DEF InFlightOn
<1> QED  BY <1>8, <1>9 DEF LockInv

\* The request ends: the object it held, if it is in the map, is free, or was so
\* already when the mutex met its error.
LEMMA EndKeeps ==
  ASSUME LockInv, NEW r \in Requests, Ends(r), UNCHANGED <<buckets, created>>,
         NEW o \in 1..MaxBuckets, NEW new \in Buckets,
         \/ bucket' = bucket /\ request[r].pc = "lock"
         \/ bucket' = bucket /\ \A route \in Routes :
              buckets[route] # 0 /\ buckets[route] = request[r].b => ~Held(buckets[route])
         \/ /\ bucket' = [bucket EXCEPT ![o] = new] /\ new.holder = None
            /\ \A route \in Routes : buckets[route] # 0 /\ buckets[route] = request[r].b => request[r].b = o
  PROVE  LockInv'
<1>1. LimiterTypeOK /\ BucketOfRoute /\ HolderInFlight
  BY DEF LockInv
<1>2. Idle \in Waits /\ Idle.b = 0 /\ Idle.pc = "idle" /\ request' = [request EXCEPT ![r] = Idle]
  BY DEF Idle, Waits, Ends
<1>3. \A x \in Requests : x # r => request'[x] = request[x]
  BY <1>1, <1>2, RequestSet
<1>4. /\ bucket' \in [1..MaxBuckets -> Buckets]
      /\ \A b \in 1..MaxBuckets : bucket'[b].holder \in {None, bucket[b].holder}
  <2>1. CASE bucket' = bucket
    BY <1>1, <2>1 DEF LimiterTypeOK
  <2>2. CASE bucket' = [bucket EXCEPT ![o] = new] /\ new.holder = None
    BY <1>1, <2>2, BucketSet
  <2> QED  BY <2>1, <2>2
<1>5. LimiterTypeOK' /\ BucketOfRoute'
  BY <1>2, <1>4, OneRequestStep
<1>6. HolderInFlight'
  <2> SUFFICES ASSUME NEW route \in Routes, buckets[route] # 0, bucket'[buckets[route]].holder # None
               PROVE  InFlightOn(bucket[buckets[route]].holder, buckets[route])'
    BY DEF HolderInFlight, Held
  <2>1. buckets[route] \in 1..MaxBuckets /\ bucket'[buckets[route]].holder = bucket[buckets[route]].holder
    BY <1>1, <1>4, BucketOfMap
  <2>2. InFlightOn(bucket[buckets[route]].holder, buckets[route])
    BY <1>1, <2>1 DEF HolderInFlight, Held
  <2>3. bucket[buckets[route]].holder # r
    <3> SUFFICES ASSUME bucket[buckets[route]].holder = r PROVE FALSE
      OBVIOUS
    <3>1. request[r].b = buckets[route] /\ request[r].pc # "lock"
      BY <2>2 DEF InFlightOn
    <3>2. bucket' = [bucket EXCEPT ![o] = new] /\ new.holder = None /\ buckets[route] = o
      <4>1. bucket'[buckets[route]].holder # None /\ bucket'[buckets[route]].holder = bucket[buckets[route]].holder
        BY <2>1
      <4> QED  BY <3>1, <4>1 DEF Held
    <3>3. bucket'[o] = new
      BY <1>1, <3>2, BucketSet
    <3> QED  BY <3>2, <3>3
  <2> QED  BY <1>3, <2>1, <2>2, <2>3 DEF InFlightOn
<1> QED  BY <1>5, <1>6 DEF LockInv

\* An unlock frees the bucket, or meets the error and leaves all as it is.
LEMMA UnlockEffect ==
  ASSUME LimiterTypeOK, NEW b \in 1..MaxBuckets, NEW new \in Buckets, MutexUnlock(b, new)
  PROVE  \/ bucket' = bucket /\ ~Held(b) /\ limiter' = "panicked"
         \/ /\ Held(b) /\ limiter' = limiter
            /\ \E free \in Buckets : free.holder = None /\ bucket' = [bucket EXCEPT ![b] = free]
<1>1. [new EXCEPT !.holder = None] \in Buckets /\ [new EXCEPT !.holder = None].holder = None
  BY DEF Buckets
<1> QED  BY <1>1, Zenon DEF MutexUnlock

\* Its context ends while it waits.
LEMMA CancelKeeps == ASSUME LockInv, NEW r \in Requests, RequestCanceled(r) PROVE LockInv'
<1> DEFINE o == request[r].b
<1>1. LimiterTypeOK
  BY DEF LockInv
<1>2. Ends(r) /\ UNCHANGED <<buckets, created>> /\ o \in 1..MaxBuckets
  BY <1>1, BucketOfMap DEF RequestCanceled
<1>3. bucket[o] \in Buckets
  BY <1>1, <1>2 DEF LimiterTypeOK
<1>4. CASE bucket' = bucket /\ request[r].pc = "lock"
  BY <1>2, <1>3, <1>4, EndKeeps
<1>5. CASE MutexUnlock(o, bucket[o])
  <2>1. CASE bucket' = bucket /\ ~Held(o)
    BY <1>2, <1>3, <2>1, EndKeeps
  <2>2. ASSUME NEW free \in Buckets, free.holder = None, bucket' = [bucket EXCEPT ![o] = free] PROVE LockInv'
    BY <1>2, <2>2, EndKeeps
  <2> QED  BY <1>1, <1>2, <1>3, <1>5, <2>1, <2>2, UnlockEffect
<1> QED  BY <1>4, <1>5 DEF RequestCanceled

\* The answer updates the bucket and frees it.
LEMMA UnlockKeeps == ASSUME LockInv, NEW r \in Requests, Unlock(r) PROVE LockInv'
<1> DEFINE b == buckets[routeOf[r]]
<1>1. LimiterTypeOK /\ BucketOfRoute /\ routeOf[r] \in Routes
  BY LimiterAssumption DEF LockInv
<1>2. Ends(r) /\ UNCHANGED <<buckets, created>>
  BY DEF Unlock
<1>3. \A route \in Routes : buckets[route] # 0 /\ buckets[route] = request[r].b => request[r].b = b
  BY <1>1 DEF BucketOfRoute
<1>4. CASE b = 0
  <2>1. bucket' = bucket
    BY <1>4 DEF Unlock
  <2>2. request[r].b \in 1..MaxBuckets
    BY <1>1, BucketOfMap DEF Unlock
  <2>3. bucket[request[r].b] \in Buckets
    BY <1>1, <2>2 DEF LimiterTypeOK
  <2>4. \A route \in Routes : buckets[route] # 0 => buckets[route] # request[r].b
    BY <1>3, <1>4
  <2> QED  BY <1>2, <2>1, <2>2, <2>3, <2>4, EndKeeps
<1>5. CASE b # 0
  <2>1. PICK new \in Answers(bucket[b]) : MutexUnlock(b, new)
    BY <1>5 DEF Unlock
  <2>2. b \in 1..MaxBuckets
    BY <1>1, <1>5, BucketOfMap
  <2>3. bucket[b] \in Buckets /\ new \in Buckets
    <3>1. bucket[b] \in Buckets
      BY <1>1, <2>2 DEF LimiterTypeOK
    <3> QED  BY <2>1, <3>1 DEF Answers, Buckets
  <2>4. CASE bucket' = bucket /\ ~Held(b)
    BY <1>2, <1>3, <2>2, <2>3, <2>4, EndKeeps
  <2>5. ASSUME NEW free \in Buckets, free.holder = None, bucket' = [bucket EXCEPT ![b] = free] PROVE LockInv'
    BY <1>2, <1>3, <2>2, <2>5, EndKeeps
  <2> QED  BY <1>1, <2>1, <2>2, <2>3, <2>4, <2>5, UnlockEffect
<1> QED  BY <1>4, <1>5

\* The reset time of a bucket passes.
LEMMA ResetKeeps == ASSUME LockInv, NEW b \in 1..MaxBuckets, ResetPasses(b) PROVE LockInv'
<1> DEFINE past == [bucket[b] EXCEPT !.future = FALSE]
<1>1. LimiterTypeOK /\ BucketOfRoute /\ HolderInFlight
  BY DEF LockInv
<1>2. UNCHANGED <<buckets, created, request>> /\ bucket' = [bucket EXCEPT ![b] = past]
  BY DEF ResetPasses
<1>3. past \in Buckets /\ past.holder = bucket[b].holder
  BY <1>1 DEF LimiterTypeOK, Buckets
<1> HIDE DEF past
<1>4. /\ bucket' \in [1..MaxBuckets -> Buckets]
      /\ \A x \in 1..MaxBuckets : bucket'[x].holder = bucket[x].holder
  BY <1>1, <1>2, <1>3, BucketSet
<1>5. LimiterTypeOK'
  BY <1>1, <1>2, <1>4 DEF LimiterTypeOK
<1>6. BucketOfRoute'
  BY <1>1, <1>2 DEF BucketOfRoute
<1>7. HolderInFlight'
  BY <1>1, <1>2, <1>4, BucketOfMap DEF HolderInFlight, Held, InFlightOn
<1> QED  BY <1>5, <1>6, <1>7 DEF LockInv

\* The cleanup drops buckets nobody uses.
LEMMA CleanupKeeps == ASSUME LockInv, Cleanup PROVE LockInv'
<1>1. LimiterTypeOK /\ BucketOfRoute /\ HolderInFlight
  BY DEF LockInv
<1>2. /\ UNCHANGED <<bucket, created, request>> /\ buckets' \in [Routes -> Nat]
      /\ \A route \in Routes : buckets'[route] \in {0, buckets[route]}
  BY <1>1 DEF Cleanup, LimiterTypeOK
<1>3. LimiterTypeOK'
  BY <1>1, <1>2 DEF LimiterTypeOK
<1>4. BucketOfRoute'
  BY <1>1, <1>2 DEF BucketOfRoute
<1>5. HolderInFlight'
  BY <1>1, <1>2 DEF HolderInFlight, Held, InFlightOn
<1> QED  BY <1>3, <1>4, <1>5 DEF LockInv

\* Every step keeps the places of the locks.
LEMMA LocksKept == LockInv /\ [LimiterNext]_limiterVars => LockInv'
<1> SUFFICES ASSUME LockInv, [LimiterNext]_limiterVars PROVE LockInv'
  OBVIOUS
<1>1. CASE UNCHANGED <<buckets, bucket, created, request>>
  BY <1>1 DEF LockInv, LimiterTypeOK, BucketOfRoute, HolderInFlight, Held, InFlightOn
<1>2. ASSUME NEW r \in Requests, GetBucket(r) \/ Lock(r) \/ CooldownOver(r) \/ RequestEnds(r)
      PROVE  LockInv'
  BY <1>2, GetBucketKeeps, LockKeeps, CooldownKeeps, CancelKeeps, UnlockKeeps DEF RequestEnds
<1>3. ASSUME NEW b \in 1..MaxBuckets, ResetPasses(b) \/ CloseDrains(b) PROVE LockInv'
  BY <1>1, <1>3, ResetKeeps DEF CloseDrains
<1>4. CASE Cleanup \/ CloseLimiter \/ CloseSnapshot \/ CloseReturns
  BY <1>1, <1>4, CleanupKeeps DEF CloseLimiter, CloseSnapshot, CloseReturns
<1> QED  BY <1>1, <1>2, <1>3, <1>4 DEF LimiterNext, limiterVars

InFlight(r) == request[r].pc \in {"sleep", "sent"} /\ routeOf[r] \notin overtaken

\* What a request in flight holds, and that nobody else holds or seeks it.
LEMMA InFlightFacts ==
  ASSUME LimiterInv, NEW r \in Requests, InFlight(r)
  PROVE  /\ routeOf[r] \in Routes /\ buckets[routeOf[r]] = request[r].b /\ request[r].b \in 1..MaxBuckets
         /\ buckets[routeOf[r]] # 0 /\ bucket[request[r].b].holder = r /\ Held(request[r].b)
<1>1. LimiterTypeOK /\ routeOf[r] \in Routes /\ None \notin Requests
  BY LimiterAssumption DEF LimiterInv, LockInv
<1>2. buckets[routeOf[r]] = request[r].b /\ bucket[request[r].b].holder = r
  BY DEF LimiterInv, OnlyTheHolderReleases, InFlight
<1>3. request[r].b \in 1..MaxBuckets /\ request[r].b # 0
  BY <1>1, BucketOfMap DEF InFlight
<1> QED  BY <1>1, <1>2, <1>3 DEF Held

\* A request in flight loses nothing while its bucket stays in the map and in its
\* hands.
LEMMA StillHeld ==
  ASSUME LimiterInv, overtaken \subseteq overtaken',
         \A x \in Requests : InFlight(x)' =>
           /\ request[x].pc \in {"sleep", "sent"} /\ request'[x].b = request[x].b
           /\ InFlight(x) => /\ buckets'[routeOf[x]] = buckets[routeOf[x]]
                             /\ bucket'[request[x].b].holder = bucket[request[x].b].holder
  PROVE  OnlyTheHolderReleases'
<1> SUFFICES ASSUME NEW x \in Requests, request'[x].pc \in {"sleep", "sent"}, routeOf[x] \notin overtaken'
             PROVE  buckets'[routeOf[x]] = request'[x].b /\ bucket'[request'[x].b].holder = x
  BY DEF OnlyTheHolderReleases
<1>1. InFlight(x)' /\ routeOf[x] \notin overtaken
  BY DEF InFlight
<1>2. InFlight(x) /\ request'[x].b = request[x].b
  BY <1>1 DEF InFlight
<1> QED  BY <1>1, <1>2, InFlightFacts

\* One request moves, the others are where they were.
LEMMA OthersStay ==
  ASSUME LimiterTypeOK, NEW r \in Requests, NEW new, request' = [request EXCEPT ![r] = new]
  PROVE  request'[r] = new /\ \A x \in Requests : x # r => request'[x] = request[x]
BY DEF LimiterTypeOK

\* A request ends, the others are where they were.
LEMMA OnlyOneEnds ==
  ASSUME LimiterTypeOK, NEW r \in Requests, Ends(r)
  PROVE  request'[r].pc = "idle" /\ \A x \in Requests : x # r => request'[x] = request[x]
<1>1. request' = [request EXCEPT ![r] = Idle] /\ Idle.pc = "idle"
  BY DEF Ends, Idle
<1>2. request'[r] = Idle /\ \A x \in Requests : x # r => request'[x] = request[x]
  BY <1>1, OthersStay
<1> QED  BY <1>1, <1>2

\* A request finds the bucket or makes one.
LEMMA GetBucketHolds ==
  ASSUME LimiterInv, NEW r \in Requests, GetBucket(r)
  PROVE  OnlyTheHolderReleases'
<1> USE LimiterAssumption
<1>1. LimiterTypeOK /\ routeOf[r] \in Routes /\ overtaken' = overtaken
  BY DEF LimiterInv, LockInv, GetBucket
<1>2. PICK b : request' = [request EXCEPT ![r] = [pc |-> "lock", b |-> b]]
  BY DEF GetBucket
<1>3. request'[r].pc = "lock" /\ \A x \in Requests : x # r => request'[x] = request[x]
  <2> DEFINE new == [pc |-> "lock", b |-> b]
  <2>1. new.pc = "lock" /\ request' = [request EXCEPT ![r] = new]
    BY <1>2
  <2> HIDE DEF new
  <2>2. request'[r] = new /\ \A x \in Requests : x # r => request'[x] = request[x]
    BY <1>1, <2>1, OthersStay
  <2> QED  BY <2>1, <2>2
<1>4. ASSUME NEW x \in Requests, InFlight(x)'
      PROVE  x # r /\ request'[x] = request[x] /\ request[x].pc \in {"sleep", "sent"} /\ InFlight(x)
  BY <1>1, <1>3, <1>4 DEF InFlight
<1>5. ASSUME NEW x \in Requests, InFlight(x)
      PROVE  /\ buckets'[routeOf[x]] = buckets[routeOf[x]]
             /\ bucket'[request[x].b].holder = bucket[request[x].b].holder
  <2>1. /\ routeOf[x] \in Routes /\ buckets[routeOf[x]] # 0
        /\ request[x].b \in 1..MaxBuckets /\ request[x].b <= created
    BY <1>1, <1>5, InFlightFacts DEF LimiterTypeOK
  <2>2. CASE UNCHANGED <<buckets, bucket>>
    BY <2>2
  <2>3. CASE /\ buckets[routeOf[r]] = 0 /\ bucket' = [bucket EXCEPT ![created + 1] = Free]
             /\ buckets' = [buckets EXCEPT ![routeOf[r]] = created + 1]
    <3>1. created \in Nat /\ created + 1 # request[x].b
      BY <1>1, <2>1 DEF LimiterTypeOK
    <3> QED  BY <1>1, <2>1, <2>3, <3>1 DEF LimiterTypeOK
  <2> QED  BY <2>2, <2>3 DEF GetBucket
<1> QED  BY <1>1, <1>4, <1>5, StillHeld

\* A lock nobody holds is taken from nobody.
LEMMA LockHolds ==
  ASSUME LimiterInv, NEW r \in Requests, Lock(r)
  PROVE  OnlyTheHolderReleases'
<1> DEFINE o == request[r].b
<1>1. /\ LimiterTypeOK /\ request[r].pc = "lock" /\ ~Held(o) /\ o \in 1..MaxBuckets
      /\ bucket' = [bucket EXCEPT ![o].holder = r] /\ buckets' = buckets
  BY BucketOfMap DEF LimiterInv, LockInv, Lock
<1>2. PICK pc : request' = [request EXCEPT ![r].pc = pc]
  BY DEF Lock, Moves
<1>3. /\ request'[r].b = o /\ \A x \in Requests : x # r => request'[x] = request[x]
      /\ bucket'[o].holder = r /\ \A b \in 1..MaxBuckets : b # o => bucket'[b] = bucket[b]
  BY <1>1, <1>2 DEF LimiterTypeOK, Buckets, Waits
<1> SUFFICES ASSUME NEW x \in Requests, request'[x].pc \in {"sleep", "sent"}, routeOf[x] \notin overtaken'
             PROVE  buckets'[routeOf[x]] = request'[x].b /\ bucket'[request'[x].b].holder = x
  BY DEF OnlyTheHolderReleases
<1>4. CASE x = r
  <2>1. buckets[routeOf[r]] = o
    BY <1>4 DEF Lock
  <2> QED  BY <1>1, <1>3, <1>4, <2>1
<1>5. CASE x # r
  <2>1. routeOf[x] \notin overtaken
    BY DEF Lock
  <2>2. InFlight(x) /\ request'[x] = request[x]
    BY <1>3, <1>5, <2>1 DEF InFlight
  <2>3. request[x].b # o
    BY <1>1, <2>2, InFlightFacts
  <2> QED  BY <1>1, <1>3, <2>2, <2>3, InFlightFacts
<1> QED  BY <1>4, <1>5

\* A request that unlocks the bucket it obtained or finds takes it from nobody
\* else, unless its route was overtaken.
LEMMA EndHolds ==
  ASSUME LimiterInv, NEW r \in Requests, Ends(r), UNCHANGED <<buckets, overtaken>>,
         NEW o \in 1..MaxBuckets, NEW new \in Buckets, MutexUnlock(o, new),
         request[r].pc \in {"sleep", "sent"}, o \in {request[r].b, buckets[routeOf[r]]}
  PROVE  OnlyTheHolderReleases' /\ (limiter' # limiter => overtaken # {})
<1>1. LimiterTypeOK /\ BucketOfRoute /\ routeOf[r] \in Routes
  BY LimiterAssumption DEF LimiterInv, LockInv
<1>2. request'[r].pc = "idle" /\ \A x \in Requests : x # r => request'[x] = request[x]
  BY <1>1, OnlyOneEnds
<1>3. \A b \in 1..MaxBuckets : b # o => bucket'[b] = bucket[b]
  BY <1>1 DEF MutexUnlock, LimiterTypeOK
<1>4. ASSUME NEW x \in Requests, InFlight(x)' PROVE x # r /\ request'[x] = request[x] /\ InFlight(x)
  BY <1>2, <1>4 DEF InFlight
<1>5. ASSUME NEW x \in Requests, InFlight(x), x # r
      PROVE  bucket'[request[x].b].holder = bucket[request[x].b].holder
  <2>1. /\ routeOf[x] \in Routes /\ buckets[routeOf[x]] = request[x].b /\ buckets[routeOf[x]] # 0
        /\ request[x].b \in 1..MaxBuckets /\ bucket[request[x].b].holder = x
    BY <1>5, InFlightFacts
  <2>2. request[x].b # o
    <3> SUFFICES ASSUME request[x].b = o PROVE FALSE
      OBVIOUS
    <3>1. routeOf[x] = routeOf[r]
      BY <1>1, <2>1 DEF BucketOfRoute
    <3>2. InFlight(r)
      BY <1>5, <3>1 DEF InFlight
    <3>3. bucket[request[r].b].holder = r /\ request[r].b = request[x].b
      BY <2>1, <3>1, <3>2, InFlightFacts
    <3> QED  BY <1>5, <2>1, <3>3
  <2> QED  BY <1>3, <2>1, <2>2
<1>6. OnlyTheHolderReleases'
  BY <1>4, <1>5, StillHeld DEF InFlight
<1>7. limiter' # limiter => overtaken # {}
  <2> SUFFICES ASSUME limiter' # limiter PROVE routeOf[r] \in overtaken
    OBVIOUS
  <2>1. ~Held(o)
    BY DEF MutexUnlock
  <2> QED  BY <2>1, InFlightFacts DEF InFlight
<1> QED  BY <1>6, <1>7

\* A request's end does not release the lock of another one.
LEMMA RequestEndHolds ==
  ASSUME LimiterInv, NEW r \in Requests, RequestEnds(r)
  PROVE  OnlyTheHolderReleases' /\ (limiter' # limiter => overtaken # {})
<1>1. LimiterTypeOK /\ Ends(r) /\ UNCHANGED <<buckets, overtaken>>
  BY DEF LimiterInv, LockInv, RequestEnds, RequestCanceled, Unlock
<1>2. CASE UNCHANGED <<bucket, limiter>>
  <2>1. request'[r].pc = "idle" /\ \A x \in Requests : x # r => request'[x] = request[x]
    BY <1>1, OnlyOneEnds
  <2>2. ASSUME NEW x \in Requests, InFlight(x)' PROVE x # r /\ request'[x] = request[x] /\ InFlight(x)
    BY <1>1, <2>1, <2>2 DEF InFlight
  <2> QED  BY <1>1, <1>2, <2>2, StillHeld DEF InFlight
<1>3. CASE RequestCanceled(r) /\ ~UNCHANGED <<bucket, limiter>>
  <2>1. request[r].pc = "sleep" /\ MutexUnlock(request[r].b, bucket[request[r].b])
    BY <1>3 DEF RequestCanceled
  <2>2. request[r].b \in 1..MaxBuckets
    BY <1>1, <2>1, BucketOfMap
  <2>3. bucket[request[r].b] \in Buckets
    BY <1>1, <2>2 DEF LimiterTypeOK
  <2> QED  BY <1>1, <2>1, <2>2, <2>3, EndHolds
<1>4. CASE Unlock(r) /\ ~UNCHANGED <<bucket, limiter>>
  <2> DEFINE b == buckets[routeOf[r]]
  <2>1. b # 0 /\ request[r].pc = "sent" /\ routeOf[r] \in Routes
    BY <1>4, LimiterAssumption DEF Unlock
  <2>2. PICK new \in Answers(bucket[b]) : MutexUnlock(b, new)
    BY <1>4, <2>1 DEF Unlock
  <2>3. b \in 1..MaxBuckets
    BY <1>1, <2>1, BucketOfMap
  <2>4. bucket[b] \in Buckets
    BY <1>1, <2>3 DEF LimiterTypeOK
  <2>5. new \in Buckets
    BY <2>2, <2>4 DEF Answers, Buckets
  <2> QED  BY <1>1, <2>1, <2>2, <2>3, <2>5, EndHolds
<1> QED  BY <1>2, <1>3, <1>4 DEF RequestEnds

\* The steps that leave the holders alone.
LEMMA QuietHolds ==
  ASSUME LimiterInv, LockInv',
         \/ \E r \in Requests : CooldownOver(r)
         \/ \E b \in 1..MaxBuckets : ResetPasses(b) \/ CloseDrains(b)
         \/ Cleanup \/ CloseLimiter \/ CloseSnapshot \/ CloseReturns
  PROVE  OnlyTheHolderReleases'
<1>1. LimiterTypeOK /\ overtaken' = overtaken
  BY DEF LimiterInv, LockInv, CooldownOver, ResetPasses, CloseDrains, Cleanup, CloseLimiter,
         CloseSnapshot, CloseReturns
<1>2. \A b \in 1..MaxBuckets : bucket'[b].holder = bucket[b].holder
  <2>1. bucket' = bucket \/ \E b \in 1..MaxBuckets : bucket' = [bucket EXCEPT ![b].future = FALSE]
    <3>1. ASSUME NEW r \in Requests, CooldownOver(r) PROVE request[r].b \in 1..MaxBuckets
      BY <1>1, <3>1, BucketOfMap DEF CooldownOver
    <3> QED  BY <3>1 DEF CooldownOver, ResetPasses, CloseDrains, Cleanup, CloseLimiter,
                         CloseSnapshot, CloseReturns
  <2>2. ASSUME NEW c \in 1..MaxBuckets, bucket' = [bucket EXCEPT ![c].future = FALSE], NEW b \in 1..MaxBuckets
        PROVE  bucket'[b].holder = bucket[b].holder
    <3>1. bucket \in [1..MaxBuckets -> Buckets] /\ bucket[c] \in Buckets
      BY <1>1 DEF LimiterTypeOK
    <3>2. [bucket[c] EXCEPT !.future = FALSE].holder = bucket[c].holder
      BY <3>1 DEF Buckets
    <3>3. bucket'[b] = IF b = c THEN [bucket[c] EXCEPT !.future = FALSE] ELSE bucket[b]
      BY <2>2, <3>1
    <3> QED  BY <3>2, <3>3
  <2> QED  BY <2>1, <2>2
<1>3. \A x \in Requests : request'[x].pc \in {"sleep", "sent"} =>
        request[x].pc \in {"sleep", "sent"} /\ request'[x].b = request[x].b
  <2>1. request' = request \/ \E r \in Requests : request[r].pc = "sleep" /\ request' = [request EXCEPT ![r].pc = "sent"]
    BY DEF CooldownOver, Moves, ResetPasses, CloseDrains, Cleanup, CloseLimiter, CloseSnapshot, CloseReturns
  <2> QED  BY <1>1, <2>1 DEF LimiterTypeOK, Waits
<1>4. ASSUME NEW x \in Requests, InFlight(x)
      PROVE  buckets'[routeOf[x]] = buckets[routeOf[x]] /\ request[x].b \in 1..MaxBuckets
  <2>1. routeOf[x] \in Routes /\ Held(buckets[routeOf[x]]) /\ request[x].b \in 1..MaxBuckets
    BY <1>4, InFlightFacts
  <2>2. buckets' = buckets \/ Cleanup
    BY DEF CooldownOver, ResetPasses, CloseDrains, CloseLimiter, CloseSnapshot, CloseReturns
  <2> QED  BY <2>1, <2>2 DEF Cleanup, Expires
<1> QED  BY <1>1, <1>2, <1>3, <1>4, StillHeld DEF InFlight

\* Every step keeps the limiter sound.
LEMMA LimiterKeeps == LimiterInv /\ [LimiterNext]_limiterVars => LimiterInv'
<1> SUFFICES ASSUME LimiterInv, [LimiterNext]_limiterVars PROVE LimiterInv'
  OBVIOUS
<1>1. LockInv'
  BY LocksKept DEF LimiterInv
<1>2. OnlyTheHolderReleases'
  <2>1. CASE UNCHANGED limiterVars
    BY <2>1 DEF limiterVars, LimiterInv, OnlyTheHolderReleases
  <2> QED  BY <1>1, <2>1, GetBucketHolds, LockHolds, RequestEndHolds, QuietHolds DEF LimiterNext
<1>3. FatalOnlyIfOvertaken'
  <2>1. overtaken \subseteq overtaken'
    BY DEF LimiterNext, GetBucket, Lock, CooldownOver, RequestEnds, RequestCanceled, Unlock, ResetPasses,
           CloseDrains, Cleanup, CloseLimiter, CloseSnapshot, CloseReturns, limiterVars
  <2>2. CASE \E r \in Requests : RequestEnds(r)
    BY <2>1, <2>2, RequestEndHolds DEF LimiterInv, FatalOnlyIfOvertaken
  <2>3. CASE ~\E r \in Requests : RequestEnds(r)
    <3>1. limiter' = "panicked" => limiter = "panicked"
      BY <2>3 DEF LimiterNext, GetBucket, Lock, CooldownOver, ResetPasses, CloseDrains, Cleanup,
                  CloseLimiter, CloseSnapshot, CloseReturns, limiterVars
    <3> QED  BY <2>1, <3>1 DEF LimiterInv, FatalOnlyIfOvertaken
  <2> QED  BY <2>2, <2>3
<1> QED  BY <1>1, <1>2, <1>3 DEF LimiterInv

\* A locked bucket of the limiter's map has a request in flight on its route that will
\* unlock it; only the holder releases a lock, and the fatal error of an unlock without
\* a lock does not occur, as long as cleanup has not replaced a bucket between getBucket
\* and the lock.  Cancellation, cleanup of expired buckets and Close do not matter.
THEOREM NoRouteBlocked == LimiterSpec => []LimiterSound
<1>1. LimiterSpec => []LimiterInv
  BY LimiterStarts, LimiterKeeps, PTL DEF LimiterSpec
<1> QED  BY <1>1, LimiterImplies, PTL

-----------------------------------------------------------------------------
\* IncidentGateway: a lost session is told once.

GatewayTypeOK ==
  /\ opener \in {"idle", "dialing", "leaving", "waiting", "ended"}
  /\ socket \in {"none", "open", "closed"}
  /\ reader \in {"none", "reading", "failed", "reported", "closing", "telling", "done"}
  /\ gconn \in BOOLEAN /\ gclosed \in BOOLEAN /\ toClose \in BOOLEAN
  /\ owner \in {"no", "before", "after"}
  /\ told \in Nat

\* The reader exists from the moment the dialled socket is stored in g.conn, unless
\* Open is about to close, or has closed, a session without a channel.
ReaderOwnsSocket ==
  /\ reader # "none" => gconn
  /\ gconn /\ reader = "none" => opener = "leaving" \/ gclosed
  /\ opener = "leaving" => reader = "none" /\ gconn
  /\ socket = "open" => gconn
  /\ opener \in {"idle", "dialing"} => ~gconn

\* Until the reader closed the session itself, a closed session is its owner's;
\* the reader tells once, at its end, unless the owner had closed it when it looked.
CloseIsOwned ==
  /\ gclosed => owner # "no" \/ reader \in {"telling", "done"}
  /\ reader \in {"telling", "done"} => gclosed
  /\ owner = "before" => gclosed /\ told = 0 /\ reader \notin {"closing", "telling"}
  /\ owner = "after" => reader \in {"closing", "telling", "done"}
  /\ told = 0 \/ (told = 1 /\ reader = "done")
  /\ reader = "done" /\ owner # "before" => told = 1

\* Close leaves the socket of the session to be closed, or it is.
CloseReachesSocket ==
  /\ toClose => gclosed
  /\ gclosed /\ gconn /\ ~toClose => socket = "closed"

GatewayInv == GatewayTypeOK /\ ReaderOwnsSocket /\ CloseIsOwned /\ CloseReachesSocket

\* The invariant implies the property.
LEMMA GatewayImplies == GatewayInv => GatewaySound
BY DEF GatewayInv, GatewayTypeOK, ReaderOwnsSocket, CloseIsOwned, CloseReachesSocket,
       GatewaySound, LossIsTold, NoSocketLeft

\* The initial state.
LEMMA GatewayStarts == GatewayInit => GatewayInv
<1> SUFFICES ASSUME GatewayInit PROVE GatewayInv
  OBVIOUS
<1>1. /\ ~gconn /\ ~gclosed /\ ~toClose /\ owner = "no"
      /\ socket = "none" /\ reader = "none" /\ told = 0 /\ opener = "idle"
  BY DEF GatewayInit
<1>2. GatewayTypeOK
  BY DEF GatewayInit, GatewayTypeOK
<1>3. ReaderOwnsSocket
  BY <1>1, SMT DEF ReaderOwnsSocket
<1>4. CloseIsOwned
  BY <1>1, SMT DEF CloseIsOwned
<1>5. CloseReachesSocket
  BY <1>1, SMT DEF CloseReachesSocket
<1> QED  BY <1>2, <1>3, <1>4, <1>5 DEF GatewayInv

\* Every step keeps the gateway sound.
LEMMA GatewayKeeps == GatewayInv /\ [GatewayNext]_gatewayVars => GatewayInv'
<1> SUFFICES ASSUME GatewayInv, [GatewayNext]_gatewayVars PROVE GatewayInv'
  OBVIOUS
<1> USE DEF GatewayInv, GatewayTypeOK, ReaderOwnsSocket, CloseIsOwned, CloseReachesSocket
<1>1. CASE OpenBegins
  BY <1>1 DEF OpenBegins
<1>2. CASE DialFails \/ CtxExpires \/ ServerDies \/ ReadReady
  BY <1>2 DEF DialFails, CtxExpires, ServerDies, ReadReady
<1>3. CASE DialDone
  <2>1. opener = "dialing" /\ ~gconn /\ reader = "none" /\ told = 0 /\ UNCHANGED <<gclosed, toClose, told, owner>>
    BY <1>3 DEF DialDone
  <2>2. CASE gclosed
    BY <1>3, <2>1, <2>2 DEF DialDone
  <2>3. CASE ~gclosed
    <3>1. /\ socket' = "open" /\ gconn'
          /\ \/ opener' = "waiting" /\ reader' = "reading"
             \/ opener' = "leaving" /\ reader' = "none"
      BY <1>3, <2>1, <2>3 DEF DialDone
    <3>2. ~toClose /\ ~toClose' /\ ~gclosed'
      BY <2>1, <2>3
    <3>3. GatewayTypeOK'
      BY <2>1, <3>1, <1>3, <2>3 DEF DialDone
    <3> QED  BY <2>1, <3>1, <3>2, <3>3
  <2> QED  BY <2>2, <2>3
<1>4. CASE OpenReturns /\ UNCHANGED <<gclosed, lifeDone, toClose, owner>>
  BY <1>4 DEF OpenReturns
<1>5. CASE OwnerClose /\ (OpenReturns \/ OwnerCloses \/ ChannelMissing)
  <2>1. UNCHANGED <<socket, gconn, reader, told>> /\ opener' \in {opener, "ended"}
    BY <1>5 DEF OpenReturns, OwnerCloses, ChannelMissing
  <2>2. CASE gclosed
    BY <1>5, <2>1, <2>2 DEF OwnerClose, Close
  <2>3. CASE ~gclosed
    BY <1>5, <2>1, <2>3 DEF OwnerClose, Close
  <2> QED  BY <2>2, <2>3
<1>6. CASE SocketCloses
  BY <1>6 DEF SocketCloses
<1>7. CASE ReadHello
  BY <1>7 DEF ReadHello, Reads
<1>8. CASE ReadAck
  BY <1>8 DEF ReadAck, Reads
<1>9. CASE ReadFails
  BY <1>9 DEF ReadFails
<1>10. CASE ReaderReports \/ ReaderLooks
  BY <1>10 DEF ReaderReports, ReaderLooks
<1>11. CASE ReaderCloses
  BY <1>11 DEF ReaderCloses, Close
<1>12. CASE ReaderTells
  BY <1>12 DEF ReaderTells
<1>13. CASE BeatCanceled \/ BeatSends \/ BeatTimesOut
  BY <1>13 DEF BeatCanceled, BeatSends, BeatTimesOut
<1>14. CASE UNCHANGED gatewayVars
  BY <1>14 DEF gatewayVars
<1> QED
  BY <1>1, <1>2, <1>3, <1>4, <1>5, <1>6, <1>7, <1>8, <1>9, <1>10, <1>11, <1>12, <1>13, <1>14
  DEF GatewayNext, ReaderStep, BeatStep, OpenReturns, OwnerCloses, ChannelMissing

\* A voice gateway session is reported exactly once by its reader if its owner had not
\* closed it by the time the reader looked, and not at all if it had; no socket stays
\* open after the session is over.
THEOREM LossToldOnce == GatewaySpec => []GatewaySound
<1>1. GatewaySpec => []GatewayInv
  BY GatewayStarts, GatewayKeeps, PTL DEF GatewaySpec
<1> QED  BY <1>1, GatewayImplies, PTL

-----------------------------------------------------------------------------
\* Announcements: only into channels a user agreed on.

TextChannels == Channels \cup {0}
Items == [channel : TextChannels, epoch : Nat, sequence : Nat, skip : BOOLEAN]
AnnounceTypeOK ==
  /\ chosen \in TextChannels /\ stored \in TextChannels /\ epoch \in Nat /\ sequence \in Nat
  /\ playing \in [channel : TextChannels, previous : TextChannels]
  /\ event \in Items /\ sending \in Items /\ posts \in Seq(Items)

\* The channel in force was agreed on; the one of a /play on its way was not
\* yet, but the channel it falls back to was.
ChoiceAgreed ==
  /\ Unlocked => chosen \in agreed \cup {0}
  /\ ~Unlocked => playing.previous \in agreed \cup {0} /\ playing.channel = chosen

\* An item of an earlier session may name any channel, one of this session an
\* agreed one.
Proper(item) ==
  /\ item.epoch <= epoch
  /\ item.channel # 0 /\ item.epoch = epoch => item.channel \in agreed
ItemsProper == Proper(event) /\ Proper(sending) /\ \A i \in 1..Len(posts) : Proper(posts[i])

AnnounceInv == AnnounceTypeOK /\ ChoiceAgreed /\ ItemsProper

\* The empty slot of the worker is proper.
LEMMA NoItemProper == ASSUME epoch \in Nat PROVE NoItem \in Items /\ Proper(NoItem)
BY DEF NoItem, Items, TextChannels, Proper

\* The invariant implies the property.
LEMMA AnnounceImplies == AnnounceInv => ChannelAccepted
<1> SUFFICES ASSUME AnnounceInv, NEW item \in {event, sending} \cup ToSet(posts),
                    item.channel # 0, item.epoch = epoch
             PROVE  item.channel \in agreed
  BY DEF ChannelAccepted
<1>1. DOMAIN posts = 1..Len(posts)
  BY DEF AnnounceInv, AnnounceTypeOK
<1>2. Proper(item)
  BY <1>1 DEF AnnounceInv, ItemsProper, ToSet
<1> QED  BY <1>2 DEF Proper

\* The initial state.
LEMMA AnnounceStarts == AnnounceInit => AnnounceInv
<1> SUFFICES ASSUME AnnounceInit PROVE AnnounceInv
  OBVIOUS
<1>1. NoItem \in Items /\ Proper(NoItem)
  BY NoItemProper DEF AnnounceInit
<1>2. AnnounceTypeOK
  BY <1>1 DEF AnnounceInit, AnnounceTypeOK, TextChannels, NoPlay
<1>3. ChoiceAgreed /\ ItemsProper
  BY <1>1 DEF AnnounceInit, ChoiceAgreed, ItemsProper, Unlocked
<1> QED  BY <1>2, <1>3 DEF AnnounceInv

\* What keeps the items proper: the session goes on and agrees on more, or a new
\* one begins.
LEMMA SessionSteps ==
  ASSUME ItemsProper, AnnounceTypeOK, UNCHANGED <<event, sending, posts>>,
         \/ epoch' = epoch /\ agreed \subseteq agreed'
         \/ epoch' = epoch + 1
  PROVE  ItemsProper'
<1>1. \A item \in Items : Proper(item) => Proper(item)'
  BY DEF Proper, AnnounceTypeOK, Items
<1>2. \A i \in 1..Len(posts) : posts[i] \in Items
  BY DEF AnnounceTypeOK
<1> QED  BY <1>1, <1>2 DEF ItemsProper, AnnounceTypeOK

\* A /play chooses a channel and is accepted or not; /leave forgets it.
LEMMA PlayKeeps ==
  ASSUME AnnounceInv, (\E c \in Channels : PlayChooses(c) \/ ProviderNotice(c)) \/ PlayAccepted \/ PlayRejected
                      \/ LeaveResets
  PROVE  AnnounceInv'
<1>1. AnnounceTypeOK /\ ChoiceAgreed /\ ItemsProper /\ 0 \notin Channels
  BY AnnouncementAssumption DEF AnnounceInv
<1>2. ItemsProper'
  BY <1>1, SessionSteps DEF PlayChooses, ProviderNotice, PlayAccepted, PlayRejected, LeaveResets
<1>3. AnnounceTypeOK'
  BY <1>1 DEF PlayChooses, ProviderNotice, PlayAccepted, PlayRejected, LeaveResets, AnnounceTypeOK, TextChannels, NoPlay
<1>4. ASSUME NEW c \in Channels, PlayChooses(c) PROVE ChoiceAgreed'
  BY <1>1, <1>4 DEF PlayChooses, ChoiceAgreed, Unlocked, NoPlay
<1>5. ASSUME NEW c \in Channels, ProviderNotice(c) PROVE ChoiceAgreed'
  BY <1>1, <1>5 DEF ProviderNotice, ChoiceAgreed, Unlocked
<1>6. ASSUME PlayAccepted PROVE ChoiceAgreed'
  <2>1. Unlocked' /\ chosen' = playing.channel /\ agreed' = agreed \cup {playing.channel}
    BY <1>1, <1>6 DEF PlayAccepted, ChoiceAgreed, Unlocked
  <2> QED  BY <2>1 DEF ChoiceAgreed
<1>7. ASSUME PlayRejected PROVE ChoiceAgreed'
  <2>1. Unlocked' /\ chosen' = playing.previous /\ agreed' = agreed /\ playing.previous \in agreed \cup {0}
    BY <1>1, <1>7 DEF PlayRejected, ChoiceAgreed, Unlocked
  <2> QED  BY <2>1 DEF ChoiceAgreed
<1>8. ASSUME LeaveResets PROVE ChoiceAgreed'
  <2>1. Unlocked' /\ chosen' = 0
    BY <1>8 DEF LeaveResets, Unlocked
  <2> QED  BY <2>1 DEF ChoiceAgreed
<1> QED  BY <1>2, <1>3, <1>4, <1>5, <1>6, <1>7, <1>8 DEF AnnounceInv

\* A restart restores the saved channel.
LEMMA RestartKeeps == ASSUME AnnounceInv, RestartRestores PROVE AnnounceInv'
<1>1. epoch' \in Nat
  BY DEF AnnounceInv, AnnounceTypeOK, RestartRestores
<1>2. NoItem \in Items /\ Proper(NoItem)'
  BY <1>1 DEF NoItem, Items, TextChannels, Proper
<1>3. AnnounceTypeOK'
  BY <1>1, <1>2 DEF AnnounceInv, AnnounceTypeOK, RestartRestores, TextChannels, NoPlay
<1>4. ChoiceAgreed' /\ ItemsProper'
  BY <1>2 DEF RestartRestores, ChoiceAgreed, ItemsProper, Unlocked, Proper
<1> QED  BY <1>3, <1>4 DEF AnnounceInv

\* The items move; what is moved is proper.
LEMMA ItemsMove ==
  ASSUME AnnounceInv, UNCHANGED <<chosen, epoch, playing, stored, agreed>>, sequence' \in Nat,
         event' \in Items, Proper(event'), sending' \in Items, Proper(sending'),
         posts' \in Seq(Items), \A i \in 1..Len(posts') : Proper(posts'[i])
  PROVE  AnnounceInv'
BY DEF AnnounceInv, AnnounceTypeOK, ChoiceAgreed, Unlocked, ItemsProper, Proper

\* An announcement is made, snapshot, queued and delivered.
LEMMA ItemKeeps ==
  ASSUME AnnounceInv, Starts \/ Skips \/ Snapshot \/ Post \/ WorkerTakes \/ Delivered
  PROVE  AnnounceInv'
<1>1. AnnounceTypeOK /\ ChoiceAgreed /\ ItemsProper /\ NoItem \in Items /\ Proper(NoItem)
  BY NoItemProper DEF AnnounceInv, AnnounceTypeOK
<1>2. CASE Starts
  <2>1. event' \in Items /\ Proper(event')
    <3>1. event' = [channel |-> 0, epoch |-> 0, sequence |-> sequence + 1, skip |-> FALSE]
      BY <1>2 DEF Starts, NoItem
    <3>2. sequence + 1 \in Nat /\ epoch \in Nat /\ epoch' = epoch /\ agreed' = agreed
      BY <1>1, <1>2 DEF Starts, AnnounceTypeOK
    <3>3. event' \in Items
      BY <3>1, <3>2 DEF Items, TextChannels
    <3>4. event'.channel = 0 /\ event'.epoch = 0
      BY <3>1
    <3> QED  BY <3>2, <3>3, <3>4 DEF Proper
  <2> QED  BY <1>1, <1>2, <2>1, ItemsMove DEF Starts, AnnounceTypeOK, ItemsProper
<1>3. CASE Snapshot
  <2>1. event' \in Items /\ Proper(event')
    <3>1. CASE chosen = 0
      BY <1>1, <1>3, <3>1 DEF Snapshot
    <3>2. CASE chosen # 0
      <4>1. event' = [event EXCEPT !.channel = chosen, !.epoch = epoch] /\ chosen \in agreed
        BY <1>1, <1>3, <3>2 DEF Snapshot, SnapshotAllowed, ChoiceAgreed
      <4>2. event' = [channel |-> chosen, epoch |-> epoch, sequence |-> event.sequence, skip |-> event.skip]
        BY <1>1, <4>1 DEF AnnounceTypeOK, Items
      <4>3. event' \in Items
        BY <1>1, <4>2 DEF AnnounceTypeOK, Items
      <4>4. event'.channel = chosen /\ event'.epoch = epoch
        BY <4>2
      <4> QED  BY <1>1, <4>1, <4>3, <4>4 DEF AnnounceTypeOK, Proper
    <3> QED  BY <3>1, <3>2
  <2> QED  BY <1>1, <1>3, <2>1, ItemsMove DEF Snapshot, AnnounceTypeOK, ItemsProper
<1>7. CASE Skips
  <2>1. event' \in Items /\ Proper(event')
    BY <1>1, <1>7 DEF Skips, AnnounceTypeOK, Items, NoItem, Proper
  <2> QED  BY <1>1, <1>7, <2>1, ItemsMove DEF Skips, AnnounceTypeOK, ItemsProper
<1>4. CASE Post
  <2>1. posts' \in Seq(Items) /\ \A i \in 1..Len(posts') : Proper(posts'[i])
    BY <1>1, <1>4 DEF Post, AnnounceTypeOK, ItemsProper
  <2> QED  BY <1>1, <1>4, <2>1, ItemsMove DEF Post, AnnounceTypeOK, ItemsProper
<1>5. CASE WorkerTakes
  <2>1. posts # <<>> /\ posts \in Seq(Items) /\ posts' = Tail(posts)
    BY <1>1, <1>5 DEF WorkerTakes, AnnounceTypeOK
  <2>2. posts' \in Seq(Items) /\ \A i \in 1..Len(posts') : Proper(posts'[i])
    BY <1>1, <2>1 DEF ItemsProper
  <2>3. Head(posts) \in Items /\ Proper(Head(posts))
    BY <1>1, <2>1 DEF ItemsProper
  <2>4. sending' \in Items /\ Proper(sending')
    BY <1>1, <1>5, <2>3 DEF WorkerTakes
  <2> QED  BY <1>1, <1>5, <2>2, <2>4, ItemsMove DEF WorkerTakes, AnnounceTypeOK, ItemsProper
<1>6. CASE Delivered
  BY <1>1, <1>6, ItemsMove DEF Delivered, AnnounceTypeOK, ItemsProper
<1> QED  BY <1>2, <1>3, <1>7, <1>4, <1>5, <1>6

\* Every step keeps the announcements sound.
LEMMA AnnounceKeeps == AnnounceInv /\ [AnnounceNext]_announceVars => AnnounceInv'
<1> SUFFICES ASSUME AnnounceInv, [AnnounceNext]_announceVars PROVE AnnounceInv'
  OBVIOUS
<1>1. CASE UNCHANGED announceVars
  BY <1>1 DEF announceVars, AnnounceInv, AnnounceTypeOK, ChoiceAgreed, Unlocked, ItemsProper, Proper
<1> QED  BY <1>1, PlayKeeps, RestartKeeps, ItemKeeps DEF AnnounceNext

\* An announcement of the present session goes to a channel in which a /play was
\* accepted, never to the channel of a /play the player refused, whatever the order of
\* accepting, restarting, queueing and sending.
THEOREM AnnouncedWhereAgreed == AnnounceSpec => []ChannelAccepted
<1>1. AnnounceSpec => []AnnounceInv
  BY AnnounceStarts, AnnounceKeeps, PTL DEF AnnounceSpec
<1> QED  BY <1>1, AnnounceImplies, PTL
=============================================================================
