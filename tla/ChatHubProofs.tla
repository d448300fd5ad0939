--------------------------- MODULE ChatHubProofs ---------------------------
(***************************************************************************)
(* Theorems of ChatHub, for any viewers, posters and posts, any room size, *)
(* channel capacity and history limit.                                     *)
(***************************************************************************)
EXTENDS ChatHub, TLAPS, FiniteSetTheorems, SequenceTheorems

(* Sequences: what the table, a channel and a page's list are made of.      *)
LEMMA AppendSet ==
  ASSUME NEW s \in Seq(Msg), NEW e \in Msg
  PROVE  /\ ToSet(Append(s, e)) = ToSet(s) \cup {e}
         /\ DOMAIN Append(s, e) = 1..(Len(s) + 1) /\ DOMAIN s = 1..Len(s)
         /\ \A i \in DOMAIN s : Append(s, e)[i] = s[i]
         /\ Append(s, e)[Len(s) + 1] = e /\ Append(s, e) \in Seq(Msg)
<1>1. Append(s, e) \in Seq(Msg) /\ Len(Append(s, e)) = Len(s) + 1
      /\ (\A i \in 1..Len(s) : Append(s, e)[i] = s[i]) /\ Append(s, e)[Len(s) + 1] = e
  BY AppendProperties
<1>2. DOMAIN Append(s, e) = 1..(Len(s) + 1) /\ DOMAIN s = 1..Len(s) /\ Len(s) \in Nat
  BY <1>1, LenProperties
<1> QED BY <1>1, <1>2 DEF ToSet

(* A message that joins the channel joins the end of what will be shown.    *)
LEMMA JoinsTheEnd ==
  ASSUME NEW s \in Seq(Msg), NEW t \in Seq(Msg), NEW e \in Msg
  PROVE  s \o Append(t, e) = Append(s \o t, e)
<1>1. <<e>> \in Seq(Msg) OBVIOUS
<1>2. Append(t, e) = t \o <<e>> /\ s \o t \in Seq(Msg) BY AppendIsConcat, ConcatProperties
<1>3. Append(s \o t, e) = (s \o t) \o <<e>> BY <1>2, AppendIsConcat
<1> QED BY <1>1, <1>2, <1>3, ConcatAssociative

(* Receiving moves a message from the channel to the page: what has been or *)
(* will be shown stays.                                                     *)
LEMMA MovesOver ==
  ASSUME NEW s \in Seq(Msg), NEW t \in Seq(Msg), t # <<>>
  PROVE  Append(s, Head(t)) \o Tail(t) = s \o t
<1>1. Head(t) \in Msg /\ Tail(t) \in Seq(Msg) BY HeadTailProperties
<1>2. <<Head(t)>> \in Seq(Msg) BY <1>1
<1>3. Append(s, Head(t)) = s \o <<Head(t)>> BY <1>1, AppendIsConcat
<1>4. <<Head(t)>> \o Tail(t) = t OBVIOUS
<1> QED BY <1>1, <1>2, <1>3, <1>4, ConcatAssociative

LEMMA AppendOrder ==
  ASSUME NEW s \in Seq(Msg), NEW m \in Msg, NEW p, InOrder(s, p),
         m[1] = p => \A n \in ToSet(s) : n[1] = p => n[2] <= m[2]
  PROVE  InOrder(Append(s, m), p)
<1>1. \A i \in DOMAIN s : s[i] \in ToSet(s) BY DEF ToSet
<1>2. m[2] \in Nat BY ChatAssumption DEF Msg
<1>3. Len(s) \in Nat BY LenProperties
<1> QED BY <1>1, <1>2, <1>3, AppendSet DEF InOrder

LEMMA PrefixSet ==
  ASSUME NEW s \in Seq(Msg), NEW n \in 0..Len(s)
  PROVE  /\ SubSeq(s, 1, n) \in Seq(Msg)
         /\ DOMAIN SubSeq(s, 1, n) = 1..n /\ DOMAIN s = 1..Len(s)
         /\ \A i \in 1..n : SubSeq(s, 1, n)[i] = s[i]
         /\ ToSet(SubSeq(s, 1, n)) \subseteq ToSet(s)
<1>1. DOMAIN s = 1..Len(s) /\ Len(s) \in Nat /\ \A i \in 1..n : s[i] \in Msg
  BY LenProperties, ElementOfSeq
<1>2. /\ SubSeq(s, 1, n) \in Seq(Msg) /\ Len(SubSeq(s, 1, n)) = n
      /\ \A i \in 1..n : SubSeq(s, 1, n)[i] = s[i]
  BY <1>1, SubSeqProperties
<1>3. DOMAIN SubSeq(s, 1, n) = 1..n BY <1>2, LenProperties
<1> QED BY <1>1, <1>2, <1>3 DEF ToSet

LEMMA ShownIsSeq ==
  ASSUME TypeOK, NEW v \in Viewers, conn[v] >= 1
  PROVE  /\ ChanOf(v) \in Channel /\ Shown(v) \in Seq(Msg)
         /\ buf[ChanOf(v)] = <<>> => Shown(v) = seen[v]
         /\ ToSet(Shown(v)) \subseteq Msg
<1>1. ChanOf(v) \in Channel BY ChatAssumption DEF ChanOf, Channel, TypeOK
<1>2. seen[v] \in Seq(Msg) /\ buf[ChanOf(v)] \in Seq(Msg) BY <1>1 DEF TypeOK
<1>3. Shown(v) \in Seq(Msg) BY <1>2, ConcatProperties DEF Shown
<1>4. buf[ChanOf(v)] = <<>> => Shown(v) = seen[v] BY <1>2, ConcatEmptySeq DEF Shown
<1> QED BY <1>1, <1>3, <1>4, LenProperties, ElementOfSeq DEF ToSet

LEMMA ConcatSet ==
  ASSUME NEW s \in Seq(Msg), NEW t \in Seq(Msg)
  PROVE  ToSet(s \o t) = ToSet(s) \cup ToSet(t)
<1>1. /\ DOMAIN (s \o t) = 1..(Len(s) + Len(t)) /\ Len(s) \in Nat /\ Len(t) \in Nat
      /\ DOMAIN s = 1..Len(s) /\ DOMAIN t = 1..Len(t)
      /\ \A i \in 1..(Len(s) + Len(t)) : (s \o t)[i] = IF i <= Len(s) THEN s[i] ELSE t[i - Len(s)]
  BY ConcatProperties, LenProperties
<1>2. \A i \in DOMAIN t : t[i] = (s \o t)[i + Len(s)] /\ i + Len(s) \in DOMAIN (s \o t)
  BY <1>1
<1>3. \A i \in DOMAIN s : s[i] = (s \o t)[i] /\ i \in DOMAIN (s \o t)
  BY <1>1
<1>4. \A i \in DOMAIN (s \o t) : (i \in DOMAIN s /\ (s \o t)[i] = s[i])
                               \/ (i - Len(s) \in DOMAIN t /\ (s \o t)[i] = t[i - Len(s)])
  BY <1>1
<1>5. ToSet(s \o t) \subseteq ToSet(s) \cup ToSet(t) BY <1>4 DEF ToSet
<1>6. ToSet(s) \subseteq ToSet(s \o t) BY <1>3 DEF ToSet
<1>7. ToSet(t) \subseteq ToSet(s \o t) BY <1>2 DEF ToSet
<1> QED BY <1>5, <1>6, <1>7

-----------------------------------------------------------------------------
LEMMA ChatInit == Init => ChatInv
<1> SUFFICES ASSUME Init PROVE ChatInv OBVIOUS
<1> USE ChatAssumption DEF Init
<1>1. TypeOK BY DEF TypeOK, Over, Msg
<1>2. PostInv BY DEF PostInv, ToSet
<1>3. TurnInv BY DEF TurnInv, InOrder
<1>4. FreshInv BY DEF FreshInv
<1>5. RoomInv BY FS_EmptySet DEF RoomInv, RoomIsViewers
<1>6. ViewerInv /\ LossInv BY DEF ViewerInv, LossInv, Over
<1> QED BY <1>1, <1>2, <1>3, <1>4, <1>5, <1>6 DEF ChatInv

(* Of a viewer whose list and connection stay, only the posts move on.      *)
LEMMA ShownStays ==
  ASSUME ChatInv, NEW v \in Viewers, pc[v] # "away", conn'[v] = conn[v],
         racing'[v] = racing[v], Shown(v)' = Shown(v), hurried \subseteq hurried',
         \A n \in Msg : step[n] # "unsent" => step'[n] # "unsent",
         \A n \in Msg : Passed(v, n) => Passed(v, n)'
  PROVE  ShownOK(v)'
<1>1. ShownOK(v) /\ ToSet(Shown(v)) \subseteq Msg
  BY ShownIsSeq DEF ChatInv, ViewerInv, ShownOK
<1>2. ShownOnce(v)' BY <1>1 DEF ShownOK, ShownOnce
<1> QED BY <1>1, <1>2 DEF ShownOK

(* The posts.  None of their steps changes who listens.                     *)
LEMMA StoreKeeps ==
  ASSUME ChatInv, NEW m \in Msg, Store(m)
  PROVE  ChatInv'
<1> USE ChatAssumption DEF ChatInv, viewerVars
<1>1. /\ step[m] = "unsent" /\ step'[m] = "stored"
      /\ \A n \in Msg \ {m} : step'[n] = step[n]
      /\ stored' = Append(stored, m) /\ stored \in Seq(Msg)
      /\ hurried' = (IF InTurn(m) THEN hurried ELSE hurried \cup {m[1]})
      /\ UNCHANGED <<todo, room, closed, buf, dropped, pc, conn, seen, racing, missed>>
  BY DEF Store, TypeOK
<1>2. /\ ToSet(stored') = ToSet(stored) \cup {m} /\ Len(stored) \in Nat
      /\ DOMAIN stored' = 1..(Len(stored) + 1) /\ DOMAIN stored = 1..Len(stored)
      /\ \A i \in DOMAIN stored : stored'[i] = stored[i] /\ stored[i] \in ToSet(stored)
      /\ stored'[Len(stored) + 1] = m
  BY <1>1, AppendSet, LenProperties DEF ToSet
<1>3. TypeOK'
  BY <1>1, AppendProperties DEF Store, TypeOK, Msg
<1>4. PostInv' BY <1>1, <1>2 DEF PostInv
<1>5. TurnInv'
  <2> SUFFICES ASSUME NEW p \in Posters \ hurried'
               PROVE  /\ InOrder(stored', p)
                      /\ \A n \in Msg : n[1] = p /\ step'[n] # "unsent" => InTurn(n)'
    BY DEF TurnInv
  <2>1. p \notin hurried /\ (m[1] = p => InTurn(m)) BY <1>1
  <2>2. \A n \in ToSet(stored) : n \in Msg /\ step[n] # "unsent"
    BY <1>1, LenProperties, ElementOfSeq DEF ToSet, PostInv
  <2>3. m[1] = p => \A n \in ToSet(stored) : n[1] = p => n[2] <= m[2]
    BY <1>1, <2>1, <2>2 DEF TurnInv, InTurn, Msg, Over
  <2>4. InOrder(stored', p) BY <1>1, <2>1, <2>3, AppendOrder DEF TurnInv
  <2>5. \A n \in Msg : step[n] \in Over => step'[n] \in Over BY <1>1 DEF Over
  <2> QED BY <1>1, <2>1, <2>4, <2>5 DEF TurnInv, InTurn
<1>6. FreshInv' BY <1>1 DEF FreshInv, Fresh, ChanOf
<1>7. RoomInv' BY <1>1 DEF RoomInv, RoomIsViewers, ChanOf
<1>8. \A v \in Viewers : Shown(v)' = Shown(v) /\ ChanOf(v)' = ChanOf(v)
  BY <1>1 DEF Shown, ChanOf
<1>9. ViewerInv' BY <1>1, <1>8, ShownStays DEF ViewerInv, Passed, Over
<1>10. LossInv' BY <1>1, <1>8 DEF LossInv
<1> QED BY <1>3, <1>4, <1>5, <1>6, <1>7, <1>9, <1>10

LEMMA AnnounceKeeps ==
  ASSUME ChatInv, NEW m \in Msg, Announce(m)
  PROVE  ChatInv'
<1> USE ChatAssumption DEF ChatInv, viewerVars
<1>1. /\ step[m] = "stored" /\ step'[m] = (IF room = {} THEN "sent" ELSE "sending")
      /\ \A n \in Msg \ {m} : step'[n] = step[n] /\ todo'[n] = todo[n]
      /\ todo'[m] = room
      /\ UNCHANGED <<hurried, stored, room, closed, buf, dropped, pc, conn, seen, racing, missed>>
  BY DEF Announce, TypeOK
<1>2. TypeOK' BY DEF Announce, TypeOK, Over
<1>3. PostInv' BY <1>1 DEF PostInv
<1>4. TurnInv' BY <1>1 DEF TurnInv, InTurn, Over
<1>5. RoomInv' BY <1>1 DEF RoomInv, RoomIsViewers, ChanOf
<1>6. \A v \in Viewers : pc[v] = "open" <=> ChanOf(v) \in room
  BY DEF RoomInv, RoomIsViewers, ChanOf
<1>7. FreshInv'
  <2>1. \A c \in Channel : Fresh(c) => c \notin room
    BY DEF Fresh, RoomInv, RoomIsViewers, ChanOf, TypeOK
  <2> QED BY <1>1, <2>1 DEF FreshInv, Fresh, ChanOf
<1>8. \A v \in Viewers : Shown(v)' = Shown(v) /\ ChanOf(v)' = ChanOf(v)
  BY <1>1 DEF Shown, ChanOf
<1>9. ViewerInv'
  BY <1>1, <1>6, <1>8, ShownStays DEF ViewerInv, Passed, Over
<1>10. LossInv' BY <1>1, <1>6, <1>8 DEF LossInv
<1> QED BY <1>2, <1>3, <1>4, <1>5, <1>7, <1>9, <1>10

(* The broadcast, one channel after the other: it passes a viewer with the  *)
(* message, or notes that the channel was full.                             *)
LEMMA OfferKeeps ==
  ASSUME ChatInv, NEW m \in Msg, NEW c \in Channel, Deliver(m, c) \/ Drop(m, c) \/ Panic(m, c)
  PROVE  ChatInv'
<1> USE ChatAssumption DEF ChatInv, viewerVars
<1>1. /\ step[m] = "sending" /\ c \in todo[m]
      /\ step'[m] \in {"sending", "sent", "panic"}
      /\ step'[m] = "sending" <=> todo'[m] # {}
      /\ step'[m] = "sent" => todo[m] = {c}
      /\ step'[m] # "panic" => todo'[m] = todo[m] \ {c}
      /\ \A n \in Msg \ {m} : step'[n] = step[n] /\ todo'[n] = todo[n]
      /\ todo'[m] \subseteq todo[m] \ {c} /\ dropped \subseteq dropped'
      /\ UNCHANGED <<hurried, stored, room, closed, pc, conn, seen, racing, missed>>
  <2>1. step[m] = "sending" BY DEF Deliver, Drop, Panic, PostInv
  <2> QED BY <2>1 DEF Deliver, Drop, Panic, Offered, TypeOK
<1>2. /\ \A d \in Channel \ {c} : buf'[d] = buf[d]
      /\ \/ buf'[c] = Append(buf[c], m)
         \/ buf'[c] = buf[c] /\ (step'[m] = "panic" \/ <<c, m>> \in dropped')
      /\ \A d \in Channel, n \in Msg : <<d, n>> \in dropped' \ dropped => d = c
  BY DEF Deliver, Drop, Panic, Offered, TypeOK
<1>3. TypeOK'
  <2>1. Append(buf[c], m) \in Seq(Msg) BY AppendProperties DEF TypeOK
  <2>2. buf' \in [Channel -> Seq(Msg)]
    BY <2>1 DEF Deliver, Drop, Panic, TypeOK
  <2>5. dropped' \subseteq Channel \X Msg
    BY DEF Deliver, Drop, Panic, TypeOK
  <2>3. step' \in [Msg -> {"unsent", "stored", "sending"} \cup Over]
    BY DEF Deliver, Drop, Panic, Offered, TypeOK, Over
  <2>4. todo' \in [Msg -> SUBSET Channel]
    <3>1. \/ todo' = [todo EXCEPT ![m] = @ \ {c}] \/ todo' = [todo EXCEPT ![m] = {}]
      BY DEF Deliver, Drop, Panic, Offered
    <3> QED BY <3>1 DEF TypeOK
  <2> QED BY <1>1, <2>2, <2>3, <2>4, <2>5 DEF TypeOK
<1>4. PostInv' BY <1>1 DEF PostInv
<1>5. TurnInv' BY <1>1 DEF TurnInv, InTurn, Over
<1>6. RoomInv' BY <1>1 DEF RoomInv, RoomIsViewers, ChanOf
<1>7. FreshInv'
  <2>1. ~Fresh(c) BY <1>1 DEF FreshInv
  <2> QED BY <1>1, <1>2, <2>1 DEF FreshInv, Fresh, ChanOf
\* What v is shown stays, or grows by m, which it was not shown before.
<1>8. ASSUME NEW v \in Viewers, pc[v] # "away"
      PROVE  /\ ChanOf(v)' = ChanOf(v) /\ Shown(v) \in Seq(Msg) /\ ToSet(Shown(v)) \subseteq Msg
             /\ \/ Shown(v)' = Shown(v)
                \/ Shown(v)' = Append(Shown(v), m) /\ c = ChanOf(v)
             /\ c = ChanOf(v) => \/ Shown(v)' = Append(Shown(v), m)
                                 \/ step'[m] = "panic" \/ <<c, m>> \in dropped'
  <2>1. conn[v] >= 1 BY <1>8 DEF ViewerInv, ShownOK
  <2>2. ChanOf(v)' = ChanOf(v) /\ seen'[v] = seen[v] BY <1>1 DEF ChanOf
  <2>3. ChanOf(v) \in Channel /\ Shown(v) \in Seq(Msg) /\ ToSet(Shown(v)) \subseteq Msg
    BY <2>1, ShownIsSeq
  <2>4. seen[v] \in Seq(Msg) /\ buf[ChanOf(v)] \in Seq(Msg) BY <2>3 DEF TypeOK
  <2>5. seen[v] \o Append(buf[ChanOf(v)], m) = Append(Shown(v), m)
    BY <2>4, JoinsTheEnd DEF Shown
  <2> QED BY <1>2, <2>2, <2>3, <2>5 DEF Shown
<1>9. ASSUME NEW v \in Viewers, pc[v] # "away" PROVE ShownOK(v)'
  <2>1. ShownOK(v) /\ conn[v] >= 1 BY <1>9 DEF ViewerInv, ShownOK
  <2>2. \A n \in Msg : Passed(v, n) => Passed(v, n)'
    BY <1>1, <1>8, <1>9 DEF Passed, Over
  <2>3. CASE Shown(v)' = Shown(v) BY <1>1, <1>9, <2>2, <2>3, ShownStays
  <2>4. CASE Shown(v)' = Append(Shown(v), m) /\ c = ChanOf(v)
    <3>1. pc[v] = "open"
      <4>1. ~Fresh(c) BY <1>1 DEF FreshInv
      <4> QED BY <1>9, <2>4, <4>1 DEF Fresh, TypeOK, ChanOf
    <3>2. Passed(v, m)' BY <1>1, <1>8, <3>1, <2>4 DEF Passed, Over
    <3>3. ~Passed(v, m) BY <1>1, <2>4 DEF Passed, Over
    <3>4. /\ ToSet(Shown(v)') = ToSet(Shown(v)) \cup {m} /\ Len(Shown(v)) \in Nat
          /\ DOMAIN Shown(v)' = 1..(Len(Shown(v)) + 1) /\ DOMAIN Shown(v) = 1..Len(Shown(v))
          /\ \A i \in DOMAIN Shown(v) : Shown(v)'[i] = Shown(v)[i] /\ Shown(v)[i] \in ToSet(Shown(v))
          /\ Shown(v)'[Len(Shown(v)) + 1] = m
      BY <1>8, <1>9, <2>4, AppendSet, LenProperties DEF ToSet
    <3>5. m \in racing[v] \/ m \notin ToSet(Shown(v)) BY <2>1, <3>3 DEF ShownOK
    <3>6. \A n \in ToSet(Shown(v)') :
            step'[n] # "unsent" /\ (n \in racing[v] \/ Passed(v, n)')
      BY <1>1, <1>8, <1>9, <2>1, <2>2, <3>2, <3>4 DEF ShownOK
    <3>7. ShownOnce(v)' BY <1>1, <2>1, <3>4, <3>5 DEF ShownOK, ShownOnce
    <3>8. ASSUME NEW p \in Posters \ hurried PROVE InOrder(Shown(v)', p)
      <4>1. InOrder(Shown(v), p) BY <2>1 DEF ShownOK
      <4>2. m[1] = p => \A n \in ToSet(Shown(v)) : n[1] = p => n[2] <= m[2]
        <5>1. \A n \in ToSet(Shown(v)) : n \in Msg /\ step[n] # "unsent"
          BY <1>8, <1>9, <2>1 DEF ShownOK
        <5> QED BY <1>1, <5>1 DEF TurnInv, InTurn, Msg, Over
      <4> QED BY <1>8, <1>9, <2>4, <4>1, <4>2, AppendOrder
    <3> QED BY <1>1, <2>1, <3>6, <3>7, <3>8 DEF ShownOK
  <2> QED BY <1>8, <1>9, <2>3, <2>4
<1>10. LossInv'
  <2> SUFFICES ASSUME NEW v \in Viewers, NEW n \in Msg, pc[v] = "open",
                      step'[n] = "sent" \/ (step'[n] = "sending" /\ ChanOf(v)' \notin todo'[n])
               PROVE  n \in ToSet(Shown(v)') \cup missed[v] \/ <<ChanOf(v)', n>> \in dropped'
    BY <1>1 DEF LossInv
  <2>1. ChanOf(v)' = ChanOf(v) /\ ToSet(Shown(v)) \subseteq ToSet(Shown(v)')
        /\ (Shown(v)' = Append(Shown(v), m) => m \in ToSet(Shown(v)'))
    <3>1. pc[v] # "away" OBVIOUS
    <3>2. Shown(v) \in Seq(Msg) BY <1>8, <3>1
    <3>3. ToSet(Append(Shown(v), m)) = ToSet(Shown(v)) \cup {m} BY <3>2, AppendSet
    <3> QED BY <1>8, <3>1, <3>3
  <2>2. CASE step[n] = "sent" \/ (step[n] = "sending" /\ ChanOf(v) \notin todo[n])
    BY <1>1, <2>1, <2>2 DEF LossInv
  <2>3. CASE ~(step[n] = "sent" \/ (step[n] = "sending" /\ ChanOf(v) \notin todo[n]))
    <3>1. n = m /\ c = ChanOf(v) /\ step'[m] # "panic" BY <1>1, <2>1, <2>3
    <3> QED BY <1>8, <2>1, <3>1
  <2> QED BY <2>2, <2>3
<1>11. ViewerInv' BY <1>1, <1>9 DEF ViewerInv
<1> QED BY <1>3, <1>4, <1>5, <1>6, <1>7, <1>10, <1>11

-----------------------------------------------------------------------------
(* The listeners.  A step of one viewer leaves the others' lists alone.     *)

(* Every step of v touches only v's own channel.                            *)
LEMMA OthersStay ==
  ASSUME ChatInv, NEW v \in Viewers, NEW w \in Viewers \ {v}, pc[w] # "away",
         UNCHANGED <<hurried, step, todo>>,
         pc'[w] = pc[w], conn'[w] = conn[w], seen'[w] = seen[w], racing'[w] = racing[w],
         \A c \in Channel : c[1] # v => buf'[c] = buf[c]
  PROVE  ShownOK(w)' /\ Shown(w)' = Shown(w) /\ ChanOf(w)' = ChanOf(w)
<1>1. conn[w] >= 1 BY DEF ChatInv, ViewerInv, ShownOK
<1>2. ChanOf(w) \in Channel BY <1>1, ShownIsSeq DEF ChatInv
<1>3. ChanOf(w)' = ChanOf(w) /\ buf'[ChanOf(w)] = buf[ChanOf(w)] BY <1>2 DEF ChanOf
<1>4. Shown(w)' = Shown(w) BY <1>3 DEF Shown
<1>5. \A n \in Msg : Passed(w, n) => Passed(w, n)' BY <1>3 DEF Passed
<1> QED BY <1>3, <1>4, <1>5, ShownStays

LEMMA ReadHistoryKeeps ==
  ASSUME ChatInv, NEW v \in Viewers, ReadHistory(v)
  PROVE  ChatInv'
<1> USE ChatAssumption DEF ChatInv
<1>1. PICK n \in 0..Len(stored) : seen' = [seen EXCEPT ![v] = SubSeq(stored, 1, n)]
  <2>1. Len(Oldest(stored)) \in 0..Len(stored)
    <3> DEFINE k == IF Len(stored) < HistoryLimit THEN Len(stored) ELSE HistoryLimit
    <3>1. stored \in Seq(Msg) /\ Len(stored) \in Nat BY LenProperties DEF TypeOK
    <3>2. k \in 0..Len(stored) BY <3>1
    <3>3. SubSeq(stored, 1, k) \in Seq(Msg) /\ DOMAIN SubSeq(stored, 1, k) = 1..k
      BY <3>1, <3>2, PrefixSet
    <3>4. Len(SubSeq(stored, 1, k)) = k BY <3>2, <3>3, LenProperties
    <3> QED BY <3>2, <3>4 DEF Oldest
  <2>2. Len(stored) \in Nat BY LenProperties DEF TypeOK
  <2>3. 0..Len(Oldest(stored)) \subseteq 0..Len(stored) BY <2>1, <2>2
  <2> QED BY <2>3 DEF ReadHistory
<1>2. /\ pc[v] = "away" /\ pc'[v] = "history" /\ conn'[v] = conn[v] + 1 /\ conn'[v] \in 1..MaxConns
      /\ seen'[v] = SubSeq(stored, 1, n)
      /\ racing'[v] = {m \in ToSet(stored) : step[m] \notin Over}
      /\ \A w \in Viewers \ {v} : /\ pc'[w] = pc[w] /\ conn'[w] = conn[w]
                                    /\ seen'[w] = seen[w] /\ racing'[w] = racing[w]
      /\ UNCHANGED <<hurried, stored, step, todo, room, closed, buf, missed, dropped>>
  BY <1>1 DEF ReadHistory, TypeOK
<1>3. /\ stored \in Seq(Msg) /\ seen'[v] \in Seq(Msg)
      /\ DOMAIN seen'[v] = 1..n /\ DOMAIN stored = 1..Len(stored)
      /\ \A i \in 1..n : seen'[v][i] = stored[i]
      /\ ToSet(seen'[v]) \subseteq ToSet(stored)
  BY <1>2, PrefixSet DEF TypeOK
<1>4. TypeOK'
  <2>1. ToSet(stored) \subseteq Msg BY <1>3, LenProperties, ElementOfSeq DEF ToSet
  <2>2. seen' \in [Viewers -> Seq(Msg)] BY <1>1, <1>2, <1>3 DEF TypeOK
  <2> QED BY <2>1, <2>2 DEF ReadHistory, TypeOK
<1>5. PostInv' /\ TurnInv' BY <1>2 DEF PostInv, TurnInv, InTurn
<1>6. \A c \in Channel : Fresh(c)' => Fresh(c)
  BY <1>2 DEF Fresh, ChanOf, TypeOK, Channel
<1>7. FreshInv' BY <1>2, <1>6 DEF FreshInv
<1>8. RoomInv'
  <2>1. \A w \in Viewers : pc'[w] = "open" <=> pc[w] = "open" BY <1>2
  <2>2. \A w \in Viewers : pc[w] = "open" => ChanOf(w)' = ChanOf(w) BY <1>2 DEF ChanOf
  <2> QED BY <1>2, <2>1, <2>2 DEF RoomInv, RoomIsViewers
<1>9. ShownOK(v)'
  <2>1. ChanOf(v)' \in Channel /\ Fresh(ChanOf(v)')
    BY <1>2 DEF ChanOf, Channel, Fresh, TypeOK
  <2>2. buf'[ChanOf(v)'] = <<>> BY <1>2, <2>1 DEF FreshInv
  <2>3. Shown(v)' = seen'[v] BY <1>3, <2>2, ConcatEmptySeq DEF Shown
  <2>4. \A m \in ToSet(seen'[v]) : step[m] # "unsent" /\ (m \in racing'[v] \/ step[m] \in Over)
    <3>1. ToSet(stored) \subseteq Msg BY <1>3, LenProperties, ElementOfSeq DEF ToSet
    <3> QED BY <1>2, <1>3, <3>1 DEF PostInv
  <2>5. ShownOnce(v)' BY <1>3, <2>3 DEF ShownOnce, PostInv
  <2>6. \A p \in Posters \ hurried : InOrder(seen'[v], p)
    BY <1>3 DEF TurnInv, InOrder
  <2> QED BY <1>2, <2>3, <2>4, <2>5, <2>6 DEF ShownOK, Passed
<1>10. ASSUME NEW w \in Viewers \ {v}, pc[w] # "away"
       PROVE  ShownOK(w)' /\ Shown(w)' = Shown(w) /\ ChanOf(w)' = ChanOf(w)
  BY <1>2, <1>10, OthersStay
<1>11. ViewerInv' BY <1>2, <1>9, <1>10 DEF ViewerInv
<1>12. LossInv' BY <1>2, <1>10 DEF LossInv
<1> QED BY <1>4, <1>5, <1>7, <1>8, <1>11, <1>12

LEMMA SubscribeKeeps ==
  ASSUME ChatInv, NEW v \in Viewers, Subscribe(v)
  PROVE  ChatInv'
<1> USE ChatAssumption DEF ChatInv
<1>1. /\ pc[v] = "history" /\ pc'[v] = "open" /\ room' = room \cup {ChanOf(v)}
      /\ missed'[v] = {m \in ToSet(stored) \ ToSet(seen[v]) : step[m] # "stored"}
      /\ \A w \in Viewers \ {v} : pc'[w] = pc[w] /\ missed'[w] = missed[w]
      /\ UNCHANGED <<hurried, stored, step, todo, closed, buf, conn, seen, racing, dropped>>
  BY DEF Subscribe, TypeOK
<1>2. ShownOK(v) /\ conn[v] >= 1 /\ ChanOf(v) \in Channel /\ Fresh(ChanOf(v))
  BY <1>1, ShownIsSeq DEF ViewerInv, ShownOK, Fresh, ChanOf
<1>3. buf[ChanOf(v)] = <<>> /\ ChanOf(v) \notin closed
      /\ \A m \in Msg : ChanOf(v) \notin todo[m]
  BY <1>2 DEF FreshInv
<1>4. Shown(v) = seen[v] /\ ToSet(Shown(v)) \subseteq Msg BY <1>2, <1>3, ShownIsSeq
<1>5. \A w \in Viewers : Shown(w)' = Shown(w) /\ ChanOf(w)' = ChanOf(w)
  BY <1>1 DEF Shown, ChanOf
<1>6. TypeOK'
  <2>1. ToSet(stored) \subseteq Msg BY LenProperties, ElementOfSeq DEF ToSet, TypeOK
  <2> QED BY <1>2, <2>1 DEF Subscribe, TypeOK
<1>7. PostInv' /\ TurnInv' BY <1>1 DEF PostInv, TurnInv, InTurn
<1>8. FreshInv'
  <2>1. \A c \in Channel : Fresh(c)' => Fresh(c) BY <1>1, <1>5 DEF Fresh, Channel
  <2> QED BY <1>1, <2>1 DEF FreshInv
<1>9. RoomInv'
  <2>1. IsFiniteSet(room') /\ Cardinality(room') <= MaxSubscribers
    <3>1. IsFiniteSet(room) /\ Cardinality(room) < MaxSubscribers BY DEF RoomInv, Subscribe
    <3>2. Cardinality(room) \in Nat BY <3>1, FS_CardinalityType
    <3>3. /\ IsFiniteSet(room \cup {ChanOf(v)})
          /\ Cardinality(room \cup {ChanOf(v)}) \in {Cardinality(room), Cardinality(room) + 1}
      BY <3>1, FS_AddElement
    <3> QED BY <1>1, <3>1, <3>2, <3>3
  <2>2. room' = {ChanOf(w)' : w \in {u \in Viewers : pc'[u] = "open"}}
    <3>1. {u \in Viewers : pc'[u] = "open"} = {u \in Viewers : pc[u] = "open"} \cup {v}
      BY <1>1
    <3> QED BY <1>1, <1>5, <3>1 DEF RoomInv, RoomIsViewers
  <2>3. room' \cap closed' = {} BY <1>1, <1>3 DEF RoomInv, RoomIsViewers
  <2> QED BY <2>1, <2>2, <2>3 DEF RoomInv, RoomIsViewers
<1>10. ASSUME NEW w \in Viewers, pc[w] # "away" PROVE ShownOK(w)'
  <2>1. \A n \in Msg : Passed(w, n) => Passed(w, n)' BY <1>1, <1>5 DEF Passed
  <2> QED BY <1>1, <1>5, <1>10, <2>1, ShownStays
<1>11. ViewerInv' BY <1>1, <1>10 DEF ViewerInv
<1>12. LossInv'
  <2>1. ASSUME NEW m \in Msg, step[m] \in {"sent", "sending"}
        PROVE  m \in ToSet(Shown(v)) \cup missed'[v]
    BY <1>1, <1>4, <2>1 DEF PostInv
  <2> QED BY <1>1, <1>5, <2>1 DEF LossInv
<1> QED BY <1>6, <1>7, <1>8, <1>9, <1>11, <1>12

LEMMA ReceiveKeeps ==
  ASSUME ChatInv, NEW v \in Viewers, Receive(v)
  PROVE  ChatInv'
<1> USE ChatAssumption DEF ChatInv
<1> DEFINE c == ChanOf(v)
<1>1. pc[v] = "open" /\ ShownOK(v) /\ c \in Channel /\ buf[c] # <<>>
      /\ UNCHANGED <<hurried, stored, step, todo, room, closed, pc, conn, racing, missed, dropped>>
  BY ShownIsSeq DEF Receive, ViewerInv, ShownOK
<1>2. seen[v] \in Seq(Msg) /\ buf[c] \in Seq(Msg) BY <1>1 DEF TypeOK
<1>3. Head(buf[c]) \in Msg /\ Tail(buf[c]) \in Seq(Msg) BY <1>1, <1>2, HeadTailProperties
<1>4. Append(seen[v], Head(buf[c])) \in Seq(Msg) BY <1>2, <1>3, AppendProperties
<1>5. /\ seen'[v] = Append(seen[v], Head(buf[c])) /\ buf'[c] = Tail(buf[c])
      /\ \A w \in Viewers \ {v} : seen'[w] = seen[w]
      /\ \A d \in Channel \ {c} : buf'[d] = buf[d]
  BY <1>1 DEF Receive, TypeOK
<1>6. \A w \in Viewers : ChanOf(w)' = ChanOf(w) BY <1>1 DEF ChanOf
<1>7. Shown(v)' = Shown(v) BY <1>1, <1>2, <1>5, <1>6, MovesOver DEF Shown
<1>8. ASSUME NEW w \in Viewers \ {v}, pc[w] # "away"
      PROVE  ShownOK(w)' /\ Shown(w)' = Shown(w)
  BY <1>1, <1>5, <1>8, OthersStay DEF ChanOf
<1>9. TypeOK'
  <2>1. seen' \in [Viewers -> Seq(Msg)] /\ buf' \in [Channel -> Seq(Msg)]
    BY <1>1, <1>3, <1>4 DEF Receive, TypeOK
  <2> QED BY <1>1, <2>1 DEF TypeOK
<1>10. PostInv' /\ TurnInv' BY <1>1 DEF PostInv, TurnInv, InTurn
<1>11. RoomInv' BY <1>1, <1>6 DEF RoomInv, RoomIsViewers
<1>12. FreshInv'
  <2>1. \A d \in Channel : Fresh(d)' <=> Fresh(d) BY <1>1, <1>6 DEF Fresh, Channel
  <2>2. ~Fresh(c) BY <1>1 DEF FreshInv
  <2> QED BY <1>1, <1>5, <2>1, <2>2 DEF FreshInv
<1>13. ShownOK(v)'
  <2>1. \A n \in Msg : Passed(v, n) => Passed(v, n)' BY <1>1, <1>6 DEF Passed
  <2> QED BY <1>1, <1>7, <2>1, ShownStays
<1>14. ViewerInv' BY <1>1, <1>8, <1>13 DEF ViewerInv
<1>15. LossInv' BY <1>1, <1>6, <1>7, <1>8 DEF LossInv
<1> QED BY <1>9, <1>10, <1>11, <1>12, <1>14, <1>15

(* The end of a connection, in the loop or turned away before it.           *)
LEMMA LeaveKeeps ==
  ASSUME ChatInv, NEW v \in Viewers, TurnAway(v) \/ Unsubscribe(v)
  PROVE  ChatInv'
<1> USE ChatAssumption DEF ChatInv
<1> DEFINE c == ChanOf(v)
<1>1. /\ pc[v] # "away" /\ pc'[v] = "away"
      /\ \A w \in Viewers \ {v} : /\ pc'[w] = pc[w] /\ seen'[w] = seen[w]
                                    /\ racing'[w] = racing[w] /\ missed'[w] = missed[w]
      /\ UNCHANGED <<hurried, stored, step, todo, conn>>
  BY DEF TurnAway, Unsubscribe, Forget, TypeOK
<1>2. ShownOK(v) /\ c \in Channel BY <1>1, ShownIsSeq DEF ViewerInv, ShownOK
<1>3. /\ closed' \subseteq closed \cup {c} /\ dropped' \subseteq dropped
      /\ \A d \in Channel \ {c} : buf'[d] = buf[d]
      /\ \A d \in Channel \ {c}, m \in Msg : <<d, m>> \in dropped => <<d, m>> \in dropped'
      /\ room' = room \ {c}
      /\ pc[v] = "history" => closed' = closed /\ buf' = buf
  <2>1. CASE TurnAway(v)
    <3>1. c \notin room
      BY <1>1, <2>1 DEF TurnAway, RoomInv, RoomIsViewers, ChanOf
    <3> QED BY <2>1, <3>1 DEF TurnAway
  <2>2. CASE Unsubscribe(v) BY <1>2, <2>2 DEF Unsubscribe, TypeOK
  <2> QED BY <2>1, <2>2
<1>4. \A w \in Viewers : ChanOf(w)' = ChanOf(w) /\ (w # v => ChanOf(w) # c)
  BY <1>1 DEF ChanOf
<1>5. ASSUME NEW w \in Viewers \ {v}, pc[w] # "away"
      PROVE  ShownOK(w)' /\ Shown(w)' = Shown(w) /\ ChanOf(w) \in Channel
  <2>1. \A d \in Channel : d[1] # v => buf'[d] = buf[d] BY <1>3 DEF ChanOf
  <2>2. ChanOf(w) \in Channel BY <1>5, ShownIsSeq DEF ViewerInv, ShownOK
  <2> QED BY <1>1, <1>5, <2>1, <2>2, OthersStay
<1>6. TypeOK'
  <2>1. <<>> \in Seq(Msg) OBVIOUS
  <2>2. buf' \in [Channel -> Seq(Msg)]
    BY <2>1 DEF TurnAway, Unsubscribe, TypeOK
  <2>3. seen' \in [Viewers -> Seq(Msg)]
    BY <2>1 DEF TurnAway, Unsubscribe, Forget, TypeOK
  <2>5. pc' \in [Viewers -> {"away", "history", "open"}]
    BY DEF TurnAway, Unsubscribe, Forget, TypeOK
  <2>4. racing' \in [Viewers -> SUBSET Msg] /\ missed' \in [Viewers -> SUBSET Msg]
    BY DEF TurnAway, Unsubscribe, Forget, TypeOK
  <2> QED BY <1>1, <1>2, <1>3, <2>2, <2>3, <2>4, <2>5 DEF TypeOK
<1>7. PostInv' /\ TurnInv' BY <1>1 DEF PostInv, TurnInv, InTurn
<1>8. FreshInv'
  <2>1. \A d \in Channel : Fresh(d)' => Fresh(d) /\ d # c
    BY <1>1, <1>4 DEF Fresh, Channel, ChanOf, TypeOK
  <2> QED BY <1>1, <1>3, <2>1 DEF FreshInv
<1>9. RoomInv'
  <2>1. IsFiniteSet(room') /\ Cardinality(room') <= MaxSubscribers
    <3>1. IsFiniteSet(room) /\ Cardinality(room) <= MaxSubscribers BY DEF RoomInv, RoomIsViewers
    <3>2. IsFiniteSet(room') /\ Cardinality(room') <= Cardinality(room) BY <1>3, <3>1, FS_Subset
    <3> QED BY <3>1, <3>2, FS_CardinalityType
  <2>2. room' = {ChanOf(w)' : w \in {u \in Viewers : pc'[u] = "open"}}
    <3>1. {u \in Viewers : pc'[u] = "open"} = {u \in Viewers : pc[u] = "open"} \ {v}
      BY <1>1
    <3> QED BY <1>3, <1>4, <3>1 DEF RoomInv, RoomIsViewers
  <2>3. room' \cap closed' = {} BY <1>3 DEF RoomInv, RoomIsViewers
  <2> QED BY <2>1, <2>2, <2>3 DEF RoomInv, RoomIsViewers
<1>10. ViewerInv' BY <1>1, <1>5 DEF ViewerInv
<1>11. LossInv' BY <1>1, <1>3, <1>4, <1>5 DEF LossInv
<1> QED BY <1>6, <1>7, <1>8, <1>9, <1>10, <1>11

LEMMA ChatStep == ChatInv /\ [Next]_vars => ChatInv'
<1>1. ASSUME ChatInv, UNCHANGED vars PROVE ChatInv'
  <2> USE <1>1 DEF vars, ChatInv
  <2>1. TypeOK' /\ PostInv' /\ TurnInv' BY DEF TypeOK, PostInv, TurnInv, InTurn
  <2>2. FreshInv' /\ RoomInv' BY DEF FreshInv, Fresh, RoomInv, RoomIsViewers, ChanOf
  <2>3. \A v \in Viewers : Shown(v)' = Shown(v) /\ ChanOf(v)' = ChanOf(v) BY DEF Shown, ChanOf
  <2>4. \A v \in Viewers, n \in Msg : Passed(v, n) => Passed(v, n)' BY <2>3 DEF Passed
  <2>5. ViewerInv' BY <2>3, <2>4, ShownStays DEF ViewerInv
  <2>6. LossInv' BY <2>3 DEF LossInv
  <2> QED BY <2>1, <2>2, <2>5, <2>6
<1> QED BY <1>1, StoreKeeps, AnnounceKeeps, OfferKeeps, ReadHistoryKeeps, SubscribeKeeps,
           ReceiveKeeps, LeaveKeeps DEF Next, Offer, Listen

LEMMA ChatInvariant == Spec => []ChatInv
BY ChatInit, ChatStep, PTL DEF Spec

(* A room is the channels of the connections in their loop, open, and never *)
(* more than the limit.                                                     *)
THEOREM RoomIsWhoListens == Spec => []RoomIsViewers
BY ChatInvariant, PTL DEF ChatInv, RoomInv

(* A message answered with 201 reaches every connected viewer, unless its   *)
(* channel was full or the message fell between its history and its         *)
(* subscription.                                                            *)
THEOREM NothingIsLostSilently == Spec => []NoSilentLoss
<1>1. ASSUME ChatInv PROVE NoSilentLoss
  <2> SUFFICES ASSUME NEW v \in Viewers, NEW m \in Msg, pc[v] = "open", step[m] = "sent"
               PROVE  m \in Reached(v) \cup missed[v] \/ <<ChanOf(v), m>> \in dropped
    BY DEF NoSilentLoss
  <2>1. ChanOf(v) \in Channel BY <1>1, ShownIsSeq DEF ChatInv, ViewerInv, ShownOK
  <2>2. seen[v] \in Seq(Msg) /\ buf[ChanOf(v)] \in Seq(Msg) BY <1>1, <2>1 DEF ChatInv, TypeOK
  <2>3. ToSet(Shown(v)) = Reached(v) BY <2>2, ConcatSet DEF Shown, Reached
  <2> QED BY <1>1, <2>3 DEF ChatInv, LossInv
<1> QED BY <1>1, ChatInvariant, PTL

(* A connection shows a message twice only when it was being broadcast      *)
(* while the connection read its history.                                   *)
THEOREM OnceUnlessInFlight == Spec => []TwiceOnlyIfInFlight
<1>1. ASSUME ChatInv PROVE TwiceOnlyIfInFlight
  <2> SUFFICES ASSUME NEW v \in Viewers, NEW m \in Msg, pc[v] = "open", m \notin racing[v]
               PROVE  ~(Count(Shown(v), m) > 1)
    BY DEF TwiceOnlyIfInFlight
  <2> DEFINE places == {i \in DOMAIN Shown(v) : Shown(v)[i] = m}
  <2>1. \A i, j \in places : i = j BY <1>1 DEF ChatInv, ViewerInv, ShownOK, ShownOnce
  <2>2. places = {} \/ \E i \in places : places = {i} BY <2>1
  <2>3. Cardinality(places) \in {0, 1} BY <2>2, FS_EmptySet, FS_Singleton
  <2> QED BY <2>3 DEF Count
<1> QED BY <1>1, ChatInvariant, PTL

(* A connection shows the messages of a page that waits for its answers in  *)
(* the order they were posted.                                              *)
THEOREM PagesKeepTheirOrder == Spec => []SenderOrder
<1>1. ChatInv => SenderOrder BY DEF ChatInv, ViewerInv, ShownOK, SenderOrder
<1> QED BY <1>1, ChatInvariant, PTL

(* What a viewer was shown is in the table.                                 *)
THEOREM ShownSurvives == Spec => []ShownIsStored
<1>1. ASSUME ChatInv PROVE ShownIsStored
  <2> SUFFICES ASSUME NEW v \in Viewers, pc[v] = "open" PROVE Reached(v) \subseteq ToSet(stored)
    BY DEF ShownIsStored
  <2>1. ShownOK(v) /\ ChanOf(v) \in Channel /\ ToSet(Shown(v)) \subseteq Msg
    BY <1>1, ShownIsSeq DEF ChatInv, ViewerInv, ShownOK
  <2>2. seen[v] \in Seq(Msg) /\ buf[ChanOf(v)] \in Seq(Msg) BY <1>1, <2>1 DEF ChatInv, TypeOK
  <2>3. ToSet(Shown(v)) = Reached(v) BY <2>2, ConcatSet DEF Shown, Reached
  <2> QED BY <1>1, <2>1, <2>3 DEF ChatInv, PostInv, ShownOK
<1> QED BY <1>1, ChatInvariant, PTL
============================================================================
