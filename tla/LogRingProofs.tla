---------------------------- MODULE LogRingProofs ----------------------------
(***************************************************************************)
(* Proofs about LogRing, for any threads, ring size and number of calls.   *)
(***************************************************************************)
EXTENDS LogRing, SequenceTheorems, TLAPS

-----------------------------------------------------------------------------
(* The arithmetic of the ring.                                             *)
LEMMA RingType ==
  ASSUME NEW i \in Index, NEW j \in Index
  PROVE  /\ Succ(i) \in Index
         /\ Span(i, j) \in 0..(RingSize - 1)
         /\ Span(i, j) = 0 <=> i = j
BY LogRingAssumption DEF Index, Succ, Span

LEMMA FwdType ==
  ASSUME NEW i \in Index, NEW k \in 0..(RingSize - 1)
  PROVE  Fwd(i, k) \in Index
BY LogRingAssumption DEF Index, Fwd

\* Entries that wait are not the one ring_head is at.
LEMMA FwdInside ==
  ASSUME NEW i \in Index, NEW j \in Index, NEW k \in 1..Span(i, j)
  PROVE  Fwd(i, k - 1) \in Index /\ Fwd(i, k - 1) # j
BY LogRingAssumption DEF Index, Fwd, Span

LEMMA SpanPush ==
  ASSUME NEW i \in Index, NEW j \in Index, Succ(j) # i
  PROVE  /\ Span(i, Succ(j)) = Span(i, j) + 1
         /\ Span(i, j) < RingSize - 1
         /\ Fwd(i, Span(i, j)) = j
BY LogRingAssumption DEF Index, Succ, Span, Fwd

LEMMA SpanFull ==
  ASSUME NEW i \in Index, NEW j \in Index, Succ(j) = i
  PROVE  Span(i, j) = RingSize - 1
BY LogRingAssumption DEF Index, Succ, Span

LEMMA SpanPop ==
  ASSUME NEW i \in Index, NEW j \in Index, i # j
  PROVE  /\ Span(Succ(i), j) = Span(i, j) - 1
         /\ Fwd(i, 0) = i
         /\ \A k \in 1..(Span(i, j) - 1) : Fwd(Succ(i), k - 1) = Fwd(i, k)
BY LogRingAssumption DEF Index, Succ, Span, Fwd

LEMMA SuccInjective ==
  ASSUME NEW i \in Index, NEW j \in Index, Succ(i) = Succ(j)
  PROVE  i = j
BY LogRingAssumption DEF Index, Succ

-----------------------------------------------------------------------------
(* What makes the ring a queue while no two pushes overlap: one thread     *)
(* pushes, at the head, where there is room; the entries that wait are     *)
(* whole; and what the writer has copied is still the oldest of them.      *)
Whole(i) == slot[i].text \in Message /\ slot[i].level = slot[i].text

MadeInv == \A p \in Producer : pc[p] # "idle" => made[p] >= 1

PushInv ==
  /\ \A p, q \in Producer : pc[p] # "idle" /\ pc[q] # "idle" => p = q
  /\ \A p \in Producer : pc[p] # "idle" => at[p] = head
  /\ \A p \in Producer : pc[p] \in {"text", "level", "publish"} => Succ(head) # tail
  /\ \A p \in Producer : pc[p] \in {"level", "publish"} => slot[head].text = Mine(p)
  /\ \A p \in Producer : pc[p] = "publish" => slot[head].level = Mine(p)

WholeInv == \A k \in 1..Span(tail, head) : Whole(Fwd(tail, k - 1))

CopyInv ==
  /\ wpc \in {"level", "last level", "free", "last free"} =>
       tail # head /\ entry.text = slot[tail].text
  /\ wpc \in {"free", "last free"} => entry.level = slot[tail].level

LastInv ==
  /\ wpc \in {"last", "last level", "last free", "ended"} => stop # "no"
  /\ stop = "returned" => wpc = "ended"

HasPrinted(m) == \E i \in 1..Len(printed) : printed[i].text = m

OwedInv ==
  /\ stop # "no" => \A m \in owed : m \in InRing \/ HasPrinted(m)
  /\ wpc = "ended" => \A m \in owed : HasPrinted(m)

IInv ==
  /\ TypeOK /\ MadeInv /\ LastInv
  /\ serial => PushInv /\ WholeInv /\ CopyInv /\ OwedInv

-----------------------------------------------------------------------------
LEMMA InitIInv == Init => IInv
<1> SUFFICES ASSUME Init PROVE IInv
  OBVIOUS
<1> USE LogRingAssumption DEF Init
<1>1. TypeOK
  <2>1. 0 \in Index /\ 0 \in 0..MaxPush
    BY DEF Index
  <2> QED BY <2>1 DEF TypeOK, ControlOK, Entry
<1>2. MadeInv /\ LastInv /\ PushInv
  BY DEF MadeInv, LastInv, PushInv
<1>3. WholeInv /\ CopyInv /\ OwedInv
  BY DEF WholeInv, CopyInv, OwedInv, Span
<1> QED BY <1>1, <1>2, <1>3 DEF IInv

-----------------------------------------------------------------------------
\* What a producer has at hand.
LEMMA Facts ==
  ASSUME TypeOK, MadeInv, NEW p \in Producer
  PROVE  /\ made[p] \in 0..MaxPush
         /\ pc[p] # "idle" => Mine(p) \in Message
         /\ at[p] \in Index /\ Succ(at[p]) \in Index
         /\ slot[at[p]] \in Entry
         /\ head \in Index /\ tail \in Index /\ slot[tail] \in Entry
<1>1. made[p] \in 0..MaxPush
  BY DEF TypeOK
<1>2. pc[p] # "idle" => made[p] >= 1
  BY DEF MadeInv
<1>3. pc[p] # "idle" => made[p] \in 1..MaxPush
  BY <1>1, <1>2, LogRingAssumption
<1>4. pc[p] # "idle" => Mine(p) \in Message
  BY <1>3 DEF Mine, Message
<1>5. at[p] \in Index /\ head \in Index /\ tail \in Index
  BY DEF TypeOK, ControlOK
<1>6. Succ(at[p]) \in Index
  BY <1>5, RingType
<1>7. slot[at[p]] \in Entry /\ slot[tail] \in Entry
  BY <1>5 DEF TypeOK
<1> QED BY <1>1, <1>4, <1>5, <1>6, <1>7

LEMMA WithEntry ==
  ASSUME NEW e \in Entry, NEW m \in Message \cup {Blank}
  PROVE  WithText(e, m) \in Entry /\ WithLevel(e, m) \in Entry
BY DEF Entry, WithText, WithLevel

LEMMA ControlStep ==
  ASSUME TypeOK, [Next]_vars
  PROVE  ControlOK'
<1>1. ControlOK /\ Succ(tail) \in Index
  BY RingType DEF TypeOK, ControlOK
<1>2. ASSUME NEW p \in Producer, Push(p)
      PROVE  ControlOK'
  <2>1. Succ(at[p]) \in Index
    BY <1>1, RingType DEF ControlOK
  <2> QED BY <1>1, <1>2, <2>1 DEF ControlOK, Push, LoadHead, TestFull, CopyText,
             CopyLevel, Publish, ring, history
<1>3. CASE Writer
  BY <1>1, <1>3 DEF ControlOK, Writer, TestRunning, FindEmpty, FindEntry,
     TakeLevel, Free, LastRound, ring, producers, history
<1>4. CASE StopAsked \/ StopReturns \/ UNCHANGED vars
  BY <1>1, <1>4 DEF ControlOK, StopAsked, StopReturns, ring, producers, history, vars
<1> QED BY <1>2, <1>3, <1>4 DEF Next

LEMMA MadeStep ==
  ASSUME TypeOK, MadeInv, [Next]_vars
  PROVE  made' \in [Producer -> 0..MaxPush] /\ MadeInv'
<1>1. /\ made \in [Producer -> 0..MaxPush]
      /\ pc \in [Producer -> {"idle", "full?", "text", "level", "publish"}]
  BY DEF TypeOK, ControlOK
<1>2. ASSUME NEW p \in Producer, LoadHead(p)
      PROVE  made' \in [Producer -> 0..MaxPush] /\ MadeInv'
  <2>1. made[p] \in 0..MaxPush /\ made[p] < MaxPush
    BY <1>1, <1>2 DEF LoadHead
  <2>2. made[p] + 1 \in 0..MaxPush /\ made[p] + 1 >= 1
    BY <2>1, LogRingAssumption
  <2>3. made' = [made EXCEPT ![p] = made[p] + 1]
    BY <1>2 DEF LoadHead
  <2> QED BY <1>1, <1>2, <2>2, <2>3 DEF LoadHead, MadeInv
<1>3. ASSUME NEW p \in Producer,
             TestFull(p) \/ CopyText(p) \/ CopyLevel(p) \/ Publish(p)
      PROVE  made' \in [Producer -> 0..MaxPush] /\ MadeInv'
  <2>1. made' = made /\ pc[p] # "idle"
    BY <1>3 DEF TestFull, CopyText, CopyLevel, Publish
  <2>2. \A q \in Producer \ {p} : pc'[q] = pc[q]
    BY <1>1, <1>3 DEF TestFull, CopyText, CopyLevel, Publish
  <2> QED BY <1>1, <2>1, <2>2 DEF MadeInv
<1>4. CASE Writer \/ StopAsked \/ StopReturns \/ UNCHANGED vars
  <2>1. UNCHANGED <<pc, made>>
    BY <1>4 DEF Writer, TestRunning, FindEmpty, FindEntry, TakeLevel, Free,
       StopAsked, StopReturns, vars, producers
  <2> QED BY <1>1, <2>1 DEF MadeInv
<1> QED BY <1>2, <1>3, <1>4 DEF Next, Push

LEMMA EntryStep ==
  ASSUME TypeOK, MadeInv, [Next]_vars
  PROVE  slot' \in [Index -> Entry] /\ entry' \in Entry
<1>1. /\ slot \in [Index -> Entry] /\ entry \in Entry
      /\ slot[tail] \in Entry
  BY DEF TypeOK, ControlOK
<1>2. ASSUME NEW p \in Producer, CopyText(p) \/ CopyLevel(p)
      PROVE  slot' \in [Index -> Entry] /\ entry' \in Entry
  <2>1. Mine(p) \in Message /\ slot[at[p]] \in Entry
    BY <1>2, Facts DEF CopyText, CopyLevel
  <2>2. /\ WithText(slot[at[p]], Mine(p)) \in Entry
        /\ WithLevel(slot[at[p]], Mine(p)) \in Entry
    BY <2>1, WithEntry
  <2> QED BY <1>1, <1>2, <2>2 DEF CopyText, CopyLevel
<1>3. CASE FindEntry \/ TakeLevel
  <2>1. slot[tail].text \in Message \cup {Blank} /\ slot[tail].level \in Message \cup {Blank}
    BY <1>1 DEF Entry
  <2>2. /\ WithText(entry, slot[tail].text) \in Entry
        /\ WithLevel(entry, slot[tail].level) \in Entry
    BY <1>1, <2>1, WithEntry
  <2> QED BY <1>1, <1>3, <2>2 DEF FindEntry, TakeLevel, ring
<1>4. CASE \/ \E p \in Producer : LoadHead(p) \/ TestFull(p) \/ Publish(p)
           \/ TestRunning \/ FindEmpty \/ Free
           \/ StopAsked \/ StopReturns \/ UNCHANGED vars
  <2>1. UNCHANGED <<slot, entry>>
    BY <1>4 DEF LoadHead, TestFull, Publish, TestRunning, FindEmpty, Free,
       StopAsked, StopReturns, vars, ring
  <2> QED BY <1>1, <2>1
<1> QED BY <1>2, <1>3, <1>4 DEF Next, Push, Writer

LEMMA HistoryStep ==
  ASSUME TypeOK, MadeInv, [Next]_vars
  PROVE  /\ printed' \in Seq(Entry) /\ lost' \subseteq Message
         /\ owed' \subseteq Message \cup {Blank}
<1>1. /\ printed \in Seq(Entry) /\ lost \subseteq Message
      /\ owed \subseteq Message \cup {Blank}
  BY DEF TypeOK
<1>2. ASSUME NEW p \in Producer, TestFull(p)
      PROVE  lost' \subseteq Message /\ UNCHANGED <<printed, owed>>
  BY <1>1, <1>2, Facts DEF TestFull
<1>3. CASE Free
  <2>1. entry \in Entry
    BY DEF TypeOK
  <2>2. Line \in Entry
    BY <2>1, WithEntry DEF Line
  <2>3. printed' \in Seq(Entry)
    BY <1>1, <1>3, <2>2, AppendProperties DEF Free
  <2> QED BY <1>1, <1>3, <2>3 DEF Free, history
<1>4. CASE StopAsked
  <2>1. \A k \in 1..Span(tail, head) : slot[Fwd(tail, k - 1)] \in Entry
    BY FwdInside DEF TypeOK, ControlOK
  <2>2. InRing \subseteq Message \cup {Blank}
    BY <2>1 DEF InRing, Waiting, Entry
  <2> QED BY <1>1, <1>4, <2>2 DEF StopAsked
<1>5. CASE \/ \E p \in Producer : \/ LoadHead(p) \/ CopyText(p)
                               \/ CopyLevel(p) \/ Publish(p)
           \/ TestRunning \/ FindEmpty \/ FindEntry \/ TakeLevel
           \/ StopReturns \/ UNCHANGED vars
  <2>1. UNCHANGED <<printed, lost, owed>>
    BY <1>5 DEF LoadHead, CopyText, CopyLevel, Publish, TestRunning, FindEmpty,
       FindEntry, TakeLevel, StopReturns, vars, history
  <2> QED BY <1>1, <2>1
<1> QED BY <1>1, <1>2, <1>3, <1>4, <1>5 DEF Next, Push, Writer

LEMMA TypeStep ==
  ASSUME TypeOK, MadeInv, [Next]_vars
  PROVE  TypeOK' /\ MadeInv'
BY ControlStep, MadeStep, EntryStep, HistoryStep DEF TypeOK

LEMMA LastStep ==
  ASSUME LastInv, TypeOK, [Next]_vars
  PROVE  LastInv'
<1>1. CASE Writer
  BY <1>1 DEF Writer, TestRunning, FindEmpty, FindEntry, TakeLevel, Free,
     Running, LastRound, LastInv, TypeOK
<1>2. CASE StopAsked \/ StopReturns \/ UNCHANGED vars
  BY <1>2 DEF StopAsked, StopReturns, vars, LastInv
<1>3. ASSUME NEW p \in Producer, Push(p)
      PROVE  LastInv'
  BY <1>3 DEF Push, LoadHead, TestFull, CopyText, CopyLevel, Publish, LastInv
<1> QED BY <1>1, <1>2, <1>3 DEF Next

-----------------------------------------------------------------------------
(* The steps of try_push while no two pushes overlap.                      *)
LEMMA SpanNat ==
  ASSUME ControlOK
  PROVE  Span(tail, head) \in Nat
<1>1. tail \in 0..(RingSize - 1) /\ head \in 0..(RingSize - 1)
  BY DEF ControlOK, Index
<1> QED BY <1>1, LogRingAssumption DEF Span

LEMMA KeepRing ==
  ASSUME UNCHANGED <<head, tail, slot>>
  PROVE  WholeInv' <=> WholeInv
BY DEF WholeInv, Whole

LEMMA KeepOwed ==
  ASSUME OwedInv, UNCHANGED <<wpc, stop, printed, owed>>, InRing \subseteq InRing'
  PROVE  OwedInv'
BY DEF OwedInv, HasPrinted

\* A step of a producer that leaves the ring alone.
LEMMA BeginPush ==
  ASSUME IInv, NEW p \in Producer, LoadHead(p) \/ TestFull(p), serial'
  PROVE  PushInv' /\ WholeInv' /\ CopyInv' /\ OwedInv'
<1>1. serial /\ PushInv /\ WholeInv /\ CopyInv /\ OwedInv
      /\ TypeOK /\ ControlOK /\ slot \in [Index -> Entry]
  BY DEF IInv, TypeOK, LoadHead, TestFull
<1>2. UNCHANGED <<head, tail, slot, wpc, entry, stop, printed, owed>>
  BY DEF LoadHead, TestFull, ring
<1>3. PushInv'
  <2>1. CASE LoadHead(p)
    BY <1>1, <1>2, <2>1 DEF LoadHead, Pushing, PushInv, Mine, ControlOK
  <2>2. CASE TestFull(p)
    BY ZenonT(30), <1>1, <1>2, <2>2 DEF TestFull, Full, PushInv, Mine, ControlOK
  <2> QED BY <2>1, <2>2
<1>4. WholeInv'
  BY <1>1, <1>2, KeepRing
<1>5. CopyInv'
  BY <1>1, <1>2 DEF CopyInv
<1>6. InRing' = InRing
  BY <1>2 DEF InRing, Waiting
<1>7. OwedInv'
  BY <1>1, <1>2, <1>6, KeepOwed
<1> QED BY <1>3, <1>4, <1>5, <1>7

\* The entry that is written is not one that waits.
LEMMA FillKeeps ==
  ASSUME IInv, serial, NEW p \in Producer, CopyText(p) \/ CopyLevel(p)
  PROVE  /\ at[p] = head
         /\ \A i \in Index : i # head => slot'[i] = slot[i]
         /\ \A k \in 1..Span(tail, head) :
              slot'[Fwd(tail, k - 1)] = slot[Fwd(tail, k - 1)]
<1>1. at[p] = head
  BY DEF IInv, PushInv, CopyText, CopyLevel
<1>2. \A i \in Index : i # head => slot'[i] = slot[i]
  BY <1>1 DEF CopyText, CopyLevel, IInv, TypeOK, ControlOK
<1> QED BY <1>1, <1>2, FwdInside DEF IInv, TypeOK, ControlOK

LEMMA FillPush ==
  ASSUME IInv, NEW p \in Producer, CopyText(p) \/ CopyLevel(p), serial'
  PROVE  PushInv' /\ WholeInv' /\ CopyInv' /\ OwedInv'
<1>1. serial /\ PushInv /\ WholeInv /\ CopyInv /\ OwedInv
      /\ TypeOK /\ ControlOK /\ slot \in [Index -> Entry]
  BY DEF IInv, TypeOK, CopyText, CopyLevel, history
<1>2. /\ UNCHANGED <<head, tail, wpc, entry, stop, printed, owed, at, made>>
      /\ \A i \in Index : i # head => slot'[i] = slot[i]
      /\ \A k \in 1..Span(tail, head) :
           slot'[Fwd(tail, k - 1)] = slot[Fwd(tail, k - 1)]
      /\ at[p] = head
  BY <1>1, FillKeeps DEF CopyText, CopyLevel, history
<1>3. PushInv'
  <2>1. CASE CopyText(p)
    <3>1. slot'[head] = WithText(slot[head], Mine(p))
      BY <1>1, <1>2, <2>1 DEF CopyText, ControlOK
    <3>2. pc' = [pc EXCEPT ![p] = "level"] /\ pc[p] = "text"
      BY <2>1 DEF CopyText
    <3>3. head \in Index /\ slot[head] \in Entry
      BY <1>1 DEF ControlOK
    <3>4. slot'[head].text = Mine(p)
      BY <3>1, <3>3 DEF WithText, Entry
    <3> QED BY <1>1, <1>2, <3>2, <3>4 DEF PushInv, Mine, ControlOK
  <2>2. CASE CopyLevel(p)
    <3>1. slot'[head] = WithLevel(slot[head], Mine(p))
      BY <1>1, <1>2, <2>2 DEF CopyLevel, ControlOK
    <3>2. pc' = [pc EXCEPT ![p] = "publish"] /\ pc[p] = "level"
      BY <2>2 DEF CopyLevel
    <3>3. slot'[head].text = Mine(p) /\ slot'[head].level = Mine(p)
      BY <1>1, <3>1, <3>2 DEF PushInv, WithLevel
    <3> QED BY <1>1, <1>2, <3>2, <3>3 DEF PushInv, Mine, ControlOK
  <2> QED BY <2>1, <2>2
<1>4. WholeInv'
  BY <1>1, <1>2 DEF WholeInv, Whole
<1>5. CopyInv'
  BY <1>1, <1>2 DEF CopyInv, ControlOK
<1>6. InRing' = InRing
  BY <1>2 DEF InRing, Waiting
<1>7. OwedInv'
  BY <1>1, <1>2, <1>6, KeepOwed
<1> QED BY <1>3, <1>4, <1>5, <1>7

\* The ring grows by the message at the head.
LEMMA PublishGrows ==
  ASSUME IInv, serial, NEW p \in Producer, Publish(p)
  PROVE  /\ head' = Succ(head) /\ Succ(head) # tail
         /\ Span(tail, head)' = Span(tail, head) + 1
         /\ Span(tail, head) < RingSize - 1
         /\ Fwd(tail, Span(tail, head)) = head
         /\ Whole(head) /\ slot[head].text = Mine(p) /\ Mine(p) \in Message
<1>1. PushInv /\ TypeOK /\ ControlOK /\ MadeInv
  BY DEF IInv, TypeOK
<1>2. head' = Succ(head) /\ Succ(head) # tail /\ tail' = tail
  BY <1>1 DEF PushInv, Publish
<1>3. Mine(p) \in Message
  BY <1>1, Facts DEF Publish
<1>4. Whole(head) /\ slot[head].text = Mine(p)
  BY <1>1, <1>3 DEF PushInv, Publish, Whole
<1> QED BY <1>1, <1>2, <1>3, <1>4, SpanPush DEF ControlOK

LEMMA PublishStep ==
  ASSUME IInv, NEW p \in Producer, Publish(p), serial'
  PROVE  PushInv' /\ WholeInv' /\ CopyInv' /\ OwedInv'
<1>1. serial /\ PushInv /\ WholeInv /\ CopyInv /\ OwedInv
      /\ TypeOK /\ ControlOK /\ slot \in [Index -> Entry]
  BY DEF IInv, TypeOK, Publish, history
<1>2. UNCHANGED <<tail, slot, wpc, entry, stop, printed, owed, at, made>>
  BY DEF Publish, history
<1>3. /\ head' = Succ(head) /\ Succ(head) # tail
      /\ Span(tail, head)' = Span(tail, head) + 1
      /\ Fwd(tail, Span(tail, head)) = head
      /\ Whole(head)
  BY <1>1, PublishGrows
<1>4. PushInv'
  BY <1>1, <1>2 DEF Publish, PushInv, ControlOK
<1>5. WholeInv'
  <2> SUFFICES ASSUME NEW k \in 1..(Span(tail, head) + 1)
               PROVE  Whole(Fwd(tail, k - 1))
    BY <1>2, <1>3 DEF WholeInv, Whole, Fwd
  <2>1. Span(tail, head) \in Nat
    BY <1>1, SpanNat
  <2>2. CASE k \in 1..Span(tail, head)
    BY <1>1, <2>2 DEF WholeInv
  <2>3. CASE k = Span(tail, head) + 1
    BY <1>3, <2>1, <2>3
  <2> QED BY <2>1, <2>2, <2>3
<1>6. CopyInv'
  BY <1>1, <1>2, <1>3 DEF CopyInv
<1>7. InRing \subseteq InRing'
  <2>1. \A k \in 1..Span(tail, head) : k \in 1..Span(tail, head)'
    BY <1>1, <1>3, SpanNat
  <2>2. \A k \in 1..Span(tail, head) : Waiting'[k] = Waiting[k]
    BY <1>2, <2>1 DEF Waiting
  <2> QED BY <2>1, <2>2 DEF InRing
<1>8. OwedInv'
  BY <1>1, <1>2, <1>7, KeepOwed
<1> QED BY <1>4, <1>5, <1>6, <1>8

-----------------------------------------------------------------------------
(* The steps of the writer and of log_stop.                                *)
LEMMA CopyStep ==
  ASSUME IInv, TestRunning \/ FindEmpty \/ FindEntry \/ TakeLevel, serial'
  PROVE  PushInv' /\ WholeInv' /\ CopyInv' /\ OwedInv'
<1>1. serial /\ PushInv /\ WholeInv /\ CopyInv /\ OwedInv /\ LastInv
      /\ TypeOK /\ ControlOK
  BY DEF IInv, TypeOK, TestRunning, FindEmpty, FindEntry, TakeLevel, history
<1>2. UNCHANGED <<head, tail, slot, pc, at, made, stop, printed, owed>>
  BY DEF TestRunning, FindEmpty, FindEntry, TakeLevel, ring, producers, history
<1>3. PushInv'
  BY <1>1, <1>2 DEF PushInv, Mine
<1>4. WholeInv'
  BY <1>1, <1>2, KeepRing
<1>5. CopyInv'
  <2>1. CASE TestRunning \/ FindEmpty
    <3>1. wpc' \notin {"level", "last level", "free", "last free"}
      BY <2>1 DEF TestRunning, FindEmpty, LastRound
    <3> QED BY <3>1 DEF CopyInv
  <2>2. CASE FindEntry
    <3>1. /\ tail # head /\ entry'.text = slot[tail].text
          /\ wpc' \in {"level", "last level"}
      BY <2>2 DEF FindEntry, Empty, WithText
    <3> QED BY <1>2, <3>1 DEF CopyInv
  <2>3. CASE TakeLevel
    <3>1. /\ wpc \in {"level", "last level"}
          /\ entry'.text = entry.text /\ entry'.level = slot[tail].level
          /\ wpc' \in {"free", "last free"}
      BY <2>3 DEF TakeLevel, WithLevel
    <3>2. tail # head /\ entry.text = slot[tail].text
      BY <1>1, <3>1 DEF CopyInv
    <3> QED BY <1>2, <3>1, <3>2 DEF CopyInv
  <2> QED BY <2>1, <2>2, <2>3
<1>6. InRing' = InRing
  BY <1>2 DEF InRing, Waiting
<1>7. OwedInv'
  <2>1. CASE wpc' # "ended" \/ wpc = "ended"
    BY <1>1, <1>2, <1>6, <2>1 DEF OwedInv, HasPrinted
  <2>2. CASE wpc' = "ended" /\ wpc # "ended"
    <3>1. wpc = "last" /\ tail = head
      BY <2>2 DEF TestRunning, FindEmpty, FindEntry, TakeLevel, LastRound, Empty
    <3>2. Span(tail, head) = 0
      BY <1>1, <3>1, RingType DEF ControlOK
    <3>3. InRing = {}
      BY <3>2 DEF InRing
    <3>4. \A m \in owed : HasPrinted(m)
      BY <1>1, <3>1, <3>3 DEF OwedInv, LastInv
    <3> QED BY <1>2, <3>4 DEF OwedInv, HasPrinted
  <2> QED BY <2>1, <2>2
<1> QED BY <1>3, <1>4, <1>5, <1>7

\* The ring shrinks by the entry at the tail, which is printed.
LEMMA FreeShrinks ==
  ASSUME IInv, serial, Free
  PROVE  /\ tail' = Succ(tail) /\ tail # head
         /\ Span(tail, head) \in Nat \ {0}
         /\ Span(tail, head)' = Span(tail, head) - 1
         /\ Fwd(tail, 0) = tail
         /\ \A k \in 1..(Span(tail, head) - 1) :
              Fwd(tail', k - 1) = Fwd(tail, k)
         /\ Whole(tail)
         /\ Line.text = slot[tail].text
         /\ Line.level \in {slot[tail].text, Blank}
         /\ Line.level = Blank => stop # "no"
         /\ Line \in Entry /\ Line = [text |-> Line.text, level |-> Line.level]
<1>1. WholeInv /\ CopyInv /\ LastInv /\ TypeOK /\ ControlOK
  BY DEF IInv, TypeOK
<1>2. /\ tail' = Succ(tail) /\ head' = head /\ tail # head
      /\ entry.text = slot[tail].text /\ entry.level = slot[tail].level
      /\ wpc \in {"free", "last free"}
  BY <1>1 DEF Free, CopyInv
<1>3. Span(tail, head) \in Nat /\ Span(tail, head) # 0
  BY <1>1, <1>2, SpanNat, RingType DEF ControlOK
<1>4. /\ Span(tail, head)' = Span(tail, head) - 1
      /\ Fwd(tail, 0) = tail
      /\ \A k \in 1..(Span(tail, head) - 1) : Fwd(tail', k - 1) = Fwd(tail, k)
  BY <1>1, <1>2, SpanPop DEF ControlOK
<1>5. Whole(tail)
  <2>1. 1 \in 1..Span(tail, head) /\ 1 - 1 = 0
    BY <1>3
  <2> QED BY <1>1, <1>4, <2>1 DEF WholeInv
<1>6. Line = [text |-> Line.text, level |-> Line.level] /\ Line \in Entry
  <2>1. entry \in Entry
    BY <1>1 DEF TypeOK
  <2> QED BY <2>1 DEF Line, Entry, WithLevel
<1>7. Line.text = slot[tail].text /\ Line.level \in {slot[tail].text, Blank}
  BY <1>2, <1>5 DEF Line, Whole, WithLevel
<1>8. Line.level = Blank => stop # "no"
  <2>1. CASE wpc = "free"
    <3>1. Line.level = slot[tail].text /\ slot[tail].text \in Message
      BY <1>2, <1>5, <2>1 DEF Line, Whole
    <3>2. Blank \notin Message
      BY LogRingAssumption DEF Message
    <3> QED BY <3>1, <3>2
  <2>2. CASE wpc = "last free"
    BY <1>1, <2>2 DEF LastInv
  <2> QED BY <1>2, <2>1, <2>2
<1> QED BY <1>2, <1>3, <1>4, <1>5, <1>6, <1>7, <1>8

LEMMA FreeStep ==
  ASSUME IInv, Free, serial'
  PROVE  PushInv' /\ WholeInv' /\ CopyInv' /\ OwedInv'
<1>1. serial /\ PushInv /\ WholeInv /\ OwedInv /\ LastInv /\ TypeOK /\ ControlOK
      /\ printed \in Seq(Entry)
  BY DEF IInv, TypeOK, Free, history
<1>2. /\ UNCHANGED <<head, slot, pc, at, made, stop, owed>>
      /\ printed' = Append(printed, Line)
      /\ wpc \in {"free", "last free"} /\ wpc' \in {"round", "last"}
  BY DEF Free, producers, history
<1>3. /\ tail' = Succ(tail) /\ tail # head
      /\ Span(tail, head) \in Nat \ {0}
      /\ Span(tail, head)' = Span(tail, head) - 1
      /\ Fwd(tail, 0) = tail
      /\ \A k \in 1..(Span(tail, head) - 1) : Fwd(tail', k - 1) = Fwd(tail, k)
      /\ Line.text = slot[tail].text /\ Line \in Entry
  BY <1>1, FreeShrinks
<1>4. PushInv'
  <2>1. Succ(head) # Succ(tail)
    BY <1>1, <1>3, SuccInjective DEF ControlOK
  <2> QED BY <1>1, <1>2, <1>3, <2>1 DEF PushInv, Mine
<1>5. WholeInv'
  <2> SUFFICES ASSUME NEW k \in 1..(Span(tail, head) - 1)
               PROVE  Whole(Fwd(tail', k - 1))
    BY <1>2, <1>3 DEF WholeInv, Whole
  <2>1. k + 1 \in 1..Span(tail, head) /\ (k + 1) - 1 = k
    BY <1>3
  <2>2. Whole(Fwd(tail, k))
    BY <1>1, <2>1 DEF WholeInv
  <2> QED BY <1>3, <2>2
<1>6. CopyInv'
  BY <1>2 DEF CopyInv
<1>7. \A m : HasPrinted(m) \/ m = slot[tail].text => HasPrinted(m)'
  <2>1. /\ Len(printed') = Len(printed) + 1 /\ Len(printed) \in Nat
        /\ \A i \in 1..Len(printed) : printed'[i] = printed[i]
        /\ printed'[Len(printed) + 1] = Line
    <3>1. printed \in Seq(Entry) /\ Line \in Entry
      BY <1>1, <1>3
    <3>2. printed' = Append(printed, Line)
      BY <1>2
    <3>3. Len(printed) \in Nat
      BY <3>1, LenProperties
    <3> QED BY <3>1, <3>2, <3>3, AppendProperties
  <2>2. /\ Len(printed) + 1 \in 1..Len(printed')
        /\ printed'[Len(printed) + 1].text = slot[tail].text
    <3>1. Len(printed) + 1 \in 1..Len(printed')
      BY <2>1
    <3>2. Line.text = slot[tail].text
      BY <1>3
    <3> QED BY <2>1, <3>1, <3>2
  <2>3. \A i \in 1..Len(printed) : i \in 1..Len(printed')
    BY <2>1
  <2> SUFFICES ASSUME NEW m, HasPrinted(m) \/ m = slot[tail].text
               PROVE  HasPrinted(m)'
    OBVIOUS
  <2>4. CASE HasPrinted(m)
    BY <2>1, <2>3, <2>4 DEF HasPrinted
  <2>5. CASE m = slot[tail].text
    BY <2>2, <2>5 DEF HasPrinted
  <2> QED BY <2>4, <2>5
<1>8. \A m \in InRing : m = slot[tail].text \/ m \in InRing'
  <2> SUFFICES ASSUME NEW k \in 1..Span(tail, head), k # 1
               PROVE  Waiting[k] \in InRing'
    BY <1>3 DEF InRing, Waiting
  <2>1. k - 1 \in 1..(Span(tail, head) - 1)
    BY <1>3
  <2>2. Waiting'[k - 1] = slot[Fwd(tail', (k - 1) - 1)].text
    BY <1>2, <1>3, <2>1 DEF Waiting
  <2>3. Fwd(tail', (k - 1) - 1) = Fwd(tail, k - 1)
    BY <1>3, <2>1
  <2>4. Waiting'[k - 1] = Waiting[k]
    BY <2>2, <2>3 DEF Waiting
  <2>5. k - 1 \in 1..Span(tail, head)'
    BY <1>3, <2>1
  <2> QED BY <2>4, <2>5 DEF InRing
<1>9. OwedInv'
  BY <1>1, <1>2, <1>7, <1>8 DEF OwedInv
<1> QED BY <1>4, <1>5, <1>6, <1>9

LEMMA StopStep ==
  ASSUME IInv, StopAsked \/ StopReturns \/ UNCHANGED vars, serial'
  PROVE  PushInv' /\ WholeInv' /\ CopyInv' /\ OwedInv'
<1>1. serial /\ PushInv /\ WholeInv /\ CopyInv /\ OwedInv /\ LastInv
  BY DEF IInv, StopAsked, StopReturns, history, vars
<1>2. UNCHANGED <<head, tail, slot, pc, at, made, wpc, entry, printed>>
  BY DEF StopAsked, StopReturns, ring, producers, vars
<1>3. PushInv' /\ CopyInv'
  BY <1>1, <1>2 DEF PushInv, Mine, CopyInv
<1>4. WholeInv'
  BY <1>1, <1>2, KeepRing
<1>5. InRing' = InRing
  BY <1>2 DEF InRing, Waiting
<1>6. OwedInv'
  <2>1. CASE StopAsked
    BY <1>1, <1>2, <1>5, <2>1 DEF StopAsked, OwedInv, HasPrinted, LastInv
  <2>2. CASE StopReturns \/ UNCHANGED vars
    BY <1>1, <1>2, <1>5, <2>2 DEF StopReturns, OwedInv, HasPrinted, LastInv,
       history, vars
  <2> QED BY <2>1, <2>2
<1> QED BY <1>3, <1>4, <1>6

LEMMA StepIInv == IInv /\ [Next]_vars => IInv'
<1> SUFFICES ASSUME IInv, [Next]_vars PROVE IInv'
  OBVIOUS
<1>1. TypeOK' /\ MadeInv' /\ LastInv'
  BY TypeStep, LastStep DEF IInv
<1>2. ASSUME serial'
      PROVE  PushInv' /\ WholeInv' /\ CopyInv' /\ OwedInv'
  <2>1. ASSUME NEW p \in Producer, Push(p)
        PROVE  PushInv' /\ WholeInv' /\ CopyInv' /\ OwedInv'
    BY <1>2, <2>1, BeginPush, FillPush, PublishStep DEF Push
  <2>2. CASE Writer
    BY <1>2, <2>2, CopyStep, FreeStep DEF Writer
  <2>3. CASE StopAsked \/ StopReturns \/ UNCHANGED vars
    BY <1>2, <2>3, StopStep
  <2> QED BY <2>1, <2>2, <2>3 DEF Next
<1> QED BY <1>1, <1>2 DEF IInv

LEMMA Invariance == Spec => []IInv
<1> QED BY InitIInv, StepIInv, PTL DEF Spec

\* The type invariant.
THEOREM TypeCorrect == Spec => []TypeOK
<1>1. IInv => TypeOK
  BY DEF IInv
<1> QED BY <1>1, Invariance, PTL

(* Unless two pushes overlap, what was in the ring when log_stop was       *)
(* called has been printed when it returns (log-system.h:104, 117-121).    *)
THEOREM Drained == Spec => []DrainedAtStop
<1>1. IInv => DrainedAtStop
  <2> SUFFICES ASSUME IInv, serial, stop = "returned", NEW m \in owed
               PROVE  HasPrinted(m)
    BY DEF DrainedAtStop, HasPrinted
  <2> QED BY DEF IInv, OwedInv, LastInv
<1> QED BY <1>1, Invariance, PTL

-----------------------------------------------------------------------------
(* The ring implements the queue.                                          *)
WaitingOK ==
  /\ Waiting \in Seq(Message \cup {Blank})
  /\ Len(Waiting) = Span(tail, head)
  /\ \A k \in 1..Span(tail, head) : Waiting[k] = slot[Fwd(tail, k - 1)].text

LEMMA WaitingIsSeq == TypeOK => WaitingOK
<1> SUFFICES ASSUME TypeOK PROVE WaitingOK
  OBVIOUS
<1>1. ControlOK /\ Span(tail, head) \in Nat
  BY SpanNat DEF TypeOK
<1>2. \A k \in 1..Span(tail, head) : slot[Fwd(tail, k - 1)].text \in Message \cup {Blank}
  <2> SUFFICES ASSUME NEW k \in 1..Span(tail, head)
               PROVE  slot[Fwd(tail, k - 1)].text \in Message \cup {Blank}
    OBVIOUS
  <2>1. slot[Fwd(tail, k - 1)] \in Entry
    BY <1>1, FwdInside DEF TypeOK, ControlOK
  <2> QED BY <2>1 DEF Entry
<1> QED BY <1>1, <1>2 DEF Waiting, WaitingOK

LEMMA WaitingStaysSeq == TypeOK' => WaitingOK'
BY WaitingIsSeq, PTL

LEMMA QueueStutters ==
  ASSUME UNCHANGED <<Waiting, printed, lost, stop, serial>>
  PROVE  UNCHANGED Queue!qvars
BY DEF Queue!qvars

\* Filling the entry at the head is not seen.
LEMMA FillStutters ==
  ASSUME IInv, serial, NEW p \in Producer, CopyText(p) \/ CopyLevel(p)
  PROVE  UNCHANGED Queue!qvars
<1>1. UNCHANGED <<head, tail, printed, lost, stop, serial>>
  BY DEF CopyText, CopyLevel, history
<1>2. \A k \in 1..Span(tail, head) :
        slot'[Fwd(tail, k - 1)] = slot[Fwd(tail, k - 1)]
  BY FillKeeps
<1>3. Waiting' = Waiting
  BY <1>1, <1>2 DEF Waiting
<1> QED BY <1>1, <1>3, QueueStutters

\* The store of ring_head puts the message in the queue.
LEMMA PublishPushes ==
  ASSUME IInv, IInv', serial, NEW p \in Producer, Publish(p)
  PROVE  Queue!Push(Mine(p)) /\ Mine(p) \in Message
<1>1. /\ Span(tail, head)' = Span(tail, head) + 1
      /\ Span(tail, head) < RingSize - 1
      /\ Fwd(tail, Span(tail, head)) = head
      /\ slot[head].text = Mine(p) /\ Mine(p) \in Message
  BY PublishGrows
<1>2. UNCHANGED <<tail, slot, printed, lost, stop, serial>>
  BY DEF Publish, history
<1>3. /\ Waiting \in Seq(Message \cup {Blank})
      /\ Len(Waiting) = Span(tail, head)
      /\ \A k \in 1..Span(tail, head) : Waiting[k] = slot[Fwd(tail, k - 1)].text
  BY WaitingIsSeq DEF IInv, WaitingOK
<1>4. /\ Waiting' \in Seq(Message \cup {Blank})
      /\ Len(Waiting') = Span(tail, head)'
      /\ \A k \in 1..Span(tail, head)' : Waiting'[k] = slot'[Fwd(tail', k - 1)].text
  BY WaitingStaysSeq DEF IInv, WaitingOK
<1>5. Span(tail, head) \in Nat
  BY SpanNat DEF IInv, TypeOK
<1>6. Waiting' = Append(Waiting, Mine(p))
  <2> DEFINE S == Message \cup {Blank}
             W == Append(Waiting, Mine(p))
  <2>1. /\ W \in Seq(S) /\ Len(W) = Len(Waiting) + 1
        /\ \A k \in 1..Len(Waiting) : W[k] = Waiting[k]
        /\ W[Len(Waiting) + 1] = Mine(p)
    BY <1>1, <1>3, AppendProperties
  <2>2. Len(W) = Len(Waiting')
    BY <1>1, <1>3, <1>4, <2>1
  <2> SUFFICES ASSUME NEW k \in 1..Len(W)
               PROVE  W[k] = Waiting'[k]
    BY <1>4, <2>1, <2>2, SeqEqual
  <2>3. k \in 1..Span(tail, head) \/ k = Span(tail, head) + 1
    BY <1>3, <1>5, <2>1
  <2>4. Waiting'[k] = slot[Fwd(tail, k - 1)].text
    BY <1>2, <1>4, <2>2
  <2>5. CASE k \in 1..Span(tail, head)
    BY <1>3, <2>1, <2>4, <2>5
  <2>6. CASE k = Span(tail, head) + 1
    <3>1. k - 1 = Span(tail, head)
      BY <1>5, <2>6
    <3> QED BY <1>1, <1>3, <2>1, <2>4, <2>6, <3>1
  <2> QED BY <2>3, <2>5, <2>6
<1> QED BY <1>1, <1>2, <1>3, <1>6 DEF Queue!Push

\* The store of ring_tail takes the oldest message from the queue.
LEMMA FreePrints ==
  ASSUME IInv, IInv', serial, Free
  PROVE  Queue!Emit
<1>1. /\ Span(tail, head) \in Nat \ {0}
      /\ Span(tail, head)' = Span(tail, head) - 1
      /\ Fwd(tail, 0) = tail
      /\ \A k \in 1..(Span(tail, head) - 1) : Fwd(tail', k - 1) = Fwd(tail, k)
  BY FreeShrinks
<1>2. /\ Line.text = slot[tail].text
      /\ Line.level \in {slot[tail].text, Blank}
      /\ Line.level = Blank => stop # "no"
      /\ Line = [text |-> Line.text, level |-> Line.level]
  BY FreeShrinks
<1>3. UNCHANGED <<head, slot, lost, stop, serial>> /\ printed' = Append(printed, Line)
  BY DEF Free, history
<1>4. /\ Waiting \in Seq(Message \cup {Blank})
      /\ Len(Waiting) = Span(tail, head)
      /\ \A k \in 1..Span(tail, head) : Waiting[k] = slot[Fwd(tail, k - 1)].text
  BY WaitingIsSeq DEF IInv, WaitingOK
<1>5. /\ Waiting' \in Seq(Message \cup {Blank})
      /\ Len(Waiting') = Span(tail, head)'
      /\ \A k \in 1..Span(tail, head)' : Waiting'[k] = slot'[Fwd(tail', k - 1)].text
  BY WaitingStaysSeq DEF IInv, WaitingOK
<1>6. Waiting # <<>> /\ Head(Waiting) = slot[tail].text
  <2>1. Waiting # <<>>
    BY <1>1, <1>4, EmptySeq
  <2>2. Head(Waiting) = Waiting[1] /\ 1 \in 1..Span(tail, head) /\ 1 - 1 = 0
    BY <1>1, <1>4, <2>1, HeadTailProperties
  <2> QED BY <1>1, <1>4, <2>1, <2>2
<1>7. Waiting' = Tail(Waiting)
  <2> DEFINE T == Tail(Waiting)
  <2>1. /\ T \in Seq(Message \cup {Blank}) /\ Len(T) = Len(Waiting) - 1
        /\ \A k \in 1..Len(T) : T[k] = Waiting[k + 1]
    BY <1>4, <1>6, HeadTailProperties
  <2>2. Len(T) = Len(Waiting')
    BY <1>1, <1>4, <1>5, <2>1
  <2> SUFFICES ASSUME NEW k \in 1..Len(T)
               PROVE  T[k] = Waiting'[k]
    BY <1>5, <2>1, <2>2, SeqEqual
  <2>3. /\ k \in 1..(Span(tail, head) - 1) /\ k + 1 \in 1..Span(tail, head)
        /\ (k + 1) - 1 = k
    BY <1>1, <1>4, <2>1
  <2>4. Waiting'[k] = slot[Fwd(tail, k)].text
    BY <1>1, <1>3, <1>5, <2>2, <2>3
  <2> QED BY <1>4, <2>1, <2>3, <2>4
<1>8. \E l \in {Head(Waiting), Blank} :
        /\ l = Blank => stop # "no"
        /\ printed' = Append(printed, [text |-> Head(Waiting), level |-> l])
  <2>1. Line.level \in {Head(Waiting), Blank}
    BY <1>2, <1>6
  <2>2. Line = [text |-> Head(Waiting), level |-> Line.level]
    BY <1>2, <1>6
  <2>3. printed' = Append(printed, [text |-> Head(Waiting), level |-> Line.level])
    BY <1>3, <2>2
  <2> QED BY <1>2, <2>1, <2>3
<1> QED BY <1>3, <1>6, <1>7, <1>8 DEF Queue!Emit

(* Unless two pushes overlap, no message is lost but to a full ring, and   *)
(* the others are printed once, whole and in order (log-system.h:46-107).  *)
THEOREM RingImplementsQueue == Spec => ImplementsQueue
<1>1. Init => Queue!Init
  <2> SUFFICES ASSUME Init PROVE Queue!Init
    OBVIOUS
  <2>1. Span(tail, head) = 0
    BY DEF Init, Span
  <2>2. Waiting = <<>>
    BY <2>1 DEF Waiting
  <2> QED BY <2>2 DEF Init, Queue!Init
<1>2. IInv /\ IInv' /\ [Next]_vars => [Queue!Next]_(Queue!qvars)
  <2> SUFFICES ASSUME IInv, IInv', [Next]_vars
               PROVE  Queue!Next \/ UNCHANGED Queue!qvars
    OBVIOUS
  <2>1. CASE ~serial'
    BY <2>1 DEF Queue!Next, Queue!Overlap
  <2>2. ASSUME serial', NEW p \in Producer, Push(p)
        PROVE  Queue!Next \/ UNCHANGED Queue!qvars
    <3>1. serial
      BY <2>2 DEF Push, LoadHead, TestFull, CopyText, CopyLevel, Publish, history
    <3>2. CASE LoadHead(p)
      <4>1. UNCHANGED <<head, tail, slot, printed, lost, stop>>
        BY <3>2 DEF LoadHead, ring
      <4>2. Waiting' = Waiting
        BY <4>1 DEF Waiting
      <4> QED BY <2>2, <3>1, <4>1, <4>2 DEF Queue!qvars
    <3>3. CASE TestFull(p)
      <4>1. UNCHANGED <<head, tail, slot, printed, stop, serial>>
        BY <3>3 DEF TestFull, ring
      <4>2. Waiting' = Waiting
        BY <4>1 DEF Waiting
      <4>3. CASE lost' = lost
        BY <4>1, <4>2, <4>3, QueueStutters
      <4>4. CASE Full(at[p]) /\ lost' = lost \cup {Mine(p)}
        <5>1. at[p] = head /\ Mine(p) \in Message /\ head \in Index /\ tail \in Index
          BY <3>1, <3>3, Facts DEF IInv, PushInv, TestFull
        <5>2. Len(Waiting) = RingSize - 1
          BY <4>4, <5>1, SpanFull, WaitingIsSeq DEF Full, IInv, WaitingOK
        <5>3. Queue!Lose(Mine(p))
          BY <4>1, <4>2, <4>4, <5>2 DEF Queue!Lose
        <5> QED BY <5>1, <5>3 DEF Queue!Next
      <4> QED BY <3>3, <4>3, <4>4 DEF TestFull
    <3>4. CASE CopyText(p) \/ CopyLevel(p)
      BY <3>1, <3>4, FillStutters
    <3>5. CASE Publish(p)
      BY <3>1, <3>5, PublishPushes DEF Queue!Next
    <3> QED BY <2>2, <3>2, <3>3, <3>4, <3>5 DEF Push
  <2>3. CASE serial' /\ (Writer \/ StopReturns \/ UNCHANGED vars) /\ ~Free
    <3>1. UNCHANGED <<head, tail, slot, printed, lost, serial>>
      BY <2>3 DEF Writer, TestRunning, FindEmpty, FindEntry, TakeLevel,
         StopReturns, vars, ring, history
    <3>2. (stop # "no")' = (stop # "no")
      BY <2>3 DEF Writer, TestRunning, FindEmpty, FindEntry, TakeLevel,
         StopReturns, vars
    <3>3. Waiting' = Waiting
      BY <3>1 DEF Waiting
    <3> QED BY <3>1, <3>2, <3>3 DEF Queue!qvars
  <2>4. CASE serial' /\ Free
    <3>1. serial
      BY <2>4 DEF Free, history
    <3> QED BY <2>4, <3>1, FreePrints DEF Queue!Next
  <2>5. CASE serial' /\ StopAsked
    <3>1. UNCHANGED <<head, tail, slot, printed, lost, serial>> /\ stop' = "asked"
      BY <2>5 DEF StopAsked, ring
    <3>2. Waiting' = Waiting
      BY <3>1 DEF Waiting
    <3> QED BY <3>1, <3>2 DEF Queue!Close, Queue!Next
  <2> QED BY <2>1, <2>2, <2>3, <2>4, <2>5 DEF Next
<1> QED BY <1>1, <1>2, Invariance, PTL DEF Spec, ImplementsQueue, Queue!Spec
=============================================================================
