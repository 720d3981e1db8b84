------------------------- MODULE MacLearningProofs --------------------------
(***************************************************************************)
(* The ring of MacLearning, proved for any number and size of buffers: its *)
(* type, that no published buffer is empty, and that it implements the     *)
(* queue of BatchQueue.                                                    *)
(*                                                                         *)
(* The inductive invariant adds to these that the history variable taken   *)
(* is empty exactly while the main thread reads no buffer.                 *)
(*                                                                         *)
(* Then the database: the buffers that are outstanding lead from it to     *)
(* SAI's FDB, where each buffer says of each MAC exactly what became of it *)
(* (Exact), so that neither the events coalesced away nor the reversed     *)
(* order in which a buffer is applied matter.                              *)
(***************************************************************************)
EXTENDS MacLearning, FiniteSetTheorems, SequenceTheorems, WellFoundedInduction, TLAPS

TakenWhileReading == taken # <<>> <=> mainPc = "reading"

RingInv == RingTypeOK /\ PublishedIsNotEmpty /\ TakenWhileReading

-----------------------------------------------------------------------------
(* Coalescing *)

\* Coalescing keeps a buffer a buffer: it changes nodes in place or appends one
\* where there is room, so that a buffer never shrinks either.
LEMMA EntryAddType ==
  ASSUME NEW b \in Buffer, NEW e \in Event
  PROVE  EntryAdd(b, e) \in Buffer /\ Len(EntryAdd(b, e)) >= Len(b)
<1>1. b \in Seq(Node) /\ Len(b) \in Nat /\ Len(b) <= BufferSize /\ DOMAIN b = 1..Len(b)
  BY DEF Buffer
<1>2. e \in Node
  BY DEF Event
<1>3. CASE Found(b, e)
  <2>1. \A i \in DOMAIN b : Coalesced(b, e)[i] \in Node
    <3> SUFFICES ASSUME NEW i \in DOMAIN b PROVE Coalesced(b, e)[i] \in Node
      OBVIOUS
    <3>1. b[i] \in Node
      BY <1>1
    <3>2. [b[i] EXCEPT !.oper = "undefined"] \in Node /\ [b[i] EXCEPT !.port = e.port] \in Node
      BY <1>2, <3>1 DEF Node
    <3> QED BY <3>1, <3>2 DEF Coalesced
  <2>2. Coalesced(b, e) = [i \in 1..Len(b) |-> Coalesced(b, e)[i]]
    BY <1>1 DEF Coalesced
  <2>3. Coalesced(b, e) \in Seq(Node) /\ Len(Coalesced(b, e)) = Len(b)
    BY <1>1, <2>1, <2>2
  <2> QED BY <1>1, <1>3, <2>3 DEF EntryAdd, Buffer
<1>4. CASE ~Found(b, e) /\ HasRoom(b)
  <2>1. Append(b, e) \in Seq(Node) /\ Len(Append(b, e)) = Len(b) + 1
    BY <1>1, <1>2
  <2> QED BY <1>1, <1>4, <2>1, SizeAssumption DEF EntryAdd, HasRoom, Buffer
<1>5. CASE ~Found(b, e) /\ ~HasRoom(b)
  BY <1>1, <1>5 DEF EntryAdd
<1> QED BY <1>3, <1>4, <1>5

-----------------------------------------------------------------------------
(* Indices *)

\* NextIndex stays in the ring, and no buffer is its own successor.
LEMMA NextIndexType ==
  ASSUME NEW i \in Index
  PROVE  NextIndex(i) \in Index /\ NextIndex(i) # i
BY BuffersAssumption DEF Index, NextIndex

\* The nth waiting buffer is a published one.
LEMMA NthIsPublished ==
  ASSUME cur \in Index, rd \in Index
  PROVE  /\ Published \in 0..(MaxBuffers - 1)
         /\ \A n \in 1..Published : NthIndex(n) \in Index /\ IsPublished(NthIndex(n))
         /\ Published = 0 <=> RingIsEmpty
         /\ Published > 0 => NthIndex(1) = rd
BY BuffersAssumption DEF Index, Published, NthIndex, IsPublished, RingIsEmpty

-----------------------------------------------------------------------------
(* The invariant *)

\* sai_mac_learning_run keeps the ring's part of the invariant.
LEMMA RunKeepsRing ==
  ASSUME RingTypeOK, PublishedIsNotEmpty, Run
  PROVE  /\ buf' \in [Index -> Buffer] /\ cur' \in Index /\ rd' \in Index
         /\ triggered' \in BOOLEAN /\ damaged' \in BOOLEAN
         /\ PublishedIsNotEmpty'
<1>1. <<>> \in Buffer
  BY SizeAssumption DEF Buffer
<1>2. CASE plugged /\ buf[cur] # <<>> /\ ~RingIsFull
  <2>1. cur' = NextIndex(cur) /\ rd' = rd /\ buf' = [buf EXCEPT ![NextIndex(cur)] = <<>>]
        /\ triggered' = TRUE /\ damaged' = (damaged \/ IsRead(NextIndex(cur)))
    BY <1>2 DEF Run
  <2>2. NextIndex(cur) \in Index
    BY NextIndexType DEF RingTypeOK
  <2>3. buf' \in [Index -> Buffer] /\ cur' \in Index /\ rd' \in Index
    BY <1>1, <2>1, <2>2 DEF RingTypeOK
  <2>4. ASSUME NEW i \in Index, IsPublished(i)'
        PROVE  buf'[i] # <<>>
    <3>1. i # NextIndex(cur) /\ (i = cur \/ IsPublished(i))
      BY <1>2, <2>1, <2>4, BuffersAssumption
         DEF IsPublished, NextIndex, RingIsFull, Index, RingTypeOK
    <3>2. buf[i] # <<>>
      BY <1>2, <3>1 DEF PublishedIsNotEmpty
    <3> QED BY <2>1, <3>1, <3>2 DEF RingTypeOK
  <2> QED BY <2>1, <2>3, <2>4 DEF RingTypeOK, PublishedIsNotEmpty, IsRead
<1>3. CASE ~(plugged /\ buf[cur] # <<>> /\ ~RingIsFull)
  <2>1. UNCHANGED <<ringVars, damaged>> /\ triggered' \in BOOLEAN
    BY <1>3 DEF Run, RingTypeOK
  <2> QED BY <2>1 DEF RingTypeOK, ringVars, PublishedIsNotEmpty, IsPublished
<1> QED BY <1>2, <1>3

\* The invariant holds initially.
LEMMA RingInvInit == Init => RingInv
<1> SUFFICES ASSUME Init PROVE RingInv
  OBVIOUS
<1>1. <<>> \in Buffer /\ 0 \in Index
  BY SizeAssumption, BuffersAssumption DEF Buffer, Index
<1>2. RingTypeOK
  BY <1>1 DEF Init, RingTypeOK, NoMacs
<1>3. PublishedIsNotEmpty
  BY DEF Init, PublishedIsNotEmpty, IsPublished, Index
<1> QED BY <1>2, <1>3 DEF Init, RingInv, TakenWhileReading

\* The invariant is inductive.
LEMMA RingInvNext == RingInv /\ [Next]_vars => RingInv'
<1> SUFFICES ASSUME RingInv, [Next]_vars PROVE RingInv'
  OBVIOUS
<1> USE DEF RingInv
<1>1. CASE Receive
  <2>1. Head(notice) \in Event /\ Tail(notice) \in Seq(Event)
    BY <1>1 DEF Receive, RingTypeOK
  <2>2. buf[cur] \in Buffer
    BY DEF RingTypeOK
  <2>3. buf' \in [Index -> Buffer]
    BY <1>1, <2>1, <2>2, EntryAddType DEF Receive, RingTypeOK
  <2>4. RingTypeOK'
    BY <1>1, <2>1, <2>3 DEF Receive, RingTypeOK
  <2>5. \A i \in Index : i # cur => buf'[i] = buf[i]
    BY <1>1 DEF Receive, RingTypeOK
  <2>6. PublishedIsNotEmpty'
    BY <1>1, <2>5 DEF Receive, PublishedIsNotEmpty, IsPublished, RingTypeOK, Index
  <2> QED BY <1>1, <2>4, <2>6 DEF Receive, TakenWhileReading
<1>2. CASE CheckFull
  BY <1>2 DEF CheckFull, RingTypeOK, ringVars, PublishedIsNotEmpty, IsPublished, TakenWhileReading
<1>3. CASE CallbackRun
  BY <1>3, RunKeepsRing DEF CallbackRun, RingTypeOK, TakenWhileReading
<1>4. CASE TimerWakes
  BY <1>4 DEF TimerWakes, RingTypeOK, ringVars, PublishedIsNotEmpty, IsPublished, TakenWhileReading
<1>5. CASE TimerRun
  BY <1>5, RunKeepsRing DEF TimerRun, RingTypeOK, TakenWhileReading
<1>6. CASE \E p \in PortNames : Flush(p)
  <2> PICK p \in PortNames : Flush(p)
    BY <1>6
  <2> DEFINE gone == {m \in Macs : fdb[m] = p}
  <2>1. PICK order \in SetToSeqs(gone) : notice' = notice \o [i \in DOMAIN order |-> Del(order[i], p)]
    BY DEF Flush
  <2>2. Cardinality(gone) \in Nat
    BY MacsAssumption, FS_Subset, FS_CardinalityType
  <2>3. order \in [1..Cardinality(gone) -> gone]
    BY <2>1 DEF SetToSeqs
  <2>4. [i \in DOMAIN order |-> Del(order[i], p)] \in Seq(Event)
    <3>1. \A i \in 1..Cardinality(gone) : Del(order[i], p) \in Event
      BY <2>3 DEF Del, Event, Node
    <3> QED BY <2>2, <2>3, <3>1
  <2>5. notice' \in Seq(Event)
    BY <2>1, <2>4 DEF RingTypeOK
  <2>6. fdb' \in [Macs -> PortNames \cup {NoPort}]
    BY DEF Flush, RingTypeOK
  <2>7. RingTypeOK'
    BY <2>5, <2>6 DEF Flush, RingTypeOK, ringVars
  <2> QED BY <2>7 DEF Flush, ringVars, PublishedIsNotEmpty, IsPublished, TakenWhileReading
<1>7. CASE FlushRun
  BY <1>7, RunKeepsRing DEF FlushRun, RingTypeOK, TakenWhileReading
<1>8. CASE Take
  <2>1. CASE RingIsEmpty
    BY <1>8, <2>1 DEF Take, RingTypeOK, PublishedIsNotEmpty, IsPublished, TakenWhileReading
  <2>2. CASE ~RingIsEmpty
    <3>1. IsPublished(rd) /\ NextIndex(rd) \in Index
      BY <2>2, NextIndexType DEF IsPublished, RingIsEmpty, RingTypeOK, Index
    <3>2. buf[rd] # <<>> /\ buf[rd] \in Buffer
      BY <3>1 DEF PublishedIsNotEmpty, RingTypeOK
    <3>3. rd' = NextIndex(rd) /\ taken' = buf[rd] /\ mainPc' = "reading"
      BY <1>8, <2>2, <3>2 DEF Take
    <3>4. RingTypeOK'
      BY <1>8, <3>1, <3>2, <3>3 DEF Take, RingTypeOK
    <3>5. \A i \in Index : IsPublished(i)' => IsPublished(i)
      BY <1>8, <2>2, <3>3, BuffersAssumption
         DEF Take, IsPublished, NextIndex, RingIsEmpty, RingTypeOK, Index
    <3>6. PublishedIsNotEmpty'
      BY <1>8, <3>5 DEF Take, PublishedIsNotEmpty
    <3> QED BY <3>2, <3>3, <3>4, <3>6 DEF TakenWhileReading
  <2> QED BY <2>1, <2>2
<1>9. CASE UpdateDb
  <2>1. <<>> \in Buffer
    BY SizeAssumption DEF Buffer
  <2> QED BY <1>9, <2>1 DEF UpdateDb, RingTypeOK, ringVars, PublishedIsNotEmpty, IsPublished, TakenWhileReading
<1>10. CASE Plug
  BY <1>10 DEF Plug, RingTypeOK, ringVars, threadVars, PublishedIsNotEmpty, IsPublished, TakenWhileReading
<1>11. CASE \E m \in Macs, p \in PortNames \cup {NoPort} : FdbChanges(m, p)
  <2> PICK m \in Macs, p \in PortNames \cup {NoPort} : FdbChanges(m, p)
    BY <1>11
  <2>1. fdb[m] \in PortNames \cup {NoPort} /\ fdb[m] # p
    BY DEF FdbChanges, RingTypeOK
  <2>2. /\ p # NoPort => Add(m, p) \in Event
        /\ fdb[m] # NoPort => Del(m, fdb[m]) \in Event
    BY <2>1 DEF Add, Del, Event, Node
  <2>3. notice' \in Seq(Event)
    BY <2>1, <2>2 DEF FdbChanges
  <2>4. RingTypeOK'
    BY <2>3 DEF FdbChanges, RingTypeOK, ringVars, threadVars
  <2> QED BY <2>4 DEF FdbChanges, ringVars, threadVars, PublishedIsNotEmpty, IsPublished, TakenWhileReading
<1>12. CASE UNCHANGED vars
  BY <1>12 DEF vars, RingTypeOK, PublishedIsNotEmpty, IsPublished, TakenWhileReading
<1> QED BY <1>1, <1>2, <1>3, <1>4, <1>5, <1>6, <1>7, <1>8, <1>9, <1>10, <1>11, <1>12 DEF Next

\* The invariant holds in every reachable state.
THEOREM RingInvariant == Spec => []RingInv
BY RingInvInit, RingInvNext, PTL DEF Spec

\* No published buffer is ever empty, so that sai_mac_learning_get_hmap never
\* answers a trigger with NULL while buffers wait.
THEOREM PublishedIsNotEmptyHolds == Spec => []PublishedIsNotEmpty
BY RingInvariant, PTL DEF RingInv
-----------------------------------------------------------------------------
(* Refinement *)

\* The waiting buffers form a sequence of batches, as many as are published.
LEMMA WaitingType ==
  ASSUME RingTypeOK
  PROVE  /\ Waiting \in Seq(Buffer)
         /\ Len(Waiting) = Published
         /\ \A n \in 1..Published : Waiting[n] = buf[NthIndex(n)]
<1>1. cur \in Index /\ rd \in Index /\ buf \in [Index -> Buffer]
  BY DEF RingTypeOK
<1>2. Published \in Nat /\ \A n \in 1..Published : buf[NthIndex(n)] \in Buffer
  BY <1>1, NthIsPublished
<1> QED BY <1>2 DEF Waiting

\* A step that changes neither the indices nor the buffers waiting between them
\* leaves the queue as it was.
LEMMA WaitingUnchanged ==
  ASSUME RingTypeOK, cur' = cur, rd' = rd,
         \A i \in Index : i # cur => buf'[i] = buf[i]
  PROVE  Waiting' = Waiting
<1>1. \A n \in 1..Published : NthIndex(n) \in Index /\ NthIndex(n) # cur
  BY NthIsPublished DEF RingTypeOK, IsPublished, Index
<1>2. Published' = Published
  BY DEF Published
<1>3. \A n \in 1..Published : buf'[NthIndex(n)'] = buf[NthIndex(n)]
  BY <1>1 DEF NthIndex
<1> QED BY <1>2, <1>3 DEF Waiting

\* sai_mac_learning_run publishes the current batch or leaves the queue alone.
LEMMA RunPublishes ==
  ASSUME RingTypeOK, Run, UNCHANGED taken
  PROVE  Batch!Publish \/ UNCHANGED Batch!queueVars
<1>1. CASE plugged /\ buf[cur] # <<>> /\ ~RingIsFull
  <2>1. cur' = NextIndex(cur) /\ rd' = rd /\ buf' = [buf EXCEPT ![NextIndex(cur)] = <<>>]
    BY <1>1 DEF Run
  <2>2. cur \in Index /\ rd \in Index /\ NextIndex(cur) \in Index /\ NextIndex(cur) # cur
    BY NextIndexType DEF RingTypeOK
  <2>3. buf'[cur'] = <<>> /\ \A i \in Index : i # cur' => buf'[i] = buf[i]
    BY <2>1, <2>2 DEF RingTypeOK
  <2>4. Published \in Nat /\ Published' = Published + 1 /\ Published < MaxBuffers - 1
    BY <1>1, <2>1, <2>2, BuffersAssumption DEF Published, NextIndex, RingIsFull, Index
  <2>5. \A n \in 1..(Published + 1) : NthIndex(n)' = NthIndex(n) /\ NthIndex(n) \in Index /\ NthIndex(n) # cur'
    BY <1>1, <2>1, <2>2, BuffersAssumption DEF Published, NthIndex, NextIndex, RingIsFull, Index
  <2>6. NthIndex(Published + 1) = cur
    BY <2>2, BuffersAssumption DEF Published, NthIndex, Index
  <2>7. Waiting' = [n \in 1..(Published + 1) |-> buf[NthIndex(n)]]
    BY <2>3, <2>4, <2>5 DEF Waiting
  <2>8. Waiting' = Append(Waiting, buf[cur])
    <3>1. Len(Waiting) = Published /\ Waiting \in Seq(Buffer)
          /\ \A n \in 1..Published : Waiting[n] = buf[NthIndex(n)]
      BY WaitingType
    <3>2. Append(Waiting, buf[cur]) =
            [n \in 1..(Published + 1) |-> IF n <= Published THEN Waiting[n] ELSE buf[cur]]
      BY <2>4, <3>1
    <3>3. \A n \in 1..(Published + 1) :
            buf[NthIndex(n)] = IF n <= Published THEN Waiting[n] ELSE buf[cur]
      BY <2>4, <2>6, <3>1
    <3> QED BY <2>7, <3>2, <3>3
  <2>9. Len(Waiting) < MaxBuffers - 1
    BY <2>4, WaitingType
  <2> QED BY <1>1, <2>3, <2>8, <2>9 DEF Batch!Publish
<1>2. CASE ~(plugged /\ buf[cur] # <<>> /\ ~RingIsFull)
  <2>1. UNCHANGED <<buf, cur, rd>>
    BY <1>2 DEF Run, ringVars
  <2> QED BY <2>1, WaitingUnchanged DEF Batch!queueVars
<1> QED BY <1>1, <1>2

\* sai_mac_learning_get_hmap hands out the oldest waiting batch.
LEMMA TakeHandsOut ==
  ASSUME RingInv, Take
  PROVE  Batch!HandOut \/ UNCHANGED Batch!queueVars
<1>1. RingTypeOK /\ cur \in Index /\ rd \in Index
  BY DEF RingInv, RingTypeOK
<1>2. CASE RingIsEmpty
  <2>1. UNCHANGED <<buf, cur, rd, taken>>
    BY <1>2 DEF Take
  <2> QED BY <1>1, <2>1, WaitingUnchanged DEF Batch!queueVars
<1>3. CASE ~RingIsEmpty
  <2>1. taken' = buf[rd] /\ rd' = NextIndex(rd) /\ UNCHANGED <<buf, cur>> /\ taken = <<>>
    BY <1>3 DEF Take, RingInv, TakenWhileReading
  <2>2. Published > 0 /\ Published \in Nat /\ NthIndex(1) = rd
    BY <1>1, <1>3, NthIsPublished
  <2>3. Waiting \in Seq(Buffer) /\ Len(Waiting) = Published
        /\ \A n \in 1..Published : Waiting[n] = buf[NthIndex(n)]
    BY <1>1, WaitingType
  <2>4. Waiting # <<>> /\ Head(Waiting) = buf[rd]
    BY <2>2, <2>3
  <2>5. Published' = Published - 1
    BY <1>1, <1>3, <2>1, BuffersAssumption DEF Published, NextIndex, RingIsEmpty, Index
  <2>6. \A n \in 1..(Published - 1) : NthIndex(n)' = NthIndex(n + 1)
    BY <1>1, <1>3, <2>1, BuffersAssumption DEF Published, NthIndex, NextIndex, RingIsEmpty, Index
  <2>7. Waiting' = [n \in 1..(Published - 1) |-> buf[NthIndex(n + 1)]]
    BY <2>1, <2>5, <2>6 DEF Waiting
  <2>8. Waiting' = Tail(Waiting)
    <3>1. /\ Tail(Waiting) \in Seq(Buffer) /\ Len(Tail(Waiting)) = Published - 1
          /\ \A n \in 1..(Published - 1) : Tail(Waiting)[n] = Waiting[n + 1]
      BY <2>3, <2>4, HeadTailProperties
    <3>2. \A n \in 1..(Published - 1) : Waiting[n + 1] = buf[NthIndex(n + 1)]
      BY <2>2, <2>3
    <3>3. \A n \in 1..(Published - 1) : buf[NthIndex(n + 1)] \in Buffer
      BY <3>2, <2>2, <2>3, ElementOfSeq
    <3>4. Waiting' \in Seq(Buffer) /\ Len(Waiting') = Published - 1
      BY <2>2, <2>7, <3>3
    <3> QED BY <2>7, <3>1, <3>2, <3>4, SeqEqual
  <2> QED BY <2>1, <2>4, <2>8 DEF Batch!HandOut
<1> QED BY <1>2, <1>3

\* Every step of the threads is a step of the queue, or none.
LEMMA StepIsAQueueStep ==
  ASSUME RingInv, RingInv', [Next]_vars
  PROVE  [Batch!QueueNext]_(Batch!queueVars)
<1>1. RingTypeOK /\ cur \in Index /\ cur' \in Index /\ buf' \in [Index -> Buffer]
  BY DEF RingInv, RingTypeOK
<1>2. ASSUME UNCHANGED <<buf, cur, rd, taken>>
      PROVE  UNCHANGED Batch!queueVars
  BY <1>1, <1>2, WaitingUnchanged DEF Batch!queueVars
<1>3. CASE Receive
  <2>1. cur' = cur /\ rd' = rd /\ taken' = taken /\ \A i \in Index : i # cur => buf'[i] = buf[i]
    BY <1>1, <1>3 DEF Receive, RingTypeOK
  <2>2. Waiting' = Waiting
    BY <1>1, <2>1, WaitingUnchanged
  <2>3. Batch!Gather
    BY <1>1, <2>1, <2>2 DEF Batch!Gather
  <2> QED BY <2>3 DEF Batch!QueueNext
<1>4. CASE CallbackRun
  BY <1>1, <1>4, RunPublishes DEF CallbackRun, Batch!QueueNext
<1>5. CASE TimerRun
  BY <1>1, <1>5, RunPublishes DEF TimerRun, Batch!QueueNext
<1>6. CASE FlushRun
  BY <1>1, <1>6, RunPublishes DEF FlushRun, Batch!QueueNext
<1>7. CASE Take
  BY <1>7, TakeHandsOut DEF Batch!QueueNext
<1>8. CASE UpdateDb
  <2>1. UNCHANGED <<buf, cur, rd>> /\ taken' = <<>> /\ taken # <<>>
    BY <1>8 DEF UpdateDb, ringVars, RingInv, TakenWhileReading
  <2>2. Waiting' = Waiting
    BY <1>1, <2>1, WaitingUnchanged
  <2>3. Batch!Finish
    BY <2>1, <2>2 DEF Batch!Finish
  <2> QED BY <2>3 DEF Batch!QueueNext
<1>9. CASE CheckFull \/ TimerWakes \/ (\E p \in PortNames : Flush(p)) \/ Plug
           \/ (\E m \in Macs, p \in PortNames \cup {NoPort} : FdbChanges(m, p)) \/ UNCHANGED vars
  <2>1. UNCHANGED <<buf, cur, rd, taken>>
    BY <1>9 DEF CheckFull, TimerWakes, Flush, Plug, FdbChanges, ringVars, vars
  <2> QED BY <1>2, <2>1
<1> QED BY <1>3, <1>4, <1>5, <1>6, <1>7, <1>8, <1>9 DEF Next

\* The ring implements the queue: what the callback gathers is published whole,
\* never changed afterwards, and handed out once, oldest first.
THEOREM RingIsAQueueHolds == Spec => RingIsAQueue
<1>1. Init => Batch!QueueInit
  <2> SUFFICES ASSUME Init PROVE Batch!QueueInit
    OBVIOUS
  <2>1. 0 \in Index /\ buf[cur] = <<>> /\ taken = <<>>
    BY BuffersAssumption DEF Init, Index
  <2>2. Published = 0
    BY DEF Init, Published
  <2>3. Waiting = <<>>
    BY <2>2 DEF Waiting
  <2> QED BY <2>1, <2>3 DEF Batch!QueueInit
<1>2. RingInv /\ RingInv' /\ [Next]_vars => [Batch!QueueNext]_(Batch!queueVars)
  BY StepIsAQueueStep
<1> QED BY <1>1, <1>2, RingInvariant, PTL DEF Spec, RingIsAQueue, Batch!QueueSpec
-----------------------------------------------------------------------------
(* Folds.  FoldLeft takes the greatest index from a set of indices, and so on; *)
(* what it computes is shown by induction over that finite set.            *)

\* What the empty set is in, and a set that all it has but one element are in, is in T.
LEMMA SetInduction ==
  ASSUME NEW S, IsFiniteSet(S), NEW T, {} \in T,
         \A s \in SUBSET S : s # {} /\ (\A x \in s : s \ {x} \in T) => s \in T
  PROVE  \A s \in SUBSET S : s \in T
<1> SUFFICES ASSUME NEW s0 \in SUBSET S, s0 \notin T PROVE FALSE
  OBVIOUS
<1> DEFINE Bad == (SUBSET S) \ T
<1>1. Bad \subseteq FiniteSubsetsOf(S) /\ Bad # {}
  <2>1. FiniteSubsetsOf(S) = SUBSET S
    BY FS_FiniteSubsetsOfFinite
  <2> QED
    BY <2>1
<1>2. PICK U \in Bad : \A V \in Bad : <<V, U>> \notin StrictSubsetOrdering(S)
  <2> HIDE DEF Bad
  <2> QED
    BY <1>1, WFMin, FS_StrictSubsetOrderingWellFounded
<1>3. U \in SUBSET S /\ U \notin T /\ U # {}
  BY <1>2
<1>4. ASSUME NEW x \in U PROVE U \ {x} \in T
  <2> DEFINE V == U \ {x}
  <2>1. V \in SUBSET S /\ V \subseteq U /\ V # U
    BY <1>3, <1>4
  <2>2. V \in Bad => <<V, U>> \in StrictSubsetOrdering(S)
    BY <1>3, <2>1 DEF StrictSubsetOrdering
  <2>3. V \notin Bad
    BY <1>2, <2>2
  <2> QED
    BY <2>1, <2>3
<1> QED
  BY <1>3, <1>4

\* What 0 is in, and each number whose predecessor is, all numbers up to n are in.
LEMMA SegmentInduction ==
  ASSUME NEW n \in Nat, NEW T, 0 \in T, \A k \in 1..n : k - 1 \in T => k \in T
  PROVE  \A k \in 0..n : k \in T
<1> DEFINE U == {s \in SUBSET (1..n) : \A k \in 0..n : s = 1..k => k \in T}
<1>1. {} \in U
  <2>1. \A k \in 0..n : {} = 1..k => k = 0
    <3>1. \A k \in 0..n : k # 0 => 1 \in 1..k
      OBVIOUS
    <3> QED
      BY <3>1
  <2> QED
    BY <2>1
<1>2. ASSUME NEW s \in SUBSET (1..n), s # {}, \A x \in s : s \ {x} \in U PROVE s \in U
  <2> SUFFICES ASSUME NEW k \in 0..n, s = 1..k PROVE k \in T
    OBVIOUS
  <2>1. k \in 1..n /\ k \in s
    BY <1>2
  <2>2. s \ {k} = 1..(k - 1) /\ k - 1 \in 0..n
    BY <2>1
  <2>3. s \ {k} \in U
    BY <1>2, <2>1
  <2>4. k - 1 \in T
    BY <2>2, <2>3
  <2> QED
    BY <2>1, <2>4
<1>3. IsFiniteSet(1..n)
  BY FS_Interval
<1>4. \A s \in SUBSET (1..n) : s \in U
  <2> DEFINE S == 1..n
  <2>1. IsFiniteSet(S) /\ \A s \in SUBSET S : s # {} /\ (\A x \in s : s \ {x} \in U) => s \in U
    BY <1>2, <1>3
  <2> HIDE DEF U, S
  <2>2. \A s \in SUBSET S : s \in U
    BY <1>1, <2>1, SetInduction
  <2> QED
    BY <2>2 DEF S
<1> SUFFICES ASSUME NEW k \in 0..n PROVE k \in T
  OBVIOUS
<1>5. 1..k \in SUBSET (1..n)
  OBVIOUS
<1> QED
  BY <1>4, <1>5

\* Sets of indices of a sequence are finite.
LEMMA SegmentIsFinite ==
  ASSUME NEW n \in Nat, NEW R \in SUBSET (1..n)
  PROVE  IsFiniteSet(1..n) /\ IsFiniteSet(R)
<1> DEFINE I == 1..n
<1>1. IsFiniteSet(I)
  BY FS_Interval
<1>2. R \subseteq I
  OBVIOUS
<1> HIDE DEF I
<1>3. IsFiniteSet(R)
  BY <1>1, <1>2, FS_Subset
<1> QED
  BY <1>1, <1>3 DEF I

Below(t) == t \ {Max(t)}

\* The greatest of a set of indices is in it, and that of a segment is its end.
LEMMA MaxIs ==
  ASSUME NEW n \in Nat, NEW t \in SUBSET (1..n), t # {}
  PROVE  Max(t) \in t /\ \A y \in t : y <= Max(t)
<1> DEFINE U == {s \in SUBSET (1..n) : s = {} \/ \E m \in s : \A y \in s : m >= y}
<1>1. ASSUME NEW s \in SUBSET (1..n), s # {}, \A x \in s : s \ {x} \in U PROVE s \in U
  <2>1. PICK x \in s : TRUE
    BY <1>1
  <2>2. CASE s \ {x} = {}
    <3>1. \A y \in s : y = x /\ x \in Int
      BY <2>2
    <3> QED
      BY <3>1
  <2>3. CASE s \ {x} # {}
    <3>1. PICK m \in s \ {x} : \A y \in s \ {x} : m >= y
      BY <1>1, <2>3
    <3>2. \A y \in s : y \in Int
      OBVIOUS
    <3>3. CASE x >= m
      <4>1. \A y \in s : x >= y
        BY <3>1, <3>2, <3>3
      <4> QED
        BY <4>1
    <3>4. CASE ~(x >= m)
      <4>1. \A y \in s : m >= y
        BY <3>1, <3>2, <3>4
      <4> QED
        BY <3>1, <4>1
    <3> QED
      BY <3>3, <3>4
  <2> QED
    BY <2>2, <2>3
<1>2. {} \in U /\ IsFiniteSet(1..n)
  BY FS_Interval
<1>3. \A s \in SUBSET (1..n) : s \in U
  <2> HIDE DEF U
  <2> QED
    BY <1>1, <1>2, SetInduction
<1>4. \E m \in t : \A y \in t : m >= y
  BY <1>3
<1>5. Max(t) \in t /\ \A y \in t : Max(t) >= y
  BY <1>4 DEF Max
<1>6. \A y \in t : y \in Int
  OBVIOUS
<1> QED
  BY <1>5, <1>6

\* What is below the greatest index is the rest of the set.
LEMMA BelowIs ==
  ASSUME NEW n \in Nat, NEW t \in SUBSET (1..n), t # {}
  PROVE  Max(t) \in t /\ Below(t) \subseteq t /\ Max(t) \notin Below(t)
         /\ t = Below(t) \cup {Max(t)}
BY MaxIs DEF Below

\* Below the end of a segment is the segment one shorter.
LEMMA MaxOfSegment ==
  ASSUME NEW n \in Nat, NEW k \in 1..n
  PROVE  1..k \in SUBSET (1..n) /\ 1..k # {} /\ Max(1..k) = k /\ Below(1..k) = 1..(k - 1)
<1>1. 1..k \in SUBSET (1..n) /\ k \in 1..k
  OBVIOUS
<1>2. Max(1..k) \in 1..k /\ \A y \in 1..k : y <= Max(1..k)
  BY <1>1, MaxIs
<1>3. Max(1..k) = k
  BY <1>1, <1>2
<1> QED
  BY <1>1, <1>3 DEF Below

\* Function f gives for each set of indices what folding the elements of s there
\* with function step from d gives.
NextOf(f, d, s, step, t) == IF t = {} THEN d ELSE step[<<f[Below(t)], s[Max(t)]>>]
IsFold(f, S, d, s, step) == f = [t \in SUBSET S |-> NextOf(f, d, s, step, t)]

Agree(f, g, R) == \A t \in SUBSET R : f[t] = g[t]

\* Two such functions agree where both are defined.
LEMMA FoldAgrees ==
  ASSUME NEW n \in Nat, NEW R \in SUBSET (1..n), NEW S \in SUBSET (1..n), R \subseteq S,
         NEW d, NEW s, NEW step, NEW f, NEW g,
         IsFold(f, R, d, s, step), IsFold(g, S, d, s, step)
  PROVE  Agree(f, g, R)
<1> DEFINE T == {t \in SUBSET R : f[t] = g[t]}
<1>1. \A t \in SUBSET R : f[t] = NextOf(f, d, s, step, t)
  BY DEF IsFold
<1>2. \A t \in SUBSET R : g[t] = NextOf(g, d, s, step, t)
  <2>1. \A t \in SUBSET S : g[t] = NextOf(g, d, s, step, t)
    BY DEF IsFold
  <2> QED
    BY <2>1
<1>3. {} \in T
  BY <1>1, <1>2 DEF NextOf
<1>4. ASSUME NEW t \in SUBSET R, t # {}, \A x \in t : t \ {x} \in T PROVE t \in T
  <2>1. Below(t) \in T
    BY <1>4, BelowIs DEF Below
  <2>2. f[Below(t)] = g[Below(t)]
    BY <2>1
  <2>3. NextOf(f, d, s, step, t) = NextOf(g, d, s, step, t)
    BY <2>2 DEF NextOf
  <2> QED
    BY <1>1, <1>2, <2>3
<1>5. IsFiniteSet(R)
  BY SegmentIsFinite
<1>6. \A t \in SUBSET R : t \in T
  <2> HIDE DEF T
  <2> QED
    BY <1>3, <1>4, <1>5, SetInduction
<1> QED
  BY <1>6 DEF Agree

\* There is such a function.
LEMMA FoldThere ==
  ASSUME NEW n \in Nat, NEW d, NEW s, NEW step
  PROVE  \E f : IsFold(f, 1..n, d, s, step)
<1> DEFINE T == {S \in SUBSET (1..n) : \E f : IsFold(f, S, d, s, step)}
<1>1. {} \in T
  <2> DEFINE f == [t \in SUBSET {} |-> d]
  <2>1. \A t \in SUBSET {} : NextOf(f, d, s, step, t) = d
    BY DEF NextOf
  <2>2. [t \in SUBSET {} |-> NextOf(f, d, s, step, t)] = [t \in SUBSET {} |-> d]
    BY <2>1
  <2>3. IsFold(f, {}, d, s, step)
    BY <2>2 DEF IsFold
  <2> QED
    BY <2>3
<1>2. ASSUME NEW S \in SUBSET (1..n), S # {}, \A x \in S : S \ {x} \in T PROVE S \in T
  <2> DEFINE F(x) == CHOOSE f : IsFold(f, S \ {x}, d, s, step)
             val(t) == IF t = {} THEN d ELSE step[<<F(Max(t))[Below(t)], s[Max(t)]>>]
             g == [t \in SUBSET S |-> val(t)]
  <2>1. \A x \in S : IsFold(F(x), S \ {x}, d, s, step)
    <3> SUFFICES ASSUME NEW x \in S PROVE IsFold(F(x), S \ {x}, d, s, step)
      OBVIOUS
    <3>1. \E f : IsFold(f, S \ {x}, d, s, step)
      BY <1>2
    <3> QED
      BY <3>1
  <2> HIDE DEF F
  <2>3. ASSUME NEW x \in S, NEW u \in SUBSET (S \ {x}) PROVE F(x)[u] = val(u)
    <3>1. F(x)[u] = NextOf(F(x), d, s, step, u)
      BY <2>1, <2>3 DEF IsFold
    <3>2. CASE u = {}
      BY <3>1, <3>2 DEF NextOf
    <3>3. CASE u # {}
      <4> DEFINE y == Max(u)
                 r == Below(u)
      <4>1. y \in S /\ r \subseteq S \ {x} /\ r \subseteq S \ {y}
        <5>1. u \in SUBSET (1..n) /\ u # {}
          BY <2>3, <3>3
        <5>2. Max(u) \in u /\ Below(u) \subseteq u /\ Max(u) \notin Below(u)
          BY <5>1, BelowIs
        <5> QED
          BY <2>3, <5>2
      <4>2. F(x)[r] = F(y)[r]
        <5>1. IsFold(F(x), S \ {x}, d, s, step) /\ IsFold(F(y), S \ {y}, d, s, step)
          BY <2>1, <4>1
        <5> DEFINE f == [t \in SUBSET r |-> F(x)[t]]
        <5>2. IsFold(f, r, d, s, step)
          <6>1. \A t \in SUBSET r : F(x)[t] = NextOf(F(x), d, s, step, t)
            <7>1. \A t \in SUBSET (S \ {x}) : F(x)[t] = NextOf(F(x), d, s, step, t)
              BY <5>1 DEF IsFold
            <7> QED
              BY <4>1, <7>1
          <6>2. \A t \in SUBSET r : t # {} => Below(t) \in SUBSET r
            BY DEF Below
          <6>3. \A t \in SUBSET r : NextOf(f, d, s, step, t) = NextOf(F(x), d, s, step, t)
            BY <6>2 DEF NextOf
          <6> QED
            BY <6>1, <6>3 DEF IsFold
        <5>4. \A t \in SUBSET r : f[t] = F(y)[t]
          <6> HIDE DEF f, r, y
          <6> DEFINE Q == S \ {y}
                     h == F(y)
          <6>1. IsFold(h, Q, d, s, step) /\ r \subseteq Q /\ Q \in SUBSET (1..n)
            BY <4>1, <5>1
          <6> HIDE DEF Q, h
          <6>2. r \in SUBSET (1..n)
            BY <6>1
          <6>3. Agree(f, h, r)
            BY <5>2, <6>1, <6>2, FoldAgrees
          <6> QED
            BY <6>3 DEF Agree, h
        <5>5. r \in SUBSET r
          OBVIOUS
        <5> QED
          BY <5>4, <5>5
      <4>3. F(x)[u] = step[<<F(x)[r], s[y]>>]
        BY <3>1, <3>3 DEF NextOf
      <4> QED
        BY <3>3, <4>2, <4>3
    <3> QED
      BY <3>2, <3>3
  <2>4. \A t \in SUBSET S : val(t) = NextOf(g, d, s, step, t)
    <3> SUFFICES ASSUME NEW t \in SUBSET S PROVE val(t) = NextOf(g, d, s, step, t)
      OBVIOUS
    <3>1. CASE t = {}
      BY <3>1 DEF NextOf
    <3>2. CASE t # {}
      <4>1. Max(t) \in S /\ Below(t) \in SUBSET (S \ {Max(t)})
        <5>1. t \in SUBSET (1..n) /\ t # {}
          BY <3>2
        <5>2. Max(t) \in t /\ Below(t) \subseteq t /\ Max(t) \notin Below(t)
          BY <5>1, BelowIs
        <5> QED
          BY <5>2
      <4>2. F(Max(t))[Below(t)] = val(Below(t))
        BY <2>3, <4>1
      <4>3. g[Below(t)] = val(Below(t))
        BY <4>1
      <4> HIDE DEF g
      <4>4. val(t) = step[<<F(Max(t))[Below(t)], s[Max(t)]>>]
        BY <3>2
      <4> QED
        BY <3>2, <4>2, <4>3, <4>4 DEF NextOf
    <3> QED
      BY <3>1, <3>2
  <2>5. IsFold(g, S, d, s, step)
    <3> HIDE DEF val
    <3> QED
      BY <2>4 DEF IsFold
  <2> QED
    BY <2>5
<1>3. \A S \in SUBSET (1..n) : S \in T
  <2> DEFINE I == 1..n
  <2>1. IsFiniteSet(I)
    BY SegmentIsFinite
  <2>3. \A S \in SUBSET I : S # {} /\ (\A x \in S : S \ {x} \in T) => S \in T
    BY <1>2
  <2> HIDE DEF T, I
  <2>2. \A S \in SUBSET I : S \in T
    BY <1>1, <2>1, <2>3, SetInduction
  <2> QED
    BY <2>2 DEF I
<1> QED
  BY <1>3

\* Such a function stays among the values V that step takes and gives.
LEMMA FoldType ==
  ASSUME NEW n \in Nat, NEW V, NEW E, NEW d \in V, NEW s, \A i \in 1..n : s[i] \in E,
         NEW step \in [V \X E -> V], NEW f, IsFold(f, 1..n, d, s, step)
  PROVE  \A t \in SUBSET (1..n) : f[t] \in V
<1> DEFINE T == {t \in SUBSET (1..n) : f[t] \in V}
<1>1. \A t \in SUBSET (1..n) : f[t] = NextOf(f, d, s, step, t)
  BY DEF IsFold
<1>2. {} \in T
  BY <1>1 DEF NextOf
<1>3. ASSUME NEW t \in SUBSET (1..n), t # {}, \A x \in t : t \ {x} \in T PROVE t \in T
  <2>1. Max(t) \in t /\ f[Below(t)] \in V
    BY <1>3, BelowIs DEF Below
  <2>2. <<f[Below(t)], s[Max(t)]>> \in V \X E
    BY <2>1
  <2>3. step[<<f[Below(t)], s[Max(t)]>>] \in V
    BY <2>2
  <2> QED
    BY <1>1, <1>3, <2>3 DEF NextOf
<1>4. \A t \in SUBSET (1..n) : t \in T
  <2> DEFINE I == 1..n
  <2>1. IsFiniteSet(I)
    BY SegmentIsFinite
  <2>3. \A t \in SUBSET I : t # {} /\ (\A x \in t : t \ {x} \in T) => t \in T
    BY <1>3
  <2> HIDE DEF T, I
  <2>2. \A t \in SUBSET I : t \in T
    BY <1>2, <2>1, <2>3, SetInduction
  <2> QED
    BY <2>2 DEF I
<1> QED
  BY <1>4

-----------------------------------------------------------------------------
(* What applying a buffer to the database, and buffer after buffer, gives *)

Maps == [Macs -> PortNames \cup {NoPort}]

NodeApplied(r, n) ==
  CASE n.oper = "add" -> [r EXCEPT ![n.mac] = n.port]
    [] n.oper = "del" /\ r[n.mac] = n.port -> [r EXCEPT ![n.mac] = NoPort]
    [] OTHER -> r

\* A node applied to a database gives one.
LEMMA NodeAppliedType ==
  ASSUME NEW r \in Maps, NEW n \in Node
  PROVE  NodeApplied(r, n) \in Maps
BY DEF Maps, Node, NodeApplied

\* v gives the databases on the way when the nodes of b are applied, newest first.
NodeWalk(v, d, b) ==
  /\ v \in [0..Len(b) -> Maps] /\ v[0] = d
  /\ \A k \in 1..Len(b) : v[k] = NodeApplied(v[k - 1], b[Len(b) - k + 1])

NodesOf(f, d, s, t) == IF t = {} THEN d ELSE NodeApplied(f[Below(t)], s[Max(t)])
IsNodes(f, d, s) == f = [t \in SUBSET DOMAIN s |-> NodesOf(f, d, s, t)]

\* The function that folds NodeApplied over the nodes exists.
LEMMA NodesThere ==
  ASSUME NEW n \in Nat, NEW d \in Maps, NEW s, DOMAIN s = 1..n, \A i \in 1..n : s[i] \in Node
  PROVE  \E f : IsNodes(f, d, s)
<1> DEFINE step == [p \in Maps \X Node |-> NodeApplied(p[1], p[2])]
<1>1. step \in [Maps \X Node -> Maps] /\ \A r \in Maps, e \in Node : step[<<r, e>>] = NodeApplied(r, e)
  BY NodeAppliedType
<1> HIDE DEF step
<1>2. PICK f : IsFold(f, 1..n, d, s, step)
  BY FoldThere
<1>3. \A t \in SUBSET (1..n) : f[t] \in Maps
  BY <1>1, <1>2, FoldType
<1>4. \A t \in SUBSET (1..n) : NextOf(f, d, s, step, t) = NodesOf(f, d, s, t)
  <2> SUFFICES ASSUME NEW t \in SUBSET (1..n), t # {}
               PROVE  step[<<f[Below(t)], s[Max(t)]>>] = NodeApplied(f[Below(t)], s[Max(t)])
    BY DEF NextOf, NodesOf
  <2>1. Max(t) \in 1..n /\ Below(t) \in SUBSET (1..n)
    BY BelowIs
  <2> QED
    BY <1>1, <1>3, <2>1
<1>5. f = [t \in SUBSET (1..n) |-> NodesOf(f, d, s, t)]
  BY <1>2, <1>4 DEF IsFold
<1> QED
  BY <1>5 DEF IsNodes

\* Updated applies one node after the other, the newest first.
LEMMA UpdatedWalk ==
  ASSUME NEW d \in Maps, NEW b \in Seq(Node)
  PROVE  \E v : NodeWalk(v, d, b) /\ Updated(d, b) = v[Len(b)]
<1> DEFINE n == Len(b)
           s == Reverse(b)
           f == CHOOSE it : IsNodes(it, d, s)
           v == [k \in 0..n |-> f[1..k]]
<1>1. n \in Nat /\ DOMAIN s = 1..n /\ \A i \in 1..n : s[i] = b[n - i + 1] /\ s[i] \in Node
  BY DEF Reverse
<1>2. Updated(d, b) = f[DOMAIN s]
  BY DEF Updated, FoldLeft, MapThenFoldSet, IsNodes, NodesOf, NodeApplied, Below
<1> HIDE DEF n, s
<1>3. IsNodes(f, d, s)
  <2>1. \E it : IsNodes(it, d, s)
    BY <1>1, NodesThere
  <2> QED
    BY <2>1
<1> HIDE DEF f
<1>4. \A t \in SUBSET (1..n) : f[t] = NodesOf(f, d, s, t)
  BY <1>1, <1>3 DEF IsNodes
<1>5. f[1..0] = d
  <2>1. 1..0 = {}
    OBVIOUS
  <2> QED
    BY <1>4, <2>1 DEF NodesOf
<1>6. \A k \in 1..n : f[1..k] = NodeApplied(f[1..(k - 1)], s[k])
  <2> SUFFICES ASSUME NEW k \in 1..n PROVE f[1..k] = NodeApplied(f[1..(k - 1)], s[k])
    OBVIOUS
  <2>1. 1..k \in SUBSET (1..n) /\ 1..k # {} /\ Max(1..k) = k /\ Below(1..k) = 1..(k - 1)
    BY <1>1, MaxOfSegment
  <2>2. f[1..k] = NodesOf(f, d, s, 1..k)
    BY <1>4, <2>1
  <2> QED
    BY <2>1, <2>2 DEF NodesOf
<1>7. \A k \in 0..n : f[1..k] \in Maps
  <2> DEFINE T == {k \in 0..n : f[1..k] \in Maps}
  <2>1. 0 \in T
    BY <1>1, <1>5
  <2>2. \A k \in 1..n : k - 1 \in T => k \in T
    BY <1>1, <1>6, NodeAppliedType
  <2>3. \A k \in 0..n : k \in T
    <3> HIDE DEF T
    <3> QED
      BY <1>1, <2>1, <2>2, SegmentInduction
  <2> QED
    BY <2>3
<1>8. NodeWalk(v, d, b)
  <2>1. v \in [0..n -> Maps] /\ v[0] = d
    BY <1>1, <1>5, <1>7
  <2>2. \A k \in 1..n : v[k] = NodeApplied(v[k - 1], b[n - k + 1])
    BY <1>1, <1>6
  <2> HIDE DEF v
  <2> QED
    BY <2>1, <2>2 DEF NodeWalk, n
<1>9. Updated(d, b) = v[Len(b)]
  BY <1>1, <1>2 DEF n
<1> HIDE DEF v
<1> QED
  BY <1>8, <1>9

\* A buffer applied to a database gives one.
LEMMA UpdatedType ==
  ASSUME NEW d \in Maps, NEW b \in Seq(Node)
  PROVE  Updated(d, b) \in Maps
<1>1. PICK v : NodeWalk(v, d, b) /\ Updated(d, b) = v[Len(b)]
  BY UpdatedWalk
<1>2. Len(b) \in 0..Len(b)
  OBVIOUS
<1> QED
  BY <1>1, <1>2 DEF NodeWalk

\* v gives the databases on the way when the buffers of s are applied.
BufferWalk(v, d, s) ==
  /\ v \in [0..Len(s) -> Maps] /\ v[0] = d
  /\ \A k \in 1..Len(s) : v[k] = Updated(v[k - 1], s[k])

BuffersOf(f, d, s, t) == IF t = {} THEN d ELSE Updated(f[Below(t)], s[Max(t)])
IsBuffers(f, d, s) == f = [t \in SUBSET DOMAIN s |-> BuffersOf(f, d, s, t)]

\* The function that folds Updated over the buffers exists.
LEMMA BuffersThere ==
  ASSUME NEW n \in Nat, NEW d \in Maps, NEW s, DOMAIN s = 1..n, \A i \in 1..n : s[i] \in Seq(Node)
  PROVE  \E f : IsBuffers(f, d, s)
<1> DEFINE E == Seq(Node)
           step == [p \in Maps \X E |-> Updated(p[1], p[2])]
<1>1. step \in [Maps \X E -> Maps] /\ \A r \in Maps, e \in E : step[<<r, e>>] = Updated(r, e)
  BY UpdatedType
<1>2. \A i \in 1..n : s[i] \in E
  OBVIOUS
<1> HIDE DEF step, E
<1>3. PICK f : IsFold(f, 1..n, d, s, step)
  BY FoldThere
<1>4. \A t \in SUBSET (1..n) : f[t] \in Maps
  BY <1>1, <1>2, <1>3, FoldType
<1>5. \A t \in SUBSET (1..n) : NextOf(f, d, s, step, t) = BuffersOf(f, d, s, t)
  <2> SUFFICES ASSUME NEW t \in SUBSET (1..n), t # {}
               PROVE  step[<<f[Below(t)], s[Max(t)]>>] = Updated(f[Below(t)], s[Max(t)])
    BY DEF NextOf, BuffersOf
  <2>1. Max(t) \in 1..n /\ Below(t) \in SUBSET (1..n)
    BY BelowIs
  <2> QED
    BY <1>1, <1>2, <1>4, <2>1
<1>6. f = [t \in SUBSET (1..n) |-> BuffersOf(f, d, s, t)]
  BY <1>3, <1>5 DEF IsFold
<1> QED
  BY <1>6 DEF IsBuffers

\* Folding Updated applies one buffer after the other.
LEMMA BuffersWalk ==
  ASSUME NEW d \in Maps, NEW s \in Seq(Seq(Node))
  PROVE  \E v : BufferWalk(v, d, s) /\ FoldLeft(Updated, d, s) = v[Len(s)]
<1> DEFINE n == Len(s)
           f == CHOOSE it : IsBuffers(it, d, s)
           v == [k \in 0..n |-> f[1..k]]
<1>1. n \in Nat /\ DOMAIN s = 1..n /\ \A i \in 1..n : s[i] \in Seq(Node)
  OBVIOUS
<1>2. FoldLeft(Updated, d, s) = f[DOMAIN s]
  BY DEF FoldLeft, MapThenFoldSet, IsBuffers, BuffersOf, Below
<1> HIDE DEF n
<1>3. IsBuffers(f, d, s)
  <2>1. \E it : IsBuffers(it, d, s)
    BY <1>1, BuffersThere
  <2> QED
    BY <2>1
<1> HIDE DEF f
<1>4. \A t \in SUBSET (1..n) : f[t] = BuffersOf(f, d, s, t)
  BY <1>1, <1>3 DEF IsBuffers
<1>5. f[1..0] = d
  <2>1. 1..0 = {}
    OBVIOUS
  <2> QED
    BY <1>4, <2>1 DEF BuffersOf
<1>6. \A k \in 1..n : f[1..k] = Updated(f[1..(k - 1)], s[k])
  <2> SUFFICES ASSUME NEW k \in 1..n PROVE f[1..k] = Updated(f[1..(k - 1)], s[k])
    OBVIOUS
  <2>1. 1..k \in SUBSET (1..n) /\ 1..k # {} /\ Max(1..k) = k /\ Below(1..k) = 1..(k - 1)
    BY <1>1, MaxOfSegment
  <2>2. f[1..k] = BuffersOf(f, d, s, 1..k)
    BY <1>4, <2>1
  <2> QED
    BY <2>1, <2>2 DEF BuffersOf
<1>7. \A k \in 0..n : f[1..k] \in Maps
  <2> DEFINE T == {k \in 0..n : f[1..k] \in Maps}
  <2>1. 0 \in T
    BY <1>1, <1>5
  <2>2. \A k \in 1..n : k - 1 \in T => k \in T
    BY <1>1, <1>6, UpdatedType
  <2>3. \A k \in 0..n : k \in T
    <3> HIDE DEF T
    <3> QED
      BY <1>1, <2>1, <2>2, SegmentInduction
  <2> QED
    BY <2>3
<1>8. BufferWalk(v, d, s)
  <2>1. v \in [0..n -> Maps] /\ v[0] = d
    BY <1>1, <1>5, <1>7
  <2>2. \A k \in 1..n : v[k] = Updated(v[k - 1], s[k])
    BY <1>1, <1>6
  <2> HIDE DEF v
  <2> QED
    BY <2>1, <2>2 DEF BufferWalk, n
<1>9. FoldLeft(Updated, d, s) = v[Len(s)]
  BY <1>1, <1>2 DEF n
<1> HIDE DEF v
<1> QED
  BY <1>8, <1>9

-----------------------------------------------------------------------------
(* Buffers that say exactly what became of each MAC *)

Says(b, m, oper) == \E i \in DOMAIN b : b[i].mac = m /\ b[i].oper = oper

\* MAC m was at port p and is at q: b deletes it from p and adds it to q, as far as
\* there are such ports and they differ, and neither deletes nor adds it otherwise.
ExactFor(b, m, p, q) ==
  /\ \A i \in DOMAIN b :
       /\ b[i].mac = m /\ b[i].oper = "del" => b[i].port = p /\ p # q
       /\ b[i].mac = m /\ b[i].oper = "add" => b[i].port = q /\ p # q
  /\ p # q /\ p # NoPort => Says(b, m, "del")
  /\ p # q /\ q # NoPort => Says(b, m, "add")

Exact(b, x, y) == \A m \in Macs : ExactFor(b, m, x[m], y[m])

\* The newest k nodes of b say oper of m.
Said(b, m, oper, k) == \E i \in (Len(b) - k + 1)..Len(b) : b[i].mac = m /\ b[i].oper = oper
SoFar(b, x, y, m, k) ==
  IF Said(b, m, "add", k) THEN y[m] ELSE IF Said(b, m, "del", k) THEN NoPort ELSE x[m]

\* Such a buffer takes the one database to the other, although the order in which
\* its nodes are applied is the opposite of that of the events.
LEMMA ExactApplied ==
  ASSUME NEW x \in Maps, NEW y \in Maps, NEW b \in Seq(Node), Exact(b, x, y)
  PROVE  Updated(x, b) = y
<1>1. PICK v : NodeWalk(v, x, b) /\ Updated(x, b) = v[Len(b)]
  BY UpdatedWalk
<1> DEFINE n == Len(b)
           T == {k \in 0..n : \A m \in Macs : v[k][m] = SoFar(b, x, y, m, k)}
<1>2. n \in Nat /\ DOMAIN b = 1..n /\ \A i \in 1..n : b[i] \in Node
  OBVIOUS
<1>3. v \in [0..n -> Maps] /\ v[0] = x
      /\ \A k \in 1..n : v[k] = NodeApplied(v[k - 1], b[n - k + 1])
  BY <1>1 DEF NodeWalk
<1>4. 0 \in T
  <2>1. \A m \in Macs, oper \in {"add", "del"} : ~Said(b, m, oper, 0)
    BY <1>2 DEF Said
  <2> QED
    BY <1>2, <1>3, <2>1 DEF SoFar
<1>5. ASSUME NEW k \in 1..n, k - 1 \in T PROVE k \in T
  <2> DEFINE e == b[n - k + 1]
             r == v[k - 1]
  <2>1. e \in Node /\ n - k + 1 \in 1..n /\ r \in Maps /\ k - 1 \in 0..n
    BY <1>2, <1>3
  <2>2. ASSUME NEW m \in Macs, NEW oper
        PROVE  Said(b, m, oper, k) <=> Said(b, m, oper, k - 1) \/ (e.mac = m /\ e.oper = oper)
    <3>1. \A i : i \in (n - k + 1)..n <=> i = n - k + 1 \/ i \in (n - (k - 1) + 1)..n
      BY <1>2
    <3> QED
      BY <3>1 DEF Said
  <2>3. v[k] = NodeApplied(r, e)
    BY <1>3
  <2>4. \A m \in Macs : r[m] = SoFar(b, x, y, m, k - 1)
    BY <1>5
  <2> SUFFICES ASSUME NEW m \in Macs PROVE v[k][m] = SoFar(b, x, y, m, k)
    OBVIOUS
  <2>5. ExactFor(b, m, x[m], y[m])
    BY DEF Exact
  <2>6. /\ e.mac = m /\ e.oper = "del" => e.port = x[m] /\ x[m] # y[m]
        /\ e.mac = m /\ e.oper = "add" => e.port = y[m] /\ x[m] # y[m]
    BY <1>2, <2>1, <2>5 DEF ExactFor
  <2>7. e.mac \in Macs /\ e.port \in PortNames /\ e.port # NoPort /\ e.oper \in {"add", "del", "undefined"}
    BY <2>1, NoPortAssumption DEF Node
  <2> HIDE DEF e, r, T
  <2>8. CASE e.mac # m
    <3>1. v[k][m] = r[m]
      BY <2>1, <2>3, <2>7, <2>8 DEF NodeApplied, Maps
    <3> QED
      BY <2>2, <2>4, <2>8, <3>1 DEF SoFar
  <2>9. CASE e.mac = m /\ e.oper = "add"
    <3>1. v[k][m] = e.port
      BY <2>1, <2>3, <2>9 DEF NodeApplied, Maps
    <3> QED
      BY <2>2, <2>6, <2>9, <3>1 DEF SoFar
  <2>10. CASE e.mac = m /\ e.oper = "del"
    <3>1. v[k][m] = IF r[m] = e.port THEN NoPort ELSE r[m]
      BY <2>1, <2>3, <2>10 DEF NodeApplied, Maps
    <3> QED
      BY <2>2, <2>4, <2>6, <2>7, <2>10, <3>1 DEF SoFar
  <2>11. CASE e.mac = m /\ e.oper = "undefined"
    <3>1. v[k][m] = r[m]
      BY <2>1, <2>3, <2>11 DEF NodeApplied, Maps
    <3> QED
      BY <2>2, <2>4, <2>11, <3>1 DEF SoFar
  <2> QED
    BY <2>7, <2>8, <2>9, <2>10, <2>11
<1>6. n \in T
  <2>1. \A k \in 1..n : k - 1 \in T => k \in T
    BY <1>5
  <2> HIDE DEF T
  <2>2. \A k \in 0..n : k \in T
    BY <1>2, <1>4, <2>1, SegmentInduction
  <2> QED
    BY <1>2, <2>2
<1>7. ASSUME NEW m \in Macs PROVE v[n][m] = y[m]
  <2>1. \A oper : Said(b, m, oper, n) <=> Says(b, m, oper)
    BY <1>2 DEF Said, Says
  <2>2. ExactFor(b, m, x[m], y[m])
    BY DEF Exact
  <2>3. v[n][m] = SoFar(b, x, y, m, n)
    BY <1>6
  <2> QED
    BY <2>1, <2>2, <2>3 DEF SoFar, ExactFor, Says
<1>8. v[n] \in Maps
  BY <1>2, <1>3
<1>9. v[n] = y
  BY <1>7, <1>8 DEF Maps
<1> QED
  BY <1>1, <1>9

\* A coalesced event leaves the buffer exact.
LEMMA ExactAdded ==
  ASSUME NEW x \in Maps, NEW y \in Maps, NEW z \in Maps, NEW b \in Buffer, NEW e \in Event,
         Exact(b, x, y), Exact(<<e>>, y, z), Found(b, e) \/ HasRoom(b)
  PROVE  Exact(EntryAdd(b, e), x, z)
<1> DEFINE c == EntryAdd(b, e)
<1>1. b \in Seq(Node) /\ Len(b) \in Nat /\ DOMAIN b = 1..Len(b) /\ \A i \in DOMAIN b : b[i] \in Node
  BY DEF Buffer
<1>2. e \in Node /\ e.oper \in {"add", "del"} /\ e.mac \in Macs /\ e.port \in PortNames /\ e.port # NoPort
  BY NoPortAssumption DEF Event, Node
<1> SUFFICES ASSUME NEW m \in Macs PROVE ExactFor(c, m, x[m], z[m])
  BY DEF Exact
<1>3. ExactFor(b, m, x[m], y[m]) /\ ExactFor(<<e>>, m, y[m], z[m])
  BY DEF Exact
<1>4. /\ e.mac = m /\ e.oper = "del" => e.port = y[m] /\ y[m] # z[m]
      /\ e.mac = m /\ e.oper = "add" => e.port = z[m] /\ y[m] # z[m]
      /\ y[m] # z[m] /\ y[m] # NoPort => e.mac = m /\ e.oper = "del"
      /\ y[m] # z[m] /\ z[m] # NoPort => e.mac = m /\ e.oper = "add"
  <2>1. DOMAIN <<e>> = {1} /\ <<e>>[1] = e
    OBVIOUS
  <2> QED
    BY <1>3, <2>1 DEF ExactFor, Says
<1>5. CASE Found(b, e)
  <2>1. DOMAIN c = DOMAIN b /\ \A i \in DOMAIN b : c[i] = Coalesced(b, e)[i]
    BY <1>5 DEF EntryAdd, Coalesced
  <2>2. \A i \in DOMAIN b :
          /\ c[i].mac = b[i].mac
          /\ Cancels(b[i], e) => c[i].oper = "undefined"
          /\ ~Cancels(b[i], e) => c[i].oper = b[i].oper
          /\ ~Updates(b[i], e) => c[i].port = b[i].port
          /\ Updates(b[i], e) => c[i].port = e.port
    BY <1>1, <2>1 DEF Coalesced, Node, Cancels, Updates, Matches
  <2> HIDE DEF c
  <2>3. CASE e.mac # m
    <3>1. y[m] = z[m]
      BY <1>4, <2>3
    <3>2. \A i \in DOMAIN b : b[i].mac = m => c[i].oper = b[i].oper /\ c[i].port = b[i].port
      BY <2>2, <2>3 DEF Cancels, Updates, Matches
    <3> QED
      BY <1>3, <2>1, <2>2, <3>1, <3>2 DEF ExactFor, Says
  <2>4. CASE e.mac = m /\ e.oper = "del"
    <3>1. z[m] = NoPort /\ e.port = y[m] /\ y[m] # NoPort
      BY <1>2, <1>4, <2>4
    <3>2. x[m] # y[m]
      BY <1>1, <1>3, <1>5, <2>4 DEF Found, Cancels, Updates, Matches, ExactFor, Node
    <3>3. \A i \in DOMAIN b : b[i].mac = m =>
            /\ b[i].oper = "add" => c[i].oper = "undefined"
            /\ b[i].oper # "add" => c[i].oper = b[i].oper /\ c[i].port = b[i].port
      <4> SUFFICES ASSUME NEW i \in DOMAIN b, b[i].mac = m
                   PROVE  /\ b[i].oper = "add" => c[i].oper = "undefined"
                          /\ b[i].oper # "add" => c[i].oper = b[i].oper /\ c[i].port = b[i].port
        OBVIOUS
      <4>1. b[i].oper = "add" => Cancels(b[i], e)
        BY <1>3, <2>4, <3>1 DEF Cancels, Matches, ExactFor
      <4>2. b[i].oper # "add" => ~Cancels(b[i], e) /\ ~Updates(b[i], e)
        BY <1>1, <2>4 DEF Cancels, Updates, Matches, Node
      <4> QED
        BY <2>2, <4>1, <4>2
    <3>4. \A i \in DOMAIN b : b[i].mac = m /\ b[i].oper = "del" => x[m] # NoPort
      BY <1>1, <1>3, NoPortAssumption DEF ExactFor, Node
    <3> QED
      BY <1>3, <2>1, <2>2, <3>1, <3>2, <3>3, <3>4 DEF ExactFor, Says
  <2>5. CASE e.mac = m /\ e.oper = "add"
    <3>1. y[m] = NoPort /\ e.port = z[m] /\ z[m] # NoPort
      BY <1>2, <1>4, <2>5
    <3>2. \A i \in DOMAIN b : b[i].mac = m => b[i].oper # "add"
      BY <1>1, <1>3, <3>1, NoPortAssumption DEF ExactFor, Node
    <3>3. x[m] = z[m]
      BY <1>1, <1>3, <1>5, <2>5, <3>1, <3>2 DEF Found, Cancels, Updates, Matches, ExactFor, Node
    <3>4. \A i \in DOMAIN b : b[i].mac = m => c[i].oper # "add" /\ c[i].oper # "del"
      BY <1>3, <2>2, <2>5, <3>1, <3>2, <3>3 DEF Cancels, Updates, Matches, ExactFor
    <3> QED
      BY <2>1, <2>2, <3>3, <3>4 DEF ExactFor
  <2> QED
    BY <1>2, <2>3, <2>4, <2>5
<1>6. CASE ~Found(b, e) /\ HasRoom(b)
  <2> DEFINE l == Len(b) + 1
  <2>1. c = Append(b, e)
    BY <1>6 DEF EntryAdd
  <2>2. DOMAIN c = DOMAIN b \cup {l} /\ c[l] = e /\ \A i \in DOMAIN b : c[i] = b[i]
    BY <1>1, <1>2, <2>1
  <2> HIDE DEF c, l
  <2>3. \A oper : Says(c, m, oper) <=> Says(b, m, oper) \/ (e.mac = m /\ e.oper = oper)
    BY <2>2 DEF Says
  <2>4. CASE e.mac # m
    <3>1. y[m] = z[m]
      BY <1>4, <2>4
    <3> QED
      BY <1>3, <2>2, <2>3, <2>4, <3>1 DEF ExactFor
  <2>5. CASE e.mac = m /\ e.oper = "del"
    <3>1. z[m] = NoPort /\ e.port = y[m] /\ y[m] # NoPort
      BY <1>2, <1>4, <2>5
    <3>2. \A i \in DOMAIN b : b[i].mac = m => b[i].oper # "add"
      BY <1>3, <1>6, <2>5, <3>1 DEF Found, Cancels, Matches, ExactFor
    <3>3. x[m] = y[m]
      BY <1>3, <3>1, <3>2 DEF ExactFor, Says
    <3>4. \A i \in DOMAIN b : b[i].mac = m => b[i].oper # "del"
      BY <1>3, <3>3 DEF ExactFor
    <3> QED
      BY <2>2, <2>3, <2>5, <3>1, <3>2, <3>3, <3>4 DEF ExactFor
  <2>6. CASE e.mac = m /\ e.oper = "add"
    <3>1. y[m] = NoPort /\ e.port = z[m] /\ z[m] # NoPort
      BY <1>2, <1>4, <2>6
    <3>2. \A i \in DOMAIN b : b[i].mac = m => b[i].oper # "add"
      BY <1>1, <1>3, <3>1, NoPortAssumption DEF ExactFor, Node
    <3>3. \A i \in DOMAIN b : b[i].mac = m /\ b[i].oper = "del" => b[i].port = x[m] /\ x[m] # z[m]
      BY <1>3, <1>6, <2>6, <3>1 DEF Found, Cancels, Matches, ExactFor
    <3>4. x[m] # NoPort => Says(b, m, "del")
      BY <1>3, <3>1 DEF ExactFor
    <3>5. x[m] # z[m]
      BY <3>1, <3>3, <3>4 DEF Says
    <3> QED
      BY <2>2, <2>3, <2>6, <3>1, <3>2, <3>3, <3>4, <3>5 DEF ExactFor
  <2> QED
    BY <1>2, <2>4, <2>5, <2>6
<1> QED
  BY <1>5, <1>6

-----------------------------------------------------------------------------
(* Buffers that lead from one database to another, one after the other *)

ChainOf(v, s, x, y) ==
  /\ v \in [0..Len(s) -> Maps] /\ v[0] = x /\ v[Len(s)] = y
  /\ \A i \in 1..Len(s) : Exact(s[i], v[i - 1], v[i])

Leads(s, x, y) == \E v : ChainOf(v, s, x, y)

\* No buffers lead from a database to itself only.
LEMMA LeadsEmpty ==
  ASSUME NEW x \in Maps
  PROVE  Leads(<<>>, x, x) /\ \A y : Leads(<<>>, x, y) => x = y
<1> DEFINE v == [i \in 0..0 |-> x]
<1>1. ChainOf(v, <<>>, x, x)
  BY DEF ChainOf
<1> QED
  BY <1>1 DEF Leads, ChainOf

\* One buffer leads where it is exact.
LEMMA LeadsOne ==
  ASSUME NEW b, NEW x \in Maps, NEW y \in Maps
  PROVE  Leads(<<b>>, x, y) <=> Exact(b, x, y)
<1>1. Len(<<b>>) = 1 /\ <<b>>[1] = b
  OBVIOUS
<1>2. ASSUME Exact(b, x, y) PROVE Leads(<<b>>, x, y)
  <2> DEFINE v == [i \in 0..1 |-> IF i = 0 THEN x ELSE y]
  <2>1. v \in [0..1 -> Maps] /\ v[0] = x /\ v[1] = y
    OBVIOUS
  <2> HIDE DEF v
  <2>2. ChainOf(v, <<b>>, x, y)
    BY <1>1, <1>2, <2>1 DEF ChainOf
  <2> QED
    BY <2>2 DEF Leads
<1>3. ASSUME Leads(<<b>>, x, y) PROVE Exact(b, x, y)
  <2>1. PICK v : ChainOf(v, <<b>>, x, y)
    BY <1>3 DEF Leads
  <2> QED
    BY <1>1, <2>1 DEF ChainOf
<1> QED
  BY <1>2, <1>3

\* What leads to y, and then what leads from there, lead on together.
LEMMA LeadsJoin ==
  ASSUME NEW s \in Seq(Seq(Node)), NEW t \in Seq(Seq(Node)), NEW x, NEW y, NEW z,
         Leads(s, x, y), Leads(t, y, z)
  PROVE  Leads(s \o t, x, z)
<1>1. PICK v : ChainOf(v, s, x, y)
  BY DEF Leads
<1>2. PICK w : ChainOf(w, t, y, z)
  BY DEF Leads
<1> DEFINE n == Len(s)
           l == Len(t)
           u == [i \in 0..(n + l) |-> IF i <= n THEN v[i] ELSE w[i - n]]
           st == s \o t
<1>3. n \in Nat /\ l \in Nat
  OBVIOUS
<1>4. Len(st) = n + l /\ \A i \in 1..(n + l) : st[i] = IF i <= n THEN s[i] ELSE t[i - n]
  OBVIOUS
<1>5. v \in [0..n -> Maps] /\ v[0] = x /\ v[n] = y /\ \A i \in 1..n : Exact(s[i], v[i - 1], v[i])
  BY <1>1 DEF ChainOf
<1>6. w \in [0..l -> Maps] /\ w[0] = y /\ w[l] = z /\ \A i \in 1..l : Exact(t[i], w[i - 1], w[i])
  BY <1>2 DEF ChainOf
<1> HIDE DEF n, l, st
<1>7. u \in [0..(n + l) -> Maps] /\ u[0] = x /\ u[n + l] = z
  <2>1. \A i \in 0..(n + l) : u[i] \in Maps
    BY <1>3, <1>5, <1>6
  <2>2. u[0] = x
    BY <1>3, <1>5
  <2>3. u[n + l] = z
    BY <1>3, <1>5, <1>6
  <2> QED
    BY <2>1, <2>2, <2>3
<1>8. ASSUME NEW i \in 1..(n + l) PROVE Exact(st[i], u[i - 1], u[i])
  <2>1. CASE i <= n
    <3>1. i \in 1..n /\ u[i - 1] = v[i - 1] /\ u[i] = v[i] /\ st[i] = s[i]
      BY <1>3, <1>4, <2>1
    <3> QED
      BY <1>5, <3>1
  <2>2. CASE i = n + 1
    <3>1. u[i - 1] = w[0] /\ u[i] = w[1] /\ st[i] = t[1] /\ 1 \in 1..l
      BY <1>3, <1>4, <1>5, <1>6, <2>2
    <3> QED
      BY <1>6, <3>1
  <2>3. CASE i > n + 1
    <3> DEFINE j == i - n
    <3>1. j \in 1..l /\ u[i] = w[j] /\ st[i] = t[j]
      BY <1>3, <1>4, <2>3
    <3>2. u[i - 1] = w[j - 1]
      BY <1>3, <2>3
    <3> HIDE DEF j, u
    <3> QED
      BY <1>6, <3>1, <3>2
  <2> QED
    BY <1>3, <2>1, <2>2, <2>3
<1> HIDE DEF u
<1>9. ChainOf(u, st, x, z)
  BY <1>4, <1>7, <1>8 DEF ChainOf
<1> QED
  BY <1>9 DEF Leads, st

\* The databases between the two parts of a joined sequence.
LEMMA LeadsPart ==
  ASSUME NEW s \in Seq(Seq(Node)), NEW t \in Seq(Seq(Node)), NEW x, NEW z, Leads(s \o t, x, z)
  PROVE  \E y \in Maps : Leads(s, x, y) /\ Leads(t, y, z)
<1> DEFINE n == Len(s)
           l == Len(t)
           st == s \o t
<1>1. PICK u : ChainOf(u, st, x, z)
  BY DEF Leads
<1> DEFINE v == [i \in 0..n |-> u[i]]
           w == [i \in 0..l |-> u[i + n]]
<1>2. n \in Nat /\ l \in Nat
  OBVIOUS
<1>3. Len(st) = n + l /\ (\A i \in 1..n : st[i] = s[i]) /\ \A i \in 1..l : st[i + n] = t[i]
  OBVIOUS
<1> HIDE DEF st
<1>4. u \in [0..(n + l) -> Maps] /\ u[0] = x /\ u[n + l] = z
      /\ \A i \in 1..(n + l) : Exact(st[i], u[i - 1], u[i])
  BY <1>1, <1>3 DEF ChainOf
<1> HIDE DEF n, l
<1>5. u[n] \in Maps
  BY <1>2, <1>4
<1>6. ChainOf(v, s, x, u[n])
  <2>1. v \in [0..n -> Maps] /\ v[0] = x /\ v[n] = u[n]
    BY <1>2, <1>4
  <2>2. \A i \in 1..n : Exact(s[i], v[i - 1], v[i])
    BY <1>2, <1>3, <1>4
  <2> HIDE DEF v
  <2> QED
    BY <2>1, <2>2 DEF ChainOf, n
<1>7. ChainOf(w, t, u[n], z)
  <2>1. w \in [0..l -> Maps] /\ w[0] = u[n]
    BY <1>2, <1>4
  <2>2. w[l] = z
    <3>1. l + n = n + l /\ l \in 0..l
      BY <1>2
    <3> QED
      BY <1>4, <3>1
  <2>3. ASSUME NEW i \in 1..l PROVE Exact(t[i], w[i - 1], w[i])
    <3>1. i + n \in 1..(n + l) /\ i - 1 \in 0..l /\ i \in 0..l /\ (i + n) - 1 = (i - 1) + n
      BY <1>2
    <3>2. Exact(st[i + n], u[(i + n) - 1], u[i + n])
      BY <1>4, <3>1
    <3>3. w[i - 1] = u[(i - 1) + n] /\ w[i] = u[i + n]
      BY <3>1
    <3> HIDE DEF w
    <3> QED
      BY <1>3, <3>1, <3>2, <3>3
  <2> HIDE DEF w
  <2> QED
    BY <2>1, <2>2, <2>3 DEF ChainOf, l
<1> HIDE DEF v, w
<1>8. Leads(s, x, u[n]) /\ Leads(t, u[n], z)
  BY <1>6, <1>7 DEF Leads
<1> QED
  BY <1>5, <1>8

\* Applied in their order, such buffers take the one database to the other.
LEMMA LeadsApplied ==
  ASSUME NEW s \in Seq(Seq(Node)), NEW x \in Maps, NEW y \in Maps, Leads(s, x, y)
  PROVE  FoldLeft(Updated, x, s) = y
<1>1. PICK w : BufferWalk(w, x, s) /\ FoldLeft(Updated, x, s) = w[Len(s)]
  BY BuffersWalk
<1>2. PICK v : ChainOf(v, s, x, y)
  BY DEF Leads
<1> DEFINE n == Len(s)
           T == {k \in 0..n : w[k] = v[k]}
<1>3. n \in Nat /\ \A i \in 1..n : s[i] \in Seq(Node)
  OBVIOUS
<1>4. 0 \in T
  BY <1>1, <1>2, <1>3 DEF BufferWalk, ChainOf
<1>5. ASSUME NEW k \in 1..n, k - 1 \in T PROVE k \in T
  <2>1. k - 1 \in 0..n /\ k \in 0..n
    BY <1>3
  <2>2. v[k - 1] \in Maps /\ v[k] \in Maps /\ Exact(s[k], v[k - 1], v[k]) /\ s[k] \in Seq(Node)
    BY <1>2, <1>3, <2>1 DEF ChainOf
  <2>3. Updated(v[k - 1], s[k]) = v[k]
    BY <2>2, ExactApplied
  <2>4. w[k] = Updated(w[k - 1], s[k]) /\ w[k - 1] = v[k - 1]
    BY <1>1, <1>5 DEF BufferWalk
  <2> QED
    BY <2>3, <2>4
<1>6. n \in T
  <2>1. \A k \in 1..n : k - 1 \in T => k \in T
    BY <1>5
  <2> HIDE DEF T, n
  <2>2. \A k \in 0..n : k \in T
    BY <1>3, <1>4, <2>1, SegmentInduction
  <2> QED
    BY <1>3, <2>2
<1>7. v[n] = y
  BY <1>2 DEF ChainOf
<1> QED
  BY <1>1, <1>6, <1>7

-----------------------------------------------------------------------------
(* The database and SAI's FDB *)

\* The buffer the main thread reads is the one before rd.
LEMMA BeingReadIs ==
  ASSUME rd \in Index
  PROVE  /\ BeingRead \in Index /\ NextIndex(BeingRead) = rd
         /\ \A i \in Index : NextIndex(i) = rd => i = BeingRead
<1> DEFINE before == IF rd = 0 THEN MaxBuffers - 1 ELSE rd - 1
<1>1. before \in Index /\ NextIndex(before) = rd
  BY BuffersAssumption DEF Index, NextIndex
<1> HIDE DEF before
<1>2. BeingRead \in Index /\ NextIndex(BeingRead) = rd
  BY <1>1 DEF BeingRead
<1>3. \A i, j \in Index : NextIndex(i) = NextIndex(j) => i = j
  BY BuffersAssumption DEF Index, NextIndex
<1> QED
  BY <1>2, <1>3

Reading  == IF mainPc = "reading" THEN <<buf[BeingRead]>> ELSE <<>>
Reported == [i \in DOMAIN notice |-> <<notice[i]>>]

\* Sequences r and w of buffers, buffer b and sequence n lead from x to z.
Links(r, w, b, n, x, z) ==
  \E y1, y2, y3 \in Maps :
    Leads(r, x, y1) /\ Leads(w, y1, y2) /\ Exact(b, y2, y3) /\ Leads(n, y3, z)

DatabaseKeepsUp == Links(Reading, Waiting, buf[cur], Reported, db, fdb)

DbInv ==
  /\ db \in Maps
  /\ ~damaged => DatabaseKeepsUp /\ (mainPc = "reading" => NextIndex(cur) # rd)

\* What is outstanding consists of sequences of buffers.
LEMMA PartsType ==
  ASSUME RingTypeOK
  PROVE  /\ Reading \in Seq(Seq(Node)) /\ Waiting \in Seq(Seq(Node)) /\ Reported \in Seq(Seq(Node))
         /\ buf[cur] \in Buffer /\ buf[cur] \in Seq(Node) /\ fdb \in Maps
<1>1. \A i \in Index : buf[i] \in Buffer /\ buf[i] \in Seq(Node)
  BY DEF RingTypeOK, Buffer
<1>2. Reading \in Seq(Seq(Node))
  <2>1. buf[BeingRead] \in Seq(Node)
    BY <1>1, BeingReadIs DEF RingTypeOK
  <2> QED
    BY <2>1 DEF Reading
<1>3. Waiting \in Seq(Seq(Node))
  <2>1. Waiting \in Seq(Buffer) /\ Buffer \subseteq Seq(Node)
    BY WaitingType DEF Buffer
  <2> QED
    BY <2>1
<1>4. Reported \in Seq(Seq(Node))
  <2>1. notice \in Seq(Event) /\ Event \subseteq Node
    BY DEF RingTypeOK, Event
  <2>2. Len(notice) \in Nat /\ DOMAIN notice = 1..Len(notice)
        /\ \A i \in 1..Len(notice) : <<notice[i]>> \in Seq(Node)
    BY <2>1
  <2> QED
    BY <2>2 DEF Reported
<1> QED
  BY <1>1, <1>2, <1>3, <1>4 DEF RingTypeOK, Maps

\* The invariant says what the property says.
LEMMA KeepingUpFollows ==
  ASSUME RingTypeOK, DbInv
  PROVE  DatabaseFollowsFdb
<1> SUFFICES ASSUME ~damaged PROVE FoldLeft(Updated, db, Outstanding) = fdb
  BY DEF DatabaseFollowsFdb
<1> DEFINE Sq == Seq(Seq(Node))
           r == Reading
           w == Waiting
           b == <<buf[cur]>>
           n == Reported
<1>1. Outstanding = r \o w \o b \o n
  BY DEF Outstanding, Reading, Reported
<1>2. r \in Sq /\ w \in Sq /\ b \in Sq /\ n \in Sq /\ fdb \in Maps /\ db \in Maps
  BY PartsType DEF DbInv
<1>3. PICK y1 \in Maps, y2 \in Maps, y3 \in Maps :
        Leads(r, db, y1) /\ Leads(w, y1, y2) /\ Exact(buf[cur], y2, y3) /\ Leads(n, y3, fdb)
  BY DEF DbInv, DatabaseKeepsUp, Links
<1>4. Leads(b, y2, y3)
  BY <1>3, LeadsOne
<1> HIDE DEF r, w, b, n
<1>5. r \o w \in Sq /\ r \o w \o b \in Sq /\ r \o w \o b \o n \in Sq
  <2> HIDE DEF Sq
  <2> QED
    BY <1>2 DEF Sq
<1>6. Leads(r \o w, db, y2)
  BY <1>2, <1>3, LeadsJoin
<1>7. Leads(r \o w \o b, db, y3)
  BY <1>2, <1>4, <1>5, <1>6, LeadsJoin
<1>8. Leads(r \o w \o b \o n, db, fdb)
  BY <1>2, <1>3, <1>5, <1>7, LeadsJoin
<1> QED
  BY <1>1, <1>2, <1>5, <1>8, LeadsApplied

\* A step that changes none of it leaves the database as up to date as it was.
LEMMA KeepsUpUnchanged ==
  ASSUME RingTypeOK, DatabaseKeepsUp, UNCHANGED <<ringVars, notice, fdb, db>>,
         mainPc' = mainPc \/ (mainPc # "reading" /\ mainPc' # "reading")
  PROVE  DatabaseKeepsUp'
<1>1. UNCHANGED <<buf, cur, rd>>
  BY DEF ringVars
<1>2. Waiting' = Waiting
  BY <1>1, WaitingUnchanged
<1>3. Reading' = Reading /\ Reported' = Reported
  BY <1>1 DEF Reading, Reported, BeingRead
<1> QED
  BY <1>1, <1>2, <1>3 DEF DatabaseKeepsUp

\* An event coalesced into the current buffer.
LEMMA ReceiveKeepsUp ==
  ASSUME RingInv, DbInv, Receive, ~damaged'
  PROVE  DatabaseKeepsUp' /\ ~damaged
<1> DEFINE e == Head(notice)
<1>1. RingTypeOK /\ notice \in Seq(Event) /\ notice # <<>> /\ cur \in Index /\ rd \in Index
  BY DEF RingInv, RingTypeOK, Receive
<1>2. /\ buf' = [buf EXCEPT ![cur] = EntryAdd(@, e)] /\ ~damaged
      /\ Found(buf[cur], e) \/ HasRoom(buf[cur])
      /\ notice' = Tail(notice) /\ UNCHANGED <<cur, rd, mainPc, fdb, db>>
  BY DEF Receive
<1>3. DatabaseKeepsUp /\ (mainPc = "reading" => NextIndex(cur) # rd) /\ db \in Maps
  BY <1>2 DEF DbInv
<1>4. buf'[cur'] = EntryAdd(buf[cur], e) /\ \A i \in Index : i # cur => buf'[i] = buf[i]
  BY <1>1, <1>2 DEF RingTypeOK
<1>5. Waiting' = Waiting
  BY <1>1, <1>2, <1>4, WaitingUnchanged
<1>6. Reading' = Reading
  <2>1. BeingRead' = BeingRead
    BY <1>2 DEF BeingRead
  <2>2. CASE mainPc = "reading"
    <3>1. BeingRead \in Index /\ BeingRead # cur
      BY <1>1, <1>3, <2>2, BeingReadIs
    <3> QED
      BY <1>2, <1>4, <2>1, <3>1 DEF Reading
  <2> QED
    BY <1>2, <2>2 DEF Reading
<1>7. PICK y1 \in Maps, y2 \in Maps, y3 \in Maps :
        /\ Leads(Reading, db, y1) /\ Leads(Waiting, y1, y2)
        /\ Exact(buf[cur], y2, y3) /\ Leads(Reported, y3, fdb)
  BY <1>3 DEF DatabaseKeepsUp, Links
<1> DEFINE first == <<<<e>>>>
           rest == Reported'
<1>8. /\ e \in Event /\ e \in Node /\ Reported = first \o rest
      /\ first \in Seq(Seq(Node)) /\ rest \in Seq(Seq(Node))
  <2>1. e \in Event /\ e \in Node
    BY <1>1 DEF Event
  <2>2. Len(notice) \in Nat /\ Len(notice) > 0 /\ DOMAIN notice = 1..Len(notice)
        /\ \A i \in 1..Len(notice) : notice[i] \in Event /\ notice[i] \in Node
    BY <1>1 DEF Event
  <2>3. /\ Tail(notice) \in Seq(Event) /\ Len(Tail(notice)) = Len(notice) - 1
        /\ DOMAIN Tail(notice) = 1..(Len(notice) - 1) /\ notice[1] = e
        /\ \A i \in 1..(Len(notice) - 1) : Tail(notice)[i] = notice[i + 1]
    BY <1>1
  <2>4. rest = [i \in 1..(Len(notice) - 1) |-> <<notice[i + 1]>>]
    BY <1>2, <2>3 DEF Reported
  <2>5. rest \in Seq(Seq(Node)) /\ Len(rest) = Len(notice) - 1
    BY <2>2, <2>4
  <2>6. first \in Seq(Seq(Node)) /\ Len(first) = 1 /\ first[1] = <<e>>
    BY <2>1
  <2>7. Reported = [i \in 1..Len(notice) |-> <<notice[i]>>]
    BY <2>2 DEF Reported
  <2>8. \A i \in 1..(Len(notice) - 1) : rest[i] = <<notice[i + 1]>>
    BY <2>4
  <2>9. Reported \in Seq(Seq(Node)) /\ Len(Reported) = Len(notice)
    BY <2>2, <2>7
  <2> HIDE DEF first, rest
  <2>10. first \o rest \in Seq(Seq(Node)) /\ Len(first \o rest) = Len(notice)
         /\ \A i \in 1..Len(notice) : (first \o rest)[i] = IF i <= 1 THEN first[i] ELSE rest[i - 1]
    <3>1. Len(first) + Len(rest) = Len(notice)
      BY <2>2, <2>5, <2>6
    <3> DEFINE Sq == Seq(Node)
    <3>2. first \in Seq(Sq) /\ rest \in Seq(Sq)
      BY <2>5, <2>6
    <3> HIDE DEF Sq
    <3>3. /\ first \o rest \in Seq(Sq)
          /\ Len(first \o rest) = Len(first) + Len(rest)
          /\ \A i \in 1..(Len(first) + Len(rest)) :
               (first \o rest)[i] = IF i <= Len(first) THEN first[i] ELSE rest[i - Len(first)]
      BY <3>2, ConcatProperties
    <3> QED
      BY <2>6, <3>1, <3>3 DEF Sq
  <2>11. \A i \in 1..Len(notice) : (first \o rest)[i] = Reported[i]
    <3> SUFFICES ASSUME NEW i \in 1..Len(notice) PROVE (first \o rest)[i] = Reported[i]
      OBVIOUS
    <3>1. CASE i = 1
      BY <2>2, <2>3, <2>6, <2>7, <2>10, <3>1
    <3>2. CASE i # 1
      <4>1. i - 1 \in 1..(Len(notice) - 1) /\ (i - 1) + 1 = i
        BY <2>2, <3>2
      <4>2. rest[i - 1] = <<notice[i]>>
        BY <2>8, <4>1
      <4> QED
        BY <2>2, <2>7, <2>10, <3>2, <4>2
    <3> QED
      BY <3>1, <3>2
  <2> QED
    BY <2>1, <2>5, <2>6, <2>9, <2>10, <2>11, SeqEqual
<1>9. PICK y \in Maps : Leads(first, y3, y) /\ Leads(rest, y, fdb)
  <2> HIDE DEF first, rest
  <2> QED
    BY <1>7, <1>8, LeadsPart
<1>10. Exact(<<e>>, y3, y)
  BY <1>9, LeadsOne
<1>11. Exact(EntryAdd(buf[cur], e), y2, y)
  <2>1. buf[cur] \in Buffer
    BY <1>1 DEF RingTypeOK
  <2> HIDE DEF e
  <2> QED
    BY <1>2, <1>7, <1>8, <1>10, <2>1, ExactAdded
<1> QED
  BY <1>2, <1>4, <1>5, <1>6, <1>7, <1>9, <1>11 DEF DatabaseKeepsUp, Links

\* A buffer that says nothing changes nothing.
LEMMA ExactNone ==
  ASSUME NEW y \in Maps
  PROVE  Exact(<<>>, y, y)
<1>1. DOMAIN <<>> = {}
  OBVIOUS
<1> QED
  BY <1>1 DEF Exact, ExactFor

\* The current buffer becomes the last of those that wait, or stays.
LEMMA RunKeepsUp ==
  ASSUME RingInv, DbInv, Run, UNCHANGED <<notice, fdb, db, taken>>, ~damaged',
         mainPc' = mainPc \/ (mainPc # "reading" /\ mainPc' # "reading")
  PROVE  DatabaseKeepsUp' /\ (mainPc' = "reading" => NextIndex(cur') # rd')
<1>1. RingTypeOK /\ cur \in Index /\ rd \in Index /\ NextIndex(cur) \in Index
  BY NextIndexType DEF RingInv, RingTypeOK
<1>2. ~damaged /\ rd' = rd
  BY DEF Run, ringVars
<1>3. DatabaseKeepsUp /\ (mainPc = "reading" => NextIndex(cur) # rd) /\ db \in Maps
  BY <1>2 DEF DbInv
<1>4. \/ Waiting' = Append(Waiting, buf[cur]) /\ buf'[cur'] = <<>>
      \/ Waiting' = Waiting /\ buf'[cur'] = buf[cur]
  BY <1>1, RunPublishes DEF Batch!Publish, Batch!queueVars
<1>5. BeingRead' = BeingRead
  BY <1>2 DEF BeingRead
<1>6. mainPc' = "reading" => buf'[BeingRead] = buf[BeingRead] /\ NextIndex(cur') # rd'
  <2> SUFFICES ASSUME mainPc' = "reading"
               PROVE  buf'[BeingRead] = buf[BeingRead] /\ NextIndex(cur') # rd'
    OBVIOUS
  <2>1. CASE plugged /\ buf[cur] # <<>> /\ ~RingIsFull
    <3>1. cur' = NextIndex(cur) /\ buf' = [buf EXCEPT ![NextIndex(cur)] = <<>>] /\ ~IsRead(NextIndex(cur))
      BY <2>1 DEF Run
    <3>2. NextIndex(NextIndex(cur)) # rd
      BY <3>1 DEF IsRead
    <3>3. BeingRead # NextIndex(cur) /\ BeingRead \in Index
      BY <1>1, <3>2, BeingReadIs
    <3> QED
      BY <1>1, <1>2, <3>1, <3>2, <3>3 DEF RingTypeOK
  <2>2. CASE ~(plugged /\ buf[cur] # <<>> /\ ~RingIsFull)
    BY <1>3, <2>2 DEF Run, ringVars
  <2> QED
    BY <2>1, <2>2
<1>7. Reading' = Reading /\ Reported' = Reported
  BY <1>5, <1>6 DEF Reading, Reported
<1>8. PICK y1 \in Maps, y2 \in Maps, y3 \in Maps :
        /\ Leads(Reading, db, y1) /\ Leads(Waiting, y1, y2)
        /\ Exact(buf[cur], y2, y3) /\ Leads(Reported, y3, fdb)
  BY <1>3 DEF DatabaseKeepsUp, Links
<1>9. CASE Waiting' = Append(Waiting, buf[cur]) /\ buf'[cur'] = <<>>
  <2> DEFINE Sq == Seq(Node)
             w == Waiting
             b == buf[cur]
  <2>1. w \in Seq(Sq) /\ b \in Sq /\ <<b>> \in Seq(Sq)
    BY <1>1, PartsType
  <2>2. Leads(<<b>>, y2, y3)
    BY <1>8, LeadsOne
  <2>3. Append(w, b) = w \o <<b>>
    <3> HIDE DEF w, b, Sq
    <3> QED
      BY <2>1, AppendIsConcat
  <2>4. Leads(w \o <<b>>, y1, y3)
    <3> HIDE DEF w, b
    <3> QED
      BY <1>8, <2>1, <2>2, LeadsJoin DEF w
  <2>5. Exact(buf'[cur'], y3, y3)
    BY <1>9, ExactNone
  <2> QED
    BY <1>6, <1>7, <1>8, <1>9, <2>3, <2>4, <2>5 DEF DatabaseKeepsUp, Links
<1>10. CASE Waiting' = Waiting /\ buf'[cur'] = buf[cur]
  BY <1>3, <1>6, <1>7, <1>10 DEF DatabaseKeepsUp
<1> QED
  BY <1>4, <1>9, <1>10

\* The oldest buffer that waits becomes the one that is read.
LEMMA TakeKeepsUp ==
  ASSUME RingInv, DbInv, Take, ~damaged'
  PROVE  DatabaseKeepsUp' /\ (mainPc' = "reading" => NextIndex(cur') # rd')
<1>1. RingTypeOK /\ cur \in Index /\ rd \in Index /\ ~damaged /\ mainPc = "idle"
      /\ UNCHANGED <<buf, cur, notice, fdb, db>>
  BY DEF RingInv, RingTypeOK, Take
<1>2. DatabaseKeepsUp /\ db \in Maps
  BY <1>1 DEF DbInv
<1>3. CASE RingIsEmpty
  <2>1. UNCHANGED <<ringVars, notice, fdb, db>> /\ mainPc' = mainPc
    BY <1>3 DEF Take, ringVars
  <2> QED
    BY <1>1, <1>2, <2>1, KeepsUpUnchanged
<1>4. CASE ~RingIsEmpty
  <2>1. IsPublished(rd)
    BY <1>1, <1>4 DEF IsPublished, RingIsEmpty, Index
  <2>2. buf[rd] # <<>>
    BY <1>1, <2>1 DEF RingInv, PublishedIsNotEmpty
  <2>3. rd' = NextIndex(rd) /\ taken' = buf[rd] /\ mainPc' = "reading" /\ taken = <<>>
    BY <1>1, <1>4, <2>2 DEF Take, RingInv, TakenWhileReading
  <2>4. Waiting # <<>> /\ Head(Waiting) = buf[rd] /\ Waiting' = Tail(Waiting)
    BY <2>2, <2>3, TakeHandsOut DEF Batch!HandOut, Batch!queueVars
  <2>5. rd' \in Index
    BY <1>1, <2>3, NextIndexType
  <2>6. BeingRead' = rd
    <3>1. \A i, j \in Index : NextIndex(i) = NextIndex(j) => i = j
      BY BuffersAssumption DEF Index, NextIndex
    <3>2. BeingRead' = CHOOSE i \in Index : NextIndex(i) = NextIndex(rd)
      BY <2>3 DEF BeingRead
    <3> QED
      BY <1>1, <3>1, <3>2
  <2>7. Reading' = <<buf[rd]>> /\ Reported' = Reported
    BY <1>1, <2>3, <2>6 DEF Reading, Reported
  <2>8. NextIndex(cur') # rd'
    BY <1>1, <1>4, <2>3, BuffersAssumption DEF Index, NextIndex, RingIsEmpty
  <2>9. PICK y1 \in Maps, y2 \in Maps, y3 \in Maps :
          /\ Leads(Reading, db, y1) /\ Leads(Waiting, y1, y2)
          /\ Exact(buf[cur], y2, y3) /\ Leads(Reported, y3, fdb)
    BY <1>2 DEF DatabaseKeepsUp, Links
  <2>10. db = y1
    BY <1>1, <1>2, <2>9, LeadsEmpty DEF Reading
  <2> DEFINE Sq == Seq(Node)
             w == Waiting
             first == <<buf[rd]>>
             rest == Tail(w)
  <2>11. w \in Seq(Sq) /\ rest \in Seq(Sq) /\ first \in Seq(Sq) /\ w = first \o rest
    <3>1. w \in Seq(Sq) /\ w # <<>> /\ Head(w) = buf[rd]
      BY <1>1, <2>4, PartsType
    <3> HIDE DEF w, Sq
    <3>2. rest \in Seq(Sq) /\ Head(w) \in Sq /\ w = <<Head(w)>> \o Tail(w)
      BY <3>1
    <3> QED
      BY <3>1, <3>2
  <2>12. PICK y \in Maps : Leads(first, db, y) /\ Leads(rest, y, y2)
    <3>1. Leads(first \o rest, db, y2)
      BY <2>9, <2>10, <2>11
    <3> HIDE DEF first, rest
    <3> QED
      BY <2>11, <3>1, LeadsPart
  <2> QED
    BY <1>1, <2>4, <2>7, <2>8, <2>9, <2>12 DEF DatabaseKeepsUp, Links
<1> QED
  BY <1>3, <1>4

\* The buffer that is read is applied to the database.
LEMMA UpdateKeepsUp ==
  ASSUME RingInv, DbInv, UpdateDb, ~damaged'
  PROVE  DatabaseKeepsUp'
<1>1. RingTypeOK /\ ~damaged /\ mainPc = "reading" /\ mainPc' = "idle"
      /\ db' = Updated(db, buf[BeingRead]) /\ UNCHANGED <<buf, cur, rd, notice, fdb>>
  BY DEF RingInv, UpdateDb, ringVars
<1>2. DatabaseKeepsUp /\ db \in Maps
  BY <1>1 DEF DbInv
<1>3. PICK y1 \in Maps, y2 \in Maps, y3 \in Maps :
        /\ Leads(Reading, db, y1) /\ Leads(Waiting, y1, y2)
        /\ Exact(buf[cur], y2, y3) /\ Leads(Reported, y3, fdb)
  BY <1>2 DEF DatabaseKeepsUp, Links
<1>4. Exact(buf[BeingRead], db, y1)
  BY <1>1, <1>2, <1>3, LeadsOne DEF Reading
<1>5. buf[BeingRead] \in Seq(Node)
  BY <1>1, BeingReadIs DEF RingTypeOK, Buffer
<1>6. db' = y1
  BY <1>1, <1>2, <1>3, <1>4, <1>5, ExactApplied
<1>7. Reading' = <<>> /\ Reported' = Reported /\ Waiting' = Waiting
  BY <1>1, WaitingUnchanged DEF Reading, Reported
<1>8. Leads(<<>>, y1, y1)
  BY LeadsEmpty
<1> QED
  BY <1>1, <1>3, <1>6, <1>7, <1>8 DEF DatabaseKeepsUp, Links

\* What SAI reports of one MAC that it learns or ages is exact.
LEMMA ReportIsExact ==
  ASSUME NEW y \in Maps, NEW m \in Macs, NEW p \in PortNames
  PROVE  /\ y[m] = NoPort => Exact(<<Add(m, p)>>, y, [y EXCEPT ![m] = p])
         /\ y[m] = p => Exact(<<Del(m, p)>>, y, [y EXCEPT ![m] = NoPort])
<1>1. p # NoPort
  BY NoPortAssumption
<1>2. ASSUME NEW e, NEW k \in Macs, NEW a, NEW c,
             \/ e.mac # k /\ a = c
             \/ e = Add(k, c) /\ a = NoPort /\ c # NoPort
             \/ e = Del(k, a) /\ a # NoPort /\ c = NoPort
      PROVE  ExactFor(<<e>>, k, a, c)
  <2>1. DOMAIN <<e>> = {1} /\ <<e>>[1] = e
    OBVIOUS
  <2> QED
    BY <1>2, <2>1 DEF ExactFor, Says, Add, Del
<1>3. ASSUME y[m] = NoPort PROVE Exact(<<Add(m, p)>>, y, [y EXCEPT ![m] = p])
  <2> DEFINE z == [y EXCEPT ![m] = p]
             e == Add(m, p)
  <2>1. ASSUME NEW k \in Macs PROVE ExactFor(<<e>>, k, y[k], z[k])
    <3>1. \/ e.mac # k /\ y[k] = z[k]
          \/ e = Add(k, z[k]) /\ y[k] = NoPort /\ z[k] # NoPort
      BY <1>1, <1>3 DEF Maps, Add
    <3> HIDE DEF e, z
    <3> QED
      BY <1>2, <3>1
  <2> QED
    BY <2>1 DEF Exact
<1>4. ASSUME y[m] = p PROVE Exact(<<Del(m, p)>>, y, [y EXCEPT ![m] = NoPort])
  <2> DEFINE z == [y EXCEPT ![m] = NoPort]
             e == Del(m, p)
  <2>1. ASSUME NEW k \in Macs PROVE ExactFor(<<e>>, k, y[k], z[k])
    <3>1. \/ e.mac # k /\ y[k] = z[k]
          \/ e = Del(k, y[k]) /\ y[k] # NoPort /\ z[k] = NoPort
      BY <1>1, <1>4 DEF Maps, Del
    <3> HIDE DEF e, z
    <3> QED
      BY <1>2, <3>1
  <2> QED
    BY <2>1 DEF Exact
<1> QED
  BY <1>3, <1>4

\* A MAC learned, aged, or moved with both events reported.
LEMMA ChangeKeepsUp ==
  ASSUME RingInv, DbInv, ~damaged, MovesAreAged,
         NEW m \in Macs, NEW p \in PortNames \cup {NoPort}, FdbChanges(m, p)
  PROVE  DatabaseKeepsUp'
<1>1. RingTypeOK /\ fdb \in Maps /\ notice = <<>> /\ fdb[m] # p
      /\ fdb' = [fdb EXCEPT ![m] = p] /\ UNCHANGED <<buf, cur, rd, mainPc, db>>
  BY DEF RingInv, RingTypeOK, Maps, FdbChanges, ringVars, threadVars
<1>2. Reading' = Reading /\ Waiting' = Waiting /\ buf'[cur'] = buf[cur]
  BY <1>1, WaitingUnchanged DEF Reading, BeingRead
<1>3. DatabaseKeepsUp
  BY DEF DbInv
<1>4. PICK y1 \in Maps, y2 \in Maps, y3 \in Maps :
        /\ Leads(Reading, db, y1) /\ Leads(Waiting, y1, y2)
        /\ Exact(buf[cur], y2, y3) /\ Leads(Reported, y3, fdb)
  BY <1>3 DEF DatabaseKeepsUp, Links
<1>5. y3 = fdb
  <2>1. Reported = <<>>
    BY <1>1 DEF Reported
  <2> QED
    BY <1>4, <2>1, LeadsEmpty
<1>6. fdb' \in Maps /\ fdb[m] \in PortNames \cup {NoPort}
  BY <1>1 DEF Maps
<1>7. CASE fdb[m] = NoPort
  <2>1. notice' = <<Add(m, p)>> /\ p \in PortNames
    BY <1>1, <1>7 DEF FdbChanges
  <2>2. Exact(<<Add(m, p)>>, fdb, fdb')
    BY <1>1, <1>7, <2>1, ReportIsExact
  <2>3. Reported' = <<<<Add(m, p)>>>>
    BY <2>1 DEF Reported
  <2>4. Leads(Reported', fdb, fdb')
    BY <1>1, <1>6, <2>2, <2>3, LeadsOne
  <2> QED
    BY <1>1, <1>2, <1>4, <1>5, <2>4 DEF DatabaseKeepsUp, Links
<1>8. CASE fdb[m] # NoPort /\ p = NoPort
  <2>1. notice' = <<Del(m, fdb[m])>> /\ fdb[m] \in PortNames
    BY <1>1, <1>6, <1>8 DEF FdbChanges
  <2>2. Exact(<<Del(m, fdb[m])>>, fdb, fdb')
    BY <1>1, <1>8, <2>1, ReportIsExact
  <2>3. Reported' = <<<<Del(m, fdb[m])>>>>
    BY <2>1 DEF Reported
  <2>4. Leads(Reported', fdb, fdb')
    BY <1>1, <1>6, <2>2, <2>3, LeadsOne
  <2> QED
    BY <1>1, <1>2, <1>4, <1>5, <2>4 DEF DatabaseKeepsUp, Links
<1>9. CASE fdb[m] # NoPort /\ p # NoPort
  <2> DEFINE d == Del(m, fdb[m])
             a == Add(m, p)
             mid == [fdb EXCEPT ![m] = NoPort]
  <2>1. notice' = <<d, a>> /\ fdb[m] \in PortNames /\ p \in PortNames
    BY <1>1, <1>6, <1>9 DEF FdbChanges
  <2>2. Exact(<<d>>, fdb, mid)
    BY <1>1, <2>1, ReportIsExact
  <2>3. mid \in Maps /\ mid[m] = NoPort /\ fdb' = [mid EXCEPT ![m] = p]
    BY <1>1 DEF Maps
  <2>4. Exact(<<a>>, mid, fdb')
    <3> HIDE DEF mid
    <3> QED
      BY <2>1, <2>3, ReportIsExact
  <2>5. d \in Node /\ a \in Node
    BY <2>1 DEF Node, Del, Add
  <2> HIDE DEF d, a, mid
  <2>6. Leads(<<<<d>>>>, fdb, mid) /\ Leads(<<<<a>>>>, mid, fdb')
    BY <1>1, <1>6, <2>2, <2>3, <2>4, LeadsOne
  <2>7. Reported' = <<<<d>>, <<a>>>>
    BY <2>1 DEF Reported
  <2>8. <<<<d>>, <<a>>>> = <<<<d>>>> \o <<<<a>>>>
    <3> DEFINE sd == <<d>>
               sa == <<a>>
               Sq == Seq(Node)
    <3>1. sd \in Sq /\ sa \in Sq
      BY <2>5
    <3> HIDE DEF sd, sa, Sq
    <3>2. <<sd, sa>> = <<sd>> \o <<sa>>
      <4> DEFINE s == <<sd>>
                 t == <<sa>>
                 u == <<sd, sa>>
                 st == s \o t
      <4>1. s \in Seq(Sq) /\ t \in Seq(Sq) /\ Len(s) = 1 /\ Len(t) = 1 /\ s[1] = sd /\ t[1] = sa
        BY <3>1
      <4>2. u \in Seq(Sq) /\ Len(u) = 2 /\ u[1] = sd /\ u[2] = sa
        BY <3>1
      <4> HIDE DEF s, t, u
      <4>3. st \in Seq(Sq) /\ Len(st) = 2 /\ st[1] = sd /\ st[2] = sa
        <5>1. /\ st \in Seq(Sq) /\ Len(st) = Len(s) + Len(t)
              /\ \A i \in 1..(Len(s) + Len(t)) : st[i] = IF i <= Len(s) THEN s[i] ELSE t[i - Len(s)]
          BY <4>1, ConcatProperties
        <5> HIDE DEF st
        <5> QED
          BY <4>1, <5>1
      <4> HIDE DEF st
      <4>4. u = st
        BY <4>2, <4>3, SeqEqual
      <4> QED
        BY <4>4 DEF s, t, u, st
    <3> QED
      BY <3>2 DEF sd, sa
  <2>9. Leads(<<<<d>>>> \o <<<<a>>>>, fdb, fdb')
    <3> DEFINE s == <<<<d>>>>
               t == <<<<a>>>>
    <3>1. s \in Seq(Seq(Node)) /\ t \in Seq(Seq(Node))
      BY <2>5
    <3>2. Leads(s, fdb, mid) /\ Leads(t, mid, fdb')
      BY <2>6
    <3> HIDE DEF s, t
    <3>3. Leads(s \o t, fdb, fdb')
      BY <3>1, <3>2, LeadsJoin
    <3> QED
      BY <3>3 DEF s, t
  <2>10. Leads(Reported', fdb, fdb')
    BY <2>7, <2>8, <2>9
  <2> QED
    BY <1>1, <1>2, <1>4, <1>5, <2>10 DEF DatabaseKeepsUp, Links
<1> QED
  BY <1>7, <1>8, <1>9

\* An order of a set lists each of its members once.
LEMMA OrderIs ==
  ASSUME NEW S, IsFiniteSet(S), NEW order \in SetToSeqs(S)
  PROVE  /\ order \in Seq(S) /\ DOMAIN order = 1..Len(order)
         /\ \A i, j \in DOMAIN order : i # j => order[i] # order[j]
         /\ \A x \in S : \E i \in DOMAIN order : order[i] = x
<1> DEFINE n == Cardinality(S)
           D == 1..n
<1>1. n \in Nat
  BY FS_CardinalityType
<1>2. order \in [D -> S] /\ \A i, j \in D : i # j => order[i] # order[j]
  BY DEF SetToSeqs
<1>3. Cardinality(D) = n /\ IsFiniteSet(D)
  BY <1>1, FS_Interval
<1>4. order \in Seq(S) /\ Len(order) = n
  BY <1>1, <1>2
<1> HIDE DEF D
<1>5. order \in Injection(D, S)
  BY <1>2 DEF Injection, IsInjective
<1>6. order \in Surjection(D, S)
  BY <1>3, <1>5, FS_Injection
<1>7. \A x \in S : \E i \in D : order[i] = x
  BY <1>6 DEF Surjection
<1>8. DOMAIN order = D /\ DOMAIN order = 1..Len(order)
  BY <1>2, <1>4 DEF D
<1> QED
  BY <1>2, <1>4, <1>7, <1>8

\* The MACs of a port are flushed, in whatever order SAI reports them.
LEMMA FlushKeepsUp ==
  ASSUME RingInv, DbInv, ~damaged, NEW p \in PortNames, Flush(p)
  PROVE  DatabaseKeepsUp'
<1> DEFINE gone == {m \in Macs : fdb[m] = p}
<1>1. RingTypeOK /\ fdb \in Maps /\ notice \in Seq(Event) /\ mainPc # "reading" /\ mainPc' # "reading"
      /\ fdb' = [m \in Macs |-> IF m \in gone THEN NoPort ELSE fdb[m]]
      /\ UNCHANGED <<buf, cur, rd, db>>
  BY DEF RingInv, RingTypeOK, Maps, Flush, ringVars
<1>2. PICK order \in SetToSeqs(gone) : notice' = notice \o [i \in DOMAIN order |-> Del(order[i], p)]
  BY DEF Flush
<1>3. Reading' = Reading /\ Waiting' = Waiting /\ buf'[cur'] = buf[cur]
  BY <1>1, WaitingUnchanged DEF Reading
<1>4. DatabaseKeepsUp
  BY DEF DbInv
<1>5. PICK y1 \in Maps, y2 \in Maps, y3 \in Maps :
        /\ Leads(Reading, db, y1) /\ Leads(Waiting, y1, y2)
        /\ Exact(buf[cur], y2, y3) /\ Leads(Reported, y3, fdb)
  BY <1>4 DEF DatabaseKeepsUp, Links
<1>6. gone \subseteq Macs /\ IsFiniteSet(gone) /\ \A m \in gone : fdb[m] = p
  BY MacsAssumption, FS_Subset
<1>7. \A m \in Macs : fdb[m] = p => m \in gone
  OBVIOUS
<1>8. fdb' \in Maps
  BY <1>1 DEF Maps
<1> HIDE DEF gone
<1> DEFINE n == Len(order)
           aged == [i \in 1..n |-> <<Del(order[i], p)>>]
           v == [j \in 0..n |-> [m \in Macs |-> IF \E i \in 1..j : order[i] = m THEN NoPort ELSE fdb[m]]]
<1>9. order \in Seq(gone) /\ n \in Nat /\ DOMAIN order = 1..n
      /\ (\A i, j \in 1..n : i # j => order[i] # order[j])
      /\ \A m \in gone : \E i \in 1..n : order[i] = m
  BY <1>6, OrderIs
<1>10. \A i \in 1..n : order[i] \in Macs /\ fdb[order[i]] = p /\ Del(order[i], p) \in Node
  BY <1>6, <1>9 DEF Del, Node
<1>11. aged \in Seq(Seq(Node)) /\ Len(aged) = n
  <2>1. \A i \in 1..n : <<Del(order[i], p)>> \in Seq(Node)
    BY <1>10
  <2> QED
    BY <1>9, <2>1
<1> HIDE DEF n
<1>12. v \in [0..n -> Maps]
  BY <1>1 DEF Maps
<1>13. v[0] = fdb
  BY <1>1, <1>9 DEF Maps
<1>14. v[n] = fdb'
  <2>1. \A m \in Macs : (\E i \in 1..n : order[i] = m) <=> m \in gone
    BY <1>7, <1>9, <1>10
  <2> QED
    BY <1>1, <1>9, <2>1
<1>15. ASSUME NEW j \in 1..n PROVE Exact(aged[j], v[j - 1], v[j])
  <2> DEFINE k == order[j]
             x == v[j - 1]
  <2>1. k \in Macs /\ fdb[k] = p /\ aged[j] = <<Del(k, p)>> /\ j - 1 \in 0..n /\ j \in 0..n /\ x \in Maps
    <3>1. j - 1 \in 0..n /\ j \in 0..n
      BY <1>9
    <3>2. x \in Maps
      <4> HIDE DEF v
      <4> QED
        BY <1>12, <3>1
    <3>3. k \in Macs /\ fdb[k] = p /\ aged[j] = <<Del(k, p)>>
      BY <1>10
    <3> QED
      BY <3>1, <3>2, <3>3
  <2>2. x[k] = p
    <3>1. ~\E i \in 1..(j - 1) : order[i] = k
      BY <1>9
    <3> QED
      BY <2>1, <3>1
  <2>3. v[j] = [x EXCEPT ![k] = NoPort]
    <3>1. \A i : i \in 1..j <=> i \in 1..(j - 1) \/ i = j
      BY <1>9
    <3>2. \A m \in Macs : (\E i \in 1..j : order[i] = m) <=> (\E i \in 1..(j - 1) : order[i] = m) \/ m = k
      BY <3>1
    <3>3. x = [m \in Macs |-> IF \E i \in 1..(j - 1) : order[i] = m THEN NoPort ELSE fdb[m]]
      BY <2>1
    <3>4. v[j] = [m \in Macs |-> IF \E i \in 1..j : order[i] = m THEN NoPort ELSE fdb[m]]
      BY <2>1
    <3> HIDE DEF v, k, x
    <3> QED
      BY <2>1, <3>2, <3>3, <3>4
  <2>4. aged[j] = <<Del(k, p)>> /\ x = v[j - 1]
    BY <2>1
  <2> HIDE DEF v, k, x, aged
  <2>5. Exact(<<Del(k, p)>>, x, [x EXCEPT ![k] = NoPort])
    BY <2>1, <2>2, ReportIsExact
  <2> QED
    BY <2>3, <2>4, <2>5
<1> HIDE DEF v
<1>16. Leads(aged, fdb, fdb')
  <2> HIDE DEF aged
  <2>1. ChainOf(v, aged, fdb, fdb')
    BY <1>11, <1>12, <1>13, <1>14, <1>15 DEF ChainOf
  <2> QED
    BY <2>1 DEF Leads
<1>17. Reported' = Reported \o aged
  <2> DEFINE l == Len(notice)
             more == [i \in 1..n |-> Del(order[i], p)]
  <2>1. l \in Nat /\ DOMAIN notice = 1..l /\ \A i \in 1..l : notice[i] \in Node
    BY <1>1 DEF Event
  <2>2. more \in Seq(Node) /\ Len(more) = n /\ notice \in Seq(Node) /\ notice' = notice \o more
    BY <1>1, <1>2, <1>9, <1>10 DEF Event
  <2> HIDE DEF more
  <2>3. /\ DOMAIN notice' = 1..(l + n)
        /\ \A i \in 1..(l + n) : notice'[i] = IF i <= l THEN notice[i] ELSE more[i - l]
    BY <1>9, <2>1, <2>2
  <2>4. Reported \in Seq(Seq(Node)) /\ Len(Reported) = l /\ \A i \in 1..l : Reported[i] = <<notice[i]>>
    BY <2>1 DEF Reported
  <2>5. Reported' = [i \in 1..(l + n) |-> <<notice'[i]>>]
    BY <2>3 DEF Reported
  <2>6. \A i \in 1..n : aged[i] = <<more[i]>>
    BY DEF more
  <2> HIDE DEF aged
  <2>7. Reported \o aged = [i \in 1..(l + n) |-> IF i <= l THEN Reported[i] ELSE aged[i - l]]
    <3> DEFINE r == Reported
               Sq == Seq(Node)
    <3>1. r \in Seq(Sq) /\ aged \in Seq(Sq) /\ Len(r) = l /\ Len(aged) = n
      BY <1>11, <2>4
    <3> HIDE DEF r, Sq
    <3>2. /\ r \o aged \in Seq(Sq) /\ Len(r \o aged) = Len(r) + Len(aged)
          /\ \A i \in 1..(Len(r) + Len(aged)) :
               (r \o aged)[i] = IF i <= Len(r) THEN r[i] ELSE aged[i - Len(r)]
      BY <3>1, ConcatProperties
    <3> HIDE DEF l
    <3>3. /\ r \o aged \in Seq(Sq) /\ Len(r \o aged) = l + n
          /\ \A i \in 1..(l + n) : (r \o aged)[i] = IF i <= l THEN r[i] ELSE aged[i - l]
      BY <3>1, <3>2
    <3> DEFINE q == [i \in 1..(l + n) |-> IF i <= l THEN r[i] ELSE aged[i - l]]
    <3>4. \A i \in 1..(l + n) : (IF i <= l THEN r[i] ELSE aged[i - l]) \in Sq
      BY <3>3
    <3>5. \A i \in 1..(l + n) : q[i] = (r \o aged)[i] /\ q[i] \in Sq
      BY <3>3
    <3>6. q \in Seq(Sq) /\ Len(q) = l + n
      <4> DEFINE k == l + n
                 part(i) == IF i <= l THEN r[i] ELSE aged[i - l]
      <4>1. k \in Nat
        BY <1>9, <2>1
      <4>2. \A i \in 1..k : part(i) \in Sq
        BY <3>4
      <4> HIDE DEF k, part
      <4>3. [i \in 1..k |-> part(i)] \in Seq(Sq) /\ Len([i \in 1..k |-> part(i)]) = k
        BY <4>1, <4>2
      <4> QED
        BY <4>3 DEF k, part
    <3> HIDE DEF q
    <3>7. r \o aged = q
      BY <3>3, <3>5, <3>6, SeqEqual
    <3> QED
      BY <3>7 DEF q, r
  <2>8. \A i \in 1..(l + n) : <<notice'[i]>> = IF i <= l THEN Reported[i] ELSE aged[i - l]
    <3> SUFFICES ASSUME NEW i \in 1..(l + n)
                 PROVE  <<notice'[i]>> = IF i <= l THEN Reported[i] ELSE aged[i - l]
      OBVIOUS
    <3>1. CASE i <= l
      BY <2>1, <2>3, <2>4, <3>1
    <3>2. CASE ~(i <= l)
      <4>1. i - l \in 1..n
        BY <1>9, <2>1, <3>2
      <4> QED
        BY <2>3, <2>6, <3>2, <4>1
    <3> QED
      BY <3>1, <3>2
  <2> QED
    BY <2>5, <2>7, <2>8
<1>18. Leads(Reported', y3, fdb')
  <2> DEFINE s == Reported
  <2>1. s \in Seq(Seq(Node)) /\ Leads(s, y3, fdb) /\ Reported' = s \o aged
    BY <1>1, <1>5, <1>17, PartsType
  <2> HIDE DEF s, aged
  <2> QED
    BY <1>11, <1>16, <2>1, LeadsJoin
<1> QED
  BY <1>1, <1>3, <1>5, <1>8, <1>18 DEF DatabaseKeepsUp, Links

-----------------------------------------------------------------------------
(* The database's invariant *)

\* The database keeps its type: applying a buffer gives a database.
LEMMA DbTypeKept ==
  ASSUME RingInv, db \in Maps, [Next]_vars
  PROVE  db' \in Maps
<1>1. CASE UpdateDb
  <2>1. buf[BeingRead] \in Seq(Node)
    BY BeingReadIs DEF RingInv, RingTypeOK, Buffer
  <2> QED
    BY <1>1, <2>1, UpdatedType DEF UpdateDb
<1>2. CASE ~UpdateDb
  <2>1. db' = db
    BY <1>2 DEF Next, Receive, CheckFull, CallbackRun, TimerWakes, TimerRun, Flush, FlushRun, Take,
                Plug, FdbChanges, vars
  <2> QED
    BY <2>1
<1> QED
  BY <1>1, <1>2

\* The variables have their types, whatever the number and the size of the
\* buffers, and the database is one whatever SAI reports.
THEOREM LearningTypeCorrect == Spec => []TypeOK
<1>1. Init => db \in Maps
  BY DEF Init, NoMacs, Maps
<1>2. RingInv /\ db \in Maps /\ [Next]_vars => (db \in Maps)'
  BY DbTypeKept
<1>3. RingInv /\ db \in Maps => TypeOK
  BY DEF RingInv, TypeOK, Maps
<1> QED
  BY <1>1, <1>2, <1>3, RingInvariant, PTL DEF Spec

\* Initially the ring is empty and both databases are.
LEMMA DbInvInit == Init => DbInv
<1> SUFFICES ASSUME Init PROVE DbInv
  OBVIOUS
<1>1. db \in Maps /\ fdb = db /\ 0 \in Index
  BY BuffersAssumption DEF Init, NoMacs, Maps, Index
<1>2. buf[cur] = <<>> /\ Reading = <<>> /\ Reported = <<>>
  BY <1>1 DEF Init, Reading, Reported
<1>3. Waiting = <<>>
  <2>1. Published = 0
    BY DEF Init, Published
  <2> QED
    BY <2>1 DEF Waiting
<1>4. Leads(<<>>, db, db) /\ Exact(<<>>, db, db)
  BY <1>1, LeadsEmpty, ExactNone
<1>5. DatabaseKeepsUp
  BY <1>1, <1>2, <1>3, <1>4 DEF DatabaseKeepsUp, Links
<1> QED
  BY <1>1, <1>5 DEF Init, DbInv

\* Every step keeps the database up to date, or drops an event or clears the
\* buffer that is read and says so.
LEMMA DbInvNext ==
  ASSUME MovesAreAged, RingInv, DbInv, [Next]_vars
  PROVE  DbInv'
<1> DEFINE Apart == mainPc = "reading" => NextIndex(cur) # rd
<1>1. db' \in Maps
  BY DbTypeKept DEF DbInv
<1> SUFFICES ASSUME ~damaged' PROVE DatabaseKeepsUp' /\ Apart'
  BY <1>1 DEF DbInv
<1>2. RingTypeOK
  BY DEF RingInv
<1>3. ~damaged => DatabaseKeepsUp /\ Apart
  BY DEF DbInv
<1>4. CASE Receive
  <2>1. DatabaseKeepsUp' /\ ~damaged
    BY <1>4, ReceiveKeepsUp
  <2> QED
    BY <1>3, <1>4, <2>1 DEF Receive
<1>5. CASE CallbackRun
  BY <1>5, RunKeepsUp DEF CallbackRun
<1>6. CASE TimerRun
  BY <1>6, RunKeepsUp DEF TimerRun
<1>7. CASE FlushRun
  BY <1>7, RunKeepsUp DEF FlushRun
<1>8. CASE Take
  BY <1>8, TakeKeepsUp
<1>9. CASE UpdateDb
  <2>1. DatabaseKeepsUp'
    BY <1>9, UpdateKeepsUp
  <2> QED
    BY <1>9, <2>1 DEF UpdateDb
<1>10. CASE \E p \in PortNames : Flush(p)
  <2> PICK p \in PortNames : Flush(p)
    BY <1>10
  <2>1. ~damaged /\ mainPc' # "reading"
    BY DEF Flush
  <2> QED
    BY <2>1, FlushKeepsUp
<1>11. CASE \E m \in Macs, p \in PortNames \cup {NoPort} : FdbChanges(m, p)
  <2> PICK m \in Macs, p \in PortNames \cup {NoPort} : FdbChanges(m, p)
    BY <1>11
  <2>1. ~damaged /\ Apart'
    BY <1>3 DEF FdbChanges, ringVars, threadVars
  <2> QED
    BY <2>1, ChangeKeepsUp
<1>12. CASE CheckFull \/ TimerWakes \/ Plug \/ UNCHANGED vars
  <2>1. UNCHANGED <<ringVars, notice, fdb, db>> /\ mainPc' = mainPc /\ ~damaged
    BY <1>12 DEF CheckFull, TimerWakes, Plug, vars, ringVars, threadVars
  <2>2. Apart'
    BY <1>3, <2>1 DEF ringVars
  <2> QED
    BY <1>2, <1>3, <2>1, <2>2, KeepsUpUnchanged
<1> QED
  BY <1>4, <1>5, <1>6, <1>7, <1>8, <1>9, <1>10, <1>11, <1>12 DEF Next

\* While no event was dropped and no buffer cleared under its reader, the database,
\* brought up to date with what is being read, what waits in the ring, what is in
\* the current buffer and what SAI has still to report, is SAI's FDB, if SAI
\* reports a move as aged and learned: whatever coalescing left out, and although
\* the main thread applies the events of a buffer newest first.
THEOREM DatabaseFollowsFdbHolds ==
  ASSUME MovesAreAged
  PROVE  Spec => []DatabaseFollowsFdb
<1>1. RingInv /\ DbInv /\ [Next]_vars => DbInv'
  BY DbInvNext
<1>2. RingInv /\ DbInv => DatabaseFollowsFdb
  BY KeepingUpFollows DEF RingInv
<1> QED
  BY <1>1, <1>2, DbInvInit, RingInvariant, PTL DEF Spec
=============================================================================
