---------------------------- MODULE MacLearning -----------------------------
(***************************************************************************)
(* MAC learning (src/src/sai-mac-learning.c): the SAI callback thread, the *)
(* timer thread and the main thread of switchd around a ring of buffers.   *)
(*                                                                         *)
(* The callback thread coalesces the FDB events of SAI into the current    *)
(* buffer; sai_mac_learning_run publishes that buffer and moves on; the    *)
(* main thread takes published buffers and updates the database with them. *)
(* mlearn_mutex makes each of these atomic, so an action is one critical   *)
(* section, or one read made outside it.                                   *)
(*                                                                         *)
(* Outside the repository, modelled from how the code uses it: the FDB of  *)
(* the SAI (fdb, notice), the plugin extension of switchd (plugged,        *)
(* triggered) and the database (db), which that extension updates from the *)
(* buffers it takes.  A (VLAN, MAC) pair is one member of Macs.            *)
(***************************************************************************)
EXTENDS Integers, FiniteSets, SequencesExt

CONSTANTS
  Macs,         \* the (VLAN, MAC) pairs
  PortNames,    \* names of ports and LAGs
  NoPort,       \* not a port name
  MaxBuffers,   \* MAX_BUFFERS
  BufferSize,   \* BUFFER_SIZE, the nodes of one buffer
  MovesAreAged, \* does SAI report a move as AGED and then LEARNED?
  NamesResolve  \* does every event name a port the plugin knows?

ASSUME BuffersAssumption == MaxBuffers \in Nat /\ MaxBuffers > 1
ASSUME SizeAssumption == BufferSize \in Nat /\ BufferSize > 0
ASSUME MacsAssumption == IsFiniteSet(Macs)
ASSUME NoPortAssumption == NoPort \notin PortNames
ASSUME SaiAssumption == MovesAreAged \in BOOLEAN /\ NamesResolve \in BOOLEAN

VARIABLES
  buf,       \* all_macs_learnt: each buffer's nodes, oldest first
  cur,       \* current_hmap_in_use
  rd,        \* cur_read_hmap_in_use
  plugged,   \* has switchd registered its MAC learning extension?
  triggered, \* mac_learning_trigger_callback was called since the last take
  cbPc,      \* where the callback thread is
  timerPc,   \* where the timer thread is
  mainPc,    \* where the main thread is
  notice,    \* FDB events SAI has reported and the callback has not handled
  fdb,       \* SAI's FDB: the port of each MAC
  db,        \* the database: the port of each MAC
  taken,     \* history: what the buffer being read held when it was taken
  damaged    \* history: an event was dropped or a buffer cleared while read

ringVars   == <<buf, cur, rd>>
threadVars == <<cbPc, timerPc, mainPc>>
vars == <<buf, cur, rd, plugged, triggered, cbPc, timerPc, mainPc, notice, fdb, db,
          taken, damaged>>

Index == 0..(MaxBuffers - 1)

\* struct mlearn_hmap_node.  An "undefined" node was cancelled: its VLAN is
\* 4096, so that it matches no event, and it keeps its slot.
Node  == [oper : {"add", "del", "undefined"}, mac : Macs, port : PortNames]
Event == {n \in Node : n.oper # "undefined"}

Add(m, p) == [oper |-> "add", mac |-> m, port |-> p]
Del(m, p) == [oper |-> "del", mac |-> m, port |-> p]

\* MACS_TABLES_GET_NEXT_INDEX, MACS_TABLES_IS_EMPTY, MACS_TABLES_IS_FULL
NextIndex(i) == IF i + 1 = MaxBuffers THEN 0 ELSE i + 1
RingIsEmpty  == rd = cur

\* Faulty variant of RingIsFull: the index does not wrap around.
RingIsFullNoWrap == cur + 1 = rd

RingIsFull   == NextIndex(cur) = rd

-----------------------------------------------------------------------------
(* sai_mac_learning_entry_add *)

Matches(n, e) == n.oper # "undefined" /\ n.mac = e.mac

\* Faulty variant of Cancels: the ports are not compared.
CancelsOnAnyPort(n, e) == Matches(n, e) /\ n.oper # e.oper

Cancels(n, e) == Matches(n, e) /\ n.oper # e.oper /\ n.port = e.port
Updates(n, e) == Matches(n, e) /\ n.oper = "add" /\ e.oper = "add"

\* The loop over the nodes of the event's MAC.
Coalesced(b, e) ==
  [i \in DOMAIN b |-> CASE Cancels(b[i], e) -> [b[i] EXCEPT !.oper = "undefined"]
                        [] Updates(b[i], e) -> [b[i] EXCEPT !.port = e.port]
                        [] OTHER            -> b[i]]

Found(b, e) == \E i \in DOMAIN b : Cancels(b[i], e) \/ Updates(b[i], e)

\* Faulty variant of HasRoom: off by one.
HasRoomForOneMore(b) == Len(b) <= BufferSize

HasRoom(b) == Len(b) < BufferSize

\* Faulty variant of EntryAdd: the first event of a MAC in a buffer wins.
EntryAddFirstWins(b, e) ==
  IF \E i \in DOMAIN b : Matches(b[i], e) THEN b
  ELSE IF HasRoom(b) THEN Append(b, e) ELSE b

EntryAdd(b, e) == CASE Found(b, e)  -> Coalesced(b, e)
                    [] ~Found(b, e) /\ HasRoom(b)  -> Append(b, e)
                    [] ~Found(b, e) /\ ~HasRoom(b) -> b

-----------------------------------------------------------------------------
(* The buffer the main thread is reading is the one before rd. *)

IsRead(i) == mainPc = "reading" /\ NextIndex(i) = rd
BeingRead == CHOOSE i \in Index : NextIndex(i) = rd

\* sai_mac_learning_run, a no-op until the extension is there.  With the ring
\* full the current buffer stays in use.
Run ==
  IF plugged /\ buf[cur] # <<>>
    THEN /\ triggered' = TRUE
         /\ IF RingIsFull
              THEN UNCHANGED <<ringVars, damaged>>
              ELSE /\ cur' = NextIndex(cur)
                   /\ buf' = [buf EXCEPT ![NextIndex(cur)] = <<>>]
                   /\ damaged' = (damaged \/ IsRead(NextIndex(cur)))
                   /\ UNCHANGED rd
    ELSE UNCHANGED <<ringVars, triggered, damaged>>

-----------------------------------------------------------------------------
(* The callback thread: sai_mac_learning_fdb_event_cb *)

\* One LEARNED or AGED event, under the mutex.  An event on a port without a
\* name is skipped.
Receive ==
  /\ cbPc = "idle"
  /\ notice # <<>>
  /\ \/ /\ buf' = [buf EXCEPT ![cur] = EntryAdd(@, Head(notice))]
        /\ damaged' = (damaged \/ ~(Found(buf[cur], Head(notice)) \/ HasRoom(buf[cur])))
     \/ /\ ~NamesResolve
        /\ damaged' = TRUE
        /\ UNCHANGED buf
  /\ notice' = Tail(notice)
  /\ cbPc' = "check"
  /\ UNCHANGED <<cur, rd, plugged, triggered, timerPc, mainPc, fdb, db, taken>>

\* sai_mac_learning_table_is_full, after the mutex was released.
CheckFull ==
  /\ cbPc = "check"
  /\ cbPc' = IF HasRoom(buf[cur]) THEN "idle" ELSE "run"
  /\ UNCHANGED <<ringVars, plugged, triggered, timerPc, mainPc, notice, fdb, db, taken, damaged>>

CallbackRun ==
  /\ cbPc = "run"
  /\ Run
  /\ cbPc' = "idle"
  /\ UNCHANGED <<plugged, timerPc, mainPc, notice, fdb, db, taken>>

-----------------------------------------------------------------------------
(* The timer thread: sai_mac_learning_timer_main.  The length of its sleep  *)
(* is not modelled.                                                         *)

\* Faulty variants of TimerWakes: the timer only repeats the trigger; it only
\* publishes, and a trigger is not repeated.
TimerOnlyTriggers ==
  /\ timerPc = "asleep"
  /\ plugged
  /\ triggered' = TRUE
  /\ UNCHANGED <<ringVars, plugged, threadVars, notice, fdb, db, taken, damaged>>

TimerOnlyRuns ==
  /\ timerPc = "asleep"
  /\ plugged
  /\ timerPc' = "run"
  /\ UNCHANGED <<ringVars, plugged, triggered, cbPc, mainPc, notice, fdb, db, taken, damaged>>

\* It looks at the indices without the mutex.
TimerWakes ==
  /\ timerPc = "asleep"
  /\ plugged
  /\ IF RingIsEmpty
       THEN timerPc' = "run" /\ UNCHANGED triggered
       ELSE triggered' = TRUE /\ UNCHANGED timerPc
  /\ UNCHANGED <<ringVars, plugged, cbPc, mainPc, notice, fdb, db, taken, damaged>>

TimerRun ==
  /\ timerPc = "run"
  /\ Run
  /\ timerPc' = "asleep"
  /\ UNCHANGED <<plugged, cbPc, mainPc, notice, fdb, db, taken>>

-----------------------------------------------------------------------------
(* The main thread *)

\* sai_mac_learning_l2_addr_flush_handler: SAI forgets the MACs of a port and
\* reports each as aged; then sai_mac_learning_run.
Flush(p) ==
  LET gone == {m \in Macs : fdb[m] = p}
  IN  /\ mainPc = "idle"
      /\ fdb' = [m \in Macs |-> IF m \in gone THEN NoPort ELSE fdb[m]]
      /\ \E order \in SetToSeqs(gone) :
           notice' = notice \o [i \in DOMAIN order |-> Del(order[i], p)]
      /\ mainPc' = "flushing"
      /\ UNCHANGED <<ringVars, plugged, triggered, cbPc, timerPc, db, taken, damaged>>

FlushRun ==
  /\ mainPc = "flushing"
  /\ Run
  /\ mainPc' = "idle"
  /\ UNCHANGED <<plugged, cbPc, timerPc, notice, fdb, db, taken>>

\* sai_mac_learning_get_hmap, called once for each trigger.
Take ==
  /\ mainPc = "idle"
  /\ triggered
  /\ triggered' = FALSE
  /\ IF RingIsEmpty
       THEN UNCHANGED <<rd, mainPc, taken>>
       ELSE /\ taken' = buf[rd]
            /\ rd' = NextIndex(rd)
            /\ mainPc' = IF buf[rd] = <<>> THEN "idle" ELSE "reading"
  /\ UNCHANGED <<buf, cur, plugged, cbPc, timerPc, notice, fdb, db, damaged>>

\* One buffer applied to a database d.  A chain of the hash table lists the
\* newest node first, and a MAC is deleted from the port it was aged on.
Updated(d, b) ==
  FoldLeft(LAMBDA r, n : CASE n.oper = "add" -> [r EXCEPT ![n.mac] = n.port]
                           [] n.oper = "del" /\ r[n.mac] = n.port -> [r EXCEPT ![n.mac] = NoPort]
                           [] OTHER -> r,
           d, Reverse(b))

\* The extension updates the database from the buffer it holds a pointer to.
UpdateDb ==
  /\ mainPc = "reading"
  /\ db' = Updated(db, buf[BeingRead])
  /\ mainPc' = "idle"
  /\ taken' = <<>>
  /\ UNCHANGED <<ringVars, plugged, triggered, cbPc, timerPc, notice, fdb, damaged>>

-----------------------------------------------------------------------------
(* The environment *)

\* switchd registers the extension.
Plug ==
  /\ ~plugged
  /\ plugged' = TRUE
  /\ UNCHANGED <<ringVars, triggered, threadVars, notice, fdb, db, taken, damaged>>

\* SAI learns, ages or moves m, and reports it; one notification at a time.
FdbChanges(m, p) ==
  /\ notice = <<>>
  /\ fdb[m] # p
  /\ fdb' = [fdb EXCEPT ![m] = p]
  /\ notice' = CASE fdb[m] = NoPort -> <<Add(m, p)>>
                 [] p = NoPort      -> <<Del(m, fdb[m])>>
                 [] OTHER -> IF MovesAreAged THEN <<Del(m, fdb[m]), Add(m, p)>>
                                             ELSE <<Add(m, p)>>
  /\ UNCHANGED <<ringVars, plugged, triggered, threadVars, db, taken, damaged>>

-----------------------------------------------------------------------------

NoMacs == [m \in Macs |-> NoPort]

\* sai_mac_learning_init, which flushes the FDB.
Init ==
  /\ buf = [i \in Index |-> <<>>]
  /\ cur = 0
  /\ rd = 0
  /\ plugged = FALSE
  /\ triggered = FALSE
  /\ cbPc = "idle"
  /\ timerPc = "asleep"
  /\ mainPc = "idle"
  /\ notice = <<>>
  /\ fdb = NoMacs
  /\ db = NoMacs
  /\ taken = <<>>
  /\ damaged = FALSE

Next ==
  \/ Receive \/ CheckFull \/ CallbackRun
  \/ TimerWakes \/ TimerRun
  \/ \E p \in PortNames : Flush(p)
  \/ FlushRun \/ Take \/ UpdateDb
  \/ Plug
  \/ \E m \in Macs, p \in PortNames \cup {NoPort} : FdbChanges(m, p)

Spec == Init /\ [][Next]_vars

\* Threads do not stop, and the main loop comes back to the extension however
\* many flushes its other work makes.  SAI need not learn anything.
Fairness ==
  /\ WF_vars(Receive) /\ WF_vars(CheckFull) /\ WF_vars(CallbackRun)
  /\ WF_vars(TimerWakes) /\ WF_vars(TimerRun)
  /\ WF_vars(FlushRun) /\ SF_vars(Take) /\ WF_vars(UpdateDb)
  /\ WF_vars(Plug)

FairSpec == Spec /\ Fairness

-----------------------------------------------------------------------------
(* Properties *)

Buffer == {b \in Seq(Node) : Len(b) <= BufferSize}

\* The variables have the types of the C declarations.
RingTypeOK ==
  /\ buf \in [Index -> Buffer]
  /\ cur \in Index
  /\ rd \in Index
  /\ plugged \in BOOLEAN
  /\ triggered \in BOOLEAN
  /\ cbPc \in {"idle", "check", "run"}
  /\ timerPc \in {"asleep", "run"}
  /\ mainPc \in {"idle", "flushing", "reading"}
  /\ notice \in Seq(Event)
  /\ fdb \in [Macs -> PortNames \cup {NoPort}]
  /\ taken \in Buffer
  /\ damaged \in BOOLEAN

TypeOK == RingTypeOK /\ db \in [Macs -> PortNames \cup {NoPort}]

\* The published buffers: those from rd on, up to and without cur.
IsPublished(i) == IF rd <= cur THEN rd <= i /\ i < cur ELSE rd <= i \/ i < cur

\* The number of published buffers, and the nth of them.
Published == IF rd <= cur THEN cur - rd ELSE cur + MaxBuffers - rd
NthIndex(n) == IF rd + n - 1 < MaxBuffers THEN rd + n - 1 ELSE rd + n - 1 - MaxBuffers
Waiting == [n \in 1..Published |-> buf[NthIndex(n)]]

\* A published buffer holds something, so that get_hmap never answers a trigger
\* with NULL: no thread publishes an empty buffer, and none clears or cancels
\* away the nodes of one that waits to be taken.
PublishedIsNotEmpty == \A i \in Index : IsPublished(i) => buf[i] # <<>>

\* The ring is a queue of batches: coalescing changes the current batch only,
\* what was published is handed out unchanged, once, in order.
Batch == INSTANCE BatchQueue WITH
  Batches  <- Buffer,
  Capacity <- MaxBuffers - 1,
  current  <- buf[cur],
  queue    <- Waiting,
  handed   <- taken

RingIsAQueue == Batch!QueueSpec

\* "the switchd main thread can get the new MACs learnt/deleted and can update
\* the MAC table in the OVSDB accordingly" (sai_mac_learning_get_hmap): while
\* no event was dropped, the database, brought up to date with what the main
\* thread is reading, what waits in the ring, what is in the current buffer and
\* what SAI has still to report, is SAI's FDB.
Outstanding ==
  (IF mainPc = "reading" THEN <<buf[BeingRead]>> ELSE <<>>)
    \o Waiting \o <<buf[cur]>>
    \o [i \in DOMAIN notice |-> <<notice[i]>>]

DatabaseFollowsFdb == ~damaged => FoldLeft(Updated, db, Outstanding) = fdb

\* "To allow simultaneous read access [...] without worrying about wait for
\* acquiring the lock" (the comment above MAX_BUFFERS): the buffer the main
\* thread reads without the mutex is the one it took, unchanged.
ReadsWhatItTook == mainPc = "reading" => buf[BeingRead] = taken

\* Events do not stay in the current buffer for ever, even if no other comes:
\* the timer publishes them once the ring is empty.
EventsArePublished == buf[cur] # <<>> ~> buf[cur] = <<>>

\* Every published buffer is taken: the timer repeats the trigger for as long
\* as some wait, although the main thread takes one per trigger.
BuffersAreTaken == \A i \in Index : IsPublished(i) ~> ~IsPublished(i)

\* When the FDB comes to rest the database settles on it, unless events were
\* dropped.
DatabaseSettles ==
  \A f \in [Macs -> PortNames \cup {NoPort}] : <>[](fdb = f) => <>[](damaged \/ db = f)
=============================================================================
