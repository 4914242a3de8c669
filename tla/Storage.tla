------------------------------ MODULE Storage ------------------------------
(***************************************************************************)
(* The flight log of App/services/storage/storage.c on an SD card that     *)
(* fails, comes out, fills up and loses power: producers push records into *)
(* a byte queue, the storage task (hk_storage_service) mounts the card,    *)
(* opens a session, drains the queue into FL_NNNN.BIN and FL_NNNN.CSV and  *)
(* syncs them.  Each FatFs call is one step; between two steps producers   *)
(* preempt the storage task and the card or the power may fail.            *)
(*                                                                         *)
(* FatFs and App/services/storage/diskio_sd.c: what f_write accepts stays  *)
(* in the file object until f_sync or f_close writes the data and then the *)
(* length into the directory; a failed transfer clears sd->ready; f_mount  *)
(* and f_open initialise a card that is not ready and mount it anew, which *)
(* invalidates the files that are open.                                    *)
(***************************************************************************)
EXTENDS Integers, SequencesExt, FiniteSetsExt

CONSTANTS
  Kinds,         \* the kinds of record pushed
  QueueBytes,    \* HK_STORAGE_QUEUE_BYTES
  Decim,         \* imu_decim
  Budget,        \* frames drained in one service call
  SyncPeriod, RetryPeriod,   \* in service periods
  LastSession,   \* the highest session index, 9999
  OldSessions,   \* sessions on the card before power-up
  Space,         \* frames and rows that fit on the card
  FailAt,        \* steps of the service before which the card may fail
  MaxPushed, MaxFaults, MaxLosses,   \* bounds: records, card faults, resets
  MaxSession     \* bound: no card is mounted that holds a session of this index

Sessions == 1 .. LastSession
Tabled   == {"ENV", "EVENT"}   \* kinds with a row in the CSV file
Files    == {"bin", "csv"}

\* The bytes of a record, and of its frame: magic, version, type, length
\* and CRC.
Payload == [META |-> 8, ENV |-> 41, IMU |-> 36, GPS |-> 35, EVENT |-> 8]
Size    == [k \in DOMAIN Payload |-> 5 + Payload[k] + 2]

ASSUME StorageAssumption ==
  /\ Kinds \subseteq DOMAIN Payload \ {"META"}
  /\ \A k \in Kinds : Size[k] \in 1 .. QueueBytes - 1
  /\ {QueueBytes, Decim, Budget, SyncPeriod, RetryPeriod, LastSession}
       \subseteq Nat \ {0}
  /\ OldSessions \subseteq Sessions
  /\ {Space, MaxPushed, MaxFaults, MaxLosses, MaxSession} \subseteq Nat

VARIABLES
  queue, dropped, imu_skip,
  pc,                  \* the storage task inside hk_storage_service
  frame, budget, sync_now,       \* locals of drain_queue
  mounted,             \* mounted and files_open
  session, misnumbered,  \* the open one; those that a cut scan put too low
  first_try_done,
  sync_age, try_age,   \* now_ms - last_sync_ms and now_ms - last_try_ms
  cache, dirty,        \* contents of the open files, and those not synced
  ready,               \* sd->ready
  card,                \* "ok", "lost" (needs hk_sd_init) or "out"
  disk, exists, space, \* lengths and names in the directory, free room
  pushed, faults, losses         \* how often; the records are numbered

producer == <<queue, dropped, imu_skip, pushed>>
local    == <<frame, budget, sync_now>>
timers   == <<sync_age, try_age>>
names    == <<session, misnumbered>>
open     == <<cache, dirty>>
medium   == <<card, faults>>
volume   == <<disk, exists>>
vars == <<producer, pc, local, mounted, names, first_try_done, timers, open,
          ready, medium, volume, space, losses>>

Meta   == [kind |-> "META", n |-> 0]    \* the session start marker
Nobody == Meta                          \* no frame in hand

Numbers(s) == {s[i].n : i \in DOMAIN s} \ {0}
Used       == FoldSeq(LAMBDA r, sum : Size[r.kind] + sum, 0, queue)

-----------------------------------------------------------------------------
(* Producers. *)

\* Mutant: a full queue drops records silently.
PushUncounted(k) ==
  /\ pushed' = pushed + 1
  /\ queue' = IF Used + Size[k] <= QueueBytes - 1
              THEN Append(queue, [kind |-> k, n |-> pushed + 1]) ELSE queue
  /\ UNCHANGED dropped

\* push_frame, under the lock: the whole frame or nothing.
push_frame(k) ==
  /\ pushed' = pushed + 1
  /\ IF Used + Size[k] <= QueueBytes - 1
     THEN /\ queue' = Append(queue, [kind |-> k, n |-> pushed + 1])
          /\ UNCHANGED dropped
     ELSE /\ dropped' = dropped + 1
          /\ UNCHANGED queue

Push(k) ==
  /\ pushed < MaxPushed
  /\ IF k = "IMU" /\ imu_skip + 1 < Decim
     THEN imu_skip' = imu_skip + 1 /\ UNCHANGED <<queue, dropped, pushed>>
     ELSE /\ imu_skip' = IF k = "IMU" THEN 0 ELSE imu_skip
          /\ push_frame(k)
  /\ UNCHANGED <<pc, local, mounted, names, first_try_done, timers, open,
                 ready, medium, volume, space, losses>>

-----------------------------------------------------------------------------
(* The card. *)

usable == ready /\ card = "ok"

\* Mutant: diskio_sd.c before it cleared ready on a failed transfer.
TransferFailsQuietly == UNCHANGED ready

TransferFails == ready' = FALSE

\* disk_initialize inside f_mount and f_open.
Initialise == /\ ~ready /\ card # "out"
              /\ ready' = TRUE /\ card' = "ok"
              /\ UNCHANGED faults

\* f_sync of a file that has changed: data and length reach the card.
Written(f) == /\ disk' = [disk EXCEPT ![session][f] = cache[f]]
              /\ exists' = exists \cup {session}
              /\ dirty' = dirty \ {f}

\* The outcomes of f_sync, of which the last is the wait in CTRL_SYNC that
\* fails after everything is written: it leaves sd->ready alone.
SyncSucceeds(f) ==
  \/ f \notin dirty /\ ready /\ UNCHANGED <<dirty, volume, ready, medium>>
  \/ f \in dirty /\ usable /\ Written(f) /\ UNCHANGED <<ready, medium>>

SyncFails(f) ==
  \/ f \notin dirty /\ ~ready /\ UNCHANGED <<dirty, volume, ready, medium>>
  \/ f \in dirty /\ ~usable /\ TransferFails /\ UNCHANGED <<dirty, volume, medium>>
  \/ /\ f \in dirty /\ usable /\ faults < MaxFaults /\ pc \in FailAt
     /\ Written(f)
     /\ card' = "lost" /\ faults' = faults + 1
     /\ UNCHANGED ready

-----------------------------------------------------------------------------
(* hk_storage_service: mounting. *)

Later(age, limit) == IF age < limit THEN age + 1 ELSE age

\* One call per HK_STORAGE_PERIOD_MS.
Service ==
  /\ pc = "idle"
  /\ \/ /\ mounted
        /\ pc' = "drain" /\ budget' = Budget /\ sync_now' = FALSE
        /\ try_age' = Later(try_age, RetryPeriod)
        /\ UNCHANGED first_try_done
     \/ /\ ~mounted
        /\ IF first_try_done /\ try_age + 1 < RetryPeriod
           THEN /\ try_age' = try_age + 1
                /\ UNCHANGED <<pc, first_try_done>>
           ELSE /\ MaxSession \notin exists
                /\ first_try_done' = TRUE /\ try_age' = 0
                /\ pc' = "mount"
        /\ UNCHANGED <<budget, sync_now>>
  /\ sync_age' = Later(sync_age, SyncPeriod)
  /\ UNCHANGED <<producer, frame, mounted, names, open, ready, medium,
                 volume, space, losses>>

\* f_mount and f_mkdir.  A card that went unnoticed since the last f_mount
\* still looks ready and is not initialised.
Mount ==
  /\ pc = "mount"
  /\ \/ /\ Initialise \/ (usable /\ UNCHANGED <<ready, medium>>)
        /\ pc' = "scan"
     \/ /\ IF ready THEN card # "ok" /\ TransferFails
           ELSE card = "out" /\ UNCHANGED ready
        /\ pc' = "idle"
        /\ UNCHANGED medium
  /\ cache' = [f \in Files |-> <<>>] /\ dirty' = {}
  /\ UNCHANGED <<producer, local, mounted, names, first_try_done, timers,
                 volume, space, losses>>

\* Mutant: the session goes on after a reset.
SessionNewest(seen) == Max({1} \cup seen)

\* max_idx + 1 over the names FL_0000 to FL_9998 that the scan has seen.
SessionAfter(seen) == Max({0} \cup (seen \ {LastSession})) + 1

\* next_session_index: an error ends the scan as the last entry does, and the
\* session that is opened then may be an old one, or come before one.
Scan ==
  /\ pc = "scan"
  /\ \/ usable /\ session' = SessionAfter(exists) /\ UNCHANGED ready
     \/ /\ card # "ok" /\ TransferFails
        /\ \E seen \in SUBSET exists : session' = SessionAfter(seen)
  /\ misnumbered' = IF session' = SessionAfter(exists) THEN misnumbered
                    ELSE misnumbered \cup {session'}
  /\ pc' = "open_bin"
  /\ UNCHANGED <<producer, local, mounted, first_try_done, timers, open,
                 medium, volume, space, losses>>

\* f_open with FA_CREATE_ALWAYS: a file of that name is truncated at once, a
\* new name reaches the directory now or with the next sync.
Created(f) ==
  /\ disk' = [disk EXCEPT ![session][f] = <<>>]
  /\ exists' \in {exists, exists \cup {session}}

Open(f, at, next) ==
  /\ pc = at
  /\ \/ /\ \/ usable /\ UNCHANGED <<ready, medium>> /\ dirty' = dirty \cup {f}
           \/ Initialise /\ dirty' = {f}
        /\ Created(f)
        /\ pc' = next
     \/ /\ IF ready THEN card # "ok" /\ TransferFails
           ELSE card = "out" /\ UNCHANGED ready
        /\ pc' = "close_bin"
        /\ UNCHANGED <<dirty, volume, medium>>
  /\ UNCHANGED <<producer, local, mounted, names, first_try_done, timers,
                 cache, space, losses>>

OpenBin == Open("bin", "open_bin", "open_csv")
OpenCsv == Open("csv", "open_csv", "meta")

\* f_write: into the file object as long as the card looks ready; it may have
\* to touch the card, and there may be no room.
Accepts(f, r) == /\ ready /\ space > 0
                 /\ cache' = [cache EXCEPT ![f] = Append(@, r)]
                 /\ dirty' = dirty \cup {f}
                 /\ space' = space - 1
                 /\ UNCHANGED ready
Rejects == /\ \/ ready /\ space = 0 /\ UNCHANGED ready
              \/ ready /\ card # "ok" /\ TransferFails
              \/ ~ready /\ UNCHANGED ready
           /\ UNCHANGED <<cache, dirty, space>>

\* The session start marker.  A BIN file opened before the volume was mounted
\* anew is invalid.
WriteMeta ==
  /\ pc = "meta"
  /\ \/ "bin" \in dirty /\ Accepts("bin", Meta) /\ pc' = "first_sync_bin"
     \/ Rejects /\ pc' = "close_bin"
     \/ /\ "bin" \notin dirty /\ pc' = "close_bin"
        /\ UNCHANGED <<ready, cache, dirty, space>>
  /\ UNCHANGED <<producer, local, mounted, names, first_try_done, timers,
                 medium, volume, losses>>

\* The first two f_sync of a session, results ignored.
FirstSyncBin ==
  /\ pc = "first_sync_bin"
  /\ SyncSucceeds("bin") \/ SyncFails("bin")
  /\ pc' = "first_sync_csv"
  /\ UNCHANGED <<producer, local, mounted, names, first_try_done, timers,
                 cache, space, losses>>

FirstSyncCsv ==
  /\ pc = "first_sync_csv"
  /\ SyncSucceeds("csv") \/ SyncFails("csv")
  /\ mounted' = TRUE
  /\ sync_age' = 0
  /\ pc' = "drain" /\ budget' = Budget /\ sync_now' = FALSE
  /\ UNCHANGED <<producer, frame, names, first_try_done, try_age, cache,
                 space, losses>>

-----------------------------------------------------------------------------
(* drain_queue. *)

\* Mutants: a frame that is looked at and left in the queue; a drain that goes
\* on until the queue is empty.
PopPeeks ==
  /\ pc = "drain"
  /\ IF queue # <<>> /\ budget > 0
     THEN frame' = Head(queue) /\ budget' = budget - 1 /\ pc' = "write_bin"
     ELSE /\ pc' = IF sync_now \/ sync_age >= SyncPeriod THEN "sync_bin" ELSE "idle"
          /\ UNCHANGED <<frame, budget>>
  /\ UNCHANGED <<producer, sync_now, mounted, names, first_try_done, timers,
                 open, ready, medium, volume, space, losses>>

PopWithoutBudget ==
  /\ pc = "drain"
  /\ IF queue # <<>>
     THEN /\ frame' = Head(queue) /\ queue' = Tail(queue)
          /\ UNCHANGED budget
          /\ pc' = "write_bin"
     ELSE /\ pc' = IF sync_now \/ sync_age >= SyncPeriod THEN "sync_bin" ELSE "idle"
          /\ UNCHANGED <<frame, queue, budget>>
  /\ UNCHANGED <<dropped, imu_skip, pushed, sync_now, mounted, names,
                 first_try_done, timers, open, ready, medium, volume, space,
                 losses>>

Pop ==
  /\ pc = "drain"
  /\ IF queue # <<>> /\ budget > 0
     THEN /\ frame' = Head(queue) /\ queue' = Tail(queue)
          /\ budget' = budget - 1
          /\ pc' = "write_bin"
     ELSE /\ pc' = IF sync_now \/ sync_age >= SyncPeriod THEN "sync_bin" ELSE "idle"
          /\ UNCHANGED <<frame, queue, budget>>
  /\ UNCHANGED <<dropped, imu_skip, pushed, sync_now, mounted, names,
                 first_try_done, timers, open, ready, medium, volume, space,
                 losses>>

WriteBin ==
  /\ pc = "write_bin"
  /\ \/ /\ Accepts("bin", frame)
        /\ pc' = IF frame.kind \in Tabled THEN "write_csv" ELSE "drain"
        /\ frame' = IF frame.kind \in Tabled THEN frame ELSE Nobody
     \/ Rejects /\ pc' = "close_bin" /\ frame' = Nobody
  /\ UNCHANGED <<producer, budget, sync_now, mounted, names, first_try_done,
                 timers, medium, volume, losses>>

\* Mutant: only the last record of a drain decides about the sync.
SyncNowLast == frame.kind = "EVENT"

SyncNow == sync_now \/ frame.kind = "EVENT"

\* write_csv_env and write_csv_event: a row in one f_write.
write_csv == Accepts("csv", frame)

WriteCsv ==
  /\ pc = "write_csv"
  /\ \/ write_csv /\ pc' = "drain" /\ sync_now' = SyncNow
     \/ Rejects /\ pc' = "close_bin" /\ UNCHANGED sync_now
  /\ frame' = Nobody
  /\ UNCHANGED <<producer, budget, mounted, names, first_try_done, timers,
                 medium, volume, losses>>

-----------------------------------------------------------------------------
(* The rest of hk_storage_service, and fs_failed. *)

\* Mutant: the rows are made durable before the frames they tell of.
SyncBinLast ==
  /\ pc = "sync_bin"
  /\ \/ SyncSucceeds("csv") /\ pc' = "sync_csv"
     \/ SyncFails("csv") /\ pc' = "close_bin"
  /\ UNCHANGED <<producer, local, mounted, names, first_try_done, timers,
                 cache, space, losses>>

SyncBin ==
  /\ pc = "sync_bin"
  /\ \/ SyncSucceeds("bin") /\ pc' = "sync_csv"
     \/ SyncFails("bin") /\ pc' = "close_bin"
  /\ UNCHANGED <<producer, local, mounted, names, first_try_done, timers,
                 cache, space, losses>>

SyncCsv ==
  /\ pc = "sync_csv"
  /\ \/ SyncSucceeds("csv") /\ pc' = "idle" /\ sync_age' = 0
     \/ SyncFails("csv") /\ pc' = "close_bin" /\ UNCHANGED sync_age
  /\ UNCHANGED <<producer, local, mounted, names, first_try_done, try_age,
                 cache, space, losses>>

\* Both files are closed, results ignored, and the volume unmounted.
CloseBin ==
  /\ pc = "close_bin"
  /\ SyncSucceeds("bin") \/ SyncFails("bin")
  /\ pc' = "close_csv"
  /\ UNCHANGED <<producer, local, mounted, names, first_try_done, timers,
                 cache, space, losses>>

CloseCsv ==
  /\ pc = "close_csv"
  /\ SyncSucceeds("csv") \/ SyncFails("csv")
  /\ mounted' = FALSE
  /\ pc' = "idle"
  /\ UNCHANGED <<producer, local, names, first_try_done, timers, cache,
                 space, losses>>

-----------------------------------------------------------------------------
(* The card and the power. *)

\* The card loses its state (a glitch on the 5 V rail or the bus), or comes
\* out of its socket.
CardFails == /\ faults < MaxFaults /\ card = "ok" /\ pc \in FailAt
             /\ card' \in {"lost", "out"}
             /\ faults' = faults + 1
             /\ UNCHANGED <<producer, pc, local, mounted, names,
                            first_try_done, timers, open, ready, volume, space,
                            losses>>

Insert == /\ card = "out"
          /\ card' = "lost"
          /\ UNCHANGED <<producer, pc, local, mounted, names, first_try_done,
                         timers, open, ready, faults, volume, space, losses>>

\* A reset, or the battery: the RAM is lost, hk_storage_init runs.
PowerLoss ==
  /\ losses < MaxLosses
  /\ losses' = losses + 1
  /\ queue' = <<>> /\ dropped' = 0 /\ imu_skip' = 0
  /\ pc' = "idle"
  /\ frame' = Nobody /\ budget' = 0 /\ sync_now' = FALSE
  /\ mounted' = FALSE /\ session' = 0 /\ first_try_done' = FALSE
  /\ sync_age' = 0 /\ try_age' = 0
  /\ cache' = [f \in Files |-> <<>>] /\ dirty' = {}
  /\ ready' = FALSE
  /\ card' = IF card = "out" THEN "out" ELSE "lost"
  /\ UNCHANGED <<misnumbered, pushed, faults, volume, space>>

Init ==
  /\ queue = <<>> /\ dropped = 0 /\ imu_skip = 0 /\ pushed = 0
  /\ pc = "idle"
  /\ frame = Nobody /\ budget = 0 /\ sync_now = FALSE
  /\ mounted = FALSE /\ session = 0 /\ misnumbered = {} /\ first_try_done = FALSE
  /\ sync_age = 0 /\ try_age = 0
  /\ cache = [f \in Files |-> <<>>] /\ dirty = {}
  /\ ready = FALSE
  /\ card \in {"lost", "out"}
  /\ disk = [s \in Sessions |->
               [f \in Files |->
                  IF s \in OldSessions /\ f = "bin" THEN <<Meta>> ELSE <<>>]]
  /\ exists = OldSessions
  /\ space = Space
  /\ faults = 0 /\ losses = 0

StorageTask == \/ Service \/ Mount \/ Scan \/ OpenBin \/ OpenCsv \/ WriteMeta
               \/ FirstSyncBin \/ FirstSyncCsv \/ Pop \/ WriteBin \/ WriteCsv
               \/ SyncBin \/ SyncCsv \/ CloseBin \/ CloseCsv

Next == \/ \E k \in Kinds : Push(k)
        \/ StorageTask
        \/ CardFails \/ Insert \/ PowerLoss

Spec == Init /\ [][Next]_vars

\* The storage task is called every 100 ms, and its calls return.
FairSpec == Spec /\ WF_vars(StorageTask)

-----------------------------------------------------------------------------
(* Properties. *)

Steps == {"idle", "mount", "scan", "open_bin", "open_csv", "meta",
          "first_sync_bin", "first_sync_csv", "drain", "write_bin",
          "write_csv", "sync_bin", "sync_csv", "close_bin", "close_csv"}

\* Every row of a CSV file tells of a frame in its BIN file, the
\* "authoritative" one (storage.h:31-32), whenever the power goes: but for an
\* old session that a cut scan has opened again, whose BIN file goes first.
CsvInBin ==
  \A s \in Sessions \ misnumbered :
    Numbers(disk[s]["csv"]) \subseteq Numbers(disk[s]["bin"])

\* Session after session the log holds records once and in the order they
\* were pushed, each session behind its marker, and none that is still in hand
\* or in the queue, whatever failed; only a session that a cut scan has put
\* too low comes before older ones.
Increasing(s) == \A i, j \in DOMAIN s : i < j => s[i].n < s[j].n
Before(A, B)  == \A m \in A, n \in B : m < n
Log(s)        == disk[s]["bin"]
InHand        == Numbers(<<frame>>)

Ordered ==
  /\ Increasing(queue) /\ Before(InHand, Numbers(queue))
  /\ \A s \in Sessions :
       /\ Increasing(Log(s))
       /\ Before(Numbers(Log(s)), InHand \cup Numbers(queue))
       /\ \A t \in Sessions : s < t /\ s \notin misnumbered =>
            Before(Numbers(Log(s)), Numbers(Log(t)))

\* When hk_storage_service returns with the card mounted, every EVENT it has
\* taken from the queue is on the card ("right after every EVENT",
\* storage.h:27-28), however many records came behind it.
EventsDurable ==
  pc = "idle" /\ mounted =>
    \A r \in Range(cache["bin"]) :
      r.kind = "EVENT" => r.n \in Numbers(disk[session]["bin"])

\* As long as card and power are good, a record is in the queue, in the log
\* or counted in dropped.
Accounted ==
  faults = 0 /\ losses = 0 /\ space > 0 =>
    pushed = dropped + Cardinality(Numbers(queue) \cup InHand
                                   \cup Numbers(cache["bin"]))

\* The card may fail at any call, and one thing only shortens a file that is on
\* it: FA_CREATE_ALWAYS on a session that a scan cut short by an error took for
\* a new one (storage.c:314-322); as long as the numbers last.
AppendOnly ==
  [][\A s \in Sessions \ misnumbered, f \in Files :
       IsPrefix(disk[s][f], disk'[s][f])]_vars

\* Frames drained between two syncs: at most Budget in a call, and the call
\* that opens a session drains before the first period begins.
Unsynced == (SyncPeriod + 1) * Budget

\* Once a card stays in its socket, whatever call failed before, the service
\* mounts it, empties the queue and syncs; and then every record pushed is in
\* the log or counted in dropped, but for those no sync had reached when the
\* card failed, the frame of the failed f_write among them (storage.c:463-466),
\* at most Unsynced a fault.  Where a cut scan has opened an old session again
\* nothing is said of the records.
AllInLog ==
  pushed <= dropped + Cardinality(UNION {Numbers(Log(s)) : s \in Sessions})
            + Unsynced * faults

Recovers ==
  <>[](card # "out") =>
    <>[](/\ mounted /\ queue = <<>> /\ dirty = {}
         /\ misnumbered = {} => AllInLog)
=============================================================================
