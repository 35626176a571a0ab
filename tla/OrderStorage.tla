----------------------------- MODULE OrderStorage ------------------------------
(***************************************************************************)
(* tw::channel_or::ChannelOrStorage: what the trading process writes down  *)
(* of its orders, fills and FIX sessions, and reads back after a crash.    *)
(*                                                                         *)
(* persist() puts an item on a pipe; a database thread moves items from    *)
(* the pipe through a cache into the database, a batch at a time.  When    *)
(* the database fails or its pipe is full, a file thread is started: it    *)
(* ends the database thread, takes over its pipe and its cache, and        *)
(* appends to a file from then on.  The next start of the process reads    *)
(* the file back into the database and removes it.  stop() flushes what    *)
(* is left.                                                                *)
(*                                                                         *)
(* Items are numbered in the order persist() is called.  An operation of   *)
(* a pipe, which holds the pipe's own mutex, is one step; so is one batch  *)
(* in the database, which holds _dbLock.                                   *)
(***************************************************************************)
EXTENDS Integers, Sequences, FiniteSets, FiniteSetsExt, SequencesExt

CONSTANTS
  Producers,       \* threads that call persist()
  BatchSize,       \* storage.batch_cache_size
  MaxBatchSize,    \* storage.max_batch_cache_size
  MaxQueueDb,      \* storage.max_queue_size_db
  MaxQueueFile,    \* storage.max_queue_size_file
  JoinTimesOut,    \* the database may hang for longer than a join waits
  MaxItems,        \* bound: items persisted
  MaxFails,        \* bound: times the database fails
  MaxEnds          \* bound: times the process ends, by stop() or by a crash

ASSUME StorageAssumption ==
  /\ BatchSize \in Nat \ {0}
  /\ MaxBatchSize \in Nat
  /\ MaxQueueDb \in Nat
  /\ MaxQueueFile \in Nat
  /\ JoinTimesOut \in BOOLEAN
  /\ MaxItems \in Nat
  /\ MaxFails \in Nat
  /\ MaxEnds \in Nat

VARIABLES
  pipeDb,     \* _threadPipeDb
  cache,      \* _itemsCache
  pipeFile,   \* _threadPipeFile
  db,         \* items committed to the database, in the order of the commits
  file,       \* lines of the storage file
  dbUp,       \* the database takes transactions
  fails,      \* times it failed
  doneDb,     \* _isDoneDb
  stopDb,     \* _stopPersistingToDb
  doneFile,   \* _isDoneFile
  threadDb,   \* _threadDb is not NULL
  threadFile, \* _threadFile is not NULL
  caller,     \* what each producer is about to do
  dbPc,       \* the database thread
  dbItem,     \* the item it has read but not yet popped
  filePc,     \* the file thread
  fileItem,   \* the item it has read but not yet popped
  mainPc,     \* the thread that runs init() and stop()
  cursor,     \* lines of the file that init() has read
  ends,       \* times the process ended
  accepted,   \* history: items persist() returned true for
  strays,     \* history: items put on the database's pipe after its thread was told to end
  caught,     \* history: items not yet stored when stop() and the takeover ran at once
  forgone,    \* history: items that were only in memory when the process crashed
  detoured,   \* history: an item passed the full pipe by
  left,       \* history: a join gave up and left the database thread behind
  repeats     \* history: items in the file when the process ended while restoring it

pipes == <<pipeDb, cache, pipeFile>>
disk == <<db, file, dbUp, fails>>
flags == <<doneDb, stopDb, doneFile, threadDb, threadFile>>
dbThread == <<dbPc, dbItem>>
fileThread == <<filePc, fileItem>>
main == <<mainPc, cursor, ends>>
history == <<accepted, strays, caught, forgone, detoured, left, repeats>>
vars == <<pipes, disk, flags, caller, dbThread, fileThread, main, history>>

Items == 1 .. MaxItems

OnDisk == ToSet(db) \cup ToSet(file)

\* No item: a pipe had none.
NoItem == 0

Idle == [pc |-> "Idle", item |-> NoItem]

Init ==
  /\ pipeDb = <<>> /\ cache = <<>> /\ pipeFile = <<>>
  /\ db = <<>> /\ file = <<>> /\ dbUp = TRUE /\ fails = 0
  /\ doneDb = FALSE /\ stopDb = FALSE /\ doneFile = FALSE
  /\ threadDb = FALSE /\ threadFile = FALSE
  /\ caller = [p \in Producers |-> Idle]
  /\ dbPc = "Off" /\ dbItem = NoItem
  /\ filePc = "Off" /\ fileItem = NoItem
  /\ mainPc = "Restore" /\ cursor = 0 /\ ends = 0
  /\ accepted = {} /\ strays = {} /\ caught = {} /\ forgone = {}
  /\ detoured = FALSE /\ left = FALSE /\ repeats = {}

--------------------------------------------------------------------------------
(***************************************************************************)
(* persist()                                                               *)
(***************************************************************************)

\* The number of the next item: getItem() counts them.
NextItem == 1 + Max({NoItem} \cup accepted \cup {caller[p].item : p \in Producers})

\* doPersist up to the push: isValid, _isDoneDb and the size of the pipe are
\* read here and may have changed by the time the item is pushed.  An item
\* refused for the size of the file's pipe raises an alert and is not counted.
Persist(p) ==
  /\ mainPc = "Run" /\ caller[p] = Idle /\ NextItem <= MaxItems
  /\ threadDb \/ threadFile
  /\ doneDb => Len(pipeFile) <= MaxQueueFile
  /\ caller' = [caller EXCEPT ![p] =
       [pc |-> CASE doneDb -> "PushFile"
                 [] ~doneDb /\ Len(pipeDb) <= MaxQueueDb -> "PushDb"
                 [] OTHER -> "PushFileAndStart",
        item |-> NextItem]]
  /\ UNCHANGED <<pipes, disk, flags, dbThread, fileThread, main, history>>

Accept(p) ==
  /\ accepted' = accepted \cup {caller[p].item}
  /\ caller' = [caller EXCEPT ![p] = Idle]

PushDb(p) ==
  /\ caller[p].pc = "PushDb"
  /\ pipeDb' = Append(pipeDb, caller[p].item)
  /\ strays' = IF doneDb THEN strays \cup {caller[p].item} ELSE strays
  /\ Accept(p)
  /\ UNCHANGED <<cache, pipeFile, disk, flags, dbThread, fileThread, main, caught,
                 forgone, detoured, left, repeats>>

\* startThreadPersistToFile, under _lock: only the first call starts a thread.
StartFileThread ==
  /\ threadFile' = TRUE
  /\ filePc' = IF threadFile THEN filePc ELSE "Start"

PushFile(p) ==
  /\ caller[p].pc \in {"PushFile", "PushFileAndStart"}
  /\ pipeFile' = Append(pipeFile, caller[p].item)
  /\ IF caller[p].pc = "PushFileAndStart" THEN StartFileThread
                                          ELSE UNCHANGED <<threadFile, filePc>>
  /\ detoured' = (detoured \/ caller[p].pc = "PushFileAndStart")
  /\ Accept(p)
  /\ UNCHANGED <<pipeDb, cache, disk, doneDb, stopDb, doneFile, threadDb, dbThread,
                 fileItem, main, strays, caught, forgone, left, repeats>>

--------------------------------------------------------------------------------
(***************************************************************************)
(* threadMainPersistToDb                                                   *)
(***************************************************************************)

\* The first n items of the cache go into the database as one transaction.
Commit(n) ==
  /\ db' = db \o SubSeq(cache, 1, n)
  /\ cache' = SubSeq(cache, n + 1, Len(cache))

\* The outer loop: ended by _isDoneDb only.
DbLoop ==
  /\ dbPc = "Loop"
  /\ dbPc' = IF doneDb THEN "Done" ELSE "Read"
  /\ UNCHANGED <<pipes, disk, flags, caller, dbItem, fileThread, main, history>>

DbRead ==
  /\ dbPc = "Read"
  /\ IF pipeDb = <<>>
       THEN dbPc' = "Flush" /\ UNCHANGED dbItem
       ELSE dbPc' = "Persist" /\ dbItem' = Head(pipeDb)
  /\ UNCHANGED <<pipes, disk, flags, caller, fileThread, main, history>>

\* persistToDb: into the cache, and a flush when it holds a batch.  With the
\* cache over its limit the item stays on the pipe and is read again at once.
DbPersist ==
  /\ dbPc = "Persist"
  /\ IF Len(cache) > MaxBatchSize
       THEN dbPc' = "Read" /\ UNCHANGED cache
       ELSE /\ cache' = Append(cache, dbItem)
            /\ dbPc' = IF Len(cache') < BatchSize THEN "Pop" ELSE "FlushBatch"
  /\ UNCHANGED <<pipeDb, pipeFile, disk, flags, caller, dbItem, fileThread, main,
                 history>>

\* A turn of doFlushToDb's loop: a batch, until the cache is empty or the file
\* thread takes over.
DbCommit ==
  /\ dbPc \in {"Flush", "FlushBatch"}
  /\ cache # <<>> /\ ~stopDb /\ dbUp
  /\ Commit(IF Len(cache) < BatchSize THEN Len(cache) ELSE BatchSize)
  /\ UNCHANGED <<pipeDb, pipeFile, file, dbUp, fails, flags, caller, dbThread,
                 fileThread, main, history>>

DbFlushed ==
  /\ dbPc \in {"Flush", "FlushBatch"}
  /\ cache = <<>> \/ stopDb
  /\ dbPc' = IF dbPc = "Flush" THEN "Loop" ELSE "Pop"
  /\ UNCHANGED <<pipes, disk, flags, caller, dbItem, fileThread, main, history>>

DbFlushFails_Ignored ==
  /\ dbPc \in {"Flush", "FlushBatch"}
  /\ cache # <<>> /\ ~stopDb /\ ~dbUp
  /\ dbPc' = IF dbPc = "Flush" THEN "Loop" ELSE "Pop"
  /\ UNCHANGED <<pipes, disk, flags, caller, dbItem, fileThread, main, history>>

\* flushToDb gives up after five failed attempts: persistToDb ignores it, the
\* outer loop starts the file thread.
DbFlushFails ==
  /\ dbPc \in {"Flush", "FlushBatch"}
  /\ cache # <<>> /\ ~stopDb /\ ~dbUp
  /\ IF dbPc = "Flush"
       THEN dbPc' = "Loop" /\ StartFileThread
       ELSE dbPc' = "Pop" /\ UNCHANGED <<threadFile, filePc>>
  /\ UNCHANGED <<pipes, disk, doneDb, stopDb, doneFile, threadDb, caller, dbItem,
                 fileItem, main, history>>

\* Whatever is first on the pipe by now.
DbPop ==
  /\ dbPc = "Pop"
  /\ pipeDb' = IF pipeDb = <<>> THEN <<>> ELSE Tail(pipeDb)
  /\ dbPc' = "Read"
  /\ UNCHANGED <<cache, pipeFile, disk, flags, caller, dbItem, fileThread, main,
                 history>>

DbThread ==
  DbLoop \/ DbRead \/ DbPersist \/ DbCommit \/ DbFlushed \/ DbFlushFails \/ DbPop

--------------------------------------------------------------------------------
(***************************************************************************)
(* threadMainPersistToFile                                                 *)
(***************************************************************************)

FileStart ==
  /\ filePc = "Start"
  /\ stopDb' = TRUE /\ doneDb' = TRUE
  /\ filePc' = "Join"
  /\ caught' = IF mainPc = "Run" THEN caught ELSE caught \cup (accepted \ OnDisk)
  /\ UNCHANGED <<pipes, disk, doneFile, threadDb, threadFile, caller, dbThread,
                 fileItem, main, accepted, strays, forgone, detoured, left, repeats>>

\* terminateThreadDb waits for the thread, but not for ever: a thread that hangs
\* in the database or keeps reading the same item is left behind.
DbJoined ==
  \/ dbPc \in {"Off", "Done"}
  \/ JoinTimesOut /\ dbPc \in {"Flush", "FlushBatch"} /\ ~dbUp
  \/ Len(cache) > MaxBatchSize /\ dbPc \in {"Read", "Persist"}

FileJoin ==
  /\ filePc = "Join" /\ (threadDb => DbJoined)
  /\ threadDb' = FALSE
  /\ left' = (left \/ (threadDb /\ dbPc \notin {"Off", "Done"}))
  /\ filePc' = "Copy"
  /\ UNCHANGED <<pipes, disk, doneDb, stopDb, doneFile, threadFile, caller, dbThread,
                 fileItem, main, accepted, strays, caught, forgone, detoured, repeats>>

FileCopy_Appended ==
  /\ filePc = "Copy"
  /\ pipeFile' = pipeFile \o pipeDb
  /\ filePc' = "Clear"
  /\ UNCHANGED <<pipeDb, cache, disk, flags, caller, dbThread, fileItem, main, history>>

\* getAllItems, and every item to the front of the file's pipe; the database's
\* pipe is cleared in a step of its own.
FileCopy ==
  /\ filePc = "Copy"
  /\ pipeFile' = pipeDb \o pipeFile
  /\ filePc' = "Clear"
  /\ UNCHANGED <<pipeDb, cache, disk, flags, caller, dbThread, fileItem, main, history>>

FileClear ==
  /\ filePc = "Clear"
  /\ pipeDb' = <<>>
  /\ filePc' = "TakeCache"
  /\ UNCHANGED <<cache, pipeFile, disk, flags, caller, dbThread, fileItem, main, history>>

FileTakeCache_Dropped ==
  /\ filePc = "TakeCache"
  /\ cache' = <<>>
  /\ filePc' = "Read"
  /\ UNCHANGED <<pipeDb, pipeFile, disk, flags, caller, dbThread, fileItem, main, history>>

\* Under _dbLock.  A database thread left behind inside a batch holds it until the
\* database answers or its closed connection fails: that call is taken to return.
FileTakeCache ==
  /\ filePc = "TakeCache"
  /\ pipeFile' = cache \o pipeFile
  /\ cache' = <<>>
  /\ filePc' = "Read"
  /\ UNCHANGED <<pipeDb, disk, flags, caller, dbThread, fileItem, main, history>>

\* read waits for an item, or for stop(); _isDoneFile is tested before the wait.
FileRead ==
  /\ filePc = "Read"
  /\ \/ doneFile /\ filePc' = "Done" /\ UNCHANGED fileItem
     \/ /\ pipeFile # <<>>
        /\ filePc' = "Write" /\ fileItem' = Head(pipeFile)
  /\ UNCHANGED <<pipes, disk, flags, caller, dbThread, main, history>>

FileWrite ==
  /\ filePc = "Write"
  /\ file' = Append(file, fileItem)
  /\ filePc' = "Pop"
  /\ UNCHANGED <<pipes, db, dbUp, fails, flags, caller, dbThread, fileItem, main,
                 history>>

\* pop, then try_read: the thread looks at _isDoneFile only once it finds the
\* pipe empty.
FilePop ==
  /\ filePc = "Pop"
  /\ pipeFile' = Tail(pipeFile)
  /\ IF pipeFile' = <<>>
       THEN filePc' = "Read" /\ UNCHANGED fileItem
       ELSE filePc' = "Write" /\ fileItem' = Head(pipeFile')
  /\ UNCHANGED <<pipeDb, cache, disk, flags, caller, dbThread, main, history>>

FileThread ==
  \/ FileStart \/ FileJoin \/ FileCopy \/ FileClear \/ FileTakeCache
  \/ FileRead \/ FileWrite \/ FilePop

--------------------------------------------------------------------------------
(***************************************************************************)
(* init()                                                                  *)
(***************************************************************************)

\* flushToDb from the main thread: everything, or the batches that were
\* committed before the database failed.
Flushes(s) ==
  IF dbUp THEN {Len(s)} ELSE {n \in 0 .. Len(s) - 1 : n % BatchSize = 0}

\* The process ends: every thread is gone and what it held is forgotten.
Ended ==
  /\ pipeDb' = <<>> /\ pipeFile' = <<>>
  /\ doneDb' = FALSE /\ stopDb' = FALSE /\ doneFile' = FALSE
  /\ threadDb' = FALSE /\ threadFile' = FALSE
  /\ caller' = [p \in Producers |-> Idle]
  /\ dbPc' = "Off" /\ dbItem' = NoItem /\ filePc' = "Off" /\ fileItem' = NoItem
  /\ mainPc' = "Down" /\ cursor' = 0
  /\ ends' = ends + 1

\* The lines of the file through the cache into the database; a flush that fails
\* is ignored until the cache is over its limit.
RestoreLine ==
  LET c == Append(cache, file[cursor + 1]) IN
  /\ mainPc = "Restore" /\ cursor < Len(file)
  /\ Len(cache) <= MaxBatchSize
  /\ \E n \in IF Len(c) < BatchSize THEN {0} ELSE Flushes(c) :
       /\ db' = db \o SubSeq(c, 1, n)
       /\ cache' = SubSeq(c, n + 1, Len(c))
  /\ cursor' = cursor + 1
  /\ UNCHANGED <<pipeDb, pipeFile, file, dbUp, fails, flags, caller, dbThread,
                 fileThread, mainPc, ends, history>>

\* All lines read: the rest of the cache must go into the database.
RestoreFlush ==
  /\ mainPc = "Restore" /\ cursor = Len(file) /\ file # <<>>
  /\ dbUp \/ cache = <<>>
  /\ Commit(Len(cache))
  /\ mainPc' = "Remove"
  /\ UNCHANGED <<pipeDb, pipeFile, file, dbUp, fails, flags, caller, dbThread,
                 fileThread, cursor, ends, history>>

\* init() fails, and the process with it: no connection to begin with, a cache over
\* its limit, or a last flush that failed.  The storage's destructor then runs stop()
\* for what is left in the cache: flushDbCache stores it after all, last item first,
\* or hands it to flushFileCache, which appends it to the file once more.
RestoreFails ==
  /\ mainPc = "Restore" /\ ends < MaxEnds
  /\ \/ cursor = 0 /\ file # <<>> /\ ~dbUp
     \/ cursor < Len(file) /\ Len(cache) > MaxBatchSize
     \/ cursor = Len(file) /\ file # <<>> /\ ~dbUp
  /\ \E n \in (IF cursor = Len(file) THEN Flushes(cache) ELSE {0}) :
       LET rest == SubSeq(cache, n + 1, Len(cache)) IN
       /\ db' = db \o SubSeq(cache, 1, n) \o (IF dbUp THEN Reverse(rest) ELSE <<>>)
       /\ file' = file \o (IF dbUp THEN <<>> ELSE rest)
  /\ cache' = <<>>
  /\ Ended
  /\ repeats' = repeats \cup ToSet(file)
  /\ UNCHANGED <<dbUp, fails, accepted, strays, caught, forgone, detoured, left>>

Started ==
  /\ mainPc' = "Run" /\ threadDb' = TRUE /\ dbPc' = "Loop"
  /\ UNCHANGED <<pipes, db, dbUp, fails, doneDb, stopDb, doneFile, threadFile, caller,
                 dbItem, fileThread, ends, history>>

\* The restored file is put away as a backup and an empty one opened.
RestoreRemove == mainPc = "Remove" /\ file' = <<>> /\ cursor' = 0 /\ Started

StartEmpty == mainPc = "Restore" /\ file = <<>> /\ UNCHANGED <<file, cursor>> /\ Started

\* No connection and nothing to restore: init() stops the storage again and still
\* returns true, so the process runs and persist() refuses everything.
StartWithoutDb ==
  /\ mainPc = "Restore" /\ file = <<>> /\ ~dbUp
  /\ mainPc' = "Run"
  /\ UNCHANGED <<pipes, disk, flags, caller, dbThread, fileThread, cursor, ends, history>>

--------------------------------------------------------------------------------
(***************************************************************************)
(* stop()                                                                  *)
(***************************************************************************)

TakingOver == filePc \in {"Start", "Join", "Copy", "Clear", "TakeCache"}

\* StrategyContainer has stopped its strategies, timers and channels by then, so
\* nobody is inside persist().  (With a database thread left behind, flushDbCache and
\* that thread use the cache without a lock: what follows is undefined, not modelled.)
Stop ==
  /\ mainPc = "Run" /\ ends < MaxEnds /\ ~left
  /\ threadDb \/ threadFile
  /\ \A p \in Producers : caller[p] = Idle
  /\ doneDb' = TRUE
  /\ mainPc' = "JoinDb"
  /\ caught' = IF TakingOver THEN caught \cup (accepted \ OnDisk) ELSE caught
  /\ UNCHANGED <<pipes, disk, stopDb, doneFile, threadDb, threadFile, caller, dbThread,
                 fileThread, cursor, ends, accepted, strays, forgone, detoured, left,
                 repeats>>

\* flushDbCache, its first loop: the cache goes in front of the pipe, last item
\* first.
StopJoinDb ==
  /\ mainPc = "JoinDb" /\ dbPc \in {"Off", "Done"}
  /\ threadDb' = FALSE
  /\ pipeDb' = Reverse(cache) \o pipeDb
  /\ cache' = <<>>
  /\ mainPc' = "FlushDb"
  /\ UNCHANGED <<pipeFile, disk, doneDb, stopDb, doneFile, threadFile, caller, dbThread,
                 fileThread, cursor, ends, history>>

\* Its second loop: one item through the cache and all of the cache out.  Once
\* the file thread has taken over, the flush succeeds without flushing.
StopFlushItem ==
  LET c == Append(cache, Head(pipeDb)) IN
  /\ mainPc = "FlushDb" /\ pipeDb # <<>> /\ Len(cache) <= MaxBatchSize
  /\ IF stopDb THEN cache' = c /\ UNCHANGED db
               ELSE dbUp /\ db' = db \o c /\ cache' = <<>>
  /\ pipeDb' = Tail(pipeDb)
  /\ UNCHANGED <<pipeFile, file, dbUp, fails, flags, caller, dbThread, fileThread, main,
                 history>>

\* It ends with the pipe, or with an item that fails and is put back.
StopFlushFails ==
  LET c == Append(cache, Head(pipeDb)) IN
  /\ mainPc = "FlushDb"
  /\ \/ pipeDb = <<>> /\ UNCHANGED <<db, cache>>
     \/ /\ pipeDb # <<>> /\ Len(cache) > MaxBatchSize /\ UNCHANGED <<db, cache>>
     \/ /\ pipeDb # <<>> /\ Len(cache) <= MaxBatchSize /\ ~stopDb /\ ~dbUp
        /\ \E n \in Flushes(c) :
             db' = db \o SubSeq(c, 1, n) /\ cache' = SubSeq(c, n + 1, Len(c))
  /\ mainPc' = "Transfer"
  /\ UNCHANGED <<pipeDb, pipeFile, file, dbUp, fails, flags, caller, dbThread, fileThread,
                 cursor, ends, history>>

\* Its third loop: what is left of the pipe goes in front of the file's, last
\* item first.
StopTransfer ==
  /\ mainPc = "Transfer"
  /\ pipeFile' = Reverse(pipeDb) \o pipeFile
  /\ pipeDb' = <<>>
  /\ mainPc' = "EndFile"
  /\ UNCHANGED <<cache, disk, flags, caller, dbThread, fileThread, cursor, ends, history>>

StopEndFile ==
  /\ mainPc = "EndFile"
  /\ doneFile' = TRUE
  /\ mainPc' = "JoinFile"
  /\ UNCHANGED <<pipes, disk, doneDb, stopDb, threadDb, threadFile, caller, dbThread,
                 fileThread, cursor, ends, history>>

\* The file thread joined: flushFileCache, closeDbResources and clear.
StopJoinFile ==
  /\ mainPc = "JoinFile" /\ filePc \in {"Off", "Done"}
  /\ file' = file \o pipeFile
  /\ cache' = <<>>
  /\ Ended
  /\ UNCHANGED <<db, dbUp, fails, history>>

--------------------------------------------------------------------------------
(***************************************************************************)
(* The database and the process                                            *)
(***************************************************************************)

DbFails ==
  /\ dbUp /\ fails < MaxFails
  /\ dbUp' = FALSE /\ fails' = fails + 1
  /\ UNCHANGED <<pipes, db, file, flags, caller, dbThread, fileThread, main, history>>

DbRecovers ==
  /\ ~dbUp /\ dbUp' = TRUE
  /\ UNCHANGED <<pipes, db, file, fails, flags, caller, dbThread, fileThread, main,
                 history>>

Crash ==
  /\ mainPc # "Down" /\ ends < MaxEnds
  /\ forgone' = forgone \cup (accepted \ OnDisk)
  /\ repeats' = IF mainPc \in {"Restore", "Remove"} THEN repeats \cup ToSet(file)
                                                   ELSE repeats
  /\ cache' = <<>>
  /\ Ended
  /\ UNCHANGED <<disk, accepted, strays, caught, detoured, left>>

Restart ==
  /\ mainPc = "Down"
  /\ mainPc' = "Restore"
  /\ UNCHANGED <<pipes, disk, flags, caller, dbThread, fileThread, cursor, ends, history>>

MainThread ==
  \/ RestoreLine \/ RestoreFlush \/ RestoreFails \/ RestoreRemove \/ StartEmpty
  \/ StartWithoutDb
  \/ Stop \/ StopJoinDb \/ StopFlushItem \/ StopFlushFails \/ StopTransfer
  \/ StopEndFile \/ StopJoinFile

Next ==
  \/ \E p \in Producers : Persist(p) \/ PushDb(p) \/ PushFile(p)
  \/ DbThread \/ FileThread \/ MainThread
  \/ DbFails \/ DbRecovers \/ Crash \/ Restart

Spec == Init /\ [][Next]_vars

--------------------------------------------------------------------------------
(***************************************************************************)
(* Properties                                                              *)
(***************************************************************************)

\* Every variable keeps its type.
TypeOK ==
  /\ {pipeDb, cache, pipeFile, db, file} \subseteq Seq(Items)
  /\ {dbUp, doneDb, stopDb, doneFile, threadDb, threadFile, detoured, left} \subseteq BOOLEAN
  /\ fails \in 0 .. MaxFails /\ ends \in 0 .. MaxEnds /\ cursor \in 0 .. Len(file)
  /\ caller \in [Producers -> [pc : {"Idle", "PushDb", "PushFile", "PushFileAndStart"},
                               item : Items \cup {NoItem}]]
  /\ dbPc \in {"Off", "Loop", "Read", "Persist", "FlushBatch", "Pop", "Flush", "Done"}
  /\ filePc \in {"Off", "Start", "Join", "Copy", "Clear", "TakeCache", "Read", "Write",
                 "Pop", "Done"}
  /\ mainPc \in {"Restore", "Remove", "Run", "JoinDb", "FlushDb", "Transfer", "EndFile",
                 "JoinFile", "Down"}
  /\ dbItem \in Items \cup {NoItem} /\ fileItem \in Items \cup {NoItem}
  /\ {accepted, strays, caught, forgone, repeats} \subseteq SUBSET Items

Held == ToSet(pipeDb) \cup ToSet(cache) \cup ToSet(pipeFile)

\* An item persist() returned true for is in memory or on disk until the process
\* crashes, whichever of the two threads has it, and on disk once stop() has
\* returned.  Left out are the items pushed to the database's pipe after its thread
\* was told to end, and those a takeover had in hand while stop() ran.
NothingLost == accepted \subseteq Held \cup OnDisk \cup strays \cup caught \cup forgone

\* No item is stored twice, in the database or in the file, unless the process
\* ended while it was restoring the file, stop() ran during a takeover, or a database
\* thread left behind went on with the item it had read.
OnceOnly ==
  ~left /\ mainPc \notin {"Restore", "Remove"} =>
    \A i, j \in DOMAIN (db \o file) :
      i < j /\ (db \o file)[i] = (db \o file)[j] => (db \o file)[i] \in repeats \cup caught

\* Until the process first ends, items are stored in the order persist() was called,
\* the database first and then the file: the last state of an order is the last one stored.  An
\* item that finds the database's pipe full is put on the file's at once, ahead of
\* what it passes by, and a database thread left behind works on the cache that was
\* taken over: from there on the order is not promised.
StoredInOrder ==
  mainPc = "Run" /\ ends = 0 /\ ~detoured /\ ~left =>
    \A i, j \in DOMAIN (db \o file) : i < j => (db \o file)[i] < (db \o file)[j]

\* A storage file is put away only when everything in it is in the database.
FileKept == [][file' = <<>> => ToSet(file) \subseteq ToSet(db)]_vars

(***************************************************************************)
(* Fairness: both threads and the callers keep running; the database need  *)
(* not come back.                                                          *)
(***************************************************************************)
FairSpec ==
  /\ Spec
  /\ WF_vars(DbThread) /\ WF_vars(FileThread)
  /\ WF_vars(StopJoinDb \/ StopFlushItem \/ StopFlushFails \/ StopTransfer
             \/ StopEndFile \/ StopJoinFile)
  /\ \A p \in Producers : WF_vars(PushDb(p) \/ PushFile(p))

\* Whatever persist() accepts is stored in the end, although the database may never
\* come back: "Flush batch every 100 ms".  Left out is what NothingLost leaves out.
Stored ==
  \A i \in Items : i \in accepted ~> i \in OnDisk \cup strays \cup caught \cup forgone

--------------------------------------------------------------------------------
\* What is stored is stored right: once, and in the order of persist().
StoredRight == TypeOK /\ OnceOnly /\ StoredInOrder

\* What is accepted reaches the disk and stays there.
Durable == Stored /\ FileKept
================================================================================
