-------------------------- MODULE OrderStorageProofs ---------------------------
(***************************************************************************)
(* Proofs about the order storage, for any number of callers and items,    *)
(* any sizes of batches and pipes, and any number of failures, crashes and *)
(* restarts: nothing persist() has accepted is lost, and a storage file is *)
(* put away only once the database has all of it.  With one caller at a    *)
(* time nothing is stored twice or out of order.                           *)
(***************************************************************************)
EXTENDS OrderStorage, SequenceTheorems, WellFoundedInduction, TLAPS

\* The main thread is in stop(), and it is outside of a run.
Stopping == {"JoinDb", "FlushDb", "Transfer", "EndFile", "JoinFile"}

Outside == {"Restore", "Remove", "Down"}

\* The file thread after terminateThreadDb, and once it has all of the database's
\* pipe and cache.
Joined == {"Copy", "Clear", "TakeCache", "Read", "Write", "Pop", "Done"}

Serving == {"Read", "Write", "Pop", "Done"}

\* The database thread is in the middle of an item; it has put it into the cache.
InHand == {"Persist", "FlushBatch", "Pop"}

Entered == {"FlushBatch", "Pop"}

\* Items that need no memory any more: on disk, or counted as lost.
Settled == OnDisk \cup strays \cup caught \cup forgone

AllSettled == accepted \subseteq Settled

\* Only accepted items are anywhere, and only callers inside persist() bring more.
Known ==
  /\ Held \cup OnDisk \subseteq accepted
  /\ dbPc \in InHand => dbItem \in accepted
  /\ filePc = "Write" => fileItem \in accepted
  /\ \A p \in Producers : caller[p].pc # "Idle" => caller[p].item \in Items
  /\ mainPc # "Run" => \A p \in Producers : caller[p] = Idle

\* Outside of a run there are no threads and no pipes.
OutsideSound ==
  mainPc \in Outside =>
    /\ dbPc = "Off" /\ filePc = "Off" /\ ~threadFile
    /\ pipeDb = <<>> /\ pipeFile = <<>>
    /\ AllSettled

\* What init() has read of the file is in the cache or in the database.
RestoreSound ==
  /\ mainPc = "Restore" =>
       /\ ToSet(cache) \subseteq ToSet(file)
       /\ \A i \in 1 .. cursor : file[i] \in ToSet(db) \cup ToSet(cache)
  /\ mainPc = "Remove" => ToSet(file) \subseteq ToSet(db)
  /\ mainPc = "Down" => cache = <<>> /\ cursor = 0

\* The flags tell where the threads are.
FlagsSound ==
  /\ ~threadFile => filePc = "Off"
  /\ filePc \in {"Off", "Start"} => ~stopDb
  /\ filePc \notin {"Off", "Start"} => doneDb /\ stopDb
  /\ dbPc \notin {"Off", "Done"} => threadDb \/ left
  /\ filePc \in Joined => ~threadDb

\* The item in the database thread's hands is still first on its pipe, unless the
\* pipe has been taken over; then only strays are on it.
DbSound ==
  /\ dbPc \in InHand =>
       \/ pipeDb # <<>> /\ Head(pipeDb) = dbItem
       \/ doneDb /\ ToSet(pipeDb) \subseteq Settled
  /\ dbPc \in Entered => dbItem \in ToSet(cache) \cup ToSet(pipeFile) \cup Settled

\* What the takeover leaves on the database's pipe has been copied or strayed, and the
\* file thread pops what it has written.
FileSound ==
  /\ filePc = "Clear" => ToSet(pipeDb) \subseteq ToSet(pipeFile) \cup Settled
  /\ filePc \in Serving \cup {"TakeCache"} => ToSet(pipeDb) \subseteq Settled
  /\ filePc \in Serving /\ mainPc = "Run" /\ ~left => cache = <<>>
  /\ filePc \in {"Write", "Pop"} => pipeFile # <<>>
  /\ filePc = "Write" => Head(pipeFile) \in {fileItem} \cup Settled
  /\ filePc = "Pop" => Head(pipeFile) \in Settled

\* stop() has everything settled, or no takeover to fear, or one that is over.
Early ==
  /\ filePc \in {"Off", "Start"}
  /\ mainPc = "FlushDb" => cache = <<>>
  /\ mainPc = "Transfer" => ToSet(cache) \subseteq ToSet(pipeDb)
  /\ mainPc \in {"EndFile", "JoinFile"} =>
       pipeDb = <<>> /\ ToSet(cache) \subseteq ToSet(pipeFile)

Late ==
  /\ filePc \in Serving /\ dbPc \in {"Off", "Done"}
  /\ ToSet(pipeDb) \cup ToSet(cache) \subseteq Settled

StopSound ==
  mainPc \in Stopping =>
    /\ ends < MaxEnds /\ doneDb
    /\ mainPc # "JoinDb" => dbPc \in {"Off", "Done"}
    /\ AllSettled \/ Early \/ Late

\* The conjunction that is inductive.
StorageInv ==
  /\ TypeOK
  /\ NothingLost
  /\ Known /\ OutsideSound /\ RestoreSound /\ FlagsSound
  /\ DbSound /\ FileSound /\ StopSound

--------------------------------------------------------------------------------
(***************************************************************************)
(* What the operations of a pipe and of the cache do to the items in them. *)
(***************************************************************************)

\* The items of a sequence, and of the empty one.
LEMMA ItemsOf ==
  ASSUME NEW S, NEW s \in Seq(S)
  PROVE  /\ ToSet(s) \subseteq S
         /\ s = <<>> <=> ToSet(s) = {}
         /\ \A i \in 1 .. Len(s) : s[i] \in ToSet(s)
         /\ \A x \in ToSet(s) : \E i \in 1 .. Len(s) : x = s[i]
         /\ ToSet(s) = {s[i] : i \in 1 .. Len(s)}
BY DEF ToSet

\* An empty pipe has no items.
LEMMA ItemsOfEmpty == ToSet(<<>>) = {}
BY DEF ToSet

\* persist() pushes an item to the back.
LEMMA ItemsOfAppend ==
  ASSUME NEW S, NEW s \in Seq(S), NEW e \in S
  PROVE  /\ Append(s, e) \in Seq(S)
         /\ ToSet(Append(s, e)) = ToSet(s) \cup {e}
         /\ Append(s, e) # <<>>
         /\ s # <<>> => Head(Append(s, e)) = Head(s)
         /\ Len(Append(s, e)) = Len(s) + 1
<1>1. Append(s, e) \in Seq(S) /\ Len(Append(s, e)) = Len(s) + 1 /\ Append(s, e) # <<>>
  BY AppendProperties
<1>2. \A i \in 1 .. Len(s) : Append(s, e)[i] = s[i]
  BY AppendProperties
<1>3. Append(s, e)[Len(s) + 1] = e
  BY AppendProperties
<1>4. ToSet(Append(s, e)) = {Append(s, e)[i] : i \in 1 .. Len(s) + 1}
  BY <1>1 DEF ToSet
<1>5. ToSet(s) = {s[i] : i \in 1 .. Len(s)}
  BY ItemsOf
<1>6. s # <<>> => Head(Append(s, e)) = Head(s)
  BY HeadTailAppend
<1>7. ASSUME NEW x PROVE x \in ToSet(Append(s, e)) <=> x \in ToSet(s) \cup {e}
  BY <1>2, <1>3, <1>4, <1>5
<1> QED BY <1>1, <1>6, <1>7

\* One pipe in front of another.
LEMMA ItemsOfConcat ==
  ASSUME NEW S, NEW s \in Seq(S), NEW t \in Seq(S)
  PROVE  /\ s \o t \in Seq(S)
         /\ ToSet(s \o t) = ToSet(s) \cup ToSet(t)
         /\ s \o t # <<>> => Head(s \o t) = IF s = <<>> THEN Head(t) ELSE Head(s)
         /\ Len(s \o t) = Len(s) + Len(t)
<1>1. s \o t \in Seq(S) /\ Len(s \o t) = Len(s) + Len(t)
  BY ConcatProperties
<1>2. \A i \in 1 .. Len(s) + Len(t) :
        (s \o t)[i] = IF i <= Len(s) THEN s[i] ELSE t[i - Len(s)]
  BY ConcatProperties
<1>3. ToSet(s \o t) = {(s \o t)[i] : i \in 1 .. Len(s) + Len(t)}
  BY <1>1 DEF ToSet
<1>4. ToSet(s) = {s[i] : i \in 1 .. Len(s)} /\ ToSet(t) = {t[i] : i \in 1 .. Len(t)}
  BY ItemsOf
<1>5. ToSet(t) \subseteq ToSet(s \o t)
  <2>1. SUFFICES ASSUME NEW j \in 1 .. Len(t) PROVE t[j] \in ToSet(s \o t)
    BY ItemsOf
  <2>2. Len(s) + j \in 1 .. Len(s) + Len(t) /\ (s \o t)[Len(s) + j] = t[j]
    BY <1>2
  <2> QED BY <1>1, <2>2, ItemsOf
<1>6. s \o t # <<>> => Head(s \o t) = IF s = <<>> THEN Head(t) ELSE Head(s)
  BY <1>1, <1>2
<1>7. ToSet(s \o t) \subseteq ToSet(s) \cup ToSet(t)
  BY <1>2, <1>3, <1>4
<1>8. ToSet(s) \subseteq ToSet(s \o t)
  BY <1>2, <1>3, <1>4
<1> QED BY <1>1, <1>5, <1>6, <1>7, <1>8

\* The first item is popped.
LEMMA ItemsOfPop ==
  ASSUME NEW S, NEW s \in Seq(S), s # <<>>
  PROVE  /\ Head(s) \in S
         /\ Head(s) \in ToSet(s)
         /\ Tail(s) \in Seq(S)
         /\ ToSet(s) = {Head(s)} \cup ToSet(Tail(s))
<1>1. Tail(s) \in Seq(S) /\ Len(Tail(s)) = Len(s) - 1 /\ Head(s) = s[1]
  BY HeadTailProperties
<1>2. \A i \in 1 .. Len(Tail(s)) : Tail(s)[i] = s[i + 1]
  BY HeadTailProperties
<1>3. Head(s) \in ToSet(s) /\ Head(s) \in S
  BY <1>1, ItemsOf
<1>4. ToSet(Tail(s)) \subseteq ToSet(s)
  <2>1. \A u \in Seq(S) : ToSet(u) = {u[i] : i \in 1 .. Len(u)}
    BY ItemsOf
  <2>2. ToSet(Tail(s)) = {Tail(s)[i] : i \in 1 .. Len(Tail(s))}
    BY <1>1, <2>1, Zenon
  <2>3. SUFFICES ASSUME NEW i \in 1 .. Len(Tail(s)) PROVE Tail(s)[i] \in ToSet(s)
    BY <2>2
  <2>4. i + 1 \in 1 .. Len(s) /\ Tail(s)[i] = s[i + 1]
    BY <1>1, <1>2
  <2> QED BY <2>4, ItemsOf
<1>5. ASSUME NEW i \in 1 .. Len(s) PROVE s[i] \in {Head(s)} \cup ToSet(Tail(s))
  <2>1. CASE i = 1
    BY <2>1, <1>1
  <2>2. CASE i # 1
    <3>1. i - 1 \in 1 .. Len(Tail(s)) /\ Tail(s)[i - 1] = s[i]
      BY <2>2, <1>1, <1>2
    <3> QED BY <3>1, <1>1, ItemsOf
  <2> QED BY <2>1, <2>2
<1> QED BY <1>1, <1>3, <1>4, <1>5, ItemsOf

\* The first n items go into the database, the others stay in the cache.
LEMMA ItemsOfSplit ==
  ASSUME NEW S, NEW s \in Seq(S), NEW n \in 0 .. Len(s)
  PROVE  /\ SubSeq(s, 1, n) \in Seq(S)
         /\ SubSeq(s, n + 1, Len(s)) \in Seq(S)
         /\ ToSet(s) = ToSet(SubSeq(s, 1, n)) \cup ToSet(SubSeq(s, n + 1, Len(s)))
         /\ n = Len(s) => SubSeq(s, n + 1, Len(s)) = <<>>
<1>1. SubSeq(s, 1, n) \in Seq(S) /\ SubSeq(s, n + 1, Len(s)) \in Seq(S)
  OBVIOUS
<1>2. SubSeq(s, 1, n) \o SubSeq(s, n + 1, Len(s)) = SubSeq(s, 1, Len(s))
  <2>1. 1 \in 1 .. Len(s) + 1 /\ n \in 1 - 1 .. Len(s) /\ Len(s) \in n .. Len(s)
    OBVIOUS
  <2>2. \A m \in 1 .. Len(s) + 1 : \A k \in m - 1 .. Len(s) : \A l \in k .. Len(s) :
          SubSeq(s, m, k) \o SubSeq(s, k + 1, l) = SubSeq(s, m, l)
    BY ConcatAdjacentSubSeq
  <2> QED BY <2>1, <2>2
<1>3. SubSeq(s, 1, Len(s)) = s
  BY SubSeqFull
<1>4. n = Len(s) => SubSeq(s, n + 1, Len(s)) = <<>>
  BY SubSeqEmpty
<1>5. ToSet(SubSeq(s, 1, n) \o SubSeq(s, n + 1, Len(s)))
        = ToSet(SubSeq(s, 1, n)) \cup ToSet(SubSeq(s, n + 1, Len(s)))
  <2>1. \A u, v \in Seq(S) : ToSet(u \o v) = ToSet(u) \cup ToSet(v)
    BY ItemsOfConcat
  <2> QED BY <1>1, <2>1, Zenon
<1> QED BY <1>1, <1>2, <1>3, <1>4, <1>5

CommitSound(d, c, e, r) ==
  /\ e \in Seq(Items) /\ r \in Seq(Items)
  /\ ToSet(e) \cup ToSet(r) = ToSet(d) \cup ToSet(c)
  /\ ToSet(d) \subseteq ToSet(e) /\ ToSet(r) \subseteq ToSet(c)

\* A batch goes from the cache into the database: nothing is lost in between.
LEMMA ItemsOfCommit ==
  ASSUME NEW d \in Seq(Items), NEW c \in Seq(Items), NEW n \in 0 .. Len(c)
  PROVE  CommitSound(d, c, d \o SubSeq(c, 1, n), SubSeq(c, n + 1, Len(c)))
<1> DEFINE a == SubSeq(c, 1, n)
           b == SubSeq(c, n + 1, Len(c))
<1>1. a \in Seq(Items) /\ b \in Seq(Items) /\ ToSet(c) = ToSet(a) \cup ToSet(b)
  BY ItemsOfSplit
<1> HIDE DEF a, b
<1>2. d \o a \in Seq(Items) /\ ToSet(d \o a) = ToSet(d) \cup ToSet(a)
  BY <1>1, ItemsOfConcat
<1>3. CommitSound(d, c, d \o a, b)
  BY <1>1, <1>2 DEF CommitSound
<1> QED BY <1>3 DEF a, b

\* The items of a loop that puts one after the other to the front.
LEMMA ItemsOfReverse ==
  ASSUME NEW S, NEW s \in Seq(S)
  PROVE  /\ Reverse(s) \in Seq(S)
         /\ ToSet(Reverse(s)) = ToSet(s)
<1>1. Reverse(s) \in Seq(S) /\ Len(Reverse(s)) = Len(s)
  BY DEF Reverse
<1>2. \A i \in 1 .. Len(s) : Reverse(s)[i] = s[(Len(s) - i) + 1]
  BY DEF Reverse
<1>3. ASSUME NEW i \in 1 .. Len(s) PROVE Reverse(s)[i] \in ToSet(s)
  <2>1. (Len(s) - i) + 1 \in 1 .. Len(s)
    OBVIOUS
  <2> QED BY <1>2, <2>1, ItemsOf
<1>4. ASSUME NEW i \in 1 .. Len(s) PROVE s[i] \in ToSet(Reverse(s))
  <2>1. (Len(s) - i) + 1 \in 1 .. Len(s) /\ Reverse(s)[(Len(s) - i) + 1] = s[i]
    BY <1>2
  <2> QED BY <1>1, <2>1, ItemsOf
<1>5. ToSet(Reverse(s)) = {Reverse(s)[i] : i \in 1 .. Len(s)}
  BY <1>1 DEF ToSet
<1>6. ToSet(s) = {s[i] : i \in 1 .. Len(s)}
  BY ItemsOf
<1> QED BY <1>1, <1>3, <1>4, <1>5, <1>6

\* A set of numbers with a bound has a largest one: the number of the next item is one more.
LEMMA MaxBounds ==
  ASSUME NEW N \in Nat, NEW T \in SUBSET (0 .. N), T # {}
  PROVE  Max(T) \in T /\ \A y \in T : y <= Max(T)
<1> DEFINE Bounds == {k \in Nat : \A y \in T : y <= k}
<1>1. N \in Bounds
  OBVIOUS
<1>2. PICK m \in Bounds : \A k \in Bounds : ~(<<k, m>> \in OpToRel(<, Nat))
  <2>1. Bounds \subseteq Nat /\ Bounds # {}
    BY <1>1
  <2> HIDE DEF Bounds
  <2> QED BY <2>1, NatLessThanWellFounded, WFMin
<1>3. \A k \in Bounds : m <= k
  <2>1. Bounds \subseteq Nat
    OBVIOUS
  <2> HIDE DEF Bounds
  <2>2. \A k \in Bounds : ~(k < m)
    BY <1>2, <2>1, Zenon DEF OpToRel
  <2> QED BY <2>1, <2>2
<1>4. m \in T
  <2>1. SUFFICES ASSUME m \notin T PROVE FALSE
    OBVIOUS
  <2>2. \A y \in T : y \in Nat /\ y <= m /\ y # m
    BY <2>1
  <2>3. PICK y \in T : TRUE
    OBVIOUS
  <2>4. m # 0 /\ m - 1 \in Nat
    BY <2>2, <2>3
  <2>5. m - 1 \in Bounds
    BY <2>2, <2>4
  <2> QED BY <2>5, <1>3
<1> QED BY <1>4 DEF Max

--------------------------------------------------------------------------------
(***************************************************************************)
(* Every variable keeps its type.                                          *)
(***************************************************************************)

\* The parts of TypeOK: the sequences, the flags, and the rest.
SequencesTyped ==
  /\ pipeDb \in Seq(Items) /\ cache \in Seq(Items) /\ pipeFile \in Seq(Items)
  /\ db \in Seq(Items) /\ file \in Seq(Items)

FlagsTyped ==
  /\ dbUp \in BOOLEAN /\ doneDb \in BOOLEAN /\ stopDb \in BOOLEAN
  /\ doneFile \in BOOLEAN /\ threadDb \in BOOLEAN /\ threadFile \in BOOLEAN
  /\ detoured \in BOOLEAN /\ left \in BOOLEAN

HistoryTyped ==
  /\ accepted \subseteq Items /\ strays \subseteq Items /\ caught \subseteq Items
  /\ forgone \subseteq Items /\ repeats \subseteq Items

OthersTyped ==
  /\ fails \in 0 .. MaxFails /\ ends \in 0 .. MaxEnds /\ cursor \in 0 .. Len(file)
  /\ caller \in [Producers -> [pc : {"Idle", "PushDb", "PushFile", "PushFileAndStart"},
                               item : Items \cup {NoItem}]]
  /\ dbPc \in {"Off", "Loop", "Read", "Persist", "FlushBatch", "Pop", "Flush", "Done"}
  /\ filePc \in {"Off", "Start", "Join", "Copy", "Clear", "TakeCache", "Read", "Write",
                 "Pop", "Done"}
  /\ mainPc \in {"Restore", "Remove", "Run", "JoinDb", "FlushDb", "Transfer", "EndFile",
                 "JoinFile", "Down"}
  /\ dbItem \in Items \cup {NoItem} /\ fileItem \in Items \cup {NoItem}

\* TypeOK is the conjunction of its parts, in this state and in the next.
LEMMA TypeParts == TypeOK <=> SequencesTyped /\ FlagsTyped /\ HistoryTyped /\ OthersTyped
BY DEF TypeOK, SequencesTyped, FlagsTyped, HistoryTyped, OthersTyped

\* The same of the next state.
LEMMA TypePartsNext ==
  SequencesTyped' /\ FlagsTyped' /\ HistoryTyped' /\ OthersTyped' => TypeOK'
BY DEF TypeOK, SequencesTyped, FlagsTyped, HistoryTyped, OthersTyped

\* What flushToDb commits is a prefix of the cache.
LEMMA FlushesBounded ==
  ASSUME NEW s \in Seq(Items) PROVE Flushes(s) \subseteq 0 .. Len(s)
BY DEF Flushes

\* The next item is one, as long as the bound on items allows it.
LEMMA NextItemType ==
  ASSUME TypeOK, NextItem <= MaxItems PROVE NextItem \in Items
<1> DEFINE T == {NoItem} \cup accepted \cup {caller[p].item : p \in Producers}
<1>1. T \in SUBSET (0 .. MaxItems) /\ T # {} /\ MaxItems \in Nat
  BY StorageAssumption DEF TypeOK, Items, NoItem
<1>2. Max(T) \in T
  <2> HIDE DEF T
  <2> QED BY <1>1, MaxBounds
<1>3. Max(T) \in Nat
  BY <1>1, <1>2
<1>4. NextItem = 1 + Max(T)
  BY DEF NextItem
<1> HIDE DEF T
<1> QED BY <1>1, <1>3, <1>4 DEF Items

\* A caller puts the item it was given on a pipe.
LEMMA CallersTyped ==
  ASSUME TypeOK, Known, NEW p \in Producers, Persist(p) \/ PushDb(p) \/ PushFile(p)
  PROVE  TypeOK'
<1> USE DEF pipes, disk, flags, dbThread, fileThread, main, history, Idle, NoItem
<1>1. CASE Persist(p)
  <2>1. NextItem \in Items
    BY <1>1, NextItemType DEF Persist
  <2> QED BY <1>1, <2>1 DEF Persist, TypeOK
<1>2. CASE PushDb(p)
  <2>1. caller[p].item \in Items
    BY <1>2 DEF PushDb, Known
  <2>2. pipeDb' \in Seq(Items)
    BY <1>2, <2>1, ItemsOfAppend, TypeParts DEF PushDb, SequencesTyped
  <2> QED BY <1>2, <2>1, <2>2 DEF PushDb, Accept, TypeOK
<1>3. CASE PushFile(p)
  <2>1. caller[p].item \in Items
    BY <1>3 DEF PushFile, Known
  <2>2. pipeFile' \in Seq(Items)
    BY <1>3, <2>1, ItemsOfAppend, TypeParts DEF PushFile, SequencesTyped
  <2>3. detoured' \in BOOLEAN
    BY <1>3 DEF PushFile
  <2>6. SequencesTyped'
    BY <1>3, <2>1, <2>2, <2>3, TypeParts DEF PushFile, Accept, StartFileThread, SequencesTyped
  <2>7. FlagsTyped'
    BY <1>3, <2>1, <2>2, <2>3, TypeParts DEF PushFile, Accept, StartFileThread, FlagsTyped
  <2>8. HistoryTyped'
    BY <1>3, <2>1, <2>2, <2>3, TypeParts DEF PushFile, Accept, StartFileThread, HistoryTyped
  <2>9. OthersTyped'
    BY <1>3, <2>1, <2>2, <2>3, TypeParts DEF PushFile, Accept, StartFileThread, OthersTyped
  <2> QED BY <2>6, <2>7, <2>8, <2>9, TypePartsNext
<1> QED BY <1>1, <1>2, <1>3

\* What the database thread reads, caches and commits are items.
LEMMA DbThreadTyped ==
  ASSUME TypeOK, Known, DbThread PROVE TypeOK'
<1> USE DEF pipes, disk, flags, dbThread, fileThread, main, history
<1>1. CASE DbLoop
  BY <1>1 DEF DbLoop, TypeOK
<1>2. CASE DbRead
  <2>1. dbItem' \in Items \cup {NoItem}
    BY <1>2, ItemsOfPop, TypeParts DEF DbRead, SequencesTyped, OthersTyped
  <2> QED BY <1>2, <2>1 DEF DbRead, TypeOK
<1>3. CASE DbPersist
  <2>1. dbItem \in Items
    BY <1>3 DEF DbPersist, Known, InHand, TypeOK
  <2>2. cache' \in Seq(Items)
    <3>1. cache \in Seq(Items) /\ Append(cache, dbItem) \in Seq(Items)
      BY <2>1, ItemsOfAppend, TypeParts DEF SequencesTyped
    <3> QED BY <1>3, <3>1 DEF DbPersist
  <2> QED BY <1>3, <2>2 DEF DbPersist, TypeOK
<1>4. CASE DbCommit
  <2>1. PICK n \in 0 .. Len(cache) : Commit(n)
    BY <1>4, StorageAssumption DEF DbCommit, TypeOK
  <2>2. CommitSound(db, cache, db', cache')
    BY <2>1, ItemsOfCommit, TypeParts DEF Commit, SequencesTyped
  <2> QED BY <1>4, <2>2 DEF DbCommit, CommitSound, TypeOK
<1>5. CASE DbFlushed
  BY <1>5 DEF DbFlushed, TypeOK
<1>6. CASE DbFlushFails
  <2>1. UNCHANGED <<pipes, db, file, dbUp, fails, doneDb, stopDb, doneFile, threadDb, caller,
                    dbItem, fileItem, main, history>>
    BY <1>6 DEF DbFlushFails
  <2>2. /\ dbPc' \in {"Loop", "Pop"} /\ threadFile' \in {TRUE, threadFile}
        /\ filePc' \in {"Start", filePc}
    BY <1>6 DEF DbFlushFails, StartFileThread
  <2>3. SequencesTyped' /\ HistoryTyped'
    BY <2>1, TypeParts DEF SequencesTyped, HistoryTyped
  <2>4. FlagsTyped'
    BY <2>1, <2>2, TypeParts DEF FlagsTyped
  <2>5. OthersTyped'
    BY <2>1, <2>2, TypeParts DEF OthersTyped
  <2> QED BY <2>3, <2>4, <2>5, TypePartsNext
<1>7. CASE DbPop
  <2>1. pipeDb' \in Seq(Items)
    BY <1>7, ItemsOfPop, TypeParts DEF DbPop, SequencesTyped
  <2> QED BY <1>7, <2>1 DEF DbPop, TypeOK
<1> QED BY <1>1, <1>2, <1>3, <1>4, <1>5, <1>6, <1>7 DEF DbThread

\* So are what the file thread takes over and writes.
LEMMA FileThreadTyped ==
  ASSUME TypeOK, Known, FileSound, FileThread PROVE TypeOK'
<1> USE DEF pipes, disk, flags, dbThread, fileThread, main, history
<1>1. CASE FileStart
  BY <1>1 DEF FileStart, TypeOK
<1>2. CASE FileJoin
  BY <1>2 DEF FileJoin, TypeOK
<1>3. CASE FileCopy
  <2>1. pipeFile' \in Seq(Items)
    BY <1>3, ItemsOfConcat, TypeParts DEF FileCopy, SequencesTyped
  <2> QED BY <1>3, <2>1 DEF FileCopy, TypeOK
<1>4. CASE FileClear
  BY <1>4 DEF FileClear, TypeOK
<1>5. CASE FileTakeCache
  <2>1. pipeFile' \in Seq(Items)
    BY <1>5, ItemsOfConcat, TypeParts DEF FileTakeCache, SequencesTyped
  <2> QED BY <1>5, <2>1 DEF FileTakeCache, TypeOK
<1>6. CASE FileRead
  <2>1. fileItem' \in Items \cup {NoItem}
    BY <1>6, ItemsOfPop, TypeParts DEF FileRead, SequencesTyped, OthersTyped
  <2> QED BY <1>6, <2>1 DEF FileRead, TypeOK
<1>7. CASE FileWrite
  <2>1. fileItem \in Items
    BY <1>7 DEF FileWrite, Known, TypeOK
  <2>2. file' \in Seq(Items) /\ Len(file') = Len(file) + 1
    BY <1>7, <2>1, ItemsOfAppend, TypeParts DEF FileWrite, SequencesTyped
  <2>3. cursor' \in 0 .. Len(file')
    BY <1>7, <2>2 DEF FileWrite, TypeOK
  <2> QED BY <1>7, <2>2, <2>3 DEF FileWrite, TypeOK
<1>8. CASE FilePop
  <2>1. pipeFile' \in Seq(Items)
    BY <1>8, ItemsOfPop, TypeParts DEF FilePop, FileSound, SequencesTyped
  <2>2. fileItem' \in Items \cup {NoItem}
    BY <1>8, <2>1, ItemsOfPop, TypeParts DEF FilePop, SequencesTyped, OthersTyped
  <2> QED BY <1>8, <2>1, <2>2 DEF FilePop, TypeOK
<1> QED BY <1>1, <1>2, <1>3, <1>4, <1>5, <1>6, <1>7, <1>8 DEF FileThread

\* An init() that fails leaves the lines it had in hand in the database or in the file.
LEMMA FailedRestore ==
  ASSUME TypeOK, RestoreFails
  PROVE  \E e, f \in Seq(Items) :
           /\ db' = db \o e /\ file' = file \o f
           /\ ToSet(e) \cup ToSet(f) \subseteq ToSet(cache)
<1>1. cache \in Seq(Items) /\ db \in Seq(Items)
  BY DEF TypeOK
<1>2. PICK n \in 0 .. Len(cache) :
        LET rest == SubSeq(cache, n + 1, Len(cache)) IN
        /\ db' = db \o SubSeq(cache, 1, n) \o (IF dbUp THEN Reverse(rest) ELSE <<>>)
        /\ file' = file \o (IF dbUp THEN <<>> ELSE rest)
  <2>1. Flushes(cache) \subseteq 0 .. Len(cache) /\ 0 \in 0 .. Len(cache)
    BY <1>1, FlushesBounded
  <2> QED BY <2>1 DEF RestoreFails
<1> DEFINE a == SubSeq(cache, 1, n)
           rest == SubSeq(cache, n + 1, Len(cache))
           w == IF dbUp THEN Reverse(rest) ELSE <<>>
           f == IF dbUp THEN <<>> ELSE rest
<1>3. a \in Seq(Items) /\ rest \in Seq(Items) /\ ToSet(a) \cup ToSet(rest) = ToSet(cache)
  BY <1>1, ItemsOfSplit
<1>4. db' = (db \o a) \o w /\ file' = file \o f
  BY <1>2
<1> HIDE DEF a, rest
<1>5. /\ w \in Seq(Items) /\ ToSet(w) \subseteq ToSet(rest)
      /\ f \in Seq(Items) /\ ToSet(f) \subseteq ToSet(rest)
  <2>1. Reverse(rest) \in Seq(Items) /\ ToSet(Reverse(rest)) = ToSet(rest)
    BY <1>3, ItemsOfReverse
  <2> QED BY <1>3, <2>1, ItemsOfEmpty
<1> HIDE DEF w, f
<1>6. (db \o a) \o w = db \o (a \o w)
  <2>1. \A s, t, u \in Seq(Items) : (s \o t) \o u = s \o (t \o u)
    BY ConcatAssociative
  <2> QED BY <1>1, <1>3, <1>5, <2>1, Zenon
<1>7. a \o w \in Seq(Items) /\ ToSet(a \o w) = ToSet(a) \cup ToSet(w)
  BY <1>3, <1>5, ItemsOfConcat
<1>8. ToSet(a \o w) \cup ToSet(f) \subseteq ToSet(cache)
  BY <1>3, <1>5, <1>7
<1> QED BY <1>4, <1>5, <1>6, <1>7, <1>8

\* init() reads lines that are there.
LEMMA RestoreTyped ==
  ASSUME TypeOK,
         \/ RestoreLine \/ RestoreFlush \/ RestoreFails \/ RestoreRemove
         \/ StartEmpty \/ StartWithoutDb
  PROVE  TypeOK'
<1> USE DEF pipes, disk, flags, dbThread, fileThread, main, history
<1>1. CASE RestoreLine
  <2> DEFINE c == Append(cache, file[cursor + 1])
  <2>1. c \in Seq(Items) /\ cursor' \in 0 .. Len(file)
    <3>1. file[cursor + 1] \in Items
      BY <1>1, ElementOfSeq DEF RestoreLine, TypeOK
    <3>2. c \in Seq(Items)
      BY <3>1, ItemsOfAppend, TypeParts DEF SequencesTyped
    <3>3. cursor < Len(file) /\ cursor' = cursor + 1
      BY <1>1 DEF RestoreLine
    <3>4. cursor \in Nat /\ Len(file) \in Nat
      BY DEF TypeOK
    <3> QED BY <3>2, <3>3, <3>4
  <2> HIDE DEF c
  <2>2. PICK n \in 0 .. Len(c) :
          db' = db \o SubSeq(c, 1, n) /\ cache' = SubSeq(c, n + 1, Len(c))
    <3>1. Flushes(c) \subseteq 0 .. Len(c) /\ 0 \in 0 .. Len(c)
      BY <2>1, FlushesBounded
    <3> QED BY <1>1, <3>1 DEF RestoreLine, c
  <2>3. CommitSound(db, c, db', cache')
    BY <2>1, <2>2, ItemsOfCommit, TypeParts DEF SequencesTyped
  <2> QED BY <1>1, <2>1, <2>3 DEF RestoreLine, CommitSound, TypeOK
<1>2. CASE RestoreFlush
  <2>1. Len(cache) \in 0 .. Len(cache)
    BY DEF TypeOK
  <2>2. CommitSound(db, cache, db', cache')
    BY <1>2, <2>1, ItemsOfCommit, TypeParts DEF RestoreFlush, Commit, SequencesTyped
  <2> QED BY <1>2, <2>2 DEF RestoreFlush, CommitSound, TypeOK
<1>3. CASE RestoreFails
  <2>1. PICK e, f \in Seq(Items) : db' = db \o e /\ file' = file \o f
    BY <1>3, FailedRestore
  <2>3. db' \in Seq(Items) /\ file' \in Seq(Items)
    BY <2>1, ItemsOfConcat, TypeParts DEF SequencesTyped
  <2>4. repeats' \in SUBSET Items
    BY <1>3, ItemsOf DEF RestoreFails, TypeOK
  <2>6. SequencesTyped'
    BY <1>3, <2>3, <2>4, TypeParts DEF RestoreFails, Ended, Idle, NoItem, SequencesTyped
  <2>7. FlagsTyped'
    BY <1>3, <2>3, <2>4, TypeParts DEF RestoreFails, Ended, Idle, NoItem, FlagsTyped
  <2>8. HistoryTyped'
    BY <1>3, <2>3, <2>4, TypeParts DEF RestoreFails, Ended, Idle, NoItem, HistoryTyped
  <2>9. OthersTyped'
    <3>1. Ended /\ ends < MaxEnds /\ UNCHANGED fails
      BY <1>3 DEF RestoreFails
    <3>2. 0 \in 0 .. Len(file')
      BY <2>3, LenProperties
    <3> QED BY <3>1, <3>2, TypeParts, StorageAssumption
        DEF Ended, Idle, NoItem, OthersTyped, SequencesTyped
  <2> QED BY <2>6, <2>7, <2>8, <2>9, TypePartsNext
<1>4. CASE RestoreRemove
  BY <1>4 DEF RestoreRemove, Started, TypeOK
<1>5. CASE StartEmpty
  BY <1>5 DEF StartEmpty, Started, TypeOK
<1>6. CASE StartWithoutDb
  BY <1>6 DEF StartWithoutDb, TypeOK
<1> QED BY <1>1, <1>2, <1>3, <1>4, <1>5, <1>6

\* stop() ends the process once, and only moves items.
LEMMA StopTyped ==
  ASSUME TypeOK, StopSound,
         \/ Stop \/ StopJoinDb \/ StopFlushItem \/ StopFlushFails
         \/ StopTransfer \/ StopEndFile \/ StopJoinFile
  PROVE  TypeOK'
<1> USE DEF pipes, disk, flags, dbThread, fileThread, main, history
<1>1. CASE Stop
  BY <1>1 DEF Stop, TypeOK
<1>2. CASE StopJoinDb
  <2>1. Reverse(cache) \in Seq(Items)
    BY ItemsOfReverse DEF TypeOK
  <2>2. pipeDb' \in Seq(Items)
    BY <1>2, <2>1, ItemsOfConcat, TypeParts DEF StopJoinDb, SequencesTyped
  <2>6. SequencesTyped'
    BY <1>2, <2>2, TypeParts DEF StopJoinDb, SequencesTyped
  <2>7. FlagsTyped'
    BY <1>2, <2>2, TypeParts DEF StopJoinDb, FlagsTyped
  <2>8. HistoryTyped'
    BY <1>2, <2>2, TypeParts DEF StopJoinDb, HistoryTyped
  <2>9. OthersTyped'
    BY <1>2, <2>2, TypeParts DEF StopJoinDb, OthersTyped
  <2> QED BY <2>6, <2>7, <2>8, <2>9, TypePartsNext
<1>3. CASE StopFlushItem
  <2> DEFINE c == Append(cache, Head(pipeDb))
  <2>1. Head(pipeDb) \in Items /\ Tail(pipeDb) \in Seq(Items)
    BY <1>3, ItemsOfPop, TypeParts DEF StopFlushItem, SequencesTyped
  <2>2. c \in Seq(Items)
    BY <2>1, ItemsOfAppend, TypeParts DEF SequencesTyped
  <2>3. db \o c \in Seq(Items)
    BY <2>2, ItemsOfConcat, TypeParts DEF SequencesTyped
  <2> HIDE DEF c
  <2>4. {pipeDb', cache', db'} \subseteq Seq(Items)
    <3>1. pipeDb' = Tail(pipeDb) /\ cache' \in {c, <<>>} /\ db' \in {db, db \o c}
      BY <1>3 DEF StopFlushItem, c
    <3>2. cache' \in Seq(Items)
      <4>1. <<>> \in Seq(Items)
        OBVIOUS
      <4> QED BY <2>2, <3>1, <4>1, Zenon
    <3>3. db \in Seq(Items)
      BY DEF TypeOK
    <3>4. db' \in Seq(Items)
      BY <2>3, <3>1, <3>3
    <3> QED BY <2>1, <3>1, <3>2, <3>4, Zenon
  <2> QED BY <1>3, <2>4 DEF StopFlushItem, TypeOK
<1>4. CASE StopFlushFails
  <2> DEFINE c == Append(cache, Head(pipeDb))
  <2>1. CASE UNCHANGED <<db, cache>>
    BY <1>4, <2>1 DEF StopFlushFails, TypeOK
  <2>2. CASE /\ pipeDb # <<>>
             /\ \E n \in Flushes(c) :
                  db' = db \o SubSeq(c, 1, n) /\ cache' = SubSeq(c, n + 1, Len(c))
    <3>1. c \in Seq(Items)
      BY <2>2, ItemsOfPop, ItemsOfAppend, TypeParts DEF SequencesTyped
    <3> HIDE DEF c
    <3>2. PICK n \in 0 .. Len(c) :
            db' = db \o SubSeq(c, 1, n) /\ cache' = SubSeq(c, n + 1, Len(c))
      BY <2>2, <3>1, FlushesBounded
    <3>3. CommitSound(db, c, db', cache')
      BY <3>1, <3>2, ItemsOfCommit, TypeParts DEF SequencesTyped
    <3> QED BY <1>4, <3>3 DEF CommitSound, StopFlushFails, TypeOK
  <2> QED BY <1>4, <2>1, <2>2 DEF StopFlushFails
<1>5. CASE StopTransfer
  <2>1. Reverse(pipeDb) \in Seq(Items)
    BY ItemsOfReverse DEF TypeOK
  <2>2. pipeFile' \in Seq(Items)
    BY <1>5, <2>1, ItemsOfConcat, TypeParts DEF StopTransfer, SequencesTyped
  <2> QED BY <1>5, <2>2 DEF StopTransfer, TypeOK
<1>6. CASE StopEndFile
  BY <1>6 DEF StopEndFile, TypeOK
<1>7. CASE StopJoinFile
  <2>1. file' \in Seq(Items)
    BY <1>7, ItemsOfConcat, TypeParts DEF StopJoinFile, SequencesTyped
  <2>2. ends' \in 0 .. MaxEnds
    BY <1>7, StorageAssumption DEF StopJoinFile, Ended, TypeOK, StopSound, Stopping
  <2>6. SequencesTyped'
    BY <1>7, <2>1, <2>2, TypeParts DEF StopJoinFile, Ended, Idle, NoItem, SequencesTyped
  <2>7. FlagsTyped'
    BY <1>7, <2>1, <2>2, TypeParts DEF StopJoinFile, Ended, Idle, NoItem, FlagsTyped
  <2>8. HistoryTyped'
    BY <1>7, <2>1, <2>2, TypeParts DEF StopJoinFile, Ended, Idle, NoItem, HistoryTyped
  <2>9. OthersTyped'
    BY <1>7, <2>1, <2>2, TypeParts DEF StopJoinFile, Ended, Idle, NoItem, OthersTyped
  <2> QED BY <2>6, <2>7, <2>8, <2>9, TypePartsNext
<1> QED BY <1>1, <1>2, <1>3, <1>4, <1>5, <1>6, <1>7

\* Every step keeps the types.
LEMMA TypesKept ==
  ASSUME TypeOK, Known, FileSound, StopSound, [Next]_vars PROVE TypeOK'
<1> USE DEF pipes, disk, flags, dbThread, fileThread, main, history
<1>1. ASSUME NEW p \in Producers, Persist(p) \/ PushDb(p) \/ PushFile(p) PROVE TypeOK'
  BY <1>1, CallersTyped
<1>2. CASE MainThread
  BY <1>2, RestoreTyped, StopTyped DEF MainThread
<1>3. CASE DbFails
  <2>1. fails' \in 0 .. MaxFails
    BY <1>3, StorageAssumption DEF DbFails, TypeOK
  <2>2. SequencesTyped' /\ HistoryTyped'
    BY <1>3, TypeParts DEF DbFails, SequencesTyped, HistoryTyped
  <2>3. FlagsTyped'
    BY <1>3, TypeParts DEF DbFails, FlagsTyped
  <2>4. OthersTyped'
    BY <1>3, <2>1, TypeParts DEF DbFails, OthersTyped
  <2> QED BY <2>2, <2>3, <2>4, TypePartsNext
<1>4. CASE DbRecovers
  BY <1>4 DEF DbRecovers, TypeOK
<1>5. CASE Crash
  <2>1. repeats' \subseteq Items
    BY <1>5, ItemsOf DEF Crash, TypeOK
  <2>2. SequencesTyped'
    BY <1>5, TypeParts DEF Crash, Ended, SequencesTyped
  <2>3. FlagsTyped'
    BY <1>5, TypeParts DEF Crash, Ended, FlagsTyped
  <2>4. HistoryTyped'
    BY <1>5, <2>1, TypeParts DEF Crash, Ended, HistoryTyped
  <2>5. OthersTyped'
    BY <1>5, TypeParts, StorageAssumption
       DEF Crash, Ended, Idle, NoItem, OthersTyped, SequencesTyped
  <2> QED BY <2>2, <2>3, <2>4, <2>5, TypePartsNext
<1>6. CASE Restart
  BY <1>6 DEF Restart, TypeOK
<1>7. CASE UNCHANGED vars
  BY <1>7 DEF vars, TypeOK
<1> QED BY <1>1, <1>2, <1>3, <1>4, <1>5, <1>6, <1>7, DbThreadTyped, FileThreadTyped DEF Next

--------------------------------------------------------------------------------
(***************************************************************************)
(* Every step keeps the invariant.                                         *)
(***************************************************************************)

\* persist() brings an item to one of the two pipes.
LEMMA CallersKeep ==
  ASSUME StorageInv, TypeOK',
         NEW p \in Producers, Persist(p) \/ PushDb(p) \/ PushFile(p)
  PROVE  StorageInv'
<1> USE DEF StorageInv, pipes, disk, flags, dbThread, fileThread, main, history
<1>1. CASE Persist(p)
  <2>1. /\ mainPc = "Run" /\ NextItem \in Items
        /\ \E s : caller' = [caller EXCEPT ![p] = [pc |-> s, item |-> NextItem]]
        /\ UNCHANGED <<pipes, disk, flags, dbThread, fileThread, main, history>>
    BY <1>1, NextItemType DEF Persist
  <2>2. Settled \subseteq Settled'
    BY <1>1 DEF Persist, Settled, OnDisk
  <2>3. Known'
    BY <2>1, <2>2 DEF Known, Held, OnDisk, InHand, Idle, TypeOK
  <2>4. /\ NothingLost' /\ OutsideSound' /\ RestoreSound' /\ FlagsSound'
        /\ DbSound' /\ FileSound' /\ StopSound'
    BY <2>1, <2>2
       DEF NothingLost, Held, OnDisk, OutsideSound, Outside, AllSettled, Settled,
           RestoreSound, FlagsSound, Joined, DbSound, InHand, Entered, FileSound,
           Serving, StopSound, Stopping, Early, Late
  <2> QED BY <2>3, <2>4
<1>2. CASE PushDb(p)
  <2>1. mainPc = "Run" /\ caller[p].item \in Items
    BY <1>2 DEF PushDb, Known, Idle
  <2>2. /\ accepted' = accepted \cup {caller[p].item} /\ caller' = [caller EXCEPT ![p] = Idle]
        /\ strays' = IF doneDb THEN strays \cup {caller[p].item} ELSE strays
        /\ UNCHANGED <<cache, pipeFile, disk, flags, dbThread, fileThread, main,
                       caught, forgone, detoured, left, repeats>>
    BY <1>2 DEF PushDb, Accept
  <2>3. /\ ToSet(pipeDb') = ToSet(pipeDb) \cup {caller[p].item}
        /\ pipeDb' # <<>>
        /\ pipeDb # <<>> => Head(pipeDb') = Head(pipeDb)
    BY <1>2, <2>1, ItemsOfAppend, TypeParts DEF PushDb, SequencesTyped
  <2>4. Settled \subseteq Settled'
    BY <1>2 DEF PushDb, Settled, OnDisk
  <2>5. Known'
    BY <2>1, <2>2, <2>3, <2>4 DEF Known, Held, OnDisk, InHand, Idle, TypeOK
  <2>6. DbSound'
    BY <2>1, <2>2, <2>3, <2>4, ItemsOfEmpty DEF DbSound, InHand, Entered, Settled
  <2>7. FileSound'
    BY <2>1, <2>2, <2>3, <2>4 DEF FileSound, Serving, Settled, FlagsSound
  <2>8. /\ NothingLost' /\ OutsideSound' /\ RestoreSound' /\ FlagsSound'
        /\ StopSound'
    BY <2>1, <2>2, <2>3, <2>4
       DEF NothingLost, Held, OnDisk, OutsideSound, Outside, AllSettled, Settled,
           RestoreSound, FlagsSound, Joined, StopSound, Stopping, Early, Late, Serving
  <2> QED BY <2>5, <2>6, <2>7, <2>8
<1>3. CASE PushFile(p)
  <2>1. mainPc = "Run" /\ caller[p].item \in Items
    BY <1>3 DEF PushFile, Known, Idle
  <2>2. /\ accepted' = accepted \cup {caller[p].item} /\ caller' = [caller EXCEPT ![p] = Idle]
        /\ UNCHANGED filePc \/ (~threadFile /\ threadFile' /\ filePc' = "Start")
        /\ threadFile => threadFile'
        /\ UNCHANGED <<pipeDb, cache, disk, doneDb, stopDb, doneFile, threadDb,
                       dbThread, fileItem, main, strays, caught, forgone, left, repeats>>
    BY <1>3 DEF PushFile, Accept, StartFileThread
  <2>3. /\ ToSet(pipeFile') = ToSet(pipeFile) \cup {caller[p].item}
        /\ pipeFile' # <<>>
        /\ pipeFile # <<>> => Head(pipeFile') = Head(pipeFile)
    BY <1>3, <2>1, ItemsOfAppend, TypeParts DEF PushFile, SequencesTyped
  <2>4. Settled \subseteq Settled'
    BY <1>3 DEF PushFile, Settled, OnDisk
  <2>5. Known'
    BY <2>1, <2>2, <2>3, <2>4 DEF Known, Held, OnDisk, InHand, Idle, TypeOK
  <2>6. StopSound'
    BY <2>1, <2>2, <2>3, <2>4 DEF StopSound, Stopping, Early, Late, Serving, AllSettled
  <2>7. /\ NothingLost' /\ OutsideSound' /\ RestoreSound' /\ FlagsSound'
        /\ DbSound' /\ FileSound'
    BY <2>1, <2>2, <2>3, <2>4
       DEF NothingLost, Held, OnDisk, OutsideSound, Outside, AllSettled, Settled,
           RestoreSound, FlagsSound, Joined, DbSound, InHand, Entered, FileSound,
           Serving
  <2> QED BY <2>5, <2>6, <2>7
<1> QED BY <1>1, <1>2, <1>3

\* The database thread moves items through the cache into the database.
LEMMA DbThreadKeeps ==
  ASSUME StorageInv, TypeOK',
         DbThread
  PROVE  StorageInv'
<1> USE DEF StorageInv, pipes, disk, flags, dbThread, fileThread, main, history
<1>1. CASE DbLoop
  <2>1. /\ dbPc = "Loop" /\ dbPc' \in {"Done", "Read"}
        /\ UNCHANGED <<pipes, disk, flags, caller, dbItem, fileThread, main, history>>
    BY <1>1 DEF DbLoop
  <2>2. Settled \subseteq Settled'
    BY <1>1 DEF DbLoop, Settled, OnDisk
  <2>3. /\ NothingLost' /\ Known' /\ OutsideSound' /\ RestoreSound'
        /\ FlagsSound' /\ DbSound' /\ FileSound' /\ StopSound'
    BY <2>1, <2>2
       DEF NothingLost, Held, OnDisk, Known, InHand, OutsideSound, Outside, AllSettled,
           Settled, RestoreSound, FlagsSound, Joined, DbSound, Entered, FileSound,
           Serving, StopSound, Stopping, Early, Late
  <2> QED BY <2>3
<1>2. CASE DbRead
  <2>1. /\ dbPc = "Read"
        /\ \/ dbPc' = "Flush"
           \/ /\ dbPc' = "Persist" /\ pipeDb # <<>>
              /\ dbItem' = Head(pipeDb) /\ dbItem' \in ToSet(pipeDb)
        /\ UNCHANGED <<pipes, disk, flags, caller, fileThread, main, history>>
    BY <1>2, ItemsOfPop, TypeParts DEF DbRead, SequencesTyped
  <2>2. Settled \subseteq Settled'
    BY <1>2 DEF DbRead, Settled, OnDisk
  <2>3. /\ NothingLost' /\ Known' /\ OutsideSound' /\ RestoreSound'
        /\ FlagsSound' /\ DbSound' /\ FileSound' /\ StopSound'
    BY <2>1, <2>2
       DEF NothingLost, Held, OnDisk, Known, InHand, OutsideSound, Outside, AllSettled,
           Settled, RestoreSound, FlagsSound, Joined, DbSound, Entered, FileSound,
           Serving, StopSound, Stopping, Early, Late
  <2> QED BY <2>3
<1>3. CASE DbPersist
  <2>1. /\ dbPc = "Persist" /\ dbItem \in Items
        /\ UNCHANGED <<pipeDb, pipeFile, disk, flags, caller, dbItem, fileThread, main,
                       history>>
    BY <1>3 DEF DbPersist, Known, InHand, TypeOK
  <2>2. /\ \/ dbPc' = "Read" /\ ToSet(cache') = ToSet(cache)
           \/ /\ dbPc' \in {"Pop", "FlushBatch"}
              /\ ToSet(cache') = ToSet(cache) \cup {dbItem}
    <3>1. ToSet(Append(cache, dbItem)) = ToSet(cache) \cup {dbItem}
      BY <2>1, ItemsOfAppend, TypeParts DEF SequencesTyped
    <3> QED BY <1>3, <3>1 DEF DbPersist
  <2>3. Settled \subseteq Settled'
    BY <1>3 DEF DbPersist, Settled, OnDisk
  <2>4. RestoreSound'
    BY <2>1, <2>2, <2>3 DEF RestoreSound, OutsideSound, Outside
  <2>5. FileSound'
    BY <2>1, <2>2, <2>3 DEF FileSound, Serving, FlagsSound, Joined
  <2>6. /\ NothingLost' /\ Known' /\ OutsideSound' /\ FlagsSound'
        /\ DbSound' /\ StopSound'
    BY <2>1, <2>2, <2>3
       DEF NothingLost, Held, OnDisk, Known, InHand, OutsideSound, Outside, AllSettled,
           Settled, FlagsSound, Joined, DbSound, Entered, StopSound, Stopping, Early,
           Late, Serving
  <2> QED BY <2>4, <2>5, <2>6
<1>4. CASE DbCommit
  <2>1. /\ dbPc \in {"Flush", "FlushBatch"} /\ cache # <<>>
        /\ UNCHANGED <<pipeDb, pipeFile, file, dbUp, fails, flags, caller, dbThread,
                       fileThread, main, history>>
    BY <1>4 DEF DbCommit
  <2>2. /\ ToSet(db') \cup ToSet(cache') = ToSet(db) \cup ToSet(cache)
        /\ ToSet(db) \subseteq ToSet(db') /\ ToSet(cache') \subseteq ToSet(cache)
    <3>1. PICK n \in 0 .. Len(cache) : Commit(n)
      BY <1>4, StorageAssumption DEF DbCommit, TypeOK
    <3>2. CommitSound(db, cache, db', cache')
      BY <3>1, ItemsOfCommit, TypeParts DEF Commit, SequencesTyped
    <3> QED BY <3>2 DEF CommitSound
  <2>3. Settled \subseteq Settled'
    BY <1>4, <2>1, <2>2 DEF Settled, OnDisk
  <2>4. DbSound'
    BY <2>1, <2>2, <2>3 DEF DbSound, InHand, Entered, Settled, OnDisk
  <2>5. /\ NothingLost' /\ Known' /\ OutsideSound' /\ RestoreSound'
        /\ FlagsSound' /\ FileSound' /\ StopSound'
    BY <2>1, <2>2, <2>3
       DEF NothingLost, Held, OnDisk, Known, InHand, OutsideSound, Outside, AllSettled,
           Settled, RestoreSound, FlagsSound, Joined, FileSound, Serving, StopSound,
           Stopping, Early, Late
  <2> QED BY <2>4, <2>5
<1>5. CASE DbFlushed
  <2>1. /\ \/ dbPc = "Flush" /\ dbPc' = "Loop"
           \/ dbPc = "FlushBatch" /\ dbPc' = "Pop"
        /\ UNCHANGED <<pipes, disk, flags, caller, dbItem, fileThread, main, history>>
    BY <1>5 DEF DbFlushed
  <2>2. Settled \subseteq Settled'
    BY <1>5 DEF DbFlushed, Settled, OnDisk
  <2>3. /\ NothingLost' /\ Known' /\ OutsideSound' /\ RestoreSound'
        /\ FlagsSound' /\ DbSound' /\ FileSound' /\ StopSound'
    BY <2>1, <2>2
       DEF NothingLost, Held, OnDisk, Known, InHand, OutsideSound, Outside, AllSettled,
           Settled, RestoreSound, FlagsSound, Joined, DbSound, Entered, FileSound,
           Serving, StopSound, Stopping, Early, Late
  <2> QED BY <2>3
<1>6. CASE DbFlushFails
  <2>1. /\ \/ dbPc = "Flush" /\ dbPc' = "Loop"
           \/ dbPc = "FlushBatch" /\ dbPc' = "Pop"
        /\ UNCHANGED filePc \/ (~threadFile /\ threadFile' /\ filePc' = "Start")
        /\ threadFile => threadFile'
        /\ UNCHANGED <<pipes, disk, doneDb, stopDb, doneFile, threadDb, caller, dbItem,
                       fileItem, main, history>>
    BY <1>6 DEF DbFlushFails, StartFileThread
  <2>2. Settled \subseteq Settled'
    BY <1>6 DEF DbFlushFails, Settled, OnDisk
  <2>3. /\ NothingLost' /\ Known' /\ OutsideSound' /\ RestoreSound'
        /\ FlagsSound' /\ DbSound' /\ FileSound' /\ StopSound'
    BY <2>1, <2>2
       DEF NothingLost, Held, OnDisk, Known, InHand, OutsideSound, Outside, AllSettled,
           Settled, RestoreSound, FlagsSound, Joined, DbSound, Entered, FileSound,
           Serving, StopSound, Stopping, Early, Late
  <2> QED BY <2>3
<1>7. CASE DbPop
  <2>1. /\ dbPc = "Pop" /\ dbPc' = "Read"
        /\ UNCHANGED <<cache, pipeFile, disk, flags, caller, dbItem, fileThread, main,
                       history>>
    BY <1>7 DEF DbPop
  <2>2. /\ ToSet(pipeDb') \subseteq ToSet(pipeDb)
        /\ pipeDb # <<>> => ToSet(pipeDb) = {Head(pipeDb)} \cup ToSet(pipeDb')
        /\ pipeDb = <<>> => pipeDb' = <<>>
    BY <1>7, ItemsOfPop, TypeParts DEF DbPop, SequencesTyped
  <2>3. Settled \subseteq Settled'
    BY <1>7 DEF DbPop, Settled, OnDisk
  <2>4. NothingLost'
    BY <2>1, <2>2, <2>3 DEF NothingLost, Held, OnDisk, DbSound, InHand, Entered, Settled
  <2>5. /\ Known' /\ OutsideSound' /\ RestoreSound' /\ FlagsSound'
        /\ DbSound' /\ FileSound' /\ StopSound'
    BY <2>1, <2>2, <2>3
       DEF Known, Held, OnDisk, InHand, OutsideSound, Outside, AllSettled, Settled,
           RestoreSound, FlagsSound, Joined, DbSound, Entered, FileSound, Serving,
           StopSound, Stopping, Early, Late
  <2> QED BY <2>4, <2>5
<1> QED BY <1>1, <1>2, <1>3, <1>4, <1>5, <1>6, <1>7 DEF DbThread

\* The file thread takes over what the database thread has, and writes it to the file.
LEMMA FileThreadKeeps ==
  ASSUME StorageInv, TypeOK',
         FileThread
  PROVE  StorageInv'
<1> USE DEF StorageInv, pipes, disk, flags, dbThread, fileThread, main, history
<1>1. CASE FileStart
  <2>1. /\ filePc = "Start" /\ filePc' = "Join" /\ stopDb' /\ doneDb'
        /\ caught' = IF mainPc = "Run" THEN caught ELSE caught \cup (accepted \ OnDisk)
        /\ UNCHANGED <<pipes, disk, doneFile, threadDb, threadFile, caller, dbThread,
                       fileItem, main, accepted, strays, forgone, detoured, left,
                       repeats>>
    BY <1>1 DEF FileStart
  <2>2. Settled \subseteq Settled'
    BY <1>1 DEF FileStart, Settled, OnDisk
  <2>3. StopSound'
    BY <2>1, <2>2
       DEF StopSound, Stopping, Early, Late, Serving, AllSettled, Settled, OnDisk
  <2>4. /\ NothingLost' /\ Known' /\ OutsideSound' /\ RestoreSound'
        /\ FlagsSound' /\ DbSound' /\ FileSound'
    BY <2>1, <2>2
       DEF NothingLost, Held, OnDisk, Known, InHand, OutsideSound, Outside, AllSettled,
           Settled, RestoreSound, FlagsSound, Joined, DbSound, Entered, FileSound,
           Serving
  <2> QED BY <2>3, <2>4
<1>2. CASE FileJoin
  <2>1. /\ filePc = "Join" /\ filePc' = "Copy" /\ ~threadDb'
        /\ left' = (left \/ (threadDb /\ dbPc \notin {"Off", "Done"}))
        /\ UNCHANGED <<pipes, disk, doneDb, stopDb, doneFile, threadFile, caller,
                       dbThread, fileItem, main, accepted, strays, caught, forgone,
                       detoured, repeats>>
    BY <1>2 DEF FileJoin
  <2>2. Settled \subseteq Settled'
    BY <1>2 DEF FileJoin, Settled, OnDisk
  <2>3. /\ NothingLost' /\ Known' /\ OutsideSound' /\ RestoreSound'
        /\ FlagsSound' /\ DbSound' /\ FileSound' /\ StopSound'
    BY <2>1, <2>2
       DEF NothingLost, Held, OnDisk, Known, InHand, OutsideSound, Outside, AllSettled,
           Settled, RestoreSound, FlagsSound, Joined, DbSound, Entered, FileSound,
           Serving, StopSound, Stopping, Early, Late
  <2> QED BY <2>3
<1>3. CASE FileCopy
  <2>1. /\ filePc = "Copy" /\ filePc' = "Clear"
        /\ UNCHANGED <<pipeDb, cache, disk, flags, caller, dbThread, fileItem, main,
                       history>>
    BY <1>3 DEF FileCopy
  <2>2. ToSet(pipeFile') = ToSet(pipeDb) \cup ToSet(pipeFile)
    BY <1>3, ItemsOfConcat, TypeParts DEF FileCopy, SequencesTyped
  <2>3. Settled \subseteq Settled'
    BY <1>3 DEF FileCopy, Settled, OnDisk
  <2>4. /\ NothingLost' /\ Known' /\ OutsideSound' /\ RestoreSound'
        /\ FlagsSound' /\ DbSound' /\ FileSound' /\ StopSound'
    BY <2>1, <2>2, <2>3
       DEF NothingLost, Held, OnDisk, Known, InHand, OutsideSound, Outside, AllSettled,
           Settled, RestoreSound, FlagsSound, Joined, DbSound, Entered, FileSound,
           Serving, StopSound, Stopping, Early, Late
  <2> QED BY <2>4
<1>4. CASE FileClear
  <2>1. /\ filePc = "Clear" /\ filePc' = "TakeCache"
        /\ pipeDb' = <<>> /\ ToSet(pipeDb') = {}
        /\ UNCHANGED <<cache, pipeFile, disk, flags, caller, dbThread, fileItem, main,
                       history>>
    BY <1>4, ItemsOfEmpty DEF FileClear
  <2>2. Settled \subseteq Settled'
    BY <1>4 DEF FileClear, Settled, OnDisk
  <2>3. NothingLost'
    BY <2>1, <2>2 DEF NothingLost, Held, OnDisk, FileSound, Settled
  <2>4. DbSound'
    BY <2>1, <2>2 DEF DbSound, InHand, Entered, FlagsSound
  <2>5. /\ Known' /\ OutsideSound' /\ RestoreSound' /\ FlagsSound'
        /\ FileSound' /\ StopSound'
    BY <2>1, <2>2
       DEF Known, Held, OnDisk, InHand, OutsideSound, Outside, AllSettled, Settled,
           RestoreSound, FlagsSound, Joined, FileSound, Serving, StopSound, Stopping,
           Early, Late
  <2> QED BY <2>3, <2>4, <2>5
<1>5. CASE FileTakeCache
  <2>1. /\ filePc = "TakeCache" /\ filePc' = "Read"
        /\ cache' = <<>> /\ ToSet(cache') = {}
        /\ UNCHANGED <<pipeDb, disk, flags, caller, dbThread, fileItem, main, history>>
    BY <1>5, ItemsOfEmpty DEF FileTakeCache
  <2>2. ToSet(pipeFile') = ToSet(cache) \cup ToSet(pipeFile)
    BY <1>5, ItemsOfConcat, TypeParts DEF FileTakeCache, SequencesTyped
  <2>3. Settled \subseteq Settled'
    BY <1>5 DEF FileTakeCache, Settled, OnDisk
  <2>4. RestoreSound'
    BY <2>1, <2>2, <2>3 DEF RestoreSound, OutsideSound, Outside
  <2>5. /\ NothingLost' /\ Known' /\ OutsideSound' /\ FlagsSound'
        /\ DbSound' /\ FileSound' /\ StopSound'
    BY <2>1, <2>2, <2>3
       DEF NothingLost, Held, OnDisk, Known, InHand, OutsideSound, Outside, AllSettled,
           Settled, FlagsSound, Joined, DbSound, Entered, FileSound, Serving, StopSound,
           Stopping, Early, Late
  <2> QED BY <2>4, <2>5
<1>6. CASE FileRead
  <2>1. /\ filePc = "Read"
        /\ \/ filePc' = "Done"
           \/ /\ filePc' = "Write" /\ pipeFile # <<>>
              /\ fileItem' = Head(pipeFile) /\ fileItem' \in ToSet(pipeFile)
        /\ UNCHANGED <<pipes, disk, flags, caller, dbThread, main, history>>
    BY <1>6, ItemsOfPop, TypeParts DEF FileRead, SequencesTyped, OthersTyped
  <2>2. Settled \subseteq Settled'
    BY <1>6 DEF FileRead, Settled, OnDisk
  <2>3. /\ NothingLost' /\ Known' /\ OutsideSound' /\ RestoreSound'
        /\ FlagsSound' /\ DbSound' /\ FileSound' /\ StopSound'
    BY <2>1, <2>2
       DEF NothingLost, Held, OnDisk, Known, InHand, OutsideSound, Outside, AllSettled,
           Settled, RestoreSound, FlagsSound, Joined, DbSound, Entered, FileSound,
           Serving, StopSound, Stopping, Early, Late
  <2> QED BY <2>3
<1>7. CASE FileWrite
  <2>1. /\ filePc = "Write" /\ filePc' = "Pop" /\ fileItem \in Items
        /\ UNCHANGED <<pipes, db, dbUp, fails, flags, caller, dbThread, fileItem, main,
                       history>>
    BY <1>7 DEF FileWrite, Known, TypeOK
  <2>2. ToSet(file') = ToSet(file) \cup {fileItem}
    BY <1>7, <2>1, ItemsOfAppend, TypeParts DEF FileWrite, SequencesTyped
  <2>3. Settled \subseteq Settled'
    BY <1>7, <2>1, <2>2 DEF Settled, OnDisk
  <2>4. RestoreSound'
    BY <2>1, <2>2, <2>3 DEF RestoreSound, OutsideSound, Outside
  <2>5. FileSound'
    BY <2>1, <2>2, <2>3 DEF FileSound, Serving, Settled, OnDisk
  <2>6. /\ NothingLost' /\ Known' /\ OutsideSound' /\ FlagsSound'
        /\ DbSound' /\ StopSound'
    BY <2>1, <2>2, <2>3
       DEF NothingLost, Held, OnDisk, Known, InHand, OutsideSound, Outside, AllSettled,
           Settled, FlagsSound, Joined, DbSound, Entered, StopSound, Stopping, Early,
           Late, Serving
  <2> QED BY <2>4, <2>5, <2>6
<1>8. CASE FilePop
  <2>1. /\ filePc = "Pop" /\ filePc' \in {"Read", "Write"} /\ pipeFile # <<>>
        /\ UNCHANGED <<pipeDb, cache, disk, flags, caller, dbThread, main, history>>
    BY <1>8 DEF FilePop, FileSound
  <2>2. ToSet(pipeFile) = {Head(pipeFile)} \cup ToSet(pipeFile')
    BY <1>8, <2>1, ItemsOfPop, TypeParts DEF FilePop, SequencesTyped
  <2>3. /\ filePc' = "Write" => /\ pipeFile' # <<>> /\ fileItem' = Head(pipeFile')
                                 /\ fileItem' \in ToSet(pipeFile')
    <3>1. pipeFile' = Tail(pipeFile) /\ pipeFile' \in Seq(Items)
      BY <1>8, <2>1, ItemsOfPop, TypeParts DEF FilePop, SequencesTyped
    <3>2. filePc' = "Write" => pipeFile' # <<>> /\ fileItem' = Head(pipeFile')
      BY <1>8 DEF FilePop
    <3> QED BY <3>1, <3>2, ItemsOfPop
  <2>4. Settled \subseteq Settled'
    BY <1>8, <2>1 DEF Settled, OnDisk
  <2>5. NothingLost'
    BY <2>1, <2>2, <2>3, <2>4 DEF NothingLost, Held, OnDisk, FileSound, Settled
  <2>6. DbSound'
    BY <2>1, <2>2, <2>3, <2>4 DEF DbSound, InHand, Entered, FileSound, Settled, OnDisk
  <2>7. /\ Known' /\ OutsideSound' /\ RestoreSound' /\ FlagsSound'
        /\ FileSound' /\ StopSound'
    BY <2>1, <2>2, <2>3, <2>4
       DEF Known, Held, OnDisk, InHand, OutsideSound, Outside, AllSettled, Settled,
           RestoreSound, FlagsSound, Joined, FileSound, Serving, StopSound, Stopping,
           Early, Late
  <2> QED BY <2>5, <2>6, <2>7
<1> QED BY <1>1, <1>2, <1>3, <1>4, <1>5, <1>6, <1>7, <1>8 DEF FileThread

\* init() reads the file back into the database before it puts it away.
LEMMA RestoreKeeps ==
  ASSUME StorageInv, TypeOK',
         \/ RestoreLine \/ RestoreFlush \/ RestoreFails \/ RestoreRemove
         \/ StartEmpty \/ StartWithoutDb
  PROVE  StorageInv'
<1> USE DEF StorageInv, pipes, disk, flags, dbThread, fileThread, main, history
<1>1. CASE RestoreLine
  <2>1. /\ mainPc = "Restore" /\ cursor' = cursor + 1 /\ cursor \in Nat
        /\ file[cursor + 1] \in ToSet(file) /\ file[cursor + 1] \in Items
        /\ UNCHANGED <<pipeDb, pipeFile, file, dbUp, fails, flags, caller, dbThread,
                       fileThread, mainPc, ends, history>>
    <3>1. /\ mainPc = "Restore" /\ cursor' = cursor + 1 /\ cursor < Len(file)
          /\ UNCHANGED <<pipeDb, pipeFile, file, dbUp, fails, flags, caller, dbThread,
                         fileThread, mainPc, ends, history>>
      BY <1>1 DEF RestoreLine
    <3>2. file \in Seq(Items) /\ cursor \in Nat
      BY DEF TypeOK
    <3>3. cursor + 1 \in 1 .. Len(file)
      BY <3>1, <3>2
    <3> QED BY <3>1, <3>2, <3>3, ItemsOf
  <2>2. /\ ToSet(db') \cup ToSet(cache') = ToSet(db) \cup ToSet(cache) \cup {file[cursor + 1]}
        /\ ToSet(db) \subseteq ToSet(db')
        /\ ToSet(cache') \subseteq ToSet(cache) \cup {file[cursor + 1]}
    <3> DEFINE c == Append(cache, file[cursor + 1])
    <3>1. c \in Seq(Items) /\ ToSet(c) = ToSet(cache) \cup {file[cursor + 1]}
      BY <2>1, ItemsOfAppend, TypeParts DEF SequencesTyped
    <3> HIDE DEF c
    <3>2. PICK n \in 0 .. Len(c) :
            db' = db \o SubSeq(c, 1, n) /\ cache' = SubSeq(c, n + 1, Len(c))
      <4>1. Flushes(c) \subseteq 0 .. Len(c) /\ 0 \in 0 .. Len(c)
        BY <3>1, FlushesBounded
      <4> QED BY <1>1, <4>1 DEF RestoreLine, c
    <3>3. CommitSound(db, c, db', cache')
      BY <3>1, <3>2, ItemsOfCommit, TypeParts DEF SequencesTyped
    <3> QED BY <3>1, <3>3 DEF CommitSound
  <2>3. Settled \subseteq Settled'
    BY <1>1, <2>1, <2>2 DEF Settled, OnDisk
  <2>4. DbSound'
    BY <2>1, <2>2, <2>3 DEF DbSound, InHand, Entered, OutsideSound, Outside
  <2>5. FileSound'
    BY <2>1, <2>2, <2>3 DEF FileSound, Serving, OutsideSound, Outside
  <2>6. /\ NothingLost' /\ Known' /\ OutsideSound' /\ RestoreSound'
        /\ FlagsSound' /\ StopSound'
    BY <2>1, <2>2, <2>3
       DEF NothingLost, Held, OnDisk, Known, InHand, OutsideSound, Outside, AllSettled,
           Settled, RestoreSound, FlagsSound, Joined, StopSound, Stopping, Early, Late,
           Serving
  <2> QED BY <2>4, <2>5, <2>6
<1>2. CASE RestoreFlush
  <2>1. /\ mainPc = "Restore" /\ mainPc' = "Remove" /\ cursor = Len(file)
        /\ UNCHANGED <<pipeDb, pipeFile, file, dbUp, fails, flags, caller, dbThread,
                       fileThread, cursor, ends, history>>
    BY <1>2 DEF RestoreFlush
  <2>2. /\ ToSet(db') \cup ToSet(cache') = ToSet(db) \cup ToSet(cache) /\ ToSet(cache') = {}
        /\ ToSet(db) \subseteq ToSet(db')
    <3>1. Len(cache) \in 0 .. Len(cache)
      BY DEF TypeOK
    <3>2. CommitSound(db, cache, db', cache')
      BY <1>2, <3>1, ItemsOfCommit, TypeParts DEF RestoreFlush, Commit, SequencesTyped
    <3>3. cache' = <<>>
      BY <1>2, <3>1, ItemsOfSplit DEF RestoreFlush, Commit, TypeOK
    <3> QED BY <3>2, <3>3, ItemsOfEmpty DEF CommitSound
  <2>3. ToSet(file) \subseteq ToSet(db) \cup ToSet(cache)
    <3>1. file \in Seq(Items)
      BY DEF TypeOK
    <3>2. \A x \in ToSet(file) : \E i \in 1 .. Len(file) : x = file[i]
      BY <3>1, ItemsOf
    <3> QED BY <2>1, <3>2 DEF RestoreSound
  <2>4. Settled \subseteq Settled'
    BY <1>2, <2>1, <2>2 DEF Settled, OnDisk
  <2>5. DbSound'
    BY <2>1, <2>2, <2>3, <2>4 DEF DbSound, InHand, Entered, OutsideSound, Outside
  <2>6. FileSound'
    BY <2>1, <2>2, <2>3, <2>4 DEF FileSound, Serving, OutsideSound, Outside
  <2>7. /\ NothingLost' /\ Known' /\ OutsideSound' /\ RestoreSound'
        /\ FlagsSound' /\ StopSound'
    BY <2>1, <2>2, <2>3, <2>4
       DEF NothingLost, Held, OnDisk, Known, InHand, OutsideSound, Outside, AllSettled,
           Settled, RestoreSound, FlagsSound, Joined, StopSound, Stopping, Early, Late,
           Serving
  <2> QED BY <2>5, <2>6, <2>7
<1>3. CASE RestoreFails
  <2>1. /\ mainPc = "Restore" /\ cache' = <<>> /\ ToSet(cache') = {}
        /\ UNCHANGED <<dbUp, fails, accepted, strays, caught, forgone, detoured, left>>
    BY <1>3, ItemsOfEmpty DEF RestoreFails
  <2>2. /\ ToSet(db) \subseteq ToSet(db') /\ ToSet(db') \subseteq ToSet(db) \cup ToSet(file)
        /\ ToSet(file') = ToSet(file)
    <3>1. PICK e, f \in Seq(Items) :
            /\ db' = db \o e /\ file' = file \o f
            /\ ToSet(e) \cup ToSet(f) \subseteq ToSet(cache)
      BY <1>3, FailedRestore
    <3>2. ToSet(db') = ToSet(db) \cup ToSet(e) /\ ToSet(file') = ToSet(file) \cup ToSet(f)
      BY <3>1, ItemsOfConcat, TypeParts DEF SequencesTyped
    <3>3. ToSet(cache) \subseteq ToSet(file)
      BY <2>1 DEF RestoreSound
    <3> QED BY <3>1, <3>2, <3>3
  <2>3. /\ mainPc' = "Down" /\ cursor' = 0 /\ dbPc' = "Off" /\ filePc' = "Off"
        /\ ~threadFile' /\ ~threadDb' /\ ~stopDb'
        /\ pipeDb' = <<>> /\ pipeFile' = <<>> /\ ToSet(pipeDb') = {} /\ ToSet(pipeFile') = {}
        /\ caller' = [q \in Producers |-> Idle]
    BY <1>3, ItemsOfEmpty DEF RestoreFails, Ended
  <2>4. Settled \subseteq Settled'
    BY <1>3, <2>1, <2>2 DEF Settled, OnDisk
  <2>5. NothingLost'
    BY <2>1, <2>2, <2>3, <2>4
       DEF NothingLost, Held, OnDisk, OutsideSound, Outside, AllSettled, Settled
  <2>6. Known'
    BY <2>1, <2>2, <2>3, <2>4 DEF Known, Held, OnDisk, InHand, Idle
  <2>7. /\ OutsideSound' /\ RestoreSound' /\ FlagsSound' /\ DbSound'
        /\ FileSound' /\ StopSound'
    BY <2>1, <2>2, <2>3, <2>4
       DEF OutsideSound, Outside, AllSettled, Settled, OnDisk, RestoreSound, FlagsSound,
           Joined, DbSound, InHand, Entered, FileSound, Serving, StopSound, Stopping,
           Early, Late
  <2> QED BY <2>5, <2>6, <2>7
<1>4. CASE RestoreRemove
  <2>1. /\ mainPc = "Remove" /\ mainPc' = "Run" /\ threadDb' /\ dbPc' = "Loop"
        /\ file' = <<>> /\ ToSet(file') = {} /\ ToSet(file) \subseteq ToSet(db)
        /\ UNCHANGED <<pipes, db, dbUp, fails, doneDb, stopDb, doneFile, threadFile,
                       caller, dbItem, fileThread, ends, history>>
    BY <1>4, ItemsOfEmpty DEF RestoreRemove, Started, RestoreSound
  <2>2. Settled \subseteq Settled'
    BY <1>4, <2>1 DEF Settled, OnDisk
  <2>3. FlagsSound'
    BY <2>1, <2>2 DEF FlagsSound, Joined, OutsideSound, Outside
  <2>4. FileSound'
    BY <2>1, <2>2 DEF FileSound, Serving, OutsideSound, Outside
  <2>5. /\ NothingLost' /\ Known' /\ OutsideSound' /\ RestoreSound'
        /\ DbSound' /\ StopSound'
    BY <2>1, <2>2
       DEF NothingLost, Held, OnDisk, Known, InHand, OutsideSound, Outside, AllSettled,
           Settled, RestoreSound, DbSound, Entered, StopSound, Stopping, Early, Late,
           Serving
  <2> QED BY <2>3, <2>4, <2>5
<1>5. CASE StartEmpty
  <2>1. /\ mainPc = "Restore" /\ mainPc' = "Run" /\ threadDb' /\ dbPc' = "Loop"
        /\ UNCHANGED <<pipes, disk, doneDb, stopDb, doneFile, threadFile, caller,
                       dbItem, fileThread, ends, history>>
    BY <1>5 DEF StartEmpty, Started
  <2>2. Settled \subseteq Settled'
    BY <1>5, <2>1 DEF Settled, OnDisk
  <2>3. FlagsSound'
    BY <2>1, <2>2 DEF FlagsSound, Joined, OutsideSound, Outside
  <2>4. FileSound'
    BY <2>1, <2>2 DEF FileSound, Serving, OutsideSound, Outside
  <2>5. /\ NothingLost' /\ Known' /\ OutsideSound' /\ RestoreSound'
        /\ DbSound' /\ StopSound'
    BY <2>1, <2>2
       DEF NothingLost, Held, OnDisk, Known, InHand, OutsideSound, Outside, AllSettled,
           Settled, RestoreSound, DbSound, Entered, StopSound, Stopping, Early, Late,
           Serving
  <2> QED BY <2>3, <2>4, <2>5
<1>6. CASE StartWithoutDb
  <2>1. /\ mainPc = "Restore" /\ mainPc' = "Run"
        /\ UNCHANGED <<pipes, disk, flags, caller, dbThread, fileThread, cursor, ends,
                       history>>
    BY <1>6 DEF StartWithoutDb
  <2>2. Settled \subseteq Settled'
    BY <1>6, <2>1 DEF Settled, OnDisk
  <2>3. FlagsSound'
    BY <2>1, <2>2 DEF FlagsSound, Joined, OutsideSound, Outside
  <2>4. FileSound'
    BY <2>1, <2>2 DEF FileSound, Serving, OutsideSound, Outside
  <2>5. /\ NothingLost' /\ Known' /\ OutsideSound' /\ RestoreSound'
        /\ DbSound' /\ StopSound'
    BY <2>1, <2>2
       DEF NothingLost, Held, OnDisk, Known, InHand, OutsideSound, Outside, AllSettled,
           Settled, RestoreSound, DbSound, Entered, StopSound, Stopping, Early, Late,
           Serving
  <2> QED BY <2>3, <2>4, <2>5
<1> QED BY <1>1, <1>2, <1>3, <1>4, <1>5, <1>6

\* stop() leaves everything on disk, whatever the file thread is doing.
LEMMA StopKeeps ==
  ASSUME StorageInv, TypeOK',
         \/ Stop \/ StopJoinDb \/ StopFlushItem \/ StopFlushFails
         \/ StopTransfer \/ StopEndFile \/ StopJoinFile
  PROVE  StorageInv'
<1> USE DEF StorageInv, pipes, disk, flags, dbThread, fileThread, main, history
<1>1. CASE Stop
  <2>1. /\ mainPc = "Run" /\ mainPc' = "JoinDb" /\ ends < MaxEnds /\ ~left /\ doneDb'
        /\ \A q \in Producers : caller[q] = Idle
        /\ caught' = IF TakingOver THEN caught \cup (accepted \ OnDisk) ELSE caught
        /\ UNCHANGED <<pipes, disk, stopDb, doneFile, threadDb, threadFile, caller,
                       dbThread, fileThread, cursor, ends, accepted, strays, forgone,
                       detoured, left, repeats>>
    BY <1>1 DEF Stop
  <2>2. Settled \subseteq Settled'
    BY <1>1, <2>1 DEF Settled, OnDisk
  <2>3. StopSound'
    BY <2>1, <2>2, ItemsOfEmpty
       DEF StopSound, Stopping, Early, Late, Serving, AllSettled, Settled, OnDisk,
           TakingOver, FileSound, FlagsSound, Joined, TypeOK
  <2>4. /\ NothingLost' /\ Known' /\ OutsideSound' /\ RestoreSound'
        /\ FlagsSound' /\ DbSound' /\ FileSound'
    BY <2>1, <2>2
       DEF NothingLost, Held, OnDisk, Known, InHand, OutsideSound, Outside, AllSettled,
           Settled, RestoreSound, FlagsSound, Joined, DbSound, Entered, FileSound,
           Serving
  <2> QED BY <2>3, <2>4
<1>2. CASE StopJoinDb
  <2>1. /\ mainPc = "JoinDb" /\ mainPc' = "FlushDb" /\ dbPc \in {"Off", "Done"} /\ ~threadDb'
        /\ cache' = <<>> /\ ToSet(cache') = {}
        /\ UNCHANGED <<pipeFile, disk, doneDb, stopDb, doneFile, threadFile, caller,
                       dbThread, fileThread, cursor, ends, history>>
    BY <1>2, ItemsOfEmpty DEF StopJoinDb
  <2>2. ToSet(pipeDb') = ToSet(cache) \cup ToSet(pipeDb)
    <3>1. Reverse(cache) \in Seq(Items) /\ ToSet(Reverse(cache)) = ToSet(cache)
      BY ItemsOfReverse DEF TypeOK
    <3> QED BY <1>2, <3>1, ItemsOfConcat, TypeParts DEF StopJoinDb, SequencesTyped
  <2>3. Settled \subseteq Settled'
    BY <1>2, <2>1 DEF Settled, OnDisk
  <2>4. FileSound'
    BY <2>1, <2>2, <2>3
       DEF FileSound, Serving, Known, Held, StopSound, Stopping, Early, Late, AllSettled
  <2>5. /\ NothingLost' /\ Known' /\ OutsideSound' /\ RestoreSound'
        /\ FlagsSound' /\ DbSound' /\ StopSound'
    BY <2>1, <2>2, <2>3
       DEF NothingLost, Held, OnDisk, Known, InHand, OutsideSound, Outside, AllSettled,
           Settled, RestoreSound, FlagsSound, Joined, DbSound, Entered, StopSound,
           Stopping, Early, Late, Serving
  <2> QED BY <2>4, <2>5
<1>3. CASE StopFlushItem
  <2>1. /\ mainPc = "FlushDb" /\ pipeDb # <<>>
        /\ UNCHANGED <<pipeFile, file, dbUp, fails, flags, caller, dbThread,
                       fileThread, main, history>>
    BY <1>3 DEF StopFlushItem
  <2>2. /\ ToSet(pipeDb) = {Head(pipeDb)} \cup ToSet(pipeDb')
        /\ ToSet(db) \subseteq ToSet(db')
        /\ ToSet(db') \subseteq ToSet(db) \cup ToSet(cache) \cup {Head(pipeDb)}
        /\ \/ stopDb /\ ToSet(cache') = ToSet(cache) \cup {Head(pipeDb)}
           \/ /\ ~stopDb /\ cache' = <<>> /\ ToSet(cache') = {}
              /\ ToSet(db') = ToSet(db) \cup ToSet(cache) \cup {Head(pipeDb)}
    <3> DEFINE c == Append(cache, Head(pipeDb))
    <3>1. /\ Head(pipeDb) \in Items /\ pipeDb' = Tail(pipeDb)
          /\ ToSet(pipeDb) = {Head(pipeDb)} \cup ToSet(Tail(pipeDb))
      BY <1>3, ItemsOfPop, TypeParts DEF StopFlushItem, SequencesTyped
    <3>2. c \in Seq(Items) /\ ToSet(c) = ToSet(cache) \cup {Head(pipeDb)}
      BY <3>1, ItemsOfAppend, TypeParts DEF SequencesTyped
    <3> HIDE DEF c
    <3>3. ToSet(db \o c) = ToSet(db) \cup ToSet(c)
      BY <3>2, ItemsOfConcat, TypeParts DEF SequencesTyped
    <3>4. \/ stopDb /\ cache' = c /\ db' = db
          \/ ~stopDb /\ cache' = <<>> /\ db' = db \o c
      BY <1>3 DEF StopFlushItem, c
    <3> QED BY <3>1, <3>2, <3>3, <3>4, ItemsOfEmpty
  <2>3. Settled \subseteq Settled'
    BY <1>3, <2>1, <2>2 DEF Settled, OnDisk
  <2>4. DbSound'
    BY <2>1, <2>2, <2>3 DEF DbSound, InHand, Entered, StopSound, Stopping
  <2>5. StopSound'
    BY <2>1, <2>2, <2>3
       DEF StopSound, Stopping, Early, Late, Serving, AllSettled, FlagsSound
  <2>6. /\ NothingLost' /\ Known' /\ OutsideSound' /\ RestoreSound'
        /\ FlagsSound' /\ FileSound'
    BY <2>1, <2>2, <2>3
       DEF NothingLost, Held, OnDisk, Known, InHand, OutsideSound, Outside, AllSettled,
           Settled, RestoreSound, FlagsSound, Joined, FileSound, Serving
  <2> QED BY <2>4, <2>5, <2>6
<1>4. CASE StopFlushFails
  <2>1. /\ mainPc = "FlushDb" /\ mainPc' = "Transfer"
        /\ UNCHANGED <<pipeDb, pipeFile, file, dbUp, fails, flags, caller, dbThread,
                       fileThread, cursor, ends, history>>
    BY <1>4 DEF StopFlushFails
  <2>2. /\ ToSet(db) \cup ToSet(cache) \subseteq ToSet(db') \cup ToSet(cache')
        /\ ToSet(db) \subseteq ToSet(db')
        /\ ToSet(db') \cup ToSet(cache')
             \subseteq ToSet(db) \cup ToSet(cache) \cup ToSet(pipeDb)
        /\ ToSet(cache') \subseteq ToSet(cache) \cup ToSet(pipeDb)
    <3> DEFINE c == Append(cache, Head(pipeDb))
    <3>1. CASE UNCHANGED <<db, cache>>
      BY <3>1
    <3>2. CASE /\ pipeDb # <<>>
               /\ \E n \in Flushes(c) :
                    db' = db \o SubSeq(c, 1, n) /\ cache' = SubSeq(c, n + 1, Len(c))
      <4>1. Head(pipeDb) \in Items /\ Head(pipeDb) \in ToSet(pipeDb)
        BY <3>2, ItemsOfPop, TypeParts DEF SequencesTyped
      <4>2. c \in Seq(Items) /\ ToSet(c) = ToSet(cache) \cup {Head(pipeDb)}
        BY <4>1, ItemsOfAppend, TypeParts DEF SequencesTyped
      <4> HIDE DEF c
      <4>3. PICK n \in 0 .. Len(c) :
              db' = db \o SubSeq(c, 1, n) /\ cache' = SubSeq(c, n + 1, Len(c))
        BY <3>2, <4>2, FlushesBounded
      <4>4. CommitSound(db, c, db', cache')
        BY <4>2, <4>3, ItemsOfCommit, TypeParts DEF SequencesTyped
      <4> QED BY <4>1, <4>2, <4>4 DEF CommitSound
    <3> QED BY <1>4, <3>1, <3>2 DEF StopFlushFails
  <2>3. Settled \subseteq Settled'
    BY <1>4, <2>1, <2>2 DEF Settled, OnDisk
  <2>4. DbSound'
    BY <2>1, <2>2, <2>3 DEF DbSound, InHand, Entered, StopSound, Stopping
  <2>5. StopSound'
    BY <2>1, <2>2, <2>3, ItemsOfEmpty
       DEF StopSound, Stopping, Early, Late, Serving, AllSettled
  <2>6. /\ NothingLost' /\ Known' /\ OutsideSound' /\ RestoreSound'
        /\ FlagsSound' /\ FileSound'
    BY <2>1, <2>2, <2>3
       DEF NothingLost, Held, OnDisk, Known, InHand, OutsideSound, Outside, AllSettled,
           Settled, RestoreSound, FlagsSound, Joined, FileSound, Serving
  <2> QED BY <2>4, <2>5, <2>6
<1>5. CASE StopTransfer
  <2>1. /\ mainPc = "Transfer" /\ mainPc' = "EndFile"
        /\ pipeDb' = <<>> /\ ToSet(pipeDb') = {}
        /\ UNCHANGED <<cache, disk, flags, caller, dbThread, fileThread, cursor, ends,
                       history>>
    BY <1>5, ItemsOfEmpty DEF StopTransfer
  <2>2. /\ ToSet(pipeFile') = ToSet(pipeDb) \cup ToSet(pipeFile)
        /\ pipeFile' # <<>> => \/ Head(pipeFile') = Head(pipeFile)
                               \/ Head(pipeFile') \in ToSet(pipeDb)
        /\ pipeFile # <<>> => pipeFile' # <<>>
    <3>1. Reverse(pipeDb) \in Seq(Items) /\ ToSet(Reverse(pipeDb)) = ToSet(pipeDb)
      BY ItemsOfReverse DEF TypeOK
    <3>2. ToSet(pipeFile') = ToSet(pipeDb) \cup ToSet(pipeFile)
      BY <1>5, <3>1, ItemsOfConcat, TypeParts DEF StopTransfer, SequencesTyped
    <3>3. pipeFile' # <<>> => Head(pipeFile') = IF Reverse(pipeDb) = <<>> THEN Head(pipeFile)
                                               ELSE Head(Reverse(pipeDb))
      BY <1>5, <3>1, ItemsOfConcat, TypeParts DEF StopTransfer, SequencesTyped
    <3>4. Reverse(pipeDb) # <<>> => Head(Reverse(pipeDb)) \in ToSet(pipeDb)
      BY <3>1, ItemsOfPop
    <3>5. pipeFile # <<>> => pipeFile' # <<>>
      BY <3>2, ItemsOf, TypeParts, ItemsOfEmpty DEF SequencesTyped
    <3> QED BY <3>2, <3>3, <3>4, <3>5
  <2>3. Settled \subseteq Settled'
    BY <1>5, <2>1 DEF Settled, OnDisk
  <2>4. DbSound'
    BY <2>1, <2>2, <2>3 DEF DbSound, InHand, Entered, StopSound, Stopping
  <2>5. /\ NothingLost' /\ Known' /\ OutsideSound' /\ RestoreSound'
        /\ FlagsSound' /\ FileSound' /\ StopSound'
    BY <2>1, <2>2, <2>3
       DEF NothingLost, Held, OnDisk, Known, InHand, OutsideSound, Outside, AllSettled,
           Settled, RestoreSound, FlagsSound, Joined, FileSound, Serving, StopSound,
           Stopping, Early, Late
  <2> QED BY <2>4, <2>5
<1>6. CASE StopEndFile
  <2>1. /\ mainPc = "EndFile" /\ mainPc' = "JoinFile"
        /\ UNCHANGED <<pipes, disk, doneDb, stopDb, threadDb, threadFile, caller,
                       dbThread, fileThread, cursor, ends, history>>
    BY <1>6 DEF StopEndFile
  <2>2. Settled \subseteq Settled'
    BY <1>6, <2>1 DEF Settled, OnDisk
  <2>3. /\ NothingLost' /\ Known' /\ OutsideSound' /\ RestoreSound'
        /\ FlagsSound' /\ DbSound' /\ FileSound' /\ StopSound'
    BY <2>1, <2>2
       DEF NothingLost, Held, OnDisk, Known, InHand, OutsideSound, Outside, AllSettled,
           Settled, RestoreSound, FlagsSound, Joined, DbSound, Entered, FileSound,
           Serving, StopSound, Stopping, Early, Late
  <2> QED BY <2>3
<1>7. CASE StopJoinFile
  <2>1. /\ mainPc = "JoinFile" /\ filePc \in {"Off", "Done"}
        /\ cache' = <<>> /\ ToSet(cache') = {}
        /\ UNCHANGED <<db, dbUp, fails, history>>
    BY <1>7, ItemsOfEmpty DEF StopJoinFile
  <2>2. ToSet(file') = ToSet(file) \cup ToSet(pipeFile)
    BY <1>7, ItemsOfConcat, TypeParts DEF StopJoinFile, SequencesTyped
  <2>3. /\ mainPc' = "Down" /\ cursor' = 0 /\ dbPc' = "Off" /\ filePc' = "Off"
        /\ ~threadFile' /\ ~threadDb' /\ ~stopDb'
        /\ pipeDb' = <<>> /\ pipeFile' = <<>> /\ ToSet(pipeDb') = {} /\ ToSet(pipeFile') = {}
        /\ caller' = [q \in Producers |-> Idle]
    BY <1>7, ItemsOfEmpty DEF StopJoinFile, Ended
  <2>4. Settled \subseteq Settled'
    BY <1>7, <2>1, <2>2 DEF Settled, OnDisk
  <2>5. NothingLost'
    BY <2>1, <2>2, <2>3, <2>4
       DEF NothingLost, Held, OnDisk, StopSound, Stopping, Early, Late, AllSettled,
           Settled
  <2>6. Known'
    BY <2>1, <2>2, <2>3, <2>4 DEF Known, Held, OnDisk, InHand, Idle
  <2>7. OutsideSound'
    BY <2>1, <2>2, <2>3, <2>4, ItemsOfEmpty
       DEF OutsideSound, Outside, AllSettled, Settled, OnDisk, StopSound, Stopping,
           Early, Late, NothingLost, Held
  <2>8. /\ RestoreSound' /\ FlagsSound' /\ DbSound' /\ FileSound'
        /\ StopSound'
    BY <2>1, <2>2, <2>3, <2>4
       DEF RestoreSound, FlagsSound, Joined, DbSound, InHand, Entered, FileSound,
           Serving, StopSound, Stopping, Early, Late, AllSettled
  <2> QED BY <2>5, <2>6, <2>7, <2>8
<1> QED BY <1>1, <1>2, <1>3, <1>4, <1>5, <1>6, <1>7

\* The database fails and comes back, the process crashes and starts again.
LEMMA EnvironmentKeeps ==
  ASSUME StorageInv, TypeOK',
         DbFails \/ DbRecovers \/ Crash \/ Restart \/ UNCHANGED vars
  PROVE  StorageInv'
<1> USE DEF StorageInv, pipes, disk, flags, dbThread, fileThread, main, history
<1>1. CASE DbFails \/ DbRecovers \/ UNCHANGED vars
  <2>1. UNCHANGED <<pipes, db, file, flags, caller, dbThread, fileThread, main, history>>
    BY <1>1 DEF DbFails, DbRecovers, vars
  <2>2. Settled \subseteq Settled'
    BY <1>1, <2>1 DEF Settled, OnDisk
  <2>3. /\ NothingLost' /\ Known' /\ OutsideSound' /\ RestoreSound'
        /\ FlagsSound' /\ DbSound' /\ FileSound' /\ StopSound'
    BY <2>1, <2>2
       DEF NothingLost, Held, OnDisk, Known, InHand, OutsideSound, Outside, AllSettled,
           Settled, RestoreSound, FlagsSound, Joined, DbSound, Entered, FileSound,
           Serving, StopSound, Stopping, Early, Late
  <2> QED BY <2>3
<1>2. CASE Crash
  <2>1. /\ mainPc # "Down" /\ cache' = <<>> /\ ToSet(cache') = {} /\ Ended
        /\ forgone' = forgone \cup (accepted \ OnDisk)
        /\ UNCHANGED <<disk, accepted, strays, caught, detoured, left>>
    BY <1>2, ItemsOfEmpty DEF Crash
  <2>2. /\ mainPc' = "Down" /\ cursor' = 0 /\ dbPc' = "Off" /\ filePc' = "Off"
        /\ ~threadFile' /\ ~threadDb' /\ ~stopDb'
        /\ pipeDb' = <<>> /\ pipeFile' = <<>> /\ ToSet(pipeDb') = {} /\ ToSet(pipeFile') = {}
        /\ caller' = [q \in Producers |-> Idle]
    BY <1>2, ItemsOfEmpty DEF Crash, Ended
  <2>3. Settled \subseteq Settled'
    BY <1>2, <2>1 DEF Settled, OnDisk
  <2>4. Known'
    BY <2>1, <2>2, <2>3 DEF Known, Held, OnDisk, InHand, Idle
  <2>5. /\ NothingLost' /\ OutsideSound' /\ RestoreSound' /\ FlagsSound'
        /\ DbSound' /\ FileSound' /\ StopSound'
    BY <2>1, <2>2, <2>3
       DEF NothingLost, Held, OnDisk, OutsideSound, Outside, AllSettled, Settled,
           RestoreSound, FlagsSound, Joined, DbSound, InHand, Entered, FileSound,
           Serving, StopSound, Stopping, Early, Late
  <2> QED BY <2>4, <2>5
<1>3. CASE Restart
  <2>1. /\ mainPc = "Down" /\ mainPc' = "Restore"
        /\ UNCHANGED <<pipes, disk, flags, caller, dbThread, fileThread, cursor, ends,
                       history>>
    BY <1>3 DEF Restart
  <2>2. Settled \subseteq Settled'
    BY <1>3, <2>1 DEF Settled, OnDisk
  <2>3. RestoreSound'
    BY <2>1, <2>2, ItemsOfEmpty DEF RestoreSound
  <2>4. /\ NothingLost' /\ Known' /\ OutsideSound' /\ FlagsSound'
        /\ DbSound' /\ FileSound' /\ StopSound'
    BY <2>1, <2>2
       DEF NothingLost, Held, OnDisk, Known, InHand, OutsideSound, Outside, AllSettled,
           Settled, FlagsSound, Joined, DbSound, Entered, FileSound, Serving, StopSound,
           Stopping, Early, Late
  <2> QED BY <2>3, <2>4
<1> QED BY <1>1, <1>2, <1>3

\* The invariant is inductive.
LEMMA StepKeeps == StorageInv /\ [Next]_vars => StorageInv'
<1> SUFFICES ASSUME StorageInv, [Next]_vars PROVE StorageInv'
  OBVIOUS
<1>1. TypeOK'
  BY TypesKept DEF StorageInv
<1>2. ASSUME NEW p \in Producers, Persist(p) \/ PushDb(p) \/ PushFile(p) PROVE StorageInv'
  BY <1>1, <1>2, CallersKeep
<1>3. CASE DbThread
  BY <1>1, <1>3, DbThreadKeeps
<1>4. CASE FileThread
  BY <1>1, <1>4, FileThreadKeeps
<1>5. CASE MainThread
  BY <1>1, <1>5, RestoreKeeps, StopKeeps DEF MainThread
<1>6. CASE DbFails \/ DbRecovers \/ Crash \/ Restart \/ UNCHANGED vars
  BY <1>1, <1>6, EnvironmentKeeps
<1> QED BY <1>2, <1>3, <1>4, <1>5, <1>6 DEF Next

\* It holds before the first init().
LEMMA InitKeeps == Init => StorageInv
<1> SUFFICES ASSUME Init PROVE StorageInv
  OBVIOUS
<1> USE DEF Init, Idle, NoItem
<1>1. TypeOK
  <2>1. SequencesTyped
    BY DEF SequencesTyped
  <2>2. FlagsTyped
    BY DEF FlagsTyped
  <2>3. HistoryTyped
    BY DEF HistoryTyped
  <2>4. OthersTyped
    BY StorageAssumption DEF OthersTyped
  <2> QED BY <2>1, <2>2, <2>3, <2>4, TypeParts
<1>2. NothingLost /\ Known /\ OutsideSound /\ FlagsSound
  BY ItemsOfEmpty DEF NothingLost, Known, Held, OnDisk, InHand, OutsideSound, Outside,
     AllSettled, FlagsSound, Joined
<1>3. RestoreSound
  BY ItemsOfEmpty DEF RestoreSound
<1>4. DbSound /\ FileSound /\ StopSound
  BY DEF DbSound, InHand, Entered, FileSound, Serving, StopSound, Stopping
<1> QED BY <1>1, <1>2, <1>3, <1>4 DEF StorageInv

--------------------------------------------------------------------------------
(***************************************************************************)
(* The theorems.                                                           *)
(***************************************************************************)

\* Every reachable state of the storage satisfies the invariant.
THEOREM StorageInvariant == Spec => []StorageInv
BY InitKeeps, StepKeeps, PTL DEF Spec

\* An item persist() returned true for is in one of the pipes, in the cache or on disk
\* for as long as the process lives, and on disk once stop() has returned; only strays,
\* items caught between stop() and a takeover, and a crash lose any.
THEOREM NothingIsLost == Spec => []NothingLost
<1>1. StorageInv => NothingLost
  BY DEF StorageInv
<1> QED BY <1>1, StorageInvariant, PTL

\* While init() has not started the threads yet, everything accepted by an earlier
\* run of the process is on disk or was lost in one of these ways: a restart forgets
\* nothing more, whether it reads the file back, fails half way or crashes.
THEOREM RestartLosesNothing ==
  Spec => [](mainPc \in {"Restore", "Remove", "Down"} =>
               accepted \subseteq OnDisk \cup strays \cup caught \cup forgone)
<1>1. StorageInv => (mainPc \in {"Restore", "Remove", "Down"} =>
                       accepted \subseteq OnDisk \cup strays \cup caught \cup forgone)
  BY DEF StorageInv, OutsideSound, Outside, AllSettled, Settled
<1> QED BY <1>1, StorageInvariant, PTL

\* A storage file is put away only when everything in it is in the database.
THEOREM FilePutAway == Spec => FileKept
<1>1. StorageInv /\ [Next]_vars => (file' = <<>> => ToSet(file) \subseteq ToSet(db))
  <2> SUFFICES ASSUME StorageInv, [Next]_vars, file' = <<>>
               PROVE  ToSet(file) \subseteq ToSet(db)
    OBVIOUS
  <2> USE DEF disk
  <2>1. CASE UNCHANGED file
    BY <2>1, ItemsOfEmpty
  <2>2. CASE FileWrite
    <3>1. file \in Seq(Items) /\ fileItem \in Items
      BY <2>2 DEF FileWrite, StorageInv, TypeOK, Known
    <3>2. Append(file, fileItem) # <<>>
      BY <3>1, ItemsOfAppend
    <3> QED BY <2>2, <3>2 DEF FileWrite
  <2>3. CASE RestoreRemove
    BY <2>3 DEF RestoreRemove, StorageInv, RestoreSound
  <2>4. CASE StopJoinFile
    <3>1. file \in Seq(Items) /\ pipeFile \in Seq(Items)
      BY DEF StorageInv, TypeOK
    <3>2. ToSet(file \o pipeFile) = ToSet(file) \cup ToSet(pipeFile)
      BY <3>1, ItemsOfConcat
    <3>3. file \o pipeFile = <<>>
      BY <2>4 DEF StopJoinFile
    <3> QED BY <3>2, <3>3, ItemsOfEmpty
  <2>5. ASSUME NEW p \in Producers, Persist(p) \/ PushDb(p) \/ PushFile(p)
        PROVE  UNCHANGED file
    BY <2>5 DEF Persist, PushDb, PushFile
  <2>6. DbThread => UNCHANGED file
    BY DEF DbThread, DbLoop, DbRead, DbPersist, DbCommit, DbFlushed, DbFlushFails, DbPop
  <2>7. FileThread => FileWrite \/ UNCHANGED file
    BY DEF FileThread, FileStart, FileJoin, FileCopy, FileClear, FileTakeCache, FileRead,
       FilePop
  <2>10. CASE RestoreFails
    <3>1. PICK f \in Seq(Items) : file' = file \o f
      BY <2>10, FailedRestore DEF StorageInv
    <3>2. ToSet(file \o f) = ToSet(file) \cup ToSet(f)
      BY <3>1, ItemsOfConcat DEF StorageInv, TypeOK
    <3>3. file \o f = <<>>
      BY <3>1
    <3> QED BY <3>2, <3>3, ItemsOfEmpty
  <2>8. MainThread => RestoreRemove \/ StopJoinFile \/ RestoreFails \/ UNCHANGED file
    BY DEF MainThread, RestoreLine, RestoreFlush, StartEmpty, StartWithoutDb,
       Stop, StopJoinDb, StopFlushItem, StopFlushFails, StopTransfer, StopEndFile
  <2>9. DbFails \/ DbRecovers \/ Crash \/ Restart \/ UNCHANGED vars => UNCHANGED file
    BY DEF DbFails, DbRecovers, Crash, Restart, vars
  <2> QED BY <2>1, <2>2, <2>3, <2>4, <2>5, <2>6, <2>7, <2>8, <2>9, <2>10 DEF Next
<1> QED BY <1>1, StorageInvariant, PTL DEF Spec, FileKept

--------------------------------------------------------------------------------
(***************************************************************************)
(* What is stored is stored once and in order.                             *)
(*                                                                         *)
(* All items that are stored or wait for it stand in one line: database,   *)
(* cache, the database's pipe, the file, the file's pipe.  A thread moves  *)
(* an item from one part of the line to the next, and the takeover whole   *)
(* parts; each step but stop() leaves the line as it is or puts a new item *)
(* into it.                                                                *)
(***************************************************************************)

\* One thread at a time is inside persist(): StrategyContainer calls it for orders, fills
\* and commands with its lock held.
OneCaller == \A p, q \in Producers : p = q

\* One line behind another.
s ++ t == s \o t

\* An item comes before another one only where R allows it.
Pairwise(s, R) == \A i, j \in 1 .. Len(s) : i < j => <<s[i], s[j]>> \in R

Rising == {q \in Items \X Items : q[1] < q[2]}

\* Two items of a line differ, unless they are of the named exceptions.
Exempt == repeats \cup caught

Differ(X) == {q \in Items \X Items : q[1] # q[2] \/ q[1] \in X}

\* The database's pipe without an item that is in the cache already.
RestDb == IF dbPc \in Entered THEN Tail(pipeDb) ELSE pipeDb

\* What the file thread has copied of it is not to be stored from it any more.
Copied == {"Clear", "TakeCache"} \cup Serving

Rest == IF filePc \in Copied THEN <<>> ELSE RestDb

\* The file's pipe without an item that is in the file already.
RestFile == IF filePc = "Pop" THEN Tail(pipeFile) ELSE pipeFile

\* The lines of the file that init() has not read.
Unread == IF mainPc \in {"Restore", "Remove"} THEN SubSeq(file, cursor + 1, Len(file)) ELSE file

\* Everything that is stored or waits for it, in the order it will be stored.
Line == db ++ (cache ++ (Rest ++ (Unread ++ RestFile)))

\* Each thread pops the item it has read, and only a caller's new item comes to a line.
HandsSound ==
  /\ \A p \in Producers : caller[p].pc # "Idle" => \A a \in accepted : a < caller[p].item
  /\ dbPc \in InHand => pipeDb # <<>> /\ Head(pipeDb) = dbItem
  /\ mainPc = "Remove" => cursor = Len(file)

WritesHead == filePc = "Write" => pipeFile # <<>> /\ fileItem = Head(pipeFile)

\* In a run the file is empty until the file thread serves; what is left on the
\* database's pipe by then is one stray.
RunSound ==
  mainPc = "Run" =>
    /\ WritesHead
    /\ filePc \notin Serving => file = <<>>
    /\ filePc \in {"Clear", "TakeCache"} => ToSet(pipeDb) \cap OnDisk \subseteq Exempt
    /\ filePc \in Serving \cup {"TakeCache"} =>
         /\ Len(pipeDb) <= 1
         /\ \A p \in Producers : caller[p].pc = "PushDb" => pipeDb = <<>>

\* The cache in stop(): what is left in it after the second loop is on a pipe as well.
StopCache == IF mainPc \in {"JoinDb", "FlushDb"} THEN cache ELSE <<>>

\* stop() without a takeover, during one, and after one.
Before ==
  /\ Early
  /\ file = <<>>
  /\ Pairwise(db ++ (StopCache ++ (RestDb ++ pipeFile)), Differ(Exempt))

During ==
  /\ Pairwise(db ++ file, Differ(Exempt))
  /\ ToSet(cache) \cup ToSet(RestDb) \cup ToSet(pipeFile) \subseteq Exempt
  /\ filePc = "Write" => fileItem \in Exempt

After ==
  /\ filePc \in Serving
  /\ WritesHead
  /\ Pairwise(db ++ (file ++ RestFile), Differ(Exempt))
  /\ mainPc = "JoinDb" => cache = <<>> /\ Len(pipeDb) <= 1
  /\ mainPc = "FlushDb" => pipeDb = <<>> \/ (cache = <<>> /\ Len(pipeDb) <= 1)
  /\ mainPc \notin {"JoinDb", "FlushDb"} => pipeDb = <<>>

StopSafe == Before \/ During \/ After

\* Wherever the items are, each of them is there once, but for the exceptions.
OnceInv ==
  ~left =>
    /\ HandsSound /\ RunSound
    /\ mainPc \notin Stopping => Pairwise(Line, Differ(Exempt))
    /\ mainPc \in Stopping => StopSafe

\* In the first run, without a detour, the line is in order.
OrderInv ==
  /\ ends = 0 /\ mainPc = "Restore" => db = <<>> /\ file = <<>> /\ cache = <<>>
  /\ ends = 0 /\ mainPc \notin Stopping => mainPc \in {"Restore", "Run"}
  /\ ends = 0 /\ mainPc = "Run" /\ ~detoured /\ ~left =>
       /\ Pairwise(Line, Rising)
       /\ ~doneDb => pipeFile = <<>> /\ \A p \in Producers : caller[p].pc # "PushFile"
       /\ filePc \notin Copied =>
            \A p \in Producers : caller[p].pc = "PushDb" => pipeFile = <<>>

--------------------------------------------------------------------------------
(***************************************************************************)
(* Lines: what moves between neighbours leaves the line as it is.          *)
(***************************************************************************)

Across(s, t, R) == \A x \in ToSet(s), y \in ToSet(t) : <<x, y>> \in R

Symmetric(R) == \A x, y \in Items : <<x, y>> \in R => <<y, x>> \in R

\* Nothing and a single item are a line.
LEMMA LineOfOne ==
  ASSUME NEW R, NEW e \in Items
  PROVE  Pairwise(<<>>, R) /\ Pairwise(<<e>>, R) /\ <<e>> \in Seq(Items) /\ ToSet(<<e>>) = {e}
BY DEF Pairwise, ToSet

\* One line behind another.
LEMMA LineOfConcat ==
  ASSUME NEW R, NEW s \in Seq(Items), NEW t \in Seq(Items)
  PROVE  Pairwise(s ++ t, R) <=> Pairwise(s, R) /\ Pairwise(t, R) /\ Across(s, t, R)
<1> DEFINE u == s \o t
<1>1. /\ Len(u) = Len(s) + Len(t) /\ Len(s) \in Nat /\ Len(t) \in Nat
      /\ \A i \in 1 .. Len(s) + Len(t) : u[i] = IF i <= Len(s) THEN s[i] ELSE t[i - Len(s)]
  BY ConcatProperties, LenProperties
<1>2. /\ \A i \in 1 .. Len(s) : i \in 1 .. Len(u) /\ u[i] = s[i]
      /\ \A j \in 1 .. Len(t) : Len(s) + j \in 1 .. Len(u) /\ u[Len(s) + j] = t[j]
  BY <1>1
<1> HIDE DEF u
<1>3. ASSUME Pairwise(u, R) PROVE Pairwise(s, R) /\ Pairwise(t, R) /\ Across(s, t, R)
  <2>1. Pairwise(s, R)
    BY <1>2, <1>3 DEF Pairwise
  <2>2. Pairwise(t, R)
    <3>1. SUFFICES ASSUME NEW i \in 1 .. Len(t), NEW j \in 1 .. Len(t), i < j
                   PROVE  <<t[i], t[j]>> \in R
      BY DEF Pairwise
    <3>2. Len(s) + i < Len(s) + j
      BY <3>1, <1>1
    <3> QED BY <3>2, <1>2, <1>3 DEF Pairwise
  <2>3. Across(s, t, R)
    <3>1. SUFFICES ASSUME NEW x \in ToSet(s), NEW y \in ToSet(t) PROVE <<x, y>> \in R
      BY DEF Across
    <3>2. PICK i \in 1 .. Len(s) : x = s[i]
      BY ItemsOf
    <3>3. PICK j \in 1 .. Len(t) : y = t[j]
      BY ItemsOf
    <3>4. i < Len(s) + j
      BY <1>1
    <3> QED BY <3>2, <3>3, <3>4, <1>2, <1>3 DEF Pairwise
  <2> QED BY <2>1, <2>2, <2>3
<1>4. ASSUME Pairwise(s, R), Pairwise(t, R), Across(s, t, R) PROVE Pairwise(u, R)
  <2>1. SUFFICES ASSUME NEW i \in 1 .. Len(u), NEW j \in 1 .. Len(u), i < j
                 PROVE  <<u[i], u[j]>> \in R
    BY DEF Pairwise
  <2>2. CASE j <= Len(s)
    BY <2>1, <2>2, <1>1, <1>4 DEF Pairwise
  <2>3. CASE i > Len(s)
    <3>1. i - Len(s) \in 1 .. Len(t) /\ j - Len(s) \in 1 .. Len(t) /\ i - Len(s) < j - Len(s)
      BY <2>1, <2>3, <1>1
    <3>2. u[i] = t[i - Len(s)] /\ u[j] = t[j - Len(s)]
      BY <2>1, <2>3, <1>1
    <3> QED BY <3>1, <3>2, <1>4 DEF Pairwise
  <2>4. CASE i <= Len(s) /\ j > Len(s)
    <3>1. i \in 1 .. Len(s) /\ j - Len(s) \in 1 .. Len(t)
      BY <2>4, <1>1
    <3>2. u[i] = s[i] /\ u[j] = t[j - Len(s)]
      BY <2>4, <1>1
    <3>3. s[i] \in ToSet(s) /\ t[j - Len(s)] \in ToSet(t)
      BY <3>1, ItemsOf
    <3> QED BY <3>2, <3>3, <1>4 DEF Across
  <2> QED BY <2>2, <2>3, <2>4, <1>1
<1> QED BY <1>3, <1>4 DEF u, ++

\* What is in front of, behind and around a line that is empty or has been joined.
LEMMA Joins ==
  /\ \A s \in Seq(Items) : s ++ <<>> = s /\ <<>> ++ s = s
  /\ \A s, t \in Seq(Items) : s ++ t \in Seq(Items)
  /\ \A s, t, u \in Seq(Items) : (s ++ t) ++ u = s ++ (t ++ u)
  /\ <<>> \in Seq(Items)
<1>1. \A s \in Seq(Items) : s ++ <<>> = s /\ <<>> ++ s = s
  BY ConcatEmptySeq DEF ++
<1>2. \A s, t \in Seq(Items) : s ++ t \in Seq(Items)
  BY ConcatProperties DEF ++
<1>3. \A s, t, u \in Seq(Items) : (s ++ t) ++ u = s ++ (t ++ u)
  BY ConcatAssociative DEF ++
<1> QED BY <1>1, <1>2, <1>3

\* The items of two lines.
LEMMA ItemsOfJoin ==
  ASSUME NEW s \in Seq(Items), NEW t \in Seq(Items)
  PROVE  s ++ t \in Seq(Items) /\ ToSet(s ++ t) = ToSet(s) \cup ToSet(t)
BY ItemsOfConcat DEF ++

\* An item at the end, the first item and the others, the first n and the others.
LEMMA Parts ==
  ASSUME NEW s \in Seq(Items)
  PROVE  /\ \A e \in Items : Append(s, e) = s ++ <<e>> /\ <<e>> \in Seq(Items)
         /\ s # <<>> => s = <<Head(s)>> ++ Tail(s) /\ Head(s) \in Items /\ Tail(s) \in Seq(Items)
         /\ \A n \in 0 .. Len(s) :
              /\ s = SubSeq(s, 1, n) ++ SubSeq(s, n + 1, Len(s))
              /\ SubSeq(s, 1, n) \in Seq(Items) /\ SubSeq(s, n + 1, Len(s)) \in Seq(Items)
<1>1. \A e \in Items : Append(s, e) = s ++ <<e>> /\ <<e>> \in Seq(Items)
  BY AppendIsConcat DEF ++
<1>2. ASSUME s # <<>>
      PROVE  s = <<Head(s)>> ++ Tail(s) /\ Head(s) \in Items /\ Tail(s) \in Seq(Items)
  <2>1. Len(s) \in Nat /\ Len(s) >= 1 /\ Head(s) = s[1]
    BY <1>2, EmptySeq, LenProperties
  <2>2. SubSeq(s, 1, Len(s)) = <<s[1]>> ++ SubSeq(s, 2, Len(s))
    <3>1. 1 \in 1 .. Len(s) /\ Len(s) \in 1 .. Len(s)
      BY <2>1
    <3>2. \A m \in 1 .. Len(s) : \A n \in m .. Len(s) :
            SubSeq(s, m, n) = <<s[m]>> ++ SubSeq(s, m + 1, n)
      BY SubSeqRecursiveFirst DEF ++
    <3>3. SubSeq(s, 1, Len(s)) = <<s[1]>> ++ SubSeq(s, 1 + 1, Len(s))
      BY <3>1, <3>2
    <3>4. 1 + 1 = 2
      OBVIOUS
    <3> QED BY <3>3, <3>4
  <2>3. Tail(s) = SubSeq(s, 2, Len(s))
    BY <1>2, TailIsSubSeq
  <2> QED BY <1>2, <2>1, <2>2, <2>3, SubSeqFull, HeadTailProperties
<1>3. ASSUME NEW n \in 0 .. Len(s)
      PROVE  /\ s = SubSeq(s, 1, n) ++ SubSeq(s, n + 1, Len(s))
             /\ SubSeq(s, 1, n) \in Seq(Items) /\ SubSeq(s, n + 1, Len(s)) \in Seq(Items)
  <2>1. 1 \in 1 .. Len(s) + 1 /\ n \in 1 - 1 .. Len(s) /\ Len(s) \in n .. Len(s)
    OBVIOUS
  <2>2. \A m \in 1 .. Len(s) + 1 : \A k \in m - 1 .. Len(s) : \A l \in k .. Len(s) :
          SubSeq(s, m, k) ++ SubSeq(s, k + 1, l) = SubSeq(s, m, l)
    BY ConcatAdjacentSubSeq DEF ++
  <2>3. SubSeq(s, 1, n) ++ SubSeq(s, n + 1, Len(s)) = SubSeq(s, 1, Len(s))
    BY <2>1, <2>2
  <2>4. SubSeq(s, 1, n) \in Seq(Items) /\ SubSeq(s, n + 1, Len(s)) \in Seq(Items)
    BY ItemsOfSplit
  <2> QED BY <2>3, <2>4, SubSeqFull
<1> QED BY <1>1, <1>2, <1>3

\* A loop that puts one item after the other to the front turns a line around.
LEMMA LineOfReverse ==
  ASSUME NEW R, NEW s \in Seq(Items), Symmetric(R), Pairwise(s, R)
  PROVE  Pairwise(Reverse(s), R)
<1>1. Len(Reverse(s)) = Len(s) /\ \A i \in 1 .. Len(s) : Reverse(s)[i] = s[(Len(s) - i) + 1]
  BY DEF Reverse
<1>2. SUFFICES ASSUME NEW i \in 1 .. Len(s), NEW j \in 1 .. Len(s), i < j
               PROVE  <<Reverse(s)[i], Reverse(s)[j]>> \in R
  BY <1>1 DEF Pairwise
<1>3. /\ (Len(s) - i) + 1 \in 1 .. Len(s) /\ (Len(s) - j) + 1 \in 1 .. Len(s)
      /\ (Len(s) - j) + 1 < (Len(s) - i) + 1
  BY <1>2
<1>4. <<s[(Len(s) - j) + 1], s[(Len(s) - i) + 1]>> \in R
  BY <1>3 DEF Pairwise
<1>5. s[(Len(s) - j) + 1] \in Items /\ s[(Len(s) - i) + 1] \in Items
  BY <1>3, ElementOfSeq
<1> QED BY <1>1, <1>4, <1>5 DEF Symmetric

\* The parts of a line are lines of accepted items.
LEMMA LineTyped ==
  ASSUME StorageInv, HandsSound
  PROVE  /\ {db, cache, file, pipeDb, pipeFile} \subseteq Seq(Items)
         /\ RestDb \in Seq(Items) /\ ToSet(RestDb) \subseteq ToSet(pipeDb)
         /\ Rest \in Seq(Items) /\ ToSet(Rest) \subseteq ToSet(pipeDb)
         /\ RestFile \in Seq(Items) /\ ToSet(RestFile) \subseteq ToSet(pipeFile)
         /\ Unread \in Seq(Items) /\ ToSet(Unread) \subseteq ToSet(file)
         /\ StopCache \in Seq(Items) /\ ToSet(StopCache) \subseteq ToSet(cache)
<1>1. /\ db \in Seq(Items) /\ cache \in Seq(Items) /\ file \in Seq(Items)
      /\ pipeDb \in Seq(Items) /\ pipeFile \in Seq(Items) /\ cursor \in 0 .. Len(file)
  BY TypeParts DEF StorageInv, SequencesTyped, OthersTyped
<1>2. RestDb \in Seq(Items) /\ ToSet(RestDb) \subseteq ToSet(pipeDb)
  BY <1>1, ItemsOfPop DEF RestDb, HandsSound, Entered, InHand
<1>3. RestFile \in Seq(Items) /\ ToSet(RestFile) \subseteq ToSet(pipeFile)
  BY <1>1, ItemsOfPop DEF RestFile, StorageInv, FileSound
<1>4. Unread \in Seq(Items) /\ ToSet(Unread) \subseteq ToSet(file)
  BY <1>1, ItemsOfSplit DEF Unread
<1>5. <<>> \in Seq(Items) /\ ToSet(<<>>) = {}
  BY ItemsOfEmpty
<1>6. Rest \in Seq(Items) /\ ToSet(Rest) \subseteq ToSet(pipeDb)
  BY <1>2, <1>5 DEF Rest
<1>7. StopCache \in Seq(Items) /\ ToSet(StopCache) \subseteq ToSet(cache)
  BY <1>1, <1>5 DEF StopCache
<1> QED BY <1>1, <1>2, <1>3, <1>4, <1>6, <1>7

\* All of the line has been accepted.
LEMMA LineAccepted ==
  ASSUME StorageInv, HandsSound
  PROVE  Line \in Seq(Items) /\ ToSet(Line) \subseteq accepted
<1> DEFINE a == Unread ++ RestFile
           b == Rest ++ a
           c == cache ++ b
<1>1. a \in Seq(Items) /\ ToSet(a) = ToSet(Unread) \cup ToSet(RestFile)
  BY LineTyped, ItemsOfJoin
<1>2. b \in Seq(Items) /\ ToSet(b) = ToSet(Rest) \cup ToSet(a)
  <2> HIDE DEF a
  <2> QED BY <1>1, LineTyped, ItemsOfJoin
<1>3. c \in Seq(Items) /\ ToSet(c) = ToSet(cache) \cup ToSet(b)
  <2> HIDE DEF b
  <2> QED BY <1>2, LineTyped, ItemsOfJoin
<1>4. db ++ c \in Seq(Items) /\ ToSet(db ++ c) = ToSet(db) \cup ToSet(c)
  <2> HIDE DEF c
  <2> QED BY <1>3, LineTyped, ItemsOfJoin
<1>5. Line = db ++ c
  BY DEF Line
<1> HIDE DEF a, b, c
<1>6. ToSet(db) \cup ToSet(cache) \cup ToSet(pipeDb) \cup ToSet(file) \cup ToSet(pipeFile)
        \subseteq accepted
  BY DEF StorageInv, Known, Held, OnDisk
<1> QED BY <1>1, <1>2, <1>3, <1>4, <1>5, <1>6, LineTyped

\* The next item has a number of its own: the largest one so far.
LEMMA NextItemFresh ==
  ASSUME TypeOK PROVE \A a \in accepted : a < NextItem
<1> DEFINE T == {NoItem} \cup accepted \cup {caller[p].item : p \in Producers}
<1>1. T \in SUBSET (0 .. MaxItems) /\ T # {} /\ MaxItems \in Nat
  BY StorageAssumption DEF TypeOK, Items, NoItem
<1>2. Max(T) \in Nat /\ \A y \in T : y \in Nat /\ y <= Max(T)
  <2> HIDE DEF T
  <2>1. Max(T) \in T /\ \A y \in T : y <= Max(T)
    BY <1>1, MaxBounds
  <2>2. \A y \in T : y \in Nat
    BY <1>1
  <2> QED BY <2>1, <2>2
<1>3. NextItem = 1 + Max(T) /\ accepted \subseteq T
  BY DEF NextItem
<1> HIDE DEF T
<1> QED BY <1>2, <1>3

\* What the two kinds of lines allow: a new item after what was accepted before.
LEMMA NewItem ==
  ASSUME NEW X, NEW s \in Seq(Items), NEW x \in Items, \A a \in ToSet(s) : a < x
  PROVE  /\ Symmetric(Differ(X))
         /\ Across(s, <<x>>, Differ(X)) /\ Across(<<x>>, s, Differ(X))
         /\ Across(s, <<x>>, Rising)
<1>1. /\ \A a \in ToSet(s) : a \in Items /\ a # x
      /\ ToSet(<<x>>) = {x}
  <2>1. ToSet(s) \subseteq Items
    BY ItemsOf
  <2>2. ToSet(<<x>>) = {x}
    BY LineOfOne
  <2>3. \A a \in Items : a \in Int
    BY StorageAssumption DEF Items
  <2> QED BY <2>1, <2>2, <2>3
<1>2. /\ Symmetric(Differ(X))
      /\ Across(s, <<x>>, Differ(X)) /\ Across(<<x>>, s, Differ(X))
  BY <1>1 DEF Symmetric, Differ, Across
<1>3. Across(s, <<x>>, Rising)
  BY <1>1 DEF Rising, Across
<1> QED BY <1>2, <1>3

\* One more behind three others, and in front of a fourth.
LEMMA JoinLast ==
  ASSUME NEW s \in Seq(Items), NEW t \in Seq(Items), NEW u \in Seq(Items),
         NEW e \in Seq(Items)
  PROVE  s ++ (t ++ (u ++ e)) = (s ++ (t ++ u)) ++ e
BY Joins

\* The same in front of a fourth.
LEMMA JoinMiddle ==
  ASSUME NEW s \in Seq(Items), NEW t \in Seq(Items), NEW u \in Seq(Items),
         NEW e \in Seq(Items), NEW v \in Seq(Items)
  PROVE  s ++ (t ++ ((u ++ e) ++ v)) = (s ++ (t ++ u)) ++ (e ++ v)
BY Joins

\* A line within another one.
LEMMA LineInside ==
  ASSUME NEW R, NEW a \in Seq(Items), NEW b \in Seq(Items), NEW e \in Seq(Items),
         Pairwise(a ++ b, R), Pairwise(e, R), Across(a, e, R), Across(e, b, R)
  PROVE  Pairwise(a ++ (e ++ b), R)
<1>1. Pairwise(a, R) /\ Pairwise(b, R) /\ Across(a, b, R)
  BY LineOfConcat
<1>2. e ++ b \in Seq(Items) /\ ToSet(e ++ b) = ToSet(e) \cup ToSet(b)
  BY ItemsOfJoin
<1>3. Pairwise(e ++ b, R)
  BY <1>1, LineOfConcat
<1>4. Across(a, e ++ b, R)
  BY <1>1, <1>2 DEF Across
<1> QED BY <1>1, <1>2, <1>3, <1>4, LineOfConcat

\* persist() takes a number that is new, and puts its item at the end of a line or, when
\* an item has passed the full pipe by, somewhere within it.
LEMMA CallersKeepLine ==
  ASSUME StorageInv, StorageInv', OneCaller, HandsSound, RunSound, ~left,
         NEW p \in Producers, Persist(p) \/ PushDb(p) \/ PushFile(p)
  PROVE  /\ HandsSound' /\ RunSound'
         /\ mainPc = "Run" /\ UNCHANGED <<mainPc, ends, Exempt>>
         /\ Pairwise(Line, Differ(Exempt)) => Pairwise(Line', Differ(Exempt))
         /\ /\ Pairwise(Line, Rising)
            /\ caller[p].pc = "PushDb" /\ filePc \notin Copied => pipeFile = <<>>
            => Pairwise(Line', Rising)
<1> USE DEF pipes, disk, flags, dbThread, fileThread, main, history
<1> DEFINE a == db ++ (cache ++ Rest)
           b == Unread ++ RestFile
           x == caller[p].item
<1>0. /\ db \in Seq(Items) /\ cache \in Seq(Items) /\ file \in Seq(Items)
      /\ pipeDb \in Seq(Items) /\ pipeFile \in Seq(Items)
      /\ RestDb \in Seq(Items) /\ Rest \in Seq(Items) /\ Unread \in Seq(Items)
      /\ RestFile \in Seq(Items)
  BY LineTyped
<1>a. a \in Seq(Items) /\ b \in Seq(Items) /\ Line = a ++ b
  <2>1. b \in Seq(Items) /\ cache ++ Rest \in Seq(Items)
    BY <1>0, Joins
  <2>2. Line = db ++ (cache ++ (Rest ++ b))
    BY DEF Line
  <2> HIDE DEF b
  <2>3. a \in Seq(Items) /\ db ++ (cache ++ (Rest ++ b)) = a ++ b
    BY <1>0, <2>1, Joins
  <2> QED BY <2>1, <2>2, <2>3
<1>b. caller \in [Producers -> [pc : {"Idle", "PushDb", "PushFile", "PushFileAndStart"},
                                item : Items \cup {NoItem}]]
  BY DEF StorageInv, TypeOK
<1>1. CASE Persist(p)
  <2>1. \A i \in accepted : i < NextItem
    BY NextItemFresh DEF StorageInv
  <2>2. /\ mainPc = "Run" /\ UNCHANGED <<pipes, disk, flags, dbThread, fileThread, main, history>>
        /\ caller[p] = Idle
        /\ caller'[p].item = NextItem /\ (caller'[p].pc = "PushDb" => ~doneDb)
        /\ \A q \in Producers : q = p
    BY <1>1, <1>b DEF Persist, OneCaller
  <2>3. HandsSound'
    BY <2>1, <2>2 DEF HandsSound, InHand
  <2>4. RunSound'
    BY <2>2 DEF RunSound, WritesHead, OnDisk, Exempt, Serving, StorageInv, FlagsSound
  <2>5. Line' = Line
    BY <2>2 DEF Line, Rest, RestDb, Unread, RestFile
  <2> QED BY <2>2, <2>3, <2>4, <2>5 DEF Exempt
<1>2. CASE PushDb(p)
  <2>1. /\ mainPc = "Run" /\ x \in Items /\ caller[p].pc = "PushDb"
        /\ \A i \in accepted : i < x
        /\ \A q \in Producers : q = p
    BY <1>2 DEF PushDb, StorageInv, Known, Idle, OneCaller, HandsSound
  <2>2. /\ pipeDb' = Append(pipeDb, x)
        /\ accepted' = accepted \cup {x} /\ caller'[p] = Idle
        /\ UNCHANGED <<cache, pipeFile, disk, flags, dbThread, fileThread, main, caught,
                       forgone, detoured, left, repeats>>
    BY <1>2, <1>b DEF PushDb, Accept
  <2>3. /\ pipeDb' # <<>> /\ ToSet(pipeDb') = ToSet(pipeDb) \cup {x}
        /\ pipeDb # <<>> => Head(pipeDb') = Head(pipeDb)
        /\ Len(pipeDb') = Len(pipeDb) + 1
    <3>1. pipeDb \in Seq(Items) /\ x \in Items
      BY <1>0, <2>1
    <3> HIDE DEF x
    <3> QED BY <2>2, <3>1, ItemsOfAppend
  <2>4. HandsSound'
    BY <2>1, <2>2, <2>3 DEF HandsSound, InHand, Idle
  <2>5. x \notin OnDisk
    <3>1. OnDisk \subseteq accepted /\ \A i \in Items : ~(i < i)
      BY StorageAssumption DEF StorageInv, Known, Items
    <3> QED BY <2>1, <3>1
  <2>6. RunSound'
    <3>1. WritesHead /\ (filePc \notin Serving => file = <<>>)
      BY <2>1 DEF RunSound
    <3>2. filePc \in {"Clear", "TakeCache"} => ToSet(pipeDb') \cap OnDisk \subseteq Exempt
      BY <2>1, <2>3, <2>5 DEF RunSound
    <3>3. filePc \in Serving \cup {"TakeCache"} => Len(pipeDb') <= 1
      <4>1. filePc \in Serving \cup {"TakeCache"} => pipeDb = <<>>
        BY <2>1 DEF RunSound
      <4> QED BY <2>3, <4>1
    <3>4. \A q \in Producers : caller'[q].pc # "PushDb"
      BY <2>1, <2>2 DEF Idle
    <3> QED BY <2>1, <2>2, <3>1, <3>2, <3>3, <3>4 DEF RunSound, WritesHead, OnDisk, Exempt
  <2>7. CASE filePc \in Copied
    <3>1. Line' = Line
      BY <2>2, <2>7 DEF Line, Rest, Unread, RestFile
    <3> QED BY <2>1, <2>2, <2>4, <2>6, <3>1 DEF Exempt
  <2>8. CASE filePc \notin Copied
    <3>1. RestDb' = RestDb ++ <<x>> /\ <<x>> \in Seq(Items)
      <4>1. pipeDb' = pipeDb ++ <<x>> /\ <<x>> \in Seq(Items)
        BY <1>0, <2>1, <2>2, Parts
      <4>2. dbPc \in Entered => pipeDb # <<>>
        BY DEF HandsSound, InHand, Entered
      <4>3. CASE dbPc \in Entered
        <5>1. Tail(Append(pipeDb, x)) = Append(Tail(pipeDb), x) /\ Tail(pipeDb) \in Seq(Items)
          BY <1>0, <4>2, <4>3, HeadTailAppend, HeadTailProperties
        <5>2. Append(Tail(pipeDb), x) = Tail(pipeDb) ++ <<x>>
          BY <5>1, <2>1, Parts
        <5> QED BY <4>1, <4>3, <5>1, <5>2, <2>2 DEF RestDb
      <4> QED BY <4>1, <4>3, <2>2 DEF RestDb
    <3>2. Line' = db ++ (cache ++ ((Rest ++ <<x>>) ++ b)) /\ UNCHANGED <<Unread, RestFile>>
      BY <2>2, <2>8, <3>1 DEF Line, Rest, Unread, RestFile
    <3>3. Line' = a ++ (<<x>> ++ b)
      <4> HIDE DEF b
      <4>1. db ++ (cache ++ ((Rest ++ <<x>>) ++ b)) = a ++ (<<x>> ++ b)
        <5> DEFINE y == <<x>>
        <5>1. /\ db \in Seq(Items) /\ cache \in Seq(Items) /\ Rest \in Seq(Items)
              /\ y \in Seq(Items) /\ b \in Seq(Items)
          BY <1>0, <1>a, <3>1
        <5> HIDE DEF y
        <5>2. db ++ (cache ++ ((Rest ++ y) ++ b)) = (db ++ (cache ++ Rest)) ++ (y ++ b)
          BY <5>1, JoinMiddle
        <5> QED BY <5>2 DEF y
      <4> QED BY <3>2, <4>1
    <3>4. ToSet(a) \subseteq accepted /\ ToSet(b) \subseteq accepted
      <4>1. ToSet(Line) = ToSet(a) \cup ToSet(b)
        <5> HIDE DEF a, b
        <5> QED BY <1>a, ItemsOfJoin
      <4> QED BY <4>1, LineAccepted
    <3>5. /\ Across(a, <<x>>, Differ(Exempt)) /\ Across(<<x>>, b, Differ(Exempt))
          /\ Across(a, <<x>>, Rising)
      <4> HIDE DEF a, b, x
      <4> QED BY <1>a, <2>1, <3>4, NewItem
    <3>6. Pairwise(<<x>>, Differ(Exempt)) /\ Pairwise(<<x>>, Rising)
      BY <2>1, LineOfOne
    <3>7. ASSUME Pairwise(Line, Differ(Exempt)) PROVE Pairwise(Line', Differ(Exempt))
      <4> HIDE DEF a, b, x
      <4> QED BY <1>a, <3>1, <3>3, <3>5, <3>6, <3>7, LineInside
    <3>8. ASSUME Pairwise(Line, Rising), pipeFile = <<>> PROVE Pairwise(Line', Rising)
      <4>1. b = <<>>
        BY <1>0, <2>1, <2>8, <3>8, Joins DEF RunSound, Copied, Unread, RestFile, Serving
      <4>2. Across(<<x>>, b, Rising)
        BY <4>1, ItemsOfEmpty DEF Across
      <4> HIDE DEF a, b, x
      <4> QED BY <1>a, <3>1, <3>3, <3>5, <3>6, <3>8, <4>2, LineInside
    <3> QED BY <2>1, <2>2, <2>4, <2>6, <2>8, <3>7, <3>8 DEF Exempt
  <2> QED BY <2>7, <2>8
<1>3. CASE PushFile(p)
  <2>1. /\ mainPc = "Run" /\ x \in Items /\ caller[p].pc # "PushDb"
        /\ \A i \in accepted : i < x
        /\ \A q \in Producers : q = p
    BY <1>3 DEF PushFile, StorageInv, Known, Idle, OneCaller, HandsSound
  <2>2. /\ pipeFile' = Append(pipeFile, x)
        /\ accepted' = accepted \cup {x} /\ caller'[p] = Idle
        /\ filePc' = filePc \/ (filePc' = "Start" /\ filePc = "Off")
        /\ UNCHANGED <<pipeDb, cache, disk, doneDb, stopDb, doneFile, threadDb, dbThread,
                       fileItem, main, strays, caught, forgone, left, repeats>>
    BY <1>3, <1>b DEF PushFile, Accept, StartFileThread, StorageInv, FlagsSound
  <2>3. /\ pipeFile' # <<>>
        /\ pipeFile # <<>> => Head(pipeFile') = Head(pipeFile)
    BY <1>0, <2>1, <2>2, ItemsOfAppend
  <2>4. HandsSound'
    BY <2>1, <2>2 DEF HandsSound, InHand, Idle
  <2>5. RunSound'
    <3>1. WritesHead'
      BY <2>1, <2>2, <2>3 DEF RunSound, WritesHead
    <3>2. \A q \in Producers : caller'[q].pc # "PushDb"
      BY <2>1, <2>2 DEF Idle
    <3> QED BY <2>1, <2>2, <3>1, <3>2 DEF RunSound, OnDisk, Exempt, Serving
  <2>6. RestFile' = RestFile ++ <<x>> /\ <<x>> \in Seq(Items)
    <3>1. pipeFile' = pipeFile ++ <<x>> /\ <<x>> \in Seq(Items)
      BY <1>0, <2>1, <2>2, Parts
    <3>2. filePc = "Pop" => pipeFile # <<>>
      BY DEF StorageInv, FileSound
    <3>3. CASE filePc = "Pop"
      <4>1. Tail(Append(pipeFile, x)) = Append(Tail(pipeFile), x) /\ Tail(pipeFile) \in Seq(Items)
        BY <1>0, <3>2, <3>3, HeadTailAppend, HeadTailProperties
      <4>2. Append(Tail(pipeFile), x) = Tail(pipeFile) ++ <<x>>
        BY <4>1, <2>1, Parts
      <4> QED BY <3>1, <3>3, <4>1, <4>2, <2>2 DEF RestFile
    <3> QED BY <3>1, <3>3, <2>2 DEF RestFile
  <2>7. UNCHANGED <<Rest, Unread>>
    BY <2>2 DEF Rest, RestDb, Unread, Copied, Serving
  <2>8. Line' = db ++ (cache ++ (Rest ++ (Unread ++ (RestFile ++ <<x>>))))
    BY <2>2, <2>6, <2>7 DEF Line
  <2>9. Line' = Line ++ (<<x>> ++ <<>>) /\ Line ++ <<>> = Line /\ Line \in Seq(Items)
    <3>1. Line' = Line ++ <<x>>
      <4> DEFINE c == Rest ++ (Unread ++ RestFile)
      <4>1. c \in Seq(Items) /\ Unread ++ RestFile \in Seq(Items)
        BY <1>0, Joins
      <4>2. Rest ++ (Unread ++ (RestFile ++ <<x>>)) = c ++ <<x>>
        <5> DEFINE y == <<x>>
        <5>1. y \in Seq(Items)
          BY <2>6
        <5> HIDE DEF y
        <5>2. Rest ++ (Unread ++ (RestFile ++ y)) = (Rest ++ (Unread ++ RestFile)) ++ y
          BY <1>0, <5>1, JoinLast
        <5> QED BY <5>2 DEF y
      <4>3. Line = db ++ (cache ++ c) /\ Line' = db ++ (cache ++ (c ++ <<x>>))
        BY <2>8, <4>2 DEF Line
      <4> HIDE DEF c
      <4>4. db ++ (cache ++ (c ++ <<x>>)) = (db ++ (cache ++ c)) ++ <<x>>
        <5> DEFINE y == <<x>>
        <5>1. y \in Seq(Items)
          BY <2>6
        <5> HIDE DEF y
        <5>2. db ++ (cache ++ (c ++ y)) = (db ++ (cache ++ c)) ++ y
          BY <1>0, <4>1, <5>1, JoinLast
        <5> QED BY <5>2 DEF y
      <4> QED BY <4>3, <4>4
    <3> QED BY <2>6, <3>1, Joins, LineAccepted
  <2>10. /\ Across(Line, <<x>>, Differ(Exempt)) /\ Across(Line, <<x>>, Rising)
         /\ Across(<<x>>, <<>>, Differ(Exempt)) /\ Across(<<x>>, <<>>, Rising)
    <3>1. Across(Line, <<x>>, Differ(Exempt)) /\ Across(Line, <<x>>, Rising)
      <4> HIDE DEF x
      <4> QED BY <2>1, LineAccepted, NewItem
    <3> QED BY <3>1, ItemsOfEmpty DEF Across
  <2>11. Pairwise(<<x>>, Differ(Exempt)) /\ Pairwise(<<x>>, Rising) /\ <<>> \in Seq(Items)
    BY <2>1, LineOfOne, Joins
  <2>12. Pairwise(Line, Differ(Exempt)) => Pairwise(Line', Differ(Exempt))
    <3> HIDE DEF x
    <3> QED BY <2>6, <2>9, <2>10, <2>11, LineInside
  <2>13. Pairwise(Line, Rising) => Pairwise(Line', Rising)
    <3> HIDE DEF x
    <3> QED BY <2>6, <2>9, <2>10, <2>11, LineInside
  <2> QED BY <2>1, <2>2, <2>4, <2>5, <2>12, <2>13 DEF Exempt
<1> QED BY <1>1, <1>2, <1>3

\* What the database thread does to a line, and to anything else.
LEMMA DbThreadMoves ==
  ASSUME StorageInv, StorageInv', HandsSound, ~left, DbThread
  PROVE  /\ HandsSound'
         /\ mainPc \in {"Run", "JoinDb"} /\ filePc \notin Copied \cup Serving
         /\ filePc' = filePc \/ (filePc = "Off" /\ filePc' = "Start")
         /\ UNCHANGED <<file, pipeFile, fileItem, mainPc, cursor, ends, caller, accepted,
                        doneDb, detoured, left, caught, repeats>>
         /\ db' ++ (cache' ++ RestDb') = db ++ (cache ++ RestDb)
         /\ ToSet(cache') \cup ToSet(RestDb') \subseteq ToSet(cache) \cup ToSet(RestDb)
         /\ \E e \in Seq(Items) : db' = db ++ e /\ ToSet(e) \subseteq ToSet(cache)
<1> USE DEF pipes, disk, flags, dbThread, fileThread, main, history
<1>0. /\ db \in Seq(Items) /\ cache \in Seq(Items) /\ pipeDb \in Seq(Items)
      /\ RestDb \in Seq(Items)
      /\ db ++ <<>> = db /\ <<>> \in Seq(Items) /\ ToSet(<<>>) = {}
  BY LineTyped, Joins, ItemsOfEmpty
<1>1. /\ UNCHANGED <<file, pipeFile, fileItem, mainPc, cursor, ends, caller, accepted,
                     doneDb, detoured, left, caught, repeats>>
      /\ filePc' = filePc \/ (filePc = "Off" /\ filePc' = "Start")
      /\ dbPc \notin {"Off", "Done"}
  BY DEF DbThread, DbLoop, DbRead, DbPersist, DbCommit, DbFlushed, DbFlushFails, DbPop,
     StartFileThread, StorageInv, FlagsSound
<1>2. mainPc \in {"Run", "JoinDb"} /\ filePc \notin Copied \cup Serving
  BY <1>1 DEF StorageInv, TypeOK, OutsideSound, Outside, StopSound, Stopping, FlagsSound,
     Joined, Copied, Serving
<1>3. ASSUME DbLoop \/ DbRead \/ DbFlushed \/ DbFlushFails
      PROVE  /\ UNCHANGED <<db, cache, pipeDb, RestDb>>
             /\ dbPc' \in InHand => pipeDb' # <<>> /\ Head(pipeDb') = dbItem'
  BY <1>3
     DEF DbLoop, DbRead, DbFlushed, DbFlushFails, RestDb, Entered, InHand, HandsSound
<1>4. CASE DbPersist
  <2>1. dbPc = "Persist" /\ UNCHANGED <<db, pipeDb, dbItem>>
    BY <1>4 DEF DbPersist
  <2>2. pipeDb # <<>> /\ Head(pipeDb) = dbItem /\ RestDb = pipeDb
    BY <2>1 DEF HandsSound, InHand, RestDb, Entered
  <2>3. CASE UNCHANGED cache /\ dbPc' = "Read"
    <3>1. UNCHANGED RestDb
      BY <2>1, <2>3 DEF RestDb, Entered
    <3> QED BY <1>0, <1>1, <1>2, <2>1, <2>3, <3>1 DEF HandsSound, InHand
  <2>4. CASE cache' = Append(cache, dbItem) /\ dbPc' \in Entered
    <3> DEFINE y == <<dbItem>>
    <3>1. RestDb' = Tail(pipeDb) /\ Tail(pipeDb) \in Seq(Items)
      BY <1>0, <2>1, <2>2, <2>4, Parts DEF RestDb
    <3>2. cache' = cache ++ y /\ y \in Seq(Items) /\ pipeDb = y ++ Tail(pipeDb)
      BY <1>0, <2>2, <2>4, Parts
    <3>3. ToSet(cache') = ToSet(cache) \cup ToSet(y)
          /\ ToSet(pipeDb) = ToSet(y) \cup ToSet(Tail(pipeDb))
      <4> HIDE DEF y
      <4>1. ToSet(cache ++ y) = ToSet(cache) \cup ToSet(y)
        BY <1>0, <3>2, ItemsOfJoin
      <4>2. ToSet(y ++ Tail(pipeDb)) = ToSet(y) \cup ToSet(Tail(pipeDb))
        BY <3>1, <3>2, ItemsOfJoin
      <4> QED BY <3>2, <4>1, <4>2
    <3>4. cache' ++ RestDb' = cache ++ RestDb
      <4> DEFINE t == Tail(pipeDb)
      <4>1. cache \in Seq(Items) /\ y \in Seq(Items) /\ t \in Seq(Items)
        BY <1>0, <3>1, <3>2
      <4> HIDE DEF y, t
      <4>2. (cache ++ y) ++ t = cache ++ (y ++ t)
        BY <4>1, Joins
      <4> QED BY <3>1, <3>2, <4>2, <2>2 DEF t
    <3>5. HandsSound'
      BY <1>1, <2>1, <2>2 DEF HandsSound
    <3> HIDE DEF y
    <3> QED BY <1>0, <1>1, <1>2, <2>1, <2>2, <3>1, <3>3, <3>4, <3>5
  <2> QED BY <1>4, <2>3, <2>4 DEF DbPersist, Entered
<1>5. CASE DbCommit
  <2>1. PICK n \in 0 .. Len(cache) : Commit(n)
    <3>1. Len(cache) \in Nat /\ BatchSize \in Nat
      BY <1>0, LenProperties, StorageAssumption
    <3> QED BY <1>5, <3>1 DEF DbCommit
  <2> DEFINE e == SubSeq(cache, 1, n)
             c == SubSeq(cache, n + 1, Len(cache))
  <2>2. e \in Seq(Items) /\ c \in Seq(Items) /\ cache = e ++ c
    BY <1>0, Parts
  <2>3. db' = db ++ e /\ cache' = c
    BY <2>1 DEF Commit, ++
  <2>4. UNCHANGED <<RestDb, pipeDb, dbPc, dbItem>>
    BY <1>5 DEF DbCommit, RestDb
  <2> HIDE DEF e, c
  <2>5. ToSet(cache) = ToSet(e) \cup ToSet(c)
    BY <2>2, ItemsOfJoin
  <2>6. (db ++ e) ++ (c ++ RestDb) = db ++ ((e ++ c) ++ RestDb)
    <3>1. (db ++ e) ++ (c ++ RestDb) = db ++ (e ++ (c ++ RestDb))
      BY <1>0, <2>2, Joins
    <3>2. e ++ (c ++ RestDb) = (e ++ c) ++ RestDb
      BY <1>0, <2>2, Joins
    <3> QED BY <3>1, <3>2
  <2>7. HandsSound'
    BY <1>1, <2>4 DEF HandsSound
  <2> QED BY <1>0, <1>1, <1>2, <2>2, <2>3, <2>4, <2>5, <2>6, <2>7
<1>6. CASE DbPop
  <2>1. /\ dbPc = "Pop" /\ dbPc' = "Read" /\ UNCHANGED <<db, cache, dbItem>>
        /\ pipeDb' = Tail(pipeDb) /\ pipeDb # <<>>
    BY <1>6 DEF DbPop, HandsSound, InHand
  <2>2. UNCHANGED RestDb
    BY <2>1 DEF RestDb, Entered
  <2>3. HandsSound'
    BY <1>1, <2>1 DEF HandsSound, InHand
  <2> QED BY <1>0, <1>1, <1>2, <2>1, <2>2, <2>3
<1>7. CASE DbLoop \/ DbRead \/ DbFlushed \/ DbFlushFails
  <2>1. HandsSound'
    BY <1>1, <1>3, <1>7 DEF HandsSound
  <2> QED BY <1>0, <1>1, <1>2, <1>3, <1>7, <2>1
<1> QED BY <1>4, <1>5, <1>6, <1>7 DEF DbThread

\* More exceptions allow more lines.
LEMMA WiderLine ==
  ASSUME NEW X, NEW Y, X \subseteq Y, NEW s, Pairwise(s, Differ(X))
  PROVE  Pairwise(s, Differ(Y))
BY DEF Pairwise, Differ

\* What two parts of a line share is an exception.
LEMMA PartsShare ==
  ASSUME NEW X, NEW s \in Seq(Items), NEW t \in Seq(Items), Pairwise(s ++ t, Differ(X))
  PROVE  /\ Pairwise(s, Differ(X)) /\ Pairwise(t, Differ(X))
         /\ ToSet(s) \cap ToSet(t) \subseteq X
<1>1. Pairwise(s, Differ(X)) /\ Pairwise(t, Differ(X)) /\ Across(s, t, Differ(X))
  BY LineOfConcat
<1>2. ToSet(s) \cap ToSet(t) \subseteq X
  BY <1>1 DEF Across, Differ
<1> QED BY <1>1, <1>2

\* Exceptions may come anywhere.
LEMMA ExceptionsInside ==
  ASSUME NEW X, NEW s \in Seq(Items), NEW t \in Seq(Items), NEW e \in Seq(Items),
         ToSet(e) \subseteq X, Pairwise(s ++ t, Differ(X))
  PROVE  Pairwise(s ++ (e ++ t), Differ(X))
<1>1. /\ ToSet(s) \subseteq Items /\ ToSet(t) \subseteq Items /\ ToSet(e) \subseteq Items
      /\ \A i \in 1 .. Len(e) : e[i] \in ToSet(e)
  BY ItemsOf
<1>2. Pairwise(e, Differ(X))
  BY <1>1 DEF Pairwise, Differ
<1>3. Across(s, e, Differ(X)) /\ Across(e, t, Differ(X))
  BY <1>1 DEF Across, Differ
<1> QED BY <1>2, <1>3, LineInside

\* In a run the file thread takes a line over and stores it as it is.
LEMMA FileThreadMoves ==
  ASSUME StorageInv, StorageInv', HandsSound, RunSound, mainPc = "Run", ~left, ~left',
         Pairwise(Line, Differ(Exempt)), FileThread
  PROVE  /\ HandsSound' /\ RunSound' /\ Line' = Line
         /\ UNCHANGED <<mainPc, ends, repeats, caught, detoured, caller, accepted>>
         /\ doneDb' /\ (filePc' \notin Copied => UNCHANGED pipeFile /\ filePc \notin Copied)
<1> USE DEF pipes, disk, flags, dbThread, fileThread, main, history
<1>0. /\ db \in Seq(Items) /\ cache \in Seq(Items) /\ pipeDb \in Seq(Items)
      /\ file \in Seq(Items) /\ pipeFile \in Seq(Items) /\ RestFile \in Seq(Items)
      /\ <<>> \in Seq(Items) /\ ToSet(<<>>) = {}
      /\ \A s \in Seq(Items) : s ++ <<>> = s /\ <<>> ++ s = s
  BY LineTyped, Joins, ItemsOfEmpty
<1>1. /\ UNCHANGED <<mainPc, ends, cursor, repeats, caught, detoured, caller, accepted, db,
                     dbPc, dbItem>>
      /\ doneDb'
  BY DEF FileThread, FileStart, FileJoin, FileCopy, FileClear, FileTakeCache, FileRead,
     FileWrite, FilePop, StorageInv, FlagsSound
<1>2. filePc \in Joined => dbPc \in {"Off", "Done"} /\ RestDb = pipeDb
  BY DEF StorageInv, FlagsSound, RestDb, Entered
<1>3. Exempt' = Exempt
  BY <1>1 DEF Exempt
<1>4. CASE FileStart \/ FileJoin
  <2>1. /\ filePc \in {"Start", "Join"} /\ filePc' \in {"Join", "Copy"}
        /\ UNCHANGED <<pipes, db, file>>
    BY <1>4 DEF FileStart, FileJoin
  <2>2. HandsSound' /\ RunSound'
    BY <1>1, <2>1 DEF HandsSound, RunSound, WritesHead, Serving
  <2>3. Line' = Line
    BY <1>1, <2>1 DEF Line, Rest, RestDb, Copied, Serving, Unread, RestFile
  <2> QED BY <1>1, <2>1, <2>2, <2>3 DEF Copied, Serving
<1>5. CASE FileCopy
  <2>1. /\ filePc = "Copy" /\ filePc' = "Clear" /\ pipeFile' = pipeDb ++ pipeFile
        /\ UNCHANGED <<pipeDb, cache, file>>
    BY <1>5 DEF FileCopy, ++
  <2>2. HandsSound'
    BY <1>1, <2>1 DEF HandsSound
  <2>3. file = <<>> /\ RestDb = pipeDb
    BY <1>2, <2>1 DEF RunSound, Serving, Joined
  <2>4. /\ Line = db ++ (cache ++ (pipeDb ++ (<<>> ++ pipeFile)))
        /\ Line' = db ++ (cache ++ (<<>> ++ (<<>> ++ (pipeDb ++ pipeFile))))
    BY <1>1, <2>1, <2>3 DEF Line, Rest, Copied, Serving, Unread, RestFile
  <2>5. Line' = Line /\ Line = db ++ (cache ++ (pipeDb ++ pipeFile))
    <3>1. pipeDb ++ pipeFile \in Seq(Items)
      BY <1>0, Joins
    <3> QED BY <1>0, <2>4, <3>1
  <2>6. ToSet(pipeDb) \cap ToSet(db) \subseteq Exempt
    <3> DEFINE a == pipeDb ++ pipeFile
               b == cache ++ a
    <3>1. a \in Seq(Items) /\ ToSet(pipeDb) \subseteq ToSet(a)
      BY <1>0, ItemsOfJoin
    <3>2. b \in Seq(Items) /\ ToSet(a) \subseteq ToSet(b)
      <4> HIDE DEF a
      <4> QED BY <1>0, <3>1, ItemsOfJoin
    <3>3. Line = db ++ b
      BY <2>5
    <3> HIDE DEF a, b
    <3>4. ToSet(db) \cap ToSet(b) \subseteq Exempt
      BY <1>0, <3>2, <3>3, PartsShare
    <3> QED BY <3>1, <3>2, <3>4
  <2>7. RunSound'
    BY <1>0, <1>1, <1>3, <2>1, <2>3, <2>6 DEF RunSound, WritesHead, OnDisk, Serving
  <2> QED BY <1>1, <2>1, <2>2, <2>5, <2>7 DEF Copied
<1>6. CASE FileClear
  <2>1. /\ filePc = "Clear" /\ filePc' = "TakeCache" /\ pipeDb' = <<>>
        /\ UNCHANGED <<cache, pipeFile, file>>
    BY <1>6 DEF FileClear
  <2>2. HandsSound'
    BY <1>1, <1>2, <2>1 DEF HandsSound, InHand, Joined
  <2>3. Line' = Line
    BY <1>1, <2>1 DEF Line, Rest, Copied, Serving, Unread, RestFile
  <2>4. RunSound'
    BY <1>0, <1>1, <1>3, <2>1 DEF RunSound, WritesHead, OnDisk, Serving
  <2> QED BY <1>1, <2>1, <2>2, <2>3, <2>4 DEF Copied
<1>7. CASE FileTakeCache
  <2>1. /\ filePc = "TakeCache" /\ filePc' = "Read" /\ pipeFile' = cache ++ pipeFile
        /\ cache' = <<>> /\ UNCHANGED <<pipeDb, file>>
    BY <1>7 DEF FileTakeCache, ++
  <2>2. HandsSound'
    BY <1>1, <2>1 DEF HandsSound
  <2>3. file = <<>>
    BY <2>1 DEF RunSound, Serving
  <2>4. /\ Line = db ++ (cache ++ (<<>> ++ (<<>> ++ pipeFile)))
        /\ Line' = db ++ (<<>> ++ (<<>> ++ (<<>> ++ (cache ++ pipeFile))))
    BY <1>1, <2>1, <2>3 DEF Line, Rest, Copied, Serving, Unread, RestFile
  <2>5. Line' = Line
    <3>1. cache ++ pipeFile \in Seq(Items)
      BY <1>0, Joins
    <3> QED BY <1>0, <2>4, <3>1
  <2>6. RunSound'
    BY <1>1, <1>3, <2>1, <2>3 DEF RunSound, WritesHead, OnDisk, Serving
  <2> QED BY <1>1, <2>1, <2>2, <2>5, <2>6 DEF Copied, Serving
<1>8. CASE FileRead
  <2>1. /\ filePc = "Read"
        /\ \/ filePc' = "Done"
           \/ filePc' = "Write" /\ pipeFile # <<>> /\ fileItem' = Head(pipeFile)
        /\ UNCHANGED <<pipes, file>>
    BY <1>8 DEF FileRead
  <2>2. HandsSound' /\ RunSound'
    BY <1>1, <2>1 DEF HandsSound, RunSound, WritesHead, Serving
  <2>3. Line' = Line
    BY <1>1, <2>1 DEF Line, Rest, Copied, Serving, Unread, RestFile
  <2> QED BY <1>1, <2>1, <2>2, <2>3 DEF Copied, Serving
<1>9. CASE FileWrite
  <2> DEFINE y == <<fileItem>>
  <2>1. /\ filePc = "Write" /\ filePc' = "Pop" /\ file' = Append(file, fileItem)
        /\ UNCHANGED <<pipes, fileItem>>
    BY <1>9 DEF FileWrite
  <2>2. pipeFile # <<>> /\ fileItem = Head(pipeFile)
    BY <2>1 DEF RunSound, WritesHead
  <2>3. pipeFile = y ++ Tail(pipeFile) /\ file' = file ++ y /\ y \in Seq(Items)
        /\ Tail(pipeFile) \in Seq(Items)
    BY <1>0, <2>1, <2>2, Parts
  <2>4. HandsSound'
    BY <1>1, <2>1 DEF HandsSound
  <2>5. RunSound'
    BY <1>1, <2>1 DEF RunSound, WritesHead, Serving
  <2>6. /\ Line = db ++ (cache ++ (<<>> ++ (file ++ pipeFile)))
        /\ Line' = db ++ (cache ++ (<<>> ++ (file' ++ Tail(pipeFile))))
    BY <1>1, <2>1 DEF Line, Rest, Copied, Serving, Unread, RestFile
  <2>7. file' ++ Tail(pipeFile) = file ++ pipeFile
    <3> DEFINE t == Tail(pipeFile)
    <3>1. y \in Seq(Items) /\ t \in Seq(Items) /\ file \in Seq(Items)
      BY <1>0, <2>3
    <3> HIDE DEF y, t
    <3>2. (file ++ y) ++ t = file ++ (y ++ t)
      BY <3>1, Joins
    <3> QED BY <2>3, <3>2 DEF t
  <2> HIDE DEF y
  <2> QED BY <1>1, <2>1, <2>4, <2>5, <2>6, <2>7 DEF Copied, Serving
<1>10. CASE FilePop
  <2>1. /\ filePc = "Pop" /\ pipeFile' = Tail(pipeFile) /\ UNCHANGED <<pipeDb, cache, file>>
        /\ \/ filePc' = "Read"
           \/ filePc' = "Write" /\ pipeFile' # <<>> /\ fileItem' = Head(pipeFile')
    BY <1>10 DEF FilePop
  <2>2. HandsSound' /\ RunSound'
    BY <1>1, <2>1 DEF HandsSound, RunSound, WritesHead, Serving
  <2>3. Line' = Line
    BY <1>1, <2>1 DEF Line, Rest, Copied, Serving, Unread, RestFile
  <2> QED BY <1>1, <2>1, <2>2, <2>3 DEF Copied, Serving
<1> QED BY <1>4, <1>5, <1>6, <1>7, <1>8, <1>9, <1>10 DEF FileThread

\* A part of a line may be turned around.
LEMMA TurnedInside ==
  ASSUME NEW X, NEW s \in Seq(Items), NEW t \in Seq(Items), NEW u \in Seq(Items),
         Pairwise(s ++ (t ++ u), Differ(X))
  PROVE  /\ Reverse(t) \in Seq(Items) /\ ToSet(Reverse(t)) = ToSet(t)
         /\ Pairwise(s ++ (Reverse(t) ++ u), Differ(X))
<1>1. t ++ u \in Seq(Items) /\ ToSet(t ++ u) = ToSet(t) \cup ToSet(u)
  BY ItemsOfJoin
<1>2. /\ Pairwise(s, Differ(X)) /\ Pairwise(t ++ u, Differ(X))
      /\ Across(s, t ++ u, Differ(X))
  BY <1>1, LineOfConcat
<1>3. Pairwise(t, Differ(X)) /\ Pairwise(u, Differ(X)) /\ Across(t, u, Differ(X))
  BY <1>2, LineOfConcat
<1>4. Reverse(t) \in Seq(Items) /\ ToSet(Reverse(t)) = ToSet(t)
  BY ItemsOfReverse
<1>5. Pairwise(Reverse(t), Differ(X))
  BY <1>3, LineOfReverse DEF Symmetric, Differ
<1>6. Pairwise(Reverse(t) ++ u, Differ(X))
  BY <1>3, <1>4, <1>5, LineOfConcat DEF Across
<1>7. /\ Reverse(t) ++ u \in Seq(Items)
      /\ ToSet(Reverse(t) ++ u) = ToSet(t) \cup ToSet(u)
  BY <1>4, ItemsOfJoin
<1>8. Across(s, Reverse(t) ++ u, Differ(X))
  BY <1>1, <1>2, <1>7 DEF Across
<1> QED BY <1>2, <1>4, <1>6, <1>7, <1>8, LineOfConcat

\* While stop() waits for the database thread, that thread goes on as before.
LEMMA DbThreadInStop ==
  ASSUME StorageInv, StorageInv', HandsSound, mainPc \in Stopping, StopSafe, ~left, DbThread
  PROVE  HandsSound' /\ mainPc' = mainPc /\ StopSafe'
<1> USE DEF StopSafe
<1>1. /\ db \in Seq(Items) /\ cache \in Seq(Items) /\ RestDb \in Seq(Items)
      /\ file \in Seq(Items) /\ pipeFile \in Seq(Items)
      /\ db' \in Seq(Items) /\ cache' \in Seq(Items) /\ pipeDb' \in Seq(Items)
  BY LineTyped DEF StorageInv, TypeOK
<1>2. /\ HandsSound'
      /\ mainPc \in {"Run", "JoinDb"} /\ filePc \notin Copied \cup Serving
      /\ filePc' = filePc \/ (filePc = "Off" /\ filePc' = "Start")
      /\ UNCHANGED <<file, pipeFile, fileItem, mainPc, caught, repeats>>
      /\ db' ++ (cache' ++ RestDb') = db ++ (cache ++ RestDb)
      /\ ToSet(cache') \cup ToSet(RestDb') \subseteq ToSet(cache) \cup ToSet(RestDb)
      /\ \E e \in Seq(Items) : db' = db ++ e /\ ToSet(e) \subseteq ToSet(cache)
  BY DbThreadMoves
<1>3. RestDb' \in Seq(Items)
  <2>1. dbPc' \in Entered => pipeDb' # <<>>
    BY <1>2 DEF HandsSound, InHand, Entered
  <2> QED BY <1>1, <2>1, HeadTailProperties DEF RestDb
<1>4. mainPc = "JoinDb" /\ UNCHANGED Exempt
  BY <1>2 DEF Stopping, Exempt
<1>5. CASE Before
  <2>1. Early' /\ file' = <<>>
    BY <1>2, <1>4, <1>5 DEF Before, Early
  <2>2. Pairwise(db ++ (cache ++ (RestDb ++ pipeFile)), Differ(Exempt))
    BY <1>4, <1>5 DEF Before, StopCache
  <2>3. /\ db ++ (cache ++ (RestDb ++ pipeFile)) = (db ++ (cache ++ RestDb)) ++ pipeFile
        /\ db' ++ (cache' ++ (RestDb' ++ pipeFile)) = (db' ++ (cache' ++ RestDb')) ++ pipeFile
    BY <1>1, <1>3, JoinLast
  <2>4. Pairwise(db' ++ (cache' ++ (RestDb' ++ pipeFile)), Differ(Exempt))
    BY <1>2, <2>2, <2>3
  <2> QED BY <1>2, <1>4, <2>1, <2>4 DEF Before, StopCache
<1>6. CASE During
  <2>1. PICK e \in Seq(Items) : db' = db ++ e /\ ToSet(e) \subseteq ToSet(cache)
    BY <1>2
  <2>2. Pairwise(db ++ (e ++ file), Differ(Exempt))
    BY <1>1, <1>6, <2>1, ExceptionsInside DEF During
  <2>3. Pairwise(db' ++ file, Differ(Exempt))
    <3>1. db ++ (e ++ file) = (db ++ e) ++ file
      BY <1>1, Joins
    <3> QED BY <2>1, <2>2, <3>1
  <2> QED BY <1>2, <1>4, <1>6, <2>3 DEF During
<1> QED BY <1>2, <1>5, <1>6 DEF After

\* While stop() runs, the file thread begins a takeover, goes on with one, or serves.
LEMMA FileThreadInStop ==
  ASSUME StorageInv, StorageInv', HandsSound, mainPc \in Stopping, StopSafe, ~left, ~left',
         FileThread
  PROVE  HandsSound' /\ mainPc' = mainPc /\ StopSafe'
<1> USE DEF StopSafe, pipes, disk, flags, dbThread, fileThread, main, history
<1>0. /\ db \in Seq(Items) /\ cache \in Seq(Items) /\ pipeDb \in Seq(Items)
      /\ file \in Seq(Items) /\ pipeFile \in Seq(Items) /\ RestDb \in Seq(Items)
      /\ RestFile \in Seq(Items) /\ StopCache \in Seq(Items)
      /\ <<>> \in Seq(Items) /\ ToSet(<<>>) = {}
      /\ \A s \in Seq(Items) : s ++ <<>> = s /\ <<>> ++ s = s
  BY LineTyped, Joins, ItemsOfEmpty
<1>1. UNCHANGED <<mainPc, cursor, repeats, caller, accepted, db, dbPc, dbItem>>
  BY DEF FileThread, FileStart, FileJoin, FileCopy, FileClear, FileTakeCache, FileRead,
     FileWrite, FilePop
<1>2. filePc \in Joined => dbPc \in {"Off", "Done"} /\ RestDb = pipeDb
  BY DEF StorageInv, FlagsSound, RestDb, Entered
<1>3. HandsSound'
  <2>1. UNCHANGED pipeDb \/ filePc = "Clear"
    BY DEF FileThread, FileStart, FileJoin, FileCopy, FileClear, FileTakeCache, FileRead,
       FileWrite, FilePop
  <2> QED BY <1>1, <1>2, <2>1 DEF HandsSound, InHand, Joined, Stopping
<1>4. CASE FileStart
  <2>1. /\ filePc = "Start" /\ filePc' = "Join"
        /\ Exempt' = Exempt \cup (accepted \ OnDisk)
        /\ UNCHANGED <<pipes, db, file>> /\ UNCHANGED RestDb
    BY <1>4 DEF FileStart, Exempt, Stopping, RestDb
  <2>2. CASE During
    <3>1. Pairwise(db ++ file, Differ(Exempt'))
      BY <2>1, <2>2, WiderLine DEF During
    <3> QED BY <1>1, <1>3, <2>1, <2>2, <3>1 DEF During
  <2>3. CASE Before
    <3> DEFINE a == RestDb ++ pipeFile
               b == StopCache ++ a
    <3>1. a \in Seq(Items) /\ ToSet(a) = ToSet(RestDb) \cup ToSet(pipeFile)
      BY <1>0, ItemsOfJoin
    <3>2. b \in Seq(Items) /\ ToSet(b) = ToSet(StopCache) \cup ToSet(a)
      <4> HIDE DEF a
      <4> QED BY <1>0, <3>1, ItemsOfJoin
    <3>3. Pairwise(db ++ b, Differ(Exempt)) /\ file = <<>>
      BY <2>3 DEF Before
    <3> HIDE DEF a, b
    <3>4. Pairwise(db, Differ(Exempt)) /\ ToSet(db) \cap ToSet(b) \subseteq Exempt
      BY <1>0, <3>2, <3>3, PartsShare
    <3>5. ToSet(cache) \subseteq ToSet(b)
      <4>1. mainPc \notin {"JoinDb", "FlushDb"} => RestDb = pipeDb
        BY DEF StorageInv, StopSound, RestDb, Entered
      <4> QED BY <2>3, <3>1, <3>2, <4>1 DEF Before, Early, Stopping, StopCache
    <3>6. OnDisk = ToSet(db)
      BY <1>0, <3>3 DEF OnDisk
    <3>7. ToSet(cache) \cup ToSet(RestDb) \cup ToSet(pipeFile) \subseteq accepted
      BY LineTyped DEF StorageInv, Known, Held
    <3>8. Pairwise(db ++ file, Differ(Exempt'))
      BY <1>0, <2>1, <3>3, <3>4, WiderLine
    <3>9. ToSet(cache) \cup ToSet(RestDb) \cup ToSet(pipeFile) \subseteq Exempt'
      BY <2>1, <3>1, <3>2, <3>4, <3>5, <3>6, <3>7
    <3> QED BY <1>1, <1>3, <2>1, <3>8, <3>9 DEF During
  <2> QED BY <2>1, <2>2, <2>3 DEF After, Serving
<1>5. CASE ~FileStart /\ During
  <2>1. UNCHANGED caught
    BY <1>5 DEF FileThread, FileJoin, FileCopy, FileClear, FileTakeCache, FileRead,
       FileWrite, FilePop
  <2>2. UNCHANGED Exempt
    BY <1>1, <2>1 DEF Exempt
  <2>3. CASE FileJoin \/ FileCopy \/ FileClear \/ FileTakeCache \/ FileRead \/ FilePop
    <3>1. UNCHANGED file
      BY <2>3 DEF FileJoin, FileCopy, FileClear, FileTakeCache, FileRead, FilePop
    <3>2. /\ ToSet(cache') \subseteq Exempt /\ ToSet(RestDb') \subseteq Exempt
          /\ ToSet(pipeFile') \subseteq Exempt
      <4>1. CASE FileJoin \/ FileRead
        BY <1>5, <4>1 DEF FileJoin, FileRead, During, RestDb
      <4>2. CASE FileCopy
        <5>1. ToSet(pipeFile') = ToSet(pipeDb) \cup ToSet(pipeFile) /\ UNCHANGED <<cache, RestDb>>
          BY <1>0, <4>2, ItemsOfConcat DEF FileCopy, RestDb
        <5>2. RestDb = pipeDb
          BY <1>2, <4>2 DEF FileCopy, Joined
        <5> QED BY <1>5, <5>1, <5>2 DEF During
      <4>3. CASE FileClear
        <5>1. RestDb' = <<>> /\ UNCHANGED <<cache, pipeFile>>
          BY <1>1, <1>2, <4>3 DEF FileClear, Joined, RestDb, Entered
        <5> QED BY <1>0, <1>5, <5>1 DEF During
      <4>4. CASE FileTakeCache
        <5>1. /\ ToSet(pipeFile') = ToSet(cache) \cup ToSet(pipeFile)
              /\ cache' = <<>> /\ UNCHANGED RestDb
          BY <1>0, <4>4, ItemsOfConcat DEF FileTakeCache, RestDb
        <5> QED BY <1>0, <1>5, <5>1 DEF During
      <4>5. CASE FilePop
        <5>1. pipeFile # <<>> /\ pipeFile' = Tail(pipeFile) /\ UNCHANGED <<cache, RestDb>>
          BY <4>5 DEF FilePop, StorageInv, FileSound, RestDb
        <5>2. ToSet(pipeFile') \subseteq ToSet(pipeFile)
          BY <1>0, <5>1, ItemsOfPop
        <5> QED BY <1>5, <5>1, <5>2 DEF During
      <4> QED BY <2>3, <4>1, <4>2, <4>3, <4>4, <4>5
    <3>3. filePc' = "Write" => fileItem' \in Exempt
      <4>1. CASE FileRead
        <5>1. filePc' = "Write" => pipeFile # <<>> /\ fileItem' = Head(pipeFile)
          BY <4>1 DEF FileRead
        <5>2. pipeFile # <<>> => Head(pipeFile) \in ToSet(pipeFile)
          BY <1>0, ItemsOfPop
        <5> QED BY <1>5, <5>1, <5>2 DEF During
      <4>2. CASE FilePop
        <5>1. filePc' = "Write" => pipeFile' # <<>> /\ fileItem' = Head(pipeFile')
          BY <4>2 DEF FilePop
        <5>2. pipeFile' \in Seq(Items)
          BY DEF StorageInv, TypeOK
        <5>3. pipeFile' # <<>> => Head(pipeFile') \in ToSet(pipeFile')
          BY <5>2, ItemsOfPop
        <5> QED BY <3>2, <5>1, <5>3
      <4> QED BY <2>3, <4>1, <4>2 DEF FileJoin, FileCopy, FileClear, FileTakeCache
    <3> QED BY <1>1, <1>3, <1>5, <2>2, <3>1, <3>2, <3>3 DEF During
  <2>4. CASE FileWrite
    <3> DEFINE y == <<fileItem>>
    <3>1. /\ filePc = "Write" /\ filePc' = "Pop" /\ file' = Append(file, fileItem)
          /\ UNCHANGED <<pipes, RestDb>> /\ fileItem \in Items
      BY <2>4 DEF FileWrite, RestDb, StorageInv, Known, TypeOK
    <3>2. file' = file ++ y /\ y \in Seq(Items) /\ ToSet(y) \subseteq Exempt
      <4>1. file' = file ++ y /\ y \in Seq(Items)
        BY <1>0, <3>1, Parts
      <4>2. ToSet(y) = {fileItem}
        BY <3>1, LineOfOne
      <4> QED BY <1>5, <3>1, <4>1, <4>2 DEF During
    <3> HIDE DEF y
    <3>3. db ++ file \in Seq(Items) /\ Pairwise((db ++ file) ++ <<>>, Differ(Exempt))
      <4>1. db ++ file \in Seq(Items)
        BY <1>0, Joins
      <4> QED BY <1>0, <1>5, <4>1 DEF During
    <3>4. Pairwise((db ++ file) ++ (y ++ <<>>), Differ(Exempt))
      BY <1>0, <3>2, <3>3, ExceptionsInside
    <3>5. (db ++ file) ++ y = db ++ (file ++ y)
      BY <1>0, <3>2, Joins
    <3>6. Pairwise(db ++ file', Differ(Exempt))
      BY <1>0, <3>2, <3>4, <3>5
    <3> QED BY <1>1, <1>3, <1>5, <2>2, <3>1, <3>6 DEF During
  <2> QED BY <1>5, <2>3, <2>4 DEF FileThread
<1>6. CASE ~FileStart /\ After
  <2>1. /\ FileRead \/ FileWrite \/ FilePop
        /\ UNCHANGED <<pipeDb, cache, repeats, caught>>
    BY <1>6 DEF After, Serving, FileThread, FileJoin, FileCopy, FileClear, FileTakeCache,
       FileRead, FileWrite, FilePop
  <2>2. UNCHANGED Exempt
    BY <2>1 DEF Exempt
  <2>3. CASE FileRead
    <3>1. filePc' \in Serving /\ WritesHead' /\ UNCHANGED <<file, RestFile>>
      BY <2>3 DEF FileRead, Serving, WritesHead, RestFile
    <3> QED BY <1>1, <1>3, <1>6, <2>1, <2>2, <3>1 DEF After
  <2>4. CASE FileWrite
    <3> DEFINE y == <<fileItem>>
               t == Tail(pipeFile)
    <3>1. /\ filePc = "Write" /\ filePc' = "Pop" /\ file' = Append(file, fileItem)
          /\ UNCHANGED <<pipes, fileItem>> /\ pipeFile # <<>> /\ fileItem = Head(pipeFile)
      BY <1>6, <2>4 DEF FileWrite, After, WritesHead
    <3>2. file' = file ++ y /\ y \in Seq(Items) /\ pipeFile = y ++ t /\ t \in Seq(Items)
      BY <1>0, <3>1, Parts
    <3>3. RestFile = pipeFile /\ RestFile' = t
      BY <3>1 DEF RestFile
    <3> HIDE DEF y, t
    <3>4. file' ++ t = file ++ pipeFile
      <4>1. (file ++ y) ++ t = file ++ (y ++ t)
        BY <1>0, <3>2, Joins
      <4> QED BY <3>2, <4>1
    <3>5. filePc' \in Serving /\ WritesHead'
      BY <3>1 DEF Serving, WritesHead
    <3>6. Pairwise(db' ++ (file' ++ RestFile'), Differ(Exempt'))
      BY <1>1, <1>6, <2>2, <3>3, <3>4 DEF After
    <3> QED BY <1>1, <1>3, <1>6, <2>1, <3>5, <3>6 DEF After
  <2>5. CASE FilePop
    <3>1. filePc' \in Serving /\ WritesHead' /\ UNCHANGED <<file, RestFile>>
      BY <2>5 DEF FilePop, Serving, WritesHead, RestFile
    <3> QED BY <1>1, <1>3, <1>6, <2>1, <2>2, <3>1 DEF After
  <2> QED BY <2>1, <2>3, <2>4, <2>5
<1>7. ~FileStart => ~Before
  BY DEF Before, Early, FileThread, FileJoin, FileCopy, FileClear, FileTakeCache, FileRead,
     FileWrite, FilePop
<1> QED BY <1>4, <1>5, <1>6, <1>7

\* stop() begins: with no file thread, in the middle of a takeover, or after it.
LEMMA StopBegins ==
  ASSUME StorageInv, HandsSound, RunSound, ~left, Stop, Pairwise(Line, Differ(Exempt))
  PROVE  mainPc' = "JoinDb" /\ HandsSound' /\ StopSafe'
<1> USE DEF pipes, disk, flags, dbThread, fileThread, main, history
<1>0. /\ db \in Seq(Items) /\ cache \in Seq(Items) /\ pipeDb \in Seq(Items)
      /\ pipeFile \in Seq(Items) /\ RestDb \in Seq(Items) /\ Rest \in Seq(Items)
      /\ RestFile \in Seq(Items) /\ file \in Seq(Items)
      /\ <<>> \in Seq(Items) /\ ToSet(<<>>) = {}
      /\ \A s \in Seq(Items) : s ++ <<>> = s /\ <<>> ++ s = s
  BY LineTyped, Joins, ItemsOfEmpty
<1>1. /\ mainPc = "Run" /\ mainPc' = "JoinDb"
      /\ caught' = IF TakingOver THEN caught \cup (accepted \ OnDisk) ELSE caught
      /\ UNCHANGED <<pipes, disk, stopDb, doneFile, threadDb, threadFile, caller, dbThread,
                     fileThread, cursor, ends, accepted, repeats>>
  BY DEF Stop
<1>2. HandsSound'
  BY <1>1 DEF HandsSound
<1>3. UNCHANGED <<RestDb, RestFile>>
  BY <1>1 DEF RestDb, RestFile
<1>4. filePc \in Joined => RestDb = pipeDb
  BY DEF StorageInv, FlagsSound, RestDb, Entered
<1>5. CASE filePc \in {"Start", "Join", "Copy", "Clear", "TakeCache"}
  <2>1. Exempt' = Exempt \cup (accepted \ OnDisk)
    BY <1>1, <1>5 DEF Exempt, TakingOver
  <2>2. file = <<>> /\ OnDisk = ToSet(db)
    BY <1>0, <1>1, <1>5 DEF RunSound, Serving, OnDisk
  <2> DEFINE a == <<>> ++ pipeFile
             b == Rest ++ a
             c == cache ++ b
  <2>3. a \in Seq(Items) /\ ToSet(a) = ToSet(pipeFile)
    BY <1>0
  <2>4. b \in Seq(Items) /\ ToSet(b) = ToSet(Rest) \cup ToSet(a)
    <3> HIDE DEF a
    <3> QED BY <1>0, <2>3, ItemsOfJoin
  <2>5. c \in Seq(Items) /\ ToSet(c) = ToSet(cache) \cup ToSet(b)
    <3> HIDE DEF b
    <3> QED BY <1>0, <2>4, ItemsOfJoin
  <2>6. Line = db ++ c
    BY <1>1, <1>5, <2>2 DEF Line, Unread, RestFile
  <2> HIDE DEF a, b, c
  <2>7. Pairwise(db, Differ(Exempt)) /\ ToSet(db) \cap ToSet(c) \subseteq Exempt
    BY <1>0, <2>5, <2>6, PartsShare
  <2>8. ToSet(RestDb) \cap ToSet(db) \subseteq Exempt
    <3>1. CASE filePc \in {"Clear", "TakeCache"}
      BY <1>1, <1>4, <2>2, <3>1 DEF RunSound, Joined
    <3>2. CASE filePc \notin {"Clear", "TakeCache"}
      <4>1. Rest = RestDb
        BY <1>5, <3>2 DEF Rest, Copied, Serving
      <4> QED BY <2>4, <2>5, <2>7, <4>1
    <3> QED BY <3>1, <3>2
  <2>9. ToSet(cache) \cup ToSet(RestDb) \cup ToSet(pipeFile) \subseteq accepted
    BY LineTyped DEF StorageInv, Known, Held
  <2>10. ToSet(cache) \cup ToSet(RestDb) \cup ToSet(pipeFile) \subseteq Exempt'
    BY <2>1, <2>2, <2>3, <2>4, <2>5, <2>7, <2>8, <2>9
  <2>11. Pairwise(db ++ file, Differ(Exempt'))
    <3>1. Exempt \subseteq Exempt' /\ db ++ file = db
      BY <1>0, <2>1, <2>2
    <3>2. Pairwise(db, Differ(Exempt'))
      BY <2>7, <3>1, WiderLine
    <3> QED BY <3>1, <3>2
  <2> QED BY <1>1, <1>2, <1>3, <1>5, <2>10, <2>11 DEF StopSafe, During
<1>6. CASE filePc = "Off"
  <2>1. Early' /\ file = <<>>
    BY <1>1, <1>6 DEF Early, RunSound, Serving
  <2>2. Exempt' = Exempt
    BY <1>1, <1>6 DEF Exempt, TakingOver
  <2>3. Line = db ++ (cache ++ (RestDb ++ (<<>> ++ pipeFile)))
    BY <1>1, <1>6, <2>1 DEF Line, Rest, Copied, Serving, Unread, RestFile
  <2> QED BY <1>0, <1>1, <1>2, <1>3, <2>1, <2>2, <2>3 DEF StopSafe, Before, StopCache
<1>7. CASE filePc \in Serving
  <2>1. cache = <<>> /\ Len(pipeDb) <= 1 /\ WritesHead
    BY <1>1, <1>7 DEF StorageInv, FileSound, RunSound
  <2>2. Exempt' = Exempt
    BY <1>1, <1>7 DEF Exempt, TakingOver, Serving
  <2>3. Line = db ++ (<<>> ++ (<<>> ++ (file ++ RestFile)))
    BY <1>1, <1>7, <2>1 DEF Line, Rest, Copied, Unread
  <2>4. Line = db ++ (file ++ RestFile)
    <3>1. file ++ RestFile \in Seq(Items)
      BY <1>0, Joins
    <3> QED BY <1>0, <2>3, <3>1
  <2>5. WritesHead' /\ filePc' \in Serving
    BY <1>1, <1>7, <2>1 DEF WritesHead
  <2>6. Pairwise(db' ++ (file' ++ RestFile'), Differ(Exempt'))
    BY <1>1, <1>3, <2>2, <2>4
  <2> QED BY <1>1, <1>2, <2>1, <2>5, <2>6 DEF StopSafe, After
<1> QED BY <1>5, <1>6, <1>7 DEF Serving, StorageInv, TypeOK

\* stop() goes on: it flushes what no takeover has, and ends with the file thread's pipe
\* at the end of the file.
LEMMA StopMoves ==
  ASSUME StorageInv, StorageInv', HandsSound, ~left, StopSafe,
         \/ StopJoinDb \/ StopFlushItem \/ StopFlushFails \/ StopTransfer
         \/ StopEndFile \/ StopJoinFile
  PROVE  /\ HandsSound' /\ mainPc' # "Run"
         /\ mainPc' \in Stopping => StopSafe'
         /\ mainPc' \notin Stopping => Pairwise(Line', Differ(Exempt'))
<1> USE DEF StopSafe, pipes, disk, flags, dbThread, fileThread, main, history
<1>0. /\ db \in Seq(Items) /\ cache \in Seq(Items) /\ pipeDb \in Seq(Items)
      /\ pipeFile \in Seq(Items) /\ file \in Seq(Items)
      /\ <<>> \in Seq(Items) /\ ToSet(<<>>) = {}
      /\ \A s \in Seq(Items) : s ++ <<>> = s /\ <<>> ++ s = s
  BY LineTyped, Joins, ItemsOfEmpty
<1>1. dbPc \in {"Off", "Done"} /\ RestDb = pipeDb
  BY DEF StopJoinDb, StopFlushItem, StopFlushFails, StopTransfer, StopEndFile,
     StopJoinFile, StorageInv, StopSound, Stopping, RestDb, Entered
<1>2. ~StopJoinFile =>
        /\ UNCHANGED <<file, caller, accepted, dbPc, dbItem, filePc, fileItem, cursor,
                       stopDb, Exempt>>
        /\ RestDb' = pipeDb'
  BY <1>1 DEF StopJoinDb, StopFlushItem, StopFlushFails, StopTransfer, StopEndFile,
     Exempt, RestDb, Entered
<1>3. HandsSound'
  <2>1. StopJoinFile => /\ mainPc' = "Down" /\ dbPc' = "Off"
                        /\ caller' = [q \in Producers |-> Idle]
    BY DEF StopJoinFile, Ended
  <2>2. ~StopJoinFile => mainPc' # "Remove"
    BY DEF StopJoinDb, StopFlushItem, StopFlushFails, StopTransfer, StopEndFile
  <2> QED BY <1>1, <1>2, <2>1, <2>2 DEF HandsSound, InHand, Idle
<1>4. mainPc' # "Run"
  BY DEF StopJoinDb, StopFlushItem, StopFlushFails, StopTransfer, StopEndFile,
     StopJoinFile, Ended
<1>5. ~StopJoinFile => mainPc' \in Stopping
  BY DEF StopJoinDb, StopFlushItem, StopFlushFails, StopTransfer, StopEndFile, Stopping
<1>6. Before => filePc \in {"Off", "Start"} /\ ~stopDb
  BY DEF Before, Early, StorageInv, FlagsSound
<1>7. After => stopDb /\ filePc \in Serving
  BY DEF After, Serving, StorageInv, FlagsSound
<1>8. CASE StopJoinDb
  <2>1. /\ mainPc = "JoinDb" /\ mainPc' = "FlushDb" /\ pipeDb' = Reverse(cache) ++ pipeDb
        /\ cache' = <<>> /\ UNCHANGED <<db, pipeFile>>
    BY <1>8 DEF StopJoinDb, ++
  <2>2. /\ Reverse(cache) \in Seq(Items) /\ ToSet(Reverse(cache)) = ToSet(cache)
        /\ ToSet(pipeDb') = ToSet(cache) \cup ToSet(pipeDb)
    <3>1. Reverse(cache) \in Seq(Items) /\ ToSet(Reverse(cache)) = ToSet(cache)
      BY <1>0, ItemsOfReverse
    <3> QED BY <1>0, <2>1, <3>1, ItemsOfJoin
  <2>3. CASE Before
    <3>1. Early' /\ file' = <<>>
      BY <1>2, <1>6, <1>8, <2>1, <2>3 DEF Before, Early, StopJoinFile
    <3>2. Pairwise(db ++ (cache ++ (pipeDb ++ pipeFile)), Differ(Exempt))
      BY <1>1, <2>1, <2>3 DEF Before, StopCache
    <3>3. pipeDb ++ pipeFile \in Seq(Items)
      BY <1>0, Joins
    <3>4. Pairwise(db ++ (Reverse(cache) ++ (pipeDb ++ pipeFile)), Differ(Exempt))
      BY <1>0, <3>2, <3>3, TurnedInside
    <3>5. Reverse(cache) ++ (pipeDb ++ pipeFile) = <<>> ++ (pipeDb' ++ pipeFile)
      <4>1. (Reverse(cache) ++ pipeDb) ++ pipeFile = Reverse(cache) ++ (pipeDb ++ pipeFile)
        BY <1>0, <2>2, Joins
      <4>2. pipeDb' ++ pipeFile \in Seq(Items)
        BY <1>0, <2>1, <2>2, Joins
      <4> QED BY <1>0, <2>1, <4>1, <4>2
    <3>6. Pairwise(db' ++ (StopCache' ++ (RestDb' ++ pipeFile')), Differ(Exempt'))
      BY <1>2, <1>8, <2>1, <3>4, <3>5 DEF StopCache, StopJoinFile
    <3> QED BY <1>3, <1>4, <1>5, <1>8, <2>1, <3>1, <3>6 DEF Before, Stopping
  <2>4. CASE During
    BY <1>0, <1>1, <1>2, <1>3, <1>8, <2>1, <2>2, <2>4 DEF During, StopJoinFile, Stopping
  <2>5. CASE After
    <3>1. cache = <<>> /\ Len(pipeDb) <= 1
      BY <2>1, <2>5 DEF After
    <3>2. Reverse(cache) = <<>>
      BY <1>0, <2>2, <3>1, ItemsOf
    <3>3. pipeDb' = pipeDb
      BY <1>0, <2>1, <3>2
    <3> QED BY <1>2, <1>3, <1>8, <2>1, <2>5, <3>1, <3>3
            DEF After, StopJoinFile, Stopping, WritesHead, RestFile
  <2> QED BY <2>3, <2>4, <2>5
<1>9. CASE StopFlushItem
  <2> DEFINE h == Head(pipeDb)
             c == Append(cache, h)
             y == <<h>>
  <2>1. /\ mainPc = "FlushDb" /\ mainPc' = "FlushDb" /\ pipeDb # <<>>
        /\ pipeDb' = Tail(pipeDb) /\ UNCHANGED pipeFile
        /\ IF stopDb THEN cache' = c /\ UNCHANGED db
                     ELSE db' = db ++ c /\ cache' = <<>>
    BY <1>9 DEF StopFlushItem, ++
  <2>2. /\ y \in Seq(Items) /\ c = cache ++ y /\ pipeDb = y ++ Tail(pipeDb)
        /\ Tail(pipeDb) \in Seq(Items)
    BY <1>0, <2>1, Parts
  <2>3. c \in Seq(Items) /\ ToSet(c) = ToSet(cache) \cup ToSet(y)
    <3> HIDE DEF y, c
    <3> QED BY <1>0, <2>2, ItemsOfJoin
  <2>4. ToSet(pipeDb) = ToSet(y) \cup ToSet(Tail(pipeDb))
    <3> HIDE DEF y
    <3> QED BY <2>2, ItemsOfJoin
  <2>5. UNCHANGED <<file, filePc, fileItem, stopDb, Exempt>> /\ RestDb' = pipeDb'
    BY <1>2, <2>1 DEF StopJoinFile
  <2>6. CASE Before
    <3>1. cache = <<>> /\ file = <<>>
      BY <2>1, <2>6 DEF Before, Early
    <3>2. db' = db ++ y /\ cache' = <<>>
      BY <1>0, <1>6, <2>1, <2>2, <2>6, <3>1
    <3>3. Pairwise(db ++ (<<>> ++ (pipeDb ++ pipeFile)), Differ(Exempt))
      BY <1>1, <2>1, <2>6, <3>1 DEF Before, StopCache
    <3>4. db ++ (<<>> ++ (pipeDb ++ pipeFile)) = db' ++ (<<>> ++ (pipeDb' ++ pipeFile))
      <4> DEFINE t == Tail(pipeDb)
      <4> HIDE DEF y, t
      <4>1. t \in Seq(Items) /\ y \in Seq(Items) /\ pipeDb = y ++ t /\ pipeDb' = t
        BY <2>1, <2>2 DEF t
      <4>2. /\ t ++ pipeFile \in Seq(Items) /\ pipeDb ++ pipeFile \in Seq(Items)
        BY <1>0, <4>1, Joins
      <4>3. (y ++ t) ++ pipeFile = y ++ (t ++ pipeFile)
        BY <1>0, <4>1, Joins
      <4>4. db ++ (y ++ (t ++ pipeFile)) = (db ++ y) ++ (t ++ pipeFile)
        BY <1>0, <4>1, <4>2, Joins
      <4> QED BY <1>0, <3>2, <4>1, <4>2, <4>3, <4>4
    <3>5. Early'
      BY <1>6, <2>1, <2>5, <2>6, <3>2 DEF Early
    <3>6. Pairwise(db' ++ (StopCache' ++ (RestDb' ++ pipeFile')), Differ(Exempt'))
      BY <2>1, <2>5, <3>2, <3>3, <3>4 DEF StopCache
    <3> QED BY <1>3, <1>4, <2>1, <2>5, <3>1, <3>5, <3>6 DEF Before, Stopping
  <2>7. CASE During
    <3>1. ToSet(c) \subseteq Exempt /\ ToSet(pipeDb') \subseteq Exempt
      BY <1>1, <2>1, <2>3, <2>4, <2>7 DEF During
    <3>2. Pairwise(db' ++ file, Differ(Exempt)) /\ ToSet(cache') \subseteq Exempt
      <4>1. CASE stopDb
        BY <2>1, <2>7, <3>1, <4>1 DEF During
      <4>2. CASE ~stopDb
        <5> HIDE DEF c
        <5>1. Pairwise(db ++ (c ++ file), Differ(Exempt))
          BY <1>0, <2>3, <2>7, <3>1, ExceptionsInside DEF During
        <5>2. db ++ (c ++ file) = (db ++ c) ++ file
          BY <1>0, <2>3, Joins
        <5> QED BY <1>0, <2>1, <4>2, <5>1, <5>2
      <4> QED BY <4>1, <4>2
    <3> QED BY <1>3, <1>4, <2>1, <2>5, <2>7, <3>1, <3>2 DEF During, Stopping
  <2>8. CASE After
    <3>1. cache = <<>> /\ Len(pipeDb) <= 1
      BY <2>1, <2>8 DEF After
    <3>2. pipeDb' = <<>>
      <4>1. Len(Tail(pipeDb)) = Len(pipeDb) - 1 /\ Len(pipeDb) \in Nat
        BY <1>0, <2>1, HeadTailProperties, LenProperties
      <4>2. Len(Tail(pipeDb)) \in Nat
        BY <2>2, LenProperties
      <4>3. Len(Tail(pipeDb)) = 0
        <5> DEFINE k == Len(Tail(pipeDb))
                   m == Len(pipeDb)
        <5>1. k = m - 1 /\ m \in Nat /\ k \in Nat /\ m <= 1
          BY <3>1, <4>1, <4>2
        <5> HIDE DEF k, m
        <5>2. k = 0
          BY <5>1
        <5> QED BY <5>2 DEF k
      <4> QED BY <2>1, <2>2, <4>3, EmptySeq
    <3>3. UNCHANGED <<db, pipeFile, RestFile>> /\ WritesHead'
      BY <1>7, <2>1, <2>5, <2>8 DEF After, RestFile, WritesHead
    <3> QED BY <1>3, <1>4, <2>1, <2>5, <2>8, <3>2, <3>3 DEF After, Stopping
  <2> QED BY <2>6, <2>7, <2>8
<1>10. CASE StopFlushFails
  <2> DEFINE c == Append(cache, Head(pipeDb))
  <2>1. mainPc = "FlushDb" /\ mainPc' = "Transfer" /\ UNCHANGED <<pipeDb, pipeFile>>
    BY <1>10 DEF StopFlushFails
  <2>2. UNCHANGED <<file, filePc, fileItem, stopDb, Exempt>> /\ RestDb' = pipeDb'
    BY <1>2, <2>1 DEF StopJoinFile
  <2>3. \/ UNCHANGED <<db, cache>> /\ (pipeDb = <<>> \/ Len(cache) > MaxBatchSize)
        \/ /\ pipeDb # <<>> /\ ~stopDb /\ ~dbUp
           /\ \E n \in Flushes(c) :
                db' = db ++ SubSeq(c, 1, n) /\ cache' = SubSeq(c, n + 1, Len(c))
    BY <1>10 DEF StopFlushFails, ++
  <2>4. pipeDb # <<>> => /\ c \in Seq(Items)
                         /\ ToSet(c) = ToSet(cache) \cup {Head(pipeDb)}
                         /\ Head(pipeDb) \in ToSet(pipeDb)
                         /\ Len(c) = Len(cache) + 1
    BY <1>0, ItemsOfAppend, ItemsOfPop
  <2>5. ASSUME cache = <<>> PROVE ~(Len(cache) > MaxBatchSize)
    BY <2>5, StorageAssumption
  <2>6. CASE Before
    <3>1. cache = <<>> /\ file = <<>>
      BY <2>1, <2>6 DEF Before, Early
    <3>2. UNCHANGED db /\ ToSet(cache') \subseteq ToSet(pipeDb)
      <4>1. CASE UNCHANGED <<db, cache>>
        BY <1>0, <3>1, <4>1
      <4>2. CASE ~UNCHANGED <<db, cache>>
        <5>1. PICK n \in Flushes(c) :
                db' = db ++ SubSeq(c, 1, n) /\ cache' = SubSeq(c, n + 1, Len(c))
          BY <2>3, <4>2
        <5>2. pipeDb # <<>> /\ ~dbUp
          BY <2>3, <4>2
        <5>3. n = 0
          <6>1. n \in 0 .. Len(c) - 1
            BY <5>1, <5>2 DEF Flushes
          <6>2. Len(c) = 1
            BY <2>4, <3>1, <5>2
          <6> QED BY <6>1, <6>2
        <5>4. SubSeq(c, 1, n) = <<>>
          BY <5>3, SubSeqEmpty
        <5>5. ToSet(cache') \subseteq ToSet(c)
          <6>1. 0 \in 0 .. Len(c) /\ c \in Seq(Items)
            BY <2>4, <5>2, LenProperties
          <6> HIDE DEF c
          <6>2. ToSet(SubSeq(c, n + 1, Len(c))) \subseteq ToSet(c)
            BY <5>3, <6>1, ItemsOfSplit
          <6> QED BY <5>1, <6>2
        <5> QED BY <1>0, <2>4, <3>1, <5>1, <5>2, <5>4, <5>5
      <4> QED BY <4>1, <4>2
    <3>3. Pairwise(db ++ (<<>> ++ (pipeDb ++ pipeFile)), Differ(Exempt))
      BY <1>1, <2>1, <2>6, <3>1 DEF Before, StopCache
    <3>4. Early'
      BY <1>6, <2>1, <2>2, <2>6, <3>2 DEF Early
    <3>5. Pairwise(db' ++ (StopCache' ++ (RestDb' ++ pipeFile')), Differ(Exempt'))
      BY <2>1, <2>2, <3>2, <3>3 DEF StopCache
    <3> QED BY <1>3, <1>4, <2>1, <2>2, <3>1, <3>4, <3>5 DEF Before, Stopping
  <2>7. CASE During
    <3>1. Pairwise(db' ++ file, Differ(Exempt)) /\ ToSet(cache') \subseteq Exempt
      <4>1. CASE UNCHANGED <<db, cache>>
        BY <2>7, <4>1 DEF During
      <4>2. CASE ~UNCHANGED <<db, cache>>
        <5>1. PICK n \in Flushes(c) :
                db' = db ++ SubSeq(c, 1, n) /\ cache' = SubSeq(c, n + 1, Len(c))
          BY <2>3, <4>2
        <5> DEFINE e == SubSeq(c, 1, n)
                   r == SubSeq(c, n + 1, Len(c))
        <5>2. c \in Seq(Items) /\ ToSet(c) \subseteq Exempt
          BY <1>1, <2>3, <2>4, <2>7, <4>2 DEF During
        <5>3. e \in Seq(Items) /\ ToSet(e) \cup ToSet(r) = ToSet(c)
          <6>1. n \in 0 .. Len(c)
            BY <5>1, <5>2, FlushesBounded
          <6> HIDE DEF c
          <6> QED BY <5>2, <6>1, ItemsOfSplit
        <5>4. db' = db ++ e /\ cache' = r
          BY <5>1
        <5> HIDE DEF e, r, c
        <5>5. Pairwise(db ++ (e ++ file), Differ(Exempt))
          BY <1>0, <2>7, <5>2, <5>3, ExceptionsInside DEF During
        <5>6. db ++ (e ++ file) = (db ++ e) ++ file
          BY <1>0, <5>3, Joins
        <5> QED BY <5>2, <5>3, <5>4, <5>5, <5>6
      <4> QED BY <4>1, <4>2
    <3> QED BY <1>1, <1>3, <1>4, <2>1, <2>2, <2>7, <3>1 DEF During, Stopping
  <2>8. CASE After
    <3>1. UNCHANGED db /\ pipeDb = <<>>
      BY <1>7, <2>1, <2>3, <2>5, <2>8 DEF After
    <3>2. UNCHANGED RestFile /\ WritesHead'
      BY <2>1, <2>2, <2>8 DEF After, RestFile, WritesHead
    <3> QED BY <1>3, <1>4, <2>1, <2>2, <2>8, <3>1, <3>2 DEF After, Stopping
  <2> QED BY <2>6, <2>7, <2>8
<1>11. CASE StopTransfer
  <2>1. /\ mainPc = "Transfer" /\ mainPc' = "EndFile"
        /\ pipeFile' = Reverse(pipeDb) ++ pipeFile /\ pipeDb' = <<>>
        /\ UNCHANGED <<db, cache>>
    BY <1>11 DEF StopTransfer, ++
  <2>2. UNCHANGED <<file, filePc, fileItem, stopDb, Exempt>> /\ RestDb' = pipeDb'
    BY <1>2, <2>1 DEF StopJoinFile
  <2>3. /\ Reverse(pipeDb) \in Seq(Items) /\ ToSet(Reverse(pipeDb)) = ToSet(pipeDb)
        /\ ToSet(pipeFile') = ToSet(pipeDb) \cup ToSet(pipeFile)
        /\ pipeFile' \in Seq(Items)
    <3>1. Reverse(pipeDb) \in Seq(Items) /\ ToSet(Reverse(pipeDb)) = ToSet(pipeDb)
      BY <1>0, ItemsOfReverse
    <3> QED BY <1>0, <2>1, <3>1, ItemsOfJoin
  <2>4. CASE Before
    <3>1. file = <<>> /\ Early'
      BY <1>6, <2>1, <2>2, <2>3, <2>4 DEF Before, Early
    <3>2. Pairwise(db ++ (<<>> ++ (pipeDb ++ pipeFile)), Differ(Exempt))
      BY <1>1, <2>1, <2>4 DEF Before, StopCache
    <3>3. Pairwise(db ++ (pipeDb ++ pipeFile), Differ(Exempt))
      <4>1. pipeDb ++ pipeFile \in Seq(Items)
        BY <1>0, Joins
      <4> QED BY <1>0, <3>2, <4>1
    <3>4. Pairwise(db ++ pipeFile', Differ(Exempt))
      BY <1>0, <2>1, <3>3, TurnedInside
    <3>5. Pairwise(db' ++ (StopCache' ++ (RestDb' ++ pipeFile')), Differ(Exempt'))
      BY <1>0, <2>1, <2>2, <2>3, <3>4 DEF StopCache
    <3> QED BY <1>3, <1>4, <2>1, <2>2, <3>1, <3>5 DEF Before, Stopping
  <2>5. CASE During
    BY <1>0, <1>1, <1>3, <1>4, <2>1, <2>2, <2>3, <2>5 DEF During, Stopping
  <2>6. CASE After
    <3>1. pipeDb = <<>>
      BY <2>1, <2>6 DEF After
    <3>2. Reverse(pipeDb) = <<>>
      BY <1>0, <2>3, <3>1, ItemsOf
    <3>3. pipeFile' = pipeFile
      BY <1>0, <2>1, <3>2
    <3> QED BY <1>3, <1>4, <2>1, <2>2, <2>6, <3>3 DEF After, Stopping, WritesHead, RestFile
  <2> QED BY <2>4, <2>5, <2>6
<1>12. CASE StopEndFile
  <2>1. /\ mainPc = "EndFile" /\ mainPc' = "JoinFile"
        /\ UNCHANGED <<db, cache, pipeDb, pipeFile>>
    BY <1>12 DEF StopEndFile
  <2>2. UNCHANGED <<file, filePc, fileItem, stopDb, Exempt>> /\ RestDb' = pipeDb'
    BY <1>2, <2>1 DEF StopJoinFile
  <2>3. Before => Before'
    BY <1>1, <2>1, <2>2 DEF Before, Early, StopCache
  <2>4. During => During'
    BY <1>1, <2>1, <2>2 DEF During
  <2>5. After => After'
    BY <2>1, <2>2 DEF After, WritesHead, RestFile
  <2> QED BY <1>3, <1>4, <2>1, <2>3, <2>4, <2>5 DEF Stopping
<1>13. CASE StopJoinFile
  <2>1. /\ mainPc = "JoinFile" /\ mainPc' = "Down" /\ filePc \in {"Off", "Done"}
        /\ file' = file ++ pipeFile /\ cache' = <<>> /\ pipeDb' = <<>> /\ pipeFile' = <<>>
        /\ dbPc' = "Off" /\ filePc' = "Off" /\ UNCHANGED <<db, caught, repeats>>
    BY <1>13 DEF StopJoinFile, Ended, ++
  <2>2. UNCHANGED Exempt
    BY <2>1 DEF Exempt
  <2>3. Pairwise(db ++ (file ++ pipeFile), Differ(Exempt))
    <3>1. CASE Before
      <4>1. file = <<>> /\ pipeDb = <<>>
        BY <2>1, <3>1 DEF Before, Early
      <4>2. Pairwise(db ++ (<<>> ++ (<<>> ++ pipeFile)), Differ(Exempt))
        BY <1>1, <2>1, <3>1, <4>1 DEF Before, StopCache
      <4> QED BY <1>0, <4>1, <4>2
    <3>2. CASE During
      <4>1. db ++ file \in Seq(Items) /\ ToSet(pipeFile) \subseteq Exempt
        BY <1>0, <3>2, Joins DEF During
      <4>2. Pairwise((db ++ file) ++ <<>>, Differ(Exempt))
        BY <1>0, <3>2, <4>1 DEF During
      <4>3. Pairwise((db ++ file) ++ (pipeFile ++ <<>>), Differ(Exempt))
        BY <1>0, <4>1, <4>2, ExceptionsInside
      <4>4. (db ++ file) ++ pipeFile = db ++ (file ++ pipeFile)
        BY <1>0, Joins
      <4> QED BY <1>0, <4>3, <4>4
    <3>3. CASE After
      BY <2>1, <3>3 DEF After, RestFile
    <3> QED BY <3>1, <3>2, <3>3
  <2>4. Line' = db ++ (<<>> ++ (<<>> ++ (file' ++ <<>>)))
    BY <2>1 DEF Line, Rest, RestDb, RestFile, Unread, Copied, Serving, Entered
  <2>5. Line' = db ++ (file ++ pipeFile)
    <3>1. file' \in Seq(Items)
      BY <1>0, <2>1, Joins
    <3> QED BY <1>0, <2>1, <2>4, <3>1
  <2> QED BY <1>3, <1>4, <2>1, <2>2, <2>3, <2>5 DEF Stopping
<1> QED BY <1>8, <1>9, <1>10, <1>11, <1>12, <1>13

\* A line without any part.
LEMMA LineOfNothing == <<>> ++ (<<>> ++ (<<>> ++ (<<>> ++ <<>>))) = <<>>
<1> DEFINE e == <<>>
<1>1. e \in Seq(Items) /\ \A s \in Seq(Items) : e ++ s = s
  BY Joins
<1> HIDE DEF e
<1>2. e ++ e = e
  BY <1>1
<1>3. e ++ (e ++ (e ++ (e ++ e))) = e
  BY <1>2
<1> QED BY <1>3 DEF e

\* A line of which two parts are empty.
LEMMA LineOutside ==
  ASSUME NEW d \in Seq(Items), NEW c \in Seq(Items), NEW u \in Seq(Items)
  PROVE  d ++ (c ++ (<<>> ++ (u ++ <<>>))) = d ++ (c ++ u)
BY Joins

\* A batch goes from the cache into the database.
LEMMA BatchStored ==
  ASSUME NEW d \in Seq(Items), NEW e \in Seq(Items), NEW r \in Seq(Items), NEW u \in Seq(Items)
  PROVE  (d ++ e) ++ (r ++ u) = d ++ ((e ++ r) ++ u)
<1>1. (d ++ e) ++ (r ++ u) = d ++ (e ++ (r ++ u))
  BY Joins
<1>2. e ++ (r ++ u) = (e ++ r) ++ u
  BY Joins
<1> QED BY <1>1, <1>2

\* What a file holds that is to be restored once more is an exception, wherever it is.
LEMMA FileAgain ==
  ASSUME NEW X, NEW Y, NEW d \in Seq(Items), NEW c \in Seq(Items), NEW e \in Seq(Items),
         NEW f \in Seq(Items), Pairwise(d ++ c, Differ(X)),
         X \cup ToSet(e) \cup ToSet(f) \subseteq Y
  PROVE  Pairwise((d ++ e) ++ (<<>> ++ f), Differ(Y))
<1>1. Pairwise(d, Differ(X))
  BY PartsShare
<1>2. Pairwise(d, Differ(Y))
  BY <1>1, WiderLine
<1> DEFINE g == e ++ f
           o == <<>>
<1>3. o \in Seq(Items) /\ d ++ o = d /\ g \in Seq(Items) /\ g ++ o = g /\ o ++ f = f
  BY Joins
<1>4. ToSet(g) \subseteq Y
  BY ItemsOfJoin
<1>5. (d ++ e) ++ f = d ++ g
  BY Joins
<1> HIDE DEF g, o
<1>6. Pairwise(d ++ (g ++ o), Differ(Y))
  BY <1>2, <1>3, <1>4, ExceptionsInside
<1> QED BY <1>3, <1>5, <1>6 DEF o

\* init() moves the lines of the file through the cache into the database, as they are, and
\* a run starts with an empty file.
LEMMA RestoreMoves ==
  ASSUME StorageInv, StorageInv', HandsSound, Pairwise(Line, Differ(Exempt)),
         \/ RestoreLine \/ RestoreFlush \/ RestoreFails \/ RestoreRemove
         \/ StartEmpty \/ StartWithoutDb
  PROVE  /\ HandsSound' /\ RunSound' /\ mainPc' \notin Stopping
         /\ Pairwise(Line', Differ(Exempt'))
<1> USE DEF pipes, disk, flags, dbThread, fileThread, main, history
<1>0. /\ db \in Seq(Items) /\ cache \in Seq(Items) /\ file \in Seq(Items)
      /\ Unread \in Seq(Items) /\ cursor \in 0 .. Len(file)
      /\ db' \in Seq(Items) /\ cache' \in Seq(Items) /\ file' \in Seq(Items)
      /\ cursor' \in 0 .. Len(file')
      /\ <<>> \in Seq(Items) /\ ToSet(<<>>) = {}
      /\ \A s \in Seq(Items) : s ++ <<>> = s /\ <<>> ++ s = s
  BY LineTyped, Joins, ItemsOfEmpty DEF StorageInv, TypeOK
<1>1. /\ mainPc \in {"Restore", "Remove"} /\ dbPc = "Off" /\ filePc = "Off"
      /\ pipeDb = <<>> /\ pipeFile = <<>>
      /\ \A p \in Producers : caller[p] = Idle
  BY DEF RestoreLine, RestoreFlush, RestoreFails, RestoreRemove, StartEmpty,
     StartWithoutDb, StorageInv, OutsideSound, Outside, Known
<1>2. Line = db ++ (cache ++ Unread)
  <2>1. Line = db ++ (cache ++ (<<>> ++ (Unread ++ <<>>)))
    BY <1>1 DEF Line, Rest, RestDb, RestFile, Copied, Serving, Entered
  <2> QED BY <1>0, <2>1, LineOutside
<1>3. /\ pipeDb' = <<>> /\ pipeFile' = <<>> /\ filePc' = "Off" /\ dbPc' \in {"Off", "Loop"}
      /\ \A p \in Producers : caller'[p] = Idle
      /\ mainPc' \in {"Restore", "Remove", "Run", "Down"}
  BY <1>1
     DEF RestoreLine, RestoreFlush, RestoreFails, RestoreRemove, StartEmpty,
         StartWithoutDb, Started, Ended
<1>4. Unread' \in Seq(Items)
  <2>1. SubSeq(file', cursor' + 1, Len(file')) \in Seq(Items)
    BY <1>0, ItemsOfSplit
  <2> QED BY <1>0, <2>1 DEF Unread
<1>5. Line' = db' ++ (cache' ++ Unread')
  <2>1. Line' = db' ++ (cache' ++ (<<>> ++ (Unread' ++ <<>>)))
    BY <1>3 DEF Line, Rest, RestDb, RestFile, Copied, Serving, Entered
  <2> QED BY <1>0, <1>4, <2>1, LineOutside
<1>6. HandsSound'
  <2>1. mainPc' = "Remove" => cursor' = Len(file')
    BY <1>1
       DEF RestoreLine, RestoreFlush, RestoreFails, RestoreRemove, StartEmpty,
           StartWithoutDb, Started, Ended
  <2> QED BY <1>3, <2>1 DEF HandsSound, InHand, Idle
<1>7. RunSound'
  <2>1. mainPc' = "Run" => file' = <<>>
    BY <1>1
       DEF RestoreLine, RestoreFlush, RestoreFails, RestoreRemove, StartEmpty,
           StartWithoutDb, Started, Ended
  <2> QED BY <1>3, <2>1 DEF RunSound, WritesHead, Serving
<1>8. ASSUME Line' = Line, UNCHANGED Exempt PROVE Pairwise(Line', Differ(Exempt'))
  BY <1>8
<1>9. CASE RestoreLine
  <2> DEFINE y == <<file[cursor + 1]>>
             c == Append(cache, file[cursor + 1])
             u == SubSeq(file, cursor + 2, Len(file))
  <2>1. /\ mainPc = "Restore" /\ mainPc' = "Restore" /\ cursor' = cursor + 1
        /\ cursor < Len(file) /\ UNCHANGED <<file, Exempt>>
    BY <1>9 DEF RestoreLine, Exempt
  <2>2. file[cursor + 1] \in Items
    BY <1>0, <2>1, ElementOfSeq
  <2>3. c = cache ++ y /\ y \in Seq(Items)
    BY <1>0, <2>2, Parts
  <2>4. Unread = y ++ u /\ Unread' = u
    <3>1. cursor + 1 \in 1 .. Len(file) /\ Len(file) \in cursor + 1 .. Len(file)
      BY <1>0, <2>1, LenProperties
    <3>2. \A m \in 1 .. Len(file) : \A n \in m .. Len(file) :
            SubSeq(file, m, n) = <<file[m]>> ++ SubSeq(file, m + 1, n)
      BY <1>0, SubSeqRecursiveFirst DEF ++
    <3>3. SubSeq(file, cursor + 1, Len(file))
            = <<file[cursor + 1]>> ++ SubSeq(file, cursor + 1 + 1, Len(file))
      BY <3>1, <3>2
    <3>4. cursor + 1 + 1 = cursor + 2
      BY <1>0
    <3> QED BY <2>1, <3>3, <3>4 DEF Unread
  <2>5. c \in Seq(Items)
    <3> HIDE DEF y, c
    <3> QED BY <1>0, <2>3, Joins
  <2>6. PICK n \in 0 .. Len(c) : db' = db ++ SubSeq(c, 1, n) /\ cache' = SubSeq(c, n + 1, Len(c))
    <3> HIDE DEF c
    <3>1. Flushes(c) \subseteq 0 .. Len(c) /\ 0 \in 0 .. Len(c)
      BY <2>5, FlushesBounded
    <3> QED BY <1>9, <3>1 DEF RestoreLine, c, ++
  <2> DEFINE e == SubSeq(c, 1, n)
             r == SubSeq(c, n + 1, Len(c))
  <2>7. e \in Seq(Items) /\ r \in Seq(Items) /\ c = e ++ r
    <3> HIDE DEF c
    <3> QED BY <2>5, Parts
  <2>8. u \in Seq(Items) /\ db' = db ++ e /\ cache' = r
    BY <1>4, <2>4, <2>6
  <2> HIDE DEF y, c, u, e, r
  <2>9. (db ++ e) ++ (r ++ u) = db ++ ((e ++ r) ++ u)
    BY <1>0, <2>7, <2>8, BatchStored
  <2>10. (cache ++ y) ++ u = cache ++ (y ++ u)
    BY <1>0, <2>3, <2>8, Joins
  <2>11. Line' = Line
    BY <1>2, <1>5, <2>3, <2>4, <2>7, <2>8, <2>9, <2>10
  <2> QED BY <1>3, <1>6, <1>7, <1>8, <2>1, <2>11 DEF Stopping
<1>10. CASE RestoreFlush
  <2>1. /\ mainPc = "Restore" /\ mainPc' = "Remove" /\ Commit(Len(cache))
        /\ UNCHANGED <<file, cursor, Exempt>>
    BY <1>10 DEF RestoreFlush, Exempt
  <2> DEFINE e == SubSeq(cache, 1, Len(cache))
             r == SubSeq(cache, Len(cache) + 1, Len(cache))
  <2>2. e \in Seq(Items) /\ r \in Seq(Items) /\ cache = e ++ r
    <3>1. Len(cache) \in 0 .. Len(cache)
      BY <1>0, LenProperties
    <3> QED BY <1>0, <3>1, Parts
  <2>3. db' = db ++ e /\ cache' = r /\ UNCHANGED Unread
    BY <2>1 DEF Commit, ++, Unread
  <2> HIDE DEF e, r
  <2>4. (db ++ e) ++ (r ++ Unread) = db ++ ((e ++ r) ++ Unread)
    BY <1>0, <2>2, BatchStored
  <2>5. Line' = Line
    BY <1>2, <1>5, <2>2, <2>3, <2>4
  <2> QED BY <1>3, <1>6, <1>7, <1>8, <2>1, <2>5 DEF Stopping
<1>11. CASE RestoreFails
  <2>1. /\ mainPc = "Restore" /\ mainPc' = "Down" /\ cache' = <<>> /\ UNCHANGED caught
        /\ repeats' = repeats \cup ToSet(file)
    BY <1>11 DEF RestoreFails, Ended
  <2>2. PICK e, f \in Seq(Items) :
          /\ db' = db ++ e /\ file' = file ++ f
          /\ ToSet(e) \cup ToSet(f) \subseteq ToSet(cache)
    BY <1>11, FailedRestore DEF StorageInv, ++
  <2>3. ToSet(file') = ToSet(file) \cup ToSet(f) /\ ToSet(cache) \subseteq ToSet(file)
    BY <1>0, <2>1, <2>2, ItemsOfJoin DEF StorageInv, RestoreSound
  <2>4. cache ++ Unread \in Seq(Items) /\ Pairwise(db ++ (cache ++ Unread), Differ(Exempt))
    BY <1>0, <1>2, Joins
  <2>5. Exempt \cup ToSet(e) \cup ToSet(file') \subseteq Exempt'
    BY <2>1, <2>2, <2>3 DEF Exempt
  <2>6. Pairwise((db ++ e) ++ (<<>> ++ file'), Differ(Exempt'))
    BY <1>0, <2>4, <2>5, FileAgain
  <2>7. Unread' = file'
    BY <2>1 DEF Unread
  <2> QED BY <1>5, <1>6, <1>7, <2>1, <2>2, <2>6, <2>7 DEF Stopping
<1>12. CASE RestoreRemove \/ StartEmpty \/ StartWithoutDb
  <2>1. /\ mainPc' = "Run" /\ UNCHANGED <<db, cache, Exempt>> /\ file' = <<>>
        /\ mainPc = "Remove" \/ file = <<>>
    BY <1>12 DEF RestoreRemove, StartEmpty, StartWithoutDb, Started, Exempt
  <2>2. Unread = <<>>
    <3>1. cursor = Len(file)
      BY <1>0, <2>1 DEF HandsSound
    <3>2. SubSeq(file, cursor + 1, Len(file)) = <<>>
      BY <1>0, <3>1, ItemsOfSplit
    <3> QED BY <1>1, <3>2 DEF Unread
  <2>3. Unread' = <<>>
    BY <2>1 DEF Unread
  <2> QED BY <1>2, <1>3, <1>5, <1>6, <1>7, <1>8, <2>1, <2>2, <2>3 DEF Stopping
<1> QED BY <1>9, <1>10, <1>11, <1>12

\* A part in the middle of a line may be left out.
LEMMA LineWithout ==
  ASSUME NEW R, NEW s \in Seq(Items), NEW t \in Seq(Items), NEW u \in Seq(Items),
         Pairwise(s ++ (t ++ u), R)
  PROVE  Pairwise(s ++ u, R)
<1>1. t ++ u \in Seq(Items) /\ ToSet(t ++ u) = ToSet(t) \cup ToSet(u)
  BY ItemsOfJoin
<1>2. Pairwise(s, R) /\ Pairwise(t ++ u, R) /\ Across(s, t ++ u, R)
  BY <1>1, LineOfConcat
<1>3. Pairwise(u, R)
  BY <1>2, LineOfConcat
<1>4. Across(s, u, R)
  BY <1>1, <1>2 DEF Across
<1> QED BY <1>2, <1>3, <1>4, LineOfConcat

\* So may the last part.
LEMMA LineBegins ==
  ASSUME NEW R, NEW s \in Seq(Items), NEW t \in Seq(Items), NEW u \in Seq(Items),
         Pairwise(s ++ (t ++ u), R)
  PROVE  Pairwise(s ++ t, R)
<1>1. s ++ t \in Seq(Items) /\ (s ++ t) ++ u = s ++ (t ++ u)
  BY Joins
<1>2. Pairwise((s ++ t) ++ u, R)
  BY <1>1
<1> QED BY <1>1, <1>2, LineOfConcat

\* What is stored is a part of the line, once init() has read the file.
LEMMA StoredPart ==
  ASSUME StorageInv, HandsSound, mainPc \notin {"Restore", "Remove"},
         NEW R, Pairwise(Line, R)
  PROVE  Pairwise(db ++ file, R)
<1> DEFINE a == Rest ++ (file ++ RestFile)
<1>0. /\ db \in Seq(Items) /\ cache \in Seq(Items) /\ file \in Seq(Items)
      /\ Rest \in Seq(Items) /\ RestFile \in Seq(Items)
  BY LineTyped
<1>1. file ++ RestFile \in Seq(Items) /\ a \in Seq(Items)
  BY <1>0, Joins
<1>2. Pairwise(db ++ (cache ++ a), R)
  BY DEF Line, Unread
<1>3. Pairwise(db ++ a, R)
  <2> HIDE DEF a
  <2> QED BY <1>0, <1>1, <1>2, LineWithout
<1>4. Pairwise(db ++ (file ++ RestFile), R)
  BY <1>0, <1>1, <1>3, LineWithout
<1> QED BY <1>0, <1>4, LineBegins

\* In a run, in stop() and between two runs, the database and the file hold no item twice.
LEMMA StoredOnce ==
  ASSUME StorageInv, HandsSound, mainPc \notin {"Restore", "Remove"},
         mainPc \notin Stopping => Pairwise(Line, Differ(Exempt)),
         mainPc \in Stopping => StopSafe
  PROVE  Pairwise(db ++ file, Differ(Exempt))
<1>0. /\ db \in Seq(Items) /\ file \in Seq(Items) /\ RestDb \in Seq(Items)
      /\ pipeFile \in Seq(Items) /\ RestFile \in Seq(Items) /\ StopCache \in Seq(Items)
  BY LineTyped
<1>1. CASE mainPc \notin Stopping
  BY <1>1, StoredPart
<1>2. CASE mainPc \in Stopping /\ Before
  <2> DEFINE a == StopCache ++ (RestDb ++ pipeFile)
  <2>1. RestDb ++ pipeFile \in Seq(Items)
    BY <1>0, Joins
  <2>2. a \in Seq(Items)
    BY <1>0, <2>1, Joins
  <2>3. Pairwise(db ++ a, Differ(Exempt)) /\ file = <<>>
    BY <1>2 DEF Before
  <2> HIDE DEF a
  <2>4. Pairwise(db, Differ(Exempt))
    BY <1>0, <2>2, <2>3, PartsShare
  <2> QED BY <1>0, <2>3, <2>4, Joins
<1>3. CASE mainPc \in Stopping /\ During
  BY <1>3 DEF During
<1>4. CASE mainPc \in Stopping /\ After
  BY <1>0, <1>4, LineBegins DEF After
<1> QED BY <1>1, <1>2, <1>3, <1>4 DEF StopSafe

\* A crash leaves what is on disk; the next init() reads all of the file.
LEMMA EnvironmentMoves ==
  ASSUME StorageInv, StorageInv', HandsSound, RunSound,
         mainPc \notin Stopping => Pairwise(Line, Differ(Exempt)),
         mainPc \in Stopping => StopSafe,
         DbFails \/ DbRecovers \/ Crash \/ Restart \/ UNCHANGED vars
  PROVE  /\ HandsSound' /\ RunSound'
         /\ mainPc' \notin Stopping => Pairwise(Line', Differ(Exempt'))
         /\ mainPc' \in Stopping => StopSafe'
<1> USE DEF pipes, disk, flags, dbThread, fileThread, main, history
<1>0. /\ db \in Seq(Items) /\ cache \in Seq(Items) /\ file \in Seq(Items)
      /\ Unread \in Seq(Items) /\ <<>> \in Seq(Items)
      /\ \A s \in Seq(Items) : s ++ <<>> = s /\ <<>> ++ s = s
  BY LineTyped, Joins
<1>1. CASE DbFails \/ DbRecovers \/ UNCHANGED vars
  <2>1. UNCHANGED <<pipes, db, file, flags, caller, dbThread, fileThread, main, history>>
    BY <1>1 DEF DbFails, DbRecovers, vars
  <2>2. UNCHANGED <<Line, Exempt, mainPc>>
    BY <2>1 DEF Line, Rest, RestDb, RestFile, Unread, Exempt
  <2>3. HandsSound' /\ RunSound'
    BY <2>1, <2>2 DEF HandsSound, RunSound, WritesHead, OnDisk
  <2>4. StopSafe => StopSafe'
    BY <2>1, <2>2
       DEF StopSafe, Before, Early, During, After, WritesHead, RestDb, RestFile, StopCache
  <2> QED BY <2>2, <2>3, <2>4
<1>2. CASE Crash
  <2>1. /\ mainPc # "Down" /\ mainPc' = "Down"
        /\ cache' = <<>> /\ pipeDb' = <<>> /\ pipeFile' = <<>>
        /\ dbPc' = "Off" /\ filePc' = "Off" /\ caller' = [p \in Producers |-> Idle]
        /\ UNCHANGED <<db, file, caught>>
        /\ repeats' = IF mainPc \in {"Restore", "Remove"} THEN repeats \cup ToSet(file)
                                                         ELSE repeats
    BY <1>2 DEF Crash, Ended
  <2>2. HandsSound' /\ RunSound'
    BY <2>1 DEF HandsSound, RunSound, InHand, Idle
  <2>3. Line' = db ++ (<<>> ++ file)
    <3>1. Line' = db ++ (<<>> ++ (<<>> ++ (file ++ <<>>)))
      BY <2>1 DEF Line, Rest, RestDb, RestFile, Unread, Copied, Serving, Entered
    <3> QED BY <1>0, <3>1, LineOutside
  <2>4. CASE mainPc \in {"Restore", "Remove"}
    <3>1. /\ dbPc = "Off" /\ filePc = "Off" /\ pipeDb = <<>> /\ pipeFile = <<>>
          /\ mainPc \notin Stopping
      BY <2>4 DEF StorageInv, OutsideSound, Outside, Stopping
    <3>2. Line = db ++ (cache ++ (<<>> ++ (Unread ++ <<>>)))
      BY <3>1 DEF Line, Rest, RestDb, RestFile, Copied, Serving, Entered
    <3>3. Line = db ++ (cache ++ Unread) /\ cache ++ Unread \in Seq(Items)
      BY <1>0, <3>2, LineOutside, Joins
    <3>4. Exempt \cup ToSet(file) \subseteq Exempt'
      BY <2>1, <2>4 DEF Exempt
    <3>5. Pairwise(db ++ (<<>> ++ file), Differ(Exempt'))
      <4> DEFINE o == <<>>
      <4>1. o \in Seq(Items) /\ db ++ o = db /\ ToSet(o) = {}
        BY <1>0, Joins, ItemsOfEmpty
      <4> HIDE DEF o
      <4>2. Pairwise((db ++ o) ++ (<<>> ++ file), Differ(Exempt'))
        BY <1>0, <3>1, <3>3, <3>4, <4>1, FileAgain
      <4> QED BY <4>1, <4>2
    <3> QED BY <2>1, <2>2, <2>3, <3>5 DEF Stopping
  <2>5. CASE mainPc \notin {"Restore", "Remove"}
    <3>1. Pairwise(db ++ file, Differ(Exempt))
      BY <2>5, StoredOnce
    <3>2. UNCHANGED Exempt /\ <<>> ++ file = file
      BY <1>0, <2>1, <2>5 DEF Exempt
    <3> QED BY <2>1, <2>2, <2>3, <3>1, <3>2 DEF Stopping
  <2> QED BY <2>4, <2>5
<1>3. CASE Restart
  <2>1. /\ mainPc = "Down" /\ mainPc' = "Restore"
        /\ UNCHANGED <<pipes, disk, flags, caller, dbThread, fileThread, cursor, ends, history>>
    BY <1>3 DEF Restart
  <2>2. HandsSound' /\ RunSound'
    BY <2>1 DEF HandsSound, RunSound
  <2>3. cursor = 0
    BY <2>1 DEF StorageInv, RestoreSound
  <2>4. UNCHANGED Unread
    <3>1. SubSeq(file, 0 + 1, Len(file)) = file
      BY <1>0, SubSeqFull
    <3> QED BY <2>1, <2>3, <3>1 DEF Unread
  <2>5. UNCHANGED <<Line, Exempt>>
    BY <2>1, <2>4 DEF Line, Rest, RestDb, RestFile, Exempt
  <2> QED BY <2>1, <2>2, <2>5 DEF Stopping
<1> QED BY <1>1, <1>2, <1>3

--------------------------------------------------------------------------------
(***************************************************************************)
(* Both invariants are inductive.                                          *)
(***************************************************************************)

\* The database thread in a run: the line stays as it is.
LEMMA DbThreadInRun ==
  ASSUME StorageInv, StorageInv', HandsSound, RunSound, mainPc = "Run", ~left, DbThread
  PROVE  /\ HandsSound' /\ RunSound' /\ Line' = Line
         /\ filePc \notin Copied
         /\ UNCHANGED <<mainPc, ends, Exempt, pipeFile, caller, doneDb, detoured>>
<1> DEFINE a == Unread ++ RestFile
<1>0. /\ db \in Seq(Items) /\ cache \in Seq(Items) /\ RestDb \in Seq(Items)
      /\ Unread \in Seq(Items) /\ RestFile \in Seq(Items)
      /\ db' \in Seq(Items) /\ cache' \in Seq(Items) /\ pipeDb' \in Seq(Items)
  BY LineTyped DEF StorageInv, TypeOK
<1>1. /\ HandsSound' /\ filePc \notin Copied \cup Serving
      /\ filePc' = filePc \/ (filePc = "Off" /\ filePc' = "Start")
      /\ UNCHANGED <<file, pipeFile, mainPc, cursor, ends, caller, doneDb, detoured,
                     caught, repeats>>
      /\ db' ++ (cache' ++ RestDb') = db ++ (cache ++ RestDb)
  BY DbThreadMoves
<1>2. UNCHANGED Exempt
  BY <1>1 DEF Exempt
<1>3. RunSound'
  <2>1. filePc' \notin Copied \cup Serving /\ file = <<>>
    BY <1>1 DEF Copied, Serving, RunSound
  <2> QED BY <1>1, <2>1 DEF RunSound, WritesHead, Copied, Serving
<1>4. RestDb' \in Seq(Items)
  <2>1. dbPc' \in Entered => pipeDb' # <<>>
    BY <1>1 DEF HandsSound, InHand, Entered
  <2> QED BY <1>0, <2>1, HeadTailProperties DEF RestDb
<1>5. a \in Seq(Items)
  BY <1>0, Joins
<1>6. Line = db ++ (cache ++ (RestDb ++ a)) /\ Line' = db' ++ (cache' ++ (RestDb' ++ a))
  BY <1>1 DEF Line, Rest, Unread, RestFile, Copied, Serving
<1> HIDE DEF a
<1>7. /\ db ++ (cache ++ (RestDb ++ a)) = (db ++ (cache ++ RestDb)) ++ a
      /\ db' ++ (cache' ++ (RestDb' ++ a)) = (db' ++ (cache' ++ RestDb')) ++ a
  BY <1>0, <1>4, <1>5, JoinLast
<1> QED BY <1>1, <1>2, <1>3, <1>6, <1>7

\* A database thread that was left behind stays so.
LEMMA LeftStays == StorageInv /\ [Next]_vars /\ ~left' => ~left
<1> USE DEF history
<1> SUFFICES ASSUME StorageInv, [Next]_vars, ~left' PROVE ~left
  OBVIOUS
<1>0. left \in BOOLEAN
  BY DEF StorageInv, TypeOK
<1>1. ASSUME NEW p \in Producers, Persist(p) \/ PushDb(p) \/ PushFile(p) PROVE ~left
  BY <1>0, <1>1 DEF Persist, PushDb, PushFile
<1>2. CASE DbThread
  BY <1>0, <1>2
     DEF DbThread, DbLoop, DbRead, DbPersist, DbCommit, DbFlushed, DbFlushFails, DbPop
<1>3. CASE FileThread
  BY <1>0, <1>3
     DEF FileThread, FileStart, FileJoin, FileCopy, FileClear, FileTakeCache, FileRead,
         FileWrite, FilePop
<1>4. CASE MainThread
  BY <1>0, <1>4
     DEF MainThread, RestoreLine, RestoreFlush, RestoreFails, RestoreRemove, StartEmpty,
         StartWithoutDb, Started, Stop, StopJoinDb, StopFlushItem, StopFlushFails,
         StopTransfer, StopEndFile, StopJoinFile
<1>5. CASE DbFails \/ DbRecovers \/ Crash \/ Restart \/ UNCHANGED vars
  BY <1>0, <1>5 DEF DbFails, DbRecovers, Crash, Restart, vars
<1> QED BY <1>1, <1>2, <1>3, <1>4, <1>5 DEF Next

\* Every step keeps the items of the line apart.
LEMMA OnceKept ==
  ASSUME OneCaller, StorageInv, StorageInv', OnceInv, [Next]_vars
  PROVE  OnceInv'
<1>1. SUFFICES ASSUME ~left'
               PROVE  /\ HandsSound' /\ RunSound'
                      /\ mainPc' \notin Stopping => Pairwise(Line', Differ(Exempt'))
                      /\ mainPc' \in Stopping => StopSafe'
  BY DEF OnceInv
<1>2. /\ ~left /\ HandsSound /\ RunSound
      /\ mainPc \notin Stopping => Pairwise(Line, Differ(Exempt))
      /\ mainPc \in Stopping => StopSafe
  BY <1>1, LeftStays DEF OnceInv
<1>3. mainPc' \in Stopping => mainPc' # "Run"
  BY DEF Stopping
<1>4. ASSUME NEW p \in Producers, Persist(p) \/ PushDb(p) \/ PushFile(p)
      PROVE  /\ HandsSound' /\ RunSound'
             /\ mainPc' \notin Stopping => Pairwise(Line', Differ(Exempt'))
             /\ mainPc' \in Stopping => StopSafe'
  <2>1. /\ HandsSound' /\ RunSound' /\ mainPc = "Run" /\ UNCHANGED <<mainPc, Exempt>>
        /\ Pairwise(Line, Differ(Exempt)) => Pairwise(Line', Differ(Exempt))
    BY <1>2, <1>4, CallersKeepLine
  <2> QED BY <1>2, <2>1 DEF Stopping
<1>5. CASE DbThread
  <2>1. CASE mainPc = "Run"
    <3>1. HandsSound' /\ RunSound' /\ Line' = Line /\ UNCHANGED <<mainPc, Exempt>>
      BY <1>2, <1>5, <2>1, DbThreadInRun
    <3> QED BY <1>2, <2>1, <3>1 DEF Stopping
  <2>2. CASE mainPc # "Run"
    <3>1. mainPc \in {"Run", "JoinDb"}
      BY <1>2, <1>5, DbThreadMoves
    <3>2. mainPc = "JoinDb" /\ mainPc \in Stopping
      BY <2>2, <3>1 DEF Stopping
    <3>3. HandsSound' /\ mainPc' = mainPc /\ StopSafe'
      BY <1>2, <1>5, <3>2, DbThreadInStop
    <3> QED BY <3>2, <3>3 DEF RunSound
  <2> QED BY <2>1, <2>2
<1>6. CASE FileThread
  <2>1. mainPc = "Run" \/ mainPc \in Stopping
    BY <1>6 DEF FileThread, FileStart, FileJoin, FileCopy, FileClear, FileTakeCache,
       FileRead, FileWrite, FilePop, StorageInv, TypeOK, OutsideSound, Outside, Stopping
  <2>2. CASE mainPc = "Run"
    <3>1. HandsSound' /\ RunSound' /\ Line' = Line /\ UNCHANGED <<mainPc, repeats, caught>>
      BY <1>1, <1>2, <1>6, <2>2, FileThreadMoves DEF Stopping
    <3> QED BY <1>2, <2>2, <3>1 DEF Stopping, Exempt
  <2>3. CASE mainPc \in Stopping
    <3>1. HandsSound' /\ mainPc' = mainPc /\ StopSafe'
      BY <1>1, <1>2, <1>6, <2>3, FileThreadInStop
    <3> QED BY <2>3, <3>1 DEF RunSound, Stopping
  <2> QED BY <2>1, <2>2, <2>3
<1>7. CASE MainThread
  <2>1. CASE \/ RestoreLine \/ RestoreFlush \/ RestoreFails \/ RestoreRemove
             \/ StartEmpty \/ StartWithoutDb
    <3>1. mainPc \notin Stopping
      BY <2>1 DEF RestoreLine, RestoreFlush, RestoreFails, RestoreRemove, StartEmpty,
         StartWithoutDb, Stopping
    <3> QED BY <1>2, <2>1, <3>1, RestoreMoves
  <2>2. CASE Stop
    <3>1. mainPc \notin Stopping
      BY <2>2 DEF Stop, Stopping
    <3>2. mainPc' = "JoinDb" /\ HandsSound' /\ StopSafe'
      BY <1>2, <2>2, <3>1, StopBegins
    <3> QED BY <3>2 DEF RunSound, Stopping
  <2>3. CASE \/ StopJoinDb \/ StopFlushItem \/ StopFlushFails \/ StopTransfer
             \/ StopEndFile \/ StopJoinFile
    <3>1. mainPc \in Stopping
      BY <2>3 DEF StopJoinDb, StopFlushItem, StopFlushFails, StopTransfer, StopEndFile,
         StopJoinFile, Stopping
    <3>2. /\ HandsSound' /\ mainPc' # "Run"
          /\ mainPc' \in Stopping => StopSafe'
          /\ mainPc' \notin Stopping => Pairwise(Line', Differ(Exempt'))
      BY <1>2, <2>3, <3>1, StopMoves
    <3> QED BY <3>2 DEF RunSound
  <2> QED BY <1>7, <2>1, <2>2, <2>3 DEF MainThread
<1>8. CASE DbFails \/ DbRecovers \/ Crash \/ Restart \/ UNCHANGED vars
  BY <1>2, <1>8, EnvironmentMoves
<1> QED BY <1>4, <1>5, <1>6, <1>7, <1>8 DEF Next

\* Every step of the first run keeps the line in order.
LEMMA OrderKept ==
  ASSUME OneCaller, StorageInv, StorageInv', OnceInv, OrderInv, [Next]_vars
  PROVE  OrderInv'
<1> USE DEF pipes, disk, flags, dbThread, fileThread, main, history
<1>0. ends \in Nat /\ left \in BOOLEAN /\ detoured \in BOOLEAN
  BY DEF StorageInv, TypeOK
<1>1. CASE \E p \in Producers : Persist(p) \/ PushDb(p) \/ PushFile(p)
  <2>1. PICK p \in Producers : Persist(p) \/ PushDb(p) \/ PushFile(p)
    BY <1>1
  <2>2. /\ mainPc = "Run" /\ UNCHANGED <<mainPc, ends, left, doneDb>>
        /\ ~detoured' => ~detoured
        /\ \A q \in Producers : q = p
    <3>1. mainPc = "Run"
      BY <2>1 DEF Persist, PushDb, PushFile, StorageInv, Known, Idle
    <3>2. UNCHANGED <<mainPc, ends, left, doneDb>> /\ (~detoured' => ~detoured)
      BY <1>0, <2>1 DEF Persist, PushDb, PushFile
    <3> QED BY <3>1, <3>2 DEF OneCaller
  <2>3. SUFFICES ASSUME ends = 0, ~detoured', ~left
                 PROVE  /\ Pairwise(Line', Rising)
                        /\ ~doneDb => /\ pipeFile' = <<>>
                                      /\ \A q \in Producers : caller'[q].pc # "PushFile"
                        /\ filePc' \notin Copied =>
                             \A q \in Producers : caller'[q].pc = "PushDb" => pipeFile' = <<>>
    BY <2>2 DEF OrderInv
  <2>4. /\ Pairwise(Line, Rising)
        /\ ~doneDb => pipeFile = <<>> /\ caller[p].pc # "PushFile"
        /\ filePc \notin Copied => (caller[p].pc = "PushDb" => pipeFile = <<>>)
    BY <2>2, <2>3 DEF OrderInv
  <2>5. Pairwise(Line', Rising)
    <3>1. HandsSound /\ RunSound
      BY <2>3 DEF OnceInv
    <3>2. caller[p].pc = "PushDb" /\ filePc \notin Copied => pipeFile = <<>>
      BY <2>4
    <3> QED BY <2>1, <2>3, <2>4, <3>1, <3>2, CallersKeepLine
  <2>6. caller \in [Producers -> [pc : {"Idle", "PushDb", "PushFile", "PushFileAndStart"},
                                  item : Items \cup {NoItem}]]
    BY DEF StorageInv, TypeOK
  <2>7. CASE Persist(p)
    <3>1. /\ UNCHANGED <<pipeFile, filePc>>
          /\ caller'[p].pc = "PushDb" => ~doneDb
          /\ caller'[p].pc = "PushFile" => doneDb
      BY <2>6, <2>7 DEF Persist
    <3> QED BY <2>2, <2>4, <2>5, <3>1
  <2>8. CASE PushDb(p) \/ PushFile(p)
    <3>1. caller'[p] = Idle
      BY <2>6, <2>8 DEF PushDb, PushFile, Accept
    <3>2. ~doneDb => pipeFile' = <<>>
      <4>1. CASE PushDb(p)
        BY <2>4, <4>1 DEF PushDb
      <4>2. CASE PushFile(p)
        <5>1. caller[p].pc = "PushFile"
          BY <2>3, <4>2 DEF PushFile
        <5> QED BY <2>4, <5>1
      <4> QED BY <2>8, <4>1, <4>2
    <3> QED BY <2>2, <2>5, <3>1, <3>2 DEF Idle
  <2> QED BY <2>1, <2>7, <2>8
<1>2. CASE DbThread
  <2>1. /\ UNCHANGED <<mainPc, ends, left, detoured, doneDb, pipeFile, caller>>
        /\ filePc' \in Copied => filePc \in Copied
        /\ mainPc # "Restore"
    <3>1. /\ UNCHANGED <<mainPc, ends, left, detoured, doneDb, pipeFile, caller>>
          /\ dbPc # "Off" /\ (filePc' = filePc \/ filePc' = "Start")
      BY <1>2 DEF DbThread, DbLoop, DbRead, DbPersist, DbCommit, DbFlushed, DbFlushFails,
         DbPop, StartFileThread
    <3> QED BY <3>1 DEF StorageInv, OutsideSound, Outside, Copied, Serving
  <2>2. ASSUME ends = 0, mainPc = "Run", ~detoured, ~left
        PROVE  /\ Pairwise(Line', Rising) /\ filePc \notin Copied
    <3>1. HandsSound /\ RunSound
      BY <2>2 DEF OnceInv
    <3>2. Line' = Line /\ filePc \notin Copied
      BY <1>2, <2>2, <3>1, DbThreadInRun
    <3> QED BY <2>2, <3>2 DEF OrderInv
  <2> QED BY <2>1, <2>2 DEF OrderInv
<1>3. CASE FileThread
  <2>1. /\ UNCHANGED <<mainPc, ends, detoured, caller>> /\ filePc # "Off" /\ mainPc # "Restore"
    <3>1. UNCHANGED <<mainPc, ends, detoured, caller>> /\ filePc # "Off"
      BY <1>3 DEF FileThread, FileStart, FileJoin, FileCopy, FileClear, FileTakeCache,
         FileRead, FileWrite, FilePop
    <3> QED BY <3>1 DEF StorageInv, OutsideSound, Outside
  <2>2. ASSUME ends = 0, mainPc = "Run", ~detoured, ~left'
        PROVE  /\ Pairwise(Line', Rising) /\ doneDb'
               /\ filePc' \notin Copied =>
                    \A q \in Producers : caller'[q].pc = "PushDb" => pipeFile' = <<>>
    <3>1. ~left
      BY <2>2, LeftStays
    <3>2. HandsSound /\ RunSound /\ Pairwise(Line, Differ(Exempt))
      BY <2>2, <3>1 DEF OnceInv, Stopping
    <3>3. /\ Line' = Line /\ doneDb'
          /\ filePc' \notin Copied => UNCHANGED pipeFile /\ filePc \notin Copied
      BY <1>3, <2>2, <3>1, <3>2, FileThreadMoves
    <3> QED BY <2>1, <2>2, <3>1, <3>3 DEF OrderInv
  <2> QED BY <2>1, <2>2 DEF OrderInv
<1>4. CASE MainThread
  <2>1. CASE RestoreLine \/ RestoreFlush \/ RestoreRemove
    <3>1. /\ mainPc \in {"Restore", "Remove"} /\ UNCHANGED ends
          /\ mainPc = "Restore" => file # <<>>
      <4>1. CASE RestoreLine
        <5>1. Len(file) # 0
          BY <4>1 DEF RestoreLine, StorageInv, TypeOK
        <5>2. mainPc = "Restore" /\ UNCHANGED ends
          BY <4>1 DEF RestoreLine
        <5> QED BY <5>1, <5>2
      <4> QED BY <2>1, <4>1 DEF RestoreFlush, RestoreRemove, Started
    <3> QED BY <3>1 DEF OrderInv, Stopping
  <2>2. CASE RestoreFails \/ StopJoinFile
    <3>1. ends' = ends + 1
      BY <2>2 DEF RestoreFails, StopJoinFile, Ended
    <3>2. ends' # 0
      BY <1>0, <3>1
    <3> QED BY <3>2 DEF OrderInv
  <2>3. CASE StartEmpty \/ StartWithoutDb
    <3>1. /\ mainPc = "Restore" /\ mainPc' = "Run" /\ filePc' = "Off"
          /\ dbPc' \in {"Off", "Loop"} /\ pipeDb' = <<>> /\ pipeFile' = <<>>
          /\ UNCHANGED <<db, cache, file, ends>>
          /\ \A q \in Producers : caller'[q] = Idle
      BY <2>3 DEF StartEmpty, StartWithoutDb, Started, StorageInv, OutsideSound, Outside, Known
    <3>2. SUFFICES ASSUME ends = 0 PROVE Pairwise(Line', Rising)
      BY <3>1 DEF OrderInv, Idle, Stopping
    <3>3. Line' = <<>> ++ (<<>> ++ (<<>> ++ (<<>> ++ <<>>)))
      BY <3>1, <3>2
         DEF OrderInv, Line, Rest, RestDb, RestFile, Unread, Copied, Serving, Entered
    <3>4. Line' = <<>>
      BY <3>3, LineOfNothing
    <3> QED BY <3>4 DEF Pairwise
  <2>4. CASE Stop \/ StopJoinDb \/ StopFlushItem \/ StopFlushFails \/ StopTransfer \/ StopEndFile
    <3>1. mainPc' \in Stopping
      BY <2>4 DEF Stop, StopJoinDb, StopFlushItem, StopFlushFails, StopTransfer,
         StopEndFile, Stopping
    <3> QED BY <3>1 DEF OrderInv, Stopping
  <2> QED BY <1>4, <2>1, <2>2, <2>3, <2>4 DEF MainThread
<1>5. CASE DbFails \/ DbRecovers \/ UNCHANGED vars
  <2>1. UNCHANGED <<pipes, db, file, flags, caller, dbThread, fileThread, main, history>>
    BY <1>5 DEF DbFails, DbRecovers, vars
  <2>2. UNCHANGED Line
    BY <2>1 DEF Line, Rest, RestDb, RestFile, Unread
  <2> QED BY <2>1, <2>2 DEF OrderInv
<1>6. CASE Crash
  <2>1. ends' = ends + 1
    BY <1>6 DEF Crash, Ended
  <2>2. ends' # 0
    BY <1>0, <2>1
  <2> QED BY <2>2 DEF OrderInv
<1>7. CASE Restart
  <2>1. mainPc = "Down" /\ UNCHANGED ends
    BY <1>7 DEF Restart
  <2>2. ends' # 0
    BY <2>1 DEF OrderInv, Stopping
  <2> QED BY <2>2 DEF OrderInv
<1> QED BY <1>1, <1>2, <1>3, <1>4, <1>5, <1>6, <1>7 DEF Next

\* Before the first init() there is nothing.
LEMMA InitStored == Init => OnceInv /\ OrderInv
<1> SUFFICES ASSUME Init PROVE OnceInv /\ OrderInv
  OBVIOUS
<1> USE DEF Init
<1>1. HandsSound /\ RunSound
  BY DEF HandsSound, RunSound, InHand, Idle
<1>2. Unread = <<>>
  <2>1. SubSeq(<<>>, 0 + 1, Len(<<>>)) = <<>>
    <3>1. <<>> \in Seq(Items) /\ 0 \in 0 .. Len(<<>>) /\ 0 = Len(<<>>)
      OBVIOUS
    <3> QED BY <3>1, ItemsOfSplit
  <2> QED BY <2>1 DEF Unread
<1>3. Line = <<>> ++ (<<>> ++ (<<>> ++ (<<>> ++ <<>>)))
  BY <1>2 DEF Line, Rest, RestDb, RestFile, Copied, Serving, Entered
<1>4. Line = <<>>
  BY <1>3, LineOfNothing
<1>5. Pairwise(Line, Differ(Exempt))
  BY <1>4 DEF Pairwise
<1> QED BY <1>1, <1>5 DEF OnceInv, OrderInv, Stopping

\* With one thread at a time inside persist(), nothing is stored twice and, until the process
\* first ends, the database and the file behind it hold the items in the order of persist(),
\* through any takeover: the last state of an order is the last one stored.
THEOREM StoredOnceInOrder == OneCaller => (Spec => []StoredRight)
<1>1. SUFFICES ASSUME OneCaller PROVE Spec => []StoredRight
  OBVIOUS
<1> DEFINE SInv == StorageInv /\ OnceInv /\ OrderInv
<1>2. Init => SInv
  BY InitKeeps, InitStored
<1>3. SInv /\ [Next]_vars => SInv'
  BY <1>1, StepKeeps, OnceKept, OrderKept
<1>4. SInv => StoredRight
  <2> SUFFICES ASSUME StorageInv, OnceInv, OrderInv PROVE StoredRight
    OBVIOUS
  <2>1. TypeOK
    BY DEF StorageInv
  <2> DEFINE s == db \o file
  <2>2. DOMAIN s = 1 .. Len(s) /\ s \in Seq(Items) /\ s = db ++ file
    <3>1. s \in Seq(Items)
      BY <2>1, ItemsOfConcat DEF TypeOK
    <3> HIDE DEF s
    <3>2. DOMAIN s = 1 .. Len(s)
      BY <3>1
    <3> QED BY <3>1, <3>2 DEF ++, s
  <2>3. OnceOnly
    <3>1. SUFFICES ASSUME ~left, mainPc \notin {"Restore", "Remove"},
                          NEW i \in DOMAIN s, NEW j \in DOMAIN s, i < j, s[i] = s[j]
                   PROVE  s[i] \in Exempt
      BY DEF OnceOnly, Exempt
    <3>2. Pairwise(s, Differ(Exempt))
      BY <2>2, <3>1, StoredOnce DEF OnceInv
    <3> HIDE DEF s
    <3>3. <<s[i], s[j]>> \in Differ(Exempt)
      BY <2>2, <3>1, <3>2 DEF Pairwise
    <3> QED BY <3>1, <3>3 DEF Differ
  <2>4. StoredInOrder
    <3>1. SUFFICES ASSUME mainPc = "Run", ends = 0, ~detoured, ~left,
                          NEW i \in DOMAIN s, NEW j \in DOMAIN s, i < j
                   PROVE  s[i] < s[j]
      BY DEF StoredInOrder
    <3>2. Pairwise(Line, Rising) /\ HandsSound
      BY <3>1 DEF OrderInv, OnceInv
    <3>3. Pairwise(s, Rising)
      BY <2>2, <3>1, <3>2, StoredPart
    <3> HIDE DEF s
    <3>4. <<s[i], s[j]>> \in Rising
      BY <2>2, <3>1, <3>3 DEF Pairwise
    <3> QED BY <3>4 DEF Rising
  <2> QED BY <2>1, <2>3, <2>4 DEF StoredRight
<1> QED BY <1>2, <1>3, <1>4, PTL DEF Spec
================================================================================
