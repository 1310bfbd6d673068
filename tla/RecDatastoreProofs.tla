-------------------------- MODULE RecDatastoreProofs --------------------------
(***************************************************************************)
(* Proofs about RecStorage and RecDatastore.  What is proved about the     *)
(* storage is used by RecExecutorProofs as well.                           *)
(***************************************************************************)
EXTENDS RecDatastore, FiniteSetTheorems, TLAPS

(***************************************************************************)
(* The storage                                                             *)
(*                                                                         *)
(* What every process that uses RecStorage may rely on, for any names,     *)
(* contents and tasks.  The writer lock makes the one task that stores the *)
(* only reason for a torn file other than a write that was cut off.        *)
(***************************************************************************)

Files == {"absent", "torn", "whole"}
Calls == [pc : {"no", "write", "insert"}, name : Names \cup {Nothing}, content : Contents \cup {Nothing}]

StorageInv ==
    /\ db \in [DOMAIN db -> Contents] /\ DOMAIN db \subseteq Names /\ IsFiniteSet(DOMAIN db)
    /\ blobs \in [Contents -> Files]
    /\ writer \in Tasks \cup {Nothing}
    /\ storing \in [Tasks -> Calls]
    /\ interrupted \subseteq Contents /\ vanished \subseteq Contents
    /\ \A t \in Tasks : storing[t].pc # "no" =>
          writer = t /\ storing[t].name \in Names \ DOMAIN db /\ storing[t].content \in Contents
    /\ \A t \in Tasks : storing[t].pc = "insert" => blobs[storing[t].content] = "whole"
    /\ \A c \in Contents : blobs[c] = "torn" =>
          c \in interrupted \/ \E t \in Tasks : storing[t].pc = "write" /\ storing[t].content = c
    /\ \A n \in DOMAIN db : blobs[db[n]] = "whole" \/ db[n] \in interrupted \cup vanished
    /\ \A n \in DOMAIN db : blobs[db[n]] = "absent" => db[n] \in vanished

\* The entries of the database only grow.
Grows == \A n \in DOMAIN db : n \in DOMAIN db' /\ db'[n] = db[n]

-----------------------------------------------------------------------------
LEMMA StorageInitInv == StorageInit => StorageInv
<1> SUFFICES ASSUME StorageInit PROVE StorageInv OBVIOUS
<1>1. NotStoring \in Calls /\ NotStoring.pc = "no"
  BY DEF NotStoring, Calls
<1> QED BY <1>1, FS_EmptySet DEF StorageInit, StorageInv, Files

\* StorageInv gives the types.
LEMMA StorageTypes == StorageInv => StorageTypeOK
BY DEF StorageInv, StorageTypeOK, Files, Calls, Range

\* Steps that leave the storage alone.
LEMMA StorageUnchanged == StorageInv /\ UNCHANGED storageVars => StorageInv' /\ Grows
BY DEF StorageInv, storageVars, Grows

\* An entry for content whose file is there.
LEMMA InsertInv ==
    ASSUME StorageInv, NEW name \in Names \ DOMAIN db, NEW content \in Contents, Insert(name, content)
    PROVE  /\ db' \in [DOMAIN db' -> Contents] /\ DOMAIN db' = DOMAIN db \cup {name}
           /\ db'[name] = content /\ Grows /\ IsFiniteSet(DOMAIN db')
<1>1. DOMAIN db' = DOMAIN db \cup {name}
  BY DEF StorageInv, Insert
<1>2. IsFiniteSet(DOMAIN db')
  BY <1>1, FS_AddElement DEF StorageInv
<1> QED BY <1>1, <1>2 DEF StorageInv, Insert, Grows

LEMMA StoreAtOnceInv ==
    ASSUME StorageInv, NEW name \in Names, NEW content \in Contents, StoreAtOnce(name, content)
    PROVE  StorageInv' /\ Grows /\ name \in DOMAIN db'
<1>1. CASE Taken(name)
  <2>1. UNCHANGED storageVars
    BY <1>1 DEF StoreAtOnce, storageVars
  <2> QED BY <1>1, <2>1, StorageUnchanged DEF storageVars, Taken
<1>2. CASE ~Taken(name)
  <2>1. /\ db' \in [DOMAIN db' -> Contents] /\ DOMAIN db' = DOMAIN db \cup {name}
        /\ db'[name] = content /\ Grows /\ IsFiniteSet(DOMAIN db')
    BY <1>2, InsertInv DEF StoreAtOnce, Taken
  <2>2. writer = Nothing /\ blobs[content] # "absent" /\ UNCHANGED <<blobs, writer, storing, interrupted, vanished>>
    BY <1>2 DEF StoreAtOnce, StoreReturns
  <2>3. \A t \in Tasks : storing[t].pc = "no"
    BY <2>2, RecStorageConstants DEF StorageInv
  <2>4. blobs[content] = "whole" \/ content \in interrupted
    BY <2>2, <2>3 DEF StorageInv, Files
  <2> QED BY <2>1, <2>2, <2>3, <2>4 DEF StorageInv, Grows
<1> QED BY <1>1, <1>2

LEMMA StoreOpenInv ==
    ASSUME StorageInv, NEW t \in Tasks, NEW name \in Names, NEW content \in Contents, StoreOpen(t, name, content)
    PROVE  /\ StorageInv' /\ Grows
           /\ storing'[t].pc = "write" /\ storing'[t].name = name /\ storing'[t].content = content
<1> DEFINE call == [pc |-> "write", name |-> name, content |-> content]
<1>1. call \in Calls /\ call.pc = "write" /\ call.name = name /\ call.content = content
  BY DEF Calls
<1>2. /\ writer = Nothing /\ writer' = t /\ blobs[content] = "absent"
      /\ blobs' = [blobs EXCEPT ![content] = "torn"] /\ storing' = [storing EXCEPT ![t] = call]
      /\ name \notin DOMAIN db
      /\ UNCHANGED <<db, interrupted, vanished>>
  BY DEF StoreOpen, StoreReturns, Taken
<1> HIDE DEF call
<1>3. \A u \in Tasks : storing[u].pc = "no"
  BY <1>2, RecStorageConstants DEF StorageInv
<1>4. storing' \in [Tasks -> Calls] /\ storing'[t] = call /\ \A u \in Tasks \ {t} : storing'[u] = storing[u]
  BY <1>1, <1>2 DEF StorageInv
<1>5. blobs' \in [Contents -> Files] /\ blobs'[content] = "torn" /\ \A c \in Contents \ {content} : blobs'[c] = blobs[c]
  BY <1>2 DEF StorageInv, Files
<1>6. \A c \in Contents \ {content} : blobs[c] = "torn" => c \in interrupted
  BY <1>3 DEF StorageInv
<1> QED BY <1>1, <1>2, <1>3, <1>4, <1>5, <1>6 DEF StorageInv, Grows

LEMMA StoreWriteInv ==
    ASSUME StorageInv, NEW t \in Tasks, StoreWrite(t)
    PROVE  /\ StorageInv' /\ Grows
           /\ storing'[t].pc = "insert" /\ storing'[t].name = storing[t].name
<1> DEFINE call == [storing[t] EXCEPT !.pc = "insert"]
           content == storing[t].content
<1>1. /\ storing[t].pc = "write" /\ writer = t /\ content \in Contents /\ storing[t].name \in Names \ DOMAIN db
      /\ storing[t] \in Calls
  BY DEF StoreWrite, StorageInv
<1>2. /\ call \in Calls /\ call.pc = "insert" /\ call.name = storing[t].name /\ call.content = content
  BY <1>1 DEF Calls
<1>3. /\ blobs' = [blobs EXCEPT ![content] = "whole"] /\ storing' = [storing EXCEPT ![t] = call]
      /\ UNCHANGED <<db, writer, interrupted, vanished>>
  BY DEF StoreWrite
<1> HIDE DEF call
<1>4. storing' \in [Tasks -> Calls] /\ storing'[t] = call /\ \A u \in Tasks \ {t} : storing'[u] = storing[u]
  BY <1>2, <1>3 DEF StorageInv
<1>5. blobs' \in [Contents -> Files] /\ blobs'[content] = "whole" /\ \A c \in Contents \ {content} : blobs'[c] = blobs[c]
  BY <1>1, <1>3 DEF StorageInv, Files
<1>6. \A u \in Tasks \ {t} : storing[u].pc = "no"
  BY <1>1 DEF StorageInv
<1>7. \A c \in Contents \ {content} : blobs[c] = "torn" => c \in interrupted
  BY <1>6 DEF StorageInv
<1> QED BY <1>1, <1>2, <1>3, <1>4, <1>5, <1>6, <1>7 DEF StorageInv, Grows

LEMMA StoreInsertInv ==
    ASSUME StorageInv, NEW t \in Tasks, StoreInsert(t)
    PROVE  StorageInv' /\ Grows /\ storing'[t] = NotStoring /\ DOMAIN db' = DOMAIN db \cup {storing[t].name}
<1> DEFINE content == storing[t].content
           name == storing[t].name
<1>1. /\ storing[t].pc = "insert" /\ writer = t /\ content \in Contents /\ name \in Names \ DOMAIN db
      /\ blobs[content] = "whole"
  BY DEF StoreInsert, StorageInv
<1>2. /\ writer' = Nothing /\ storing' = [storing EXCEPT ![t] = NotStoring]
      /\ UNCHANGED <<blobs, interrupted, vanished>> /\ Insert(name, content)
  BY DEF StoreInsert
<1>3. NotStoring \in Calls /\ NotStoring.pc = "no"
  BY DEF NotStoring, Calls
<1>4. /\ db' \in [DOMAIN db' -> Contents] /\ DOMAIN db' = DOMAIN db \cup {name}
      /\ db'[name] = content /\ Grows /\ IsFiniteSet(DOMAIN db')
  BY <1>1, <1>2, InsertInv
<1>5. storing' \in [Tasks -> Calls] /\ storing'[t] = NotStoring /\ \A u \in Tasks \ {t} : storing'[u] = storing[u]
  BY <1>2, <1>3 DEF StorageInv
<1>6. \A u \in Tasks : storing'[u].pc = "no"
  BY <1>1, <1>3, <1>5 DEF StorageInv
<1>7. \A c \in Contents : blobs[c] = "torn" => c \in interrupted
  BY <1>1 DEF StorageInv
<1> QED BY <1>1, <1>2, <1>4, <1>5, <1>6, <1>7 DEF StorageInv, Grows

\* A process ends or its tasks are cancelled.
LEMMA InterruptInv ==
    ASSUME StorageInv, NEW tasks \in SUBSET Tasks, Interrupt(tasks), UNCHANGED <<db, blobs, vanished>>
    PROVE  StorageInv' /\ Grows /\ \A t \in tasks : storing'[t] = NotStoring
<1>1. NotStoring \in Calls /\ NotStoring.pc = "no"
  BY DEF NotStoring, Calls
<1>2. /\ storing' \in [Tasks -> Calls]
      /\ \A t \in tasks : storing'[t] = NotStoring
      /\ \A t \in Tasks \ tasks : storing'[t] = storing[t]
  BY <1>1 DEF Interrupt, StorageInv
<1>3. /\ interrupted \subseteq interrupted' /\ interrupted' \subseteq Contents
      /\ \A t \in tasks : storing[t].pc = "write" => storing[t].content \in interrupted'
  BY DEF Interrupt, StorageInv
<1>4. writer' \in Tasks \cup {Nothing} /\ (writer \notin tasks => writer' = writer)
  BY DEF Interrupt, StorageInv
<1>5. \A t \in Tasks : storing'[t].pc # "no" => t \notin tasks /\ storing'[t] = storing[t] /\ writer' = t
  BY <1>1, <1>2, <1>4 DEF StorageInv
<1>6. \A c \in Contents : blobs[c] = "torn" =>
         c \in interrupted' \/ \E t \in Tasks : storing'[t].pc = "write" /\ storing'[t].content = c
  BY <1>2, <1>3 DEF StorageInv
<1> QED BY <1>2, <1>3, <1>4, <1>5, <1>6 DEF StorageInv, Grows

LEMMA VanishInv ==
    ASSUME StorageInv, NEW c \in Contents, Vanish(c) PROVE StorageInv' /\ Grows
BY DEF StorageInv, Vanish, Grows, Files

\* _cleanup, which is given file names, removes no entry: names are not hashes.
LEMMA CleanupInv ==
    ASSUME StorageInv, NEW names \in SUBSET Contents, Cleanup(names),
           UNCHANGED <<blobs, writer, storing, interrupted, vanished>>
    PROVE  UNCHANGED db
<1>1. DOMAIN db \ names = DOMAIN db
  BY RecStorageConstants DEF StorageInv
<1>2. db' = [n \in DOMAIN db |-> db[n]]
  BY <1>1 DEF Cleanup, Restrict
<1>3. db = [n \in DOMAIN db |-> db[n]]
  BY DEF StorageInv
<1> QED BY <1>2, <1>3

LEMMA MissingAreFiles ==
    ASSUME StorageInv
    PROVE  /\ \A name : Disappeared(name) \in SUBSET Contents
           /\ \A names : MissingFiles(names) \in SUBSET Contents
<1>1. \A n \in DOMAIN db : db[n] \in Contents
  BY DEF StorageInv
<1>2. ASSUME NEW name PROVE Disappeared(name) \in SUBSET Contents
  <2>1. Entries(name) \ Loaded(name) \subseteq DOMAIN db
    BY DEF Entries
  <2> QED BY <1>1, <2>1 DEF Disappeared
<1>3. ASSUME NEW names PROVE MissingFiles(names) \in SUBSET Contents
  BY <1>1 DEF MissingFiles, Taken
<1> QED BY <1>2, <1>3

(***************************************************************************)
(* The datastore                                                           *)
(*                                                                         *)
(* For any names, contents, clients and size of the cache: names are       *)
(* stable, entries are whole, the cache is fresh for the name asked for,   *)
(* and only a client with stray replies takes the answer to another        *)
(* request.                                                                *)
(***************************************************************************)

ReqOK == {r \in RequestSet : r.type = "PUT" => r.content \in Contents}

TaskOK ==
    \/ task = Polling
    \/ /\ task \in [pc : {"handle", "store", "stored", "refused"}, req : ReqOK]
       /\ task.pc # "handle" => task.req.type = "PUT"
       /\ task.pc = "store" => storing[Receiver].pc # "no" /\ storing[Receiver].name = task.req.name

CacheEntry == [key : Names, names : SUBSET Names]

Fresh(e) ==
    /\ e.names \subseteq Entries(e.key)
    /\ e.key \in DOMAIN db =>
          e.key \in e.names \/ (task.pc = "stored" /\ task.req.name = e.key) \/ db[e.key] \in vanished

CacheOK ==
    /\ cache \in Seq(CacheEntry)
    /\ Len(cache) <= CacheSizeLimit
    /\ \A i, j \in DOMAIN cache : cache[i].key = cache[j].key => i = j
    /\ \A i \in DOMAIN cache : Fresh(cache[i])

DataInv ==
    /\ StorageInv
    /\ requests \subseteq ReqOK /\ responses \subseteq RequestSet
    /\ TaskOK
    /\ CacheOK
    /\ command \in [DataClients -> ReqOK \cup {NoCommand}]
    /\ strays \subseteq DataClients /\ mismatched \subseteq DataClients /\ lostRequests \subseteq DataClients

-----------------------------------------------------------------------------
LEMMA ReceiverIsTask == Receiver \in Tasks
BY RecDatastoreConstants DEF Receiver

LEMMA PollingOK == Polling.pc = "poll" /\ Polling.req = Nothing
BY DEF Polling

LEMMA DataInitInv == DataInit => DataInv
<1> SUFFICES ASSUME DataInit PROVE DataInv OBVIOUS
<1>1. StorageInv
  BY StorageInitInv DEF DataInit
<1>2. cache = <<>> /\ cache \in Seq(CacheEntry) /\ Len(cache) = 0 /\ DOMAIN cache = {}
  BY DEF DataInit
<1>3. CacheOK
  BY <1>2, RecDatastoreConstants DEF CacheOK
<1> QED BY <1>1, <1>3 DEF DataInit, DataInv, TaskOK

\* An entry of the cache stays fresh as the database grows, unless the put of its
\* key has just been answered.
LEMMA StaysFresh ==
    ASSUME StorageInv, StorageInv', Grows, vanished \subseteq vanished', NEW e \in CacheEntry, Fresh(e),
           \/ DOMAIN db' = DOMAIN db
           \/ task'.pc = "stored" /\ DOMAIN db' = DOMAIN db \cup {task'.req.name},
           task.pc = "stored" => task' = task \/ task.req.name # e.key
    PROVE  Fresh(e)'
<1>1. e.names \subseteq {n \in DOMAIN db' : <<n, e.key>> \in Extends}
  BY DEF Fresh, Entries, Grows
<1>2. ASSUME e.key \in DOMAIN db', e.key \notin DOMAIN db PROVE task'.pc = "stored" /\ task'.req.name = e.key
  BY <1>2
<1>3. ASSUME e.key \in DOMAIN db
      PROVE  e.key \in e.names \/ (task'.pc = "stored" /\ task'.req.name = e.key) \/ db'[e.key] \in vanished'
  BY <1>3 DEF Fresh, Grows
<1> QED BY <1>1, <1>2, <1>3 DEF Fresh, Entries

\* Steps that leave the cache alone.
LEMMA SameCache ==
    ASSUME CacheOK, StorageInv, StorageInv', Grows, vanished \subseteq vanished', cache' = cache,
           \/ DOMAIN db' = DOMAIN db
           \/ task'.pc = "stored" /\ DOMAIN db' = DOMAIN db \cup {task'.req.name},
           task.pc = "stored" => task' = task
    PROVE  CacheOK'
<1>1. \A i \in DOMAIN cache : cache[i] \in CacheEntry /\ Fresh(cache[i])
  BY DEF CacheOK
<1>2. ASSUME NEW i \in DOMAIN cache PROVE Fresh(cache[i])'
  <2> DEFINE e == cache[i]
  <2>1. e \in CacheEntry /\ Fresh(e) /\ e' = e
    BY <1>1
  <2> QED BY <2>1, StaysFresh DEF Fresh, Entries
<1> QED BY <1>2 DEF CacheOK

-----------------------------------------------------------------------------
LEMMA PollInv == DataInv /\ Poll => DataInv' /\ Grows
<1> SUFFICES ASSUME DataInv, Poll PROVE DataInv' /\ Grows OBVIOUS
<1>1. PICK r \in requests : task' = [pc |-> "handle", req |-> r] /\ requests' = requests \ {r}
  BY DEF Poll
<1>2. UNCHANGED <<storageVars, cache, responses, command, strays, mismatched, lostRequests>> /\ task = Polling
  BY DEF Poll
<1>3. StorageInv' /\ Grows
  BY <1>2, StorageUnchanged DEF DataInv
<1>4. TaskOK'
  BY <1>1 DEF DataInv, TaskOK
<1>5. CacheOK'
  BY <1>2, <1>3, SameCache, PollingOK DEF DataInv, storageVars
<1> QED BY <1>1, <1>2, <1>3, <1>4, <1>5 DEF DataInv

LEMMA PutOpenInv == DataInv /\ PutOpen => DataInv' /\ Grows
<1> SUFFICES ASSUME DataInv, PutOpen PROVE DataInv' /\ Grows OBVIOUS
<1>1. /\ task.pc = "handle" /\ task.req.type = "PUT" /\ task' = [task EXCEPT !.pc = "store"]
      /\ StoreOpen(Receiver, task.req.name, task.req.content)
      /\ UNCHANGED <<requests, cache, responses, command, strays, mismatched, lostRequests>>
  BY DEF PutOpen, Handling
<1>2. /\ task \in [pc : {"handle", "store", "stored", "refused"}, req : ReqOK]
      /\ task.req.name \in Names /\ task.req.content \in Contents
  BY <1>1, PollingOK DEF DataInv, TaskOK, ReqOK, RequestSet
<1>3. /\ StorageInv' /\ Grows /\ db' = db /\ vanished' = vanished
      /\ storing'[Receiver].pc = "write" /\ storing'[Receiver].name = task.req.name
  BY <1>1, <1>2, StoreOpenInv, ReceiverIsTask DEF DataInv, StoreOpen
<1>4. TaskOK'
  BY <1>1, <1>2, <1>3 DEF TaskOK
<1>5. CacheOK'
  BY <1>1, <1>3, SameCache DEF DataInv
<1> QED BY <1>1, <1>3, <1>4, <1>5 DEF DataInv

LEMMA PutWriteInv == DataInv /\ PutWrite => DataInv' /\ Grows
<1> SUFFICES ASSUME DataInv, PutWrite PROVE DataInv' /\ Grows OBVIOUS
<1>1. /\ StoreWrite(Receiver)
      /\ UNCHANGED <<requests, task, cache, responses, command, strays, mismatched, lostRequests>>
  BY DEF PutWrite, dataVars
<1>2. /\ StorageInv' /\ Grows /\ db' = db /\ vanished' = vanished
      /\ storing'[Receiver].pc = "insert" /\ storing'[Receiver].name = storing[Receiver].name
  BY <1>1, StoreWriteInv, ReceiverIsTask DEF DataInv, StoreWrite
<1>3. TaskOK'
  BY <1>1, <1>2 DEF DataInv, TaskOK
<1>4. CacheOK'
  BY <1>1, <1>2, SameCache DEF DataInv
<1> QED BY <1>1, <1>2, <1>3, <1>4 DEF DataInv

LEMMA PutInsertInv == DataInv /\ PutInsert => DataInv' /\ Grows
<1> SUFFICES ASSUME DataInv, PutInsert PROVE DataInv' /\ Grows OBVIOUS
<1>1. /\ task.pc = "store" /\ task.req.type = "PUT" /\ task' = [task EXCEPT !.pc = "stored"]
      /\ StoreInsert(Receiver)
      /\ UNCHANGED <<requests, cache, responses, command, strays, mismatched, lostRequests>>
  BY DEF PutInsert, Handling
<1>2. /\ task \in [pc : {"handle", "store", "stored", "refused"}, req : ReqOK]
      /\ storing[Receiver].name = task.req.name
  BY <1>1, PollingOK DEF DataInv, TaskOK
<1>3. StorageInv' /\ Grows /\ DOMAIN db' = DOMAIN db \cup {task.req.name} /\ vanished' = vanished
  BY <1>1, <1>2, StoreInsertInv, ReceiverIsTask DEF DataInv, StoreInsert
<1>4. TaskOK' /\ task'.pc = "stored" /\ task'.req = task.req
  BY <1>1, <1>2 DEF TaskOK
<1>5. CacheOK'
  BY <1>1, <1>3, <1>4, SameCache DEF DataInv
<1> QED BY <1>1, <1>3, <1>4, <1>5 DEF DataInv

LEMMA PutAtOnceInv == DataInv /\ PutAtOnce => DataInv' /\ Grows
<1> SUFFICES ASSUME DataInv, PutAtOnce PROVE DataInv' /\ Grows OBVIOUS
<1> DEFINE name == task.req.name
<1>1. /\ task.pc = "handle" /\ task.req.type = "PUT"
      /\ task' = [task EXCEPT !.pc = IF name \in DOMAIN db THEN "refused" ELSE "stored"]
      /\ StoreAtOnce(name, task.req.content)
      /\ UNCHANGED <<requests, cache, responses, command, strays, mismatched, lostRequests>>
  BY DEF PutAtOnce, Handling, Taken
<1>2. /\ task \in [pc : {"handle", "store", "stored", "refused"}, req : ReqOK]
      /\ name \in Names /\ task.req.content \in Contents
  BY <1>1, PollingOK DEF DataInv, TaskOK, ReqOK, RequestSet
<1>3. StorageInv' /\ Grows /\ vanished' = vanished
  BY <1>1, <1>2, StoreAtOnceInv DEF DataInv, StoreAtOnce
<1>4. IF name \in DOMAIN db THEN db' = db ELSE DOMAIN db' = DOMAIN db \cup {name}
  BY <1>1 DEF StoreAtOnce, Taken, Insert
<1>5. TaskOK' /\ task'.req = task.req /\ (name \notin DOMAIN db => task'.pc = "stored")
  BY <1>1, <1>2 DEF TaskOK
<1>6. CacheOK'
  BY <1>1, <1>3, <1>4, <1>5, SameCache DEF DataInv
<1> QED BY <1>1, <1>3, <1>5, <1>6 DEF DataInv

\* What is left of the cache is in the old order and has another key.
LEMMA InvalidateProps ==
    ASSUME CacheOK, NEW key, CacheInvalidate(key)
    PROVE  /\ cache' \in Seq(CacheEntry) /\ Len(cache') <= Len(cache)
           /\ \A i, j \in DOMAIN cache' : cache'[i].key = cache'[j].key => i = j
           /\ \A i \in DOMAIN cache' : cache'[i].key # key /\ \E j \in DOMAIN cache : cache'[i] = cache[j]
<1>1. CASE ~Cached(key)
  BY <1>1 DEF CacheInvalidate, CacheOK, Cached
<1>2. CASE Cached(key)
  <2> DEFINE p == Position(key)
             n == Len(cache)
             f(i) == IF i < p THEN i ELSE i + 1
  <2>1. p \in DOMAIN cache /\ cache[p].key = key
    BY <1>2 DEF Cached, Position
  <2>2. cache \in Seq(CacheEntry) /\ n \in Nat /\ DOMAIN cache = 1 .. n
    BY DEF CacheOK
  <2>3. cache' = [i \in 1 .. n - 1 |-> cache[f(i)]]
    BY <1>2 DEF CacheInvalidate
  <2> HIDE DEF p, n
  <2>4. n \in Nat \ {0} /\ p \in 1 .. n
    BY <2>1, <2>2
  <2>5. \A i \in 1 .. n - 1 : f(i) \in 1 .. n /\ f(i) # p
    BY <2>4
  <2>6. \A i, j \in 1 .. n - 1 : f(i) = f(j) => i = j
    BY <2>4
  <2> HIDE DEF f
  <2>7. \A i \in 1 .. n - 1 : cache[f(i)] \in CacheEntry
    BY <2>2, <2>5
  <2>8. cache' \in Seq(CacheEntry) /\ Len(cache') = n - 1 /\ DOMAIN cache' = 1 .. n - 1
    <3>1. n - 1 \in Nat
      BY <2>4
    <3>2. cache' \in [1 .. n - 1 -> CacheEntry]
      BY <2>3, <2>7
    <3> QED BY <3>1, <3>2
  <2>9. \A i \in 1 .. n - 1 : cache'[i] = cache[f(i)]
    BY <2>3
  <2>10. \A i, j \in 1 .. n : cache[i].key = cache[j].key => i = j
    BY <2>2 DEF CacheOK
  <2>11. Len(cache') <= Len(cache)
    BY <2>4, <2>8 DEF n
  <2>12. \A i, j \in DOMAIN cache' : cache'[i].key = cache'[j].key => i = j
    BY <2>5, <2>6, <2>8, <2>9, <2>10
  <2>13. ASSUME NEW i \in DOMAIN cache'
         PROVE cache'[i].key # key /\ \E j \in DOMAIN cache : cache'[i] = cache[j]
    BY <2>1, <2>2, <2>4, <2>5, <2>8, <2>9, <2>10
  <2> QED BY <2>8, <2>11, <2>12, <2>13
<1> QED BY <1>1, <1>2

LEMMA PutReplyInv == DataInv /\ PutReply => DataInv' /\ Grows
<1> SUFFICES ASSUME DataInv, PutReply PROVE DataInv' /\ Grows OBVIOUS
<1> DEFINE reply == Request("PUT", task.req.client, task.req.name, Nothing)
<1>1. /\ task.pc \in {"stored", "refused"} /\ task' = Polling
      /\ IF task.pc = "stored" THEN CacheInvalidate(task.req.name) ELSE UNCHANGED cache
      /\ responses' = responses \cup {reply}
      /\ UNCHANGED <<storageVars, requests, command, strays, mismatched, lostRequests>>
  BY DEF PutReply, Respond
<1>2. StorageInv' /\ Grows /\ db' = db /\ vanished' = vanished
  BY <1>1, StorageUnchanged DEF DataInv, storageVars
<1>3. task.req \in ReqOK
  BY <1>1, PollingOK DEF DataInv, TaskOK
<1>4. reply \in RequestSet
  BY <1>3 DEF ReqOK, RequestSet, Request
<1>5. CacheOK'
  <2>1. CASE task.pc # "stored"
    BY <1>1, <1>2, <2>1, SameCache DEF DataInv
  <2>2. CASE task.pc = "stored"
    <3>1. /\ cache' \in Seq(CacheEntry) /\ Len(cache') <= Len(cache)
          /\ \A i, j \in DOMAIN cache' : cache'[i].key = cache'[j].key => i = j
          /\ \A i \in DOMAIN cache' : /\ cache'[i].key # task.req.name
                                      /\ \E j \in DOMAIN cache : cache'[i] = cache[j]
      BY <1>1, <2>2, InvalidateProps DEF DataInv
    <3>2. Len(cache') <= CacheSizeLimit
      BY <3>1, RecDatastoreConstants DEF DataInv, CacheOK
    <3>3. ASSUME NEW i \in DOMAIN cache' PROVE Fresh(cache[i])'
      <4>1. PICK j \in DOMAIN cache : cache'[i] = cache[j]
        BY <3>1, <3>3
      <4>2. cache[j] \in CacheEntry /\ Fresh(cache[j]) /\ cache[j].key # task.req.name
        BY <3>1, <3>3, <4>1 DEF DataInv, CacheOK
      <4> QED BY <1>2, <4>1, <4>2 DEF Fresh, Entries
    <3> QED BY <3>1, <3>2, <3>3 DEF CacheOK
  <2> QED BY <2>1, <2>2
<1>6. TaskOK'
  BY <1>1 DEF TaskOK
<1> QED BY <1>1, <1>2, <1>4, <1>5, <1>6 DEF DataInv

LEMMA CachePutProps ==
    ASSUME CacheOK, NEW key \in Names, NEW names \in SUBSET Names, ~Cached(key), CachePut(key, names)
    PROVE  /\ cache' \in Seq(CacheEntry) /\ Len(cache') <= CacheSizeLimit
           /\ \A i, j \in DOMAIN cache' : cache'[i].key = cache'[j].key => i = j
           /\ \A i \in DOMAIN cache' : \/ cache'[i] = [key |-> key, names |-> names]
                                        \/ \E j \in DOMAIN cache : cache'[i] = cache[j]
<1> DEFINE e == [key |-> key, names |-> names]
           s == IF Len(cache) >= CacheSizeLimit THEN Tail(cache) ELSE cache
           n == Len(s)
<1>1. e \in CacheEntry /\ e.key = key
  BY DEF CacheEntry
<1>2. cache \in Seq(CacheEntry) /\ Len(cache) \in Nat /\ Len(cache) <= CacheSizeLimit
      /\ CacheSizeLimit \in Nat \ {0}
  BY RecDatastoreConstants DEF CacheOK
<1>3. \A i, j \in DOMAIN cache : cache[i].key = cache[j].key => i = j
  BY DEF CacheOK
<1>4. /\ s \in Seq(CacheEntry) /\ n \in Nat /\ n < CacheSizeLimit
      /\ \A i \in 1 .. n : \E j \in DOMAIN cache : s[i] = cache[j]
      /\ \A i, j \in 1 .. n : s[i].key = s[j].key => i = j
  <2>1. CASE Len(cache) >= CacheSizeLimit
    <3>1. cache # <<>>
      BY <1>2, <2>1
    <3>2. s = Tail(cache) /\ Tail(cache) \in Seq(CacheEntry) /\ Len(Tail(cache)) = Len(cache) - 1
          /\ \A i \in 1 .. Len(cache) - 1 : Tail(cache)[i] = cache[i + 1]
      BY <1>2, <2>1, <3>1
    <3> QED BY <1>2, <1>3, <2>1, <3>2
  <2>2. CASE ~(Len(cache) >= CacheSizeLimit)
    BY <1>2, <1>3, <2>2
  <2> QED BY <2>1, <2>2
<1>5. cache' = Append(s, e)
  BY DEF CachePut
<1>6. \A j \in DOMAIN cache : cache[j].key # key
  BY DEF Cached
<1> HIDE DEF e, s
<1>7. /\ cache' \in Seq(CacheEntry) /\ Len(cache') = n + 1 /\ DOMAIN cache' = 1 .. n + 1
      /\ cache'[n + 1] = e /\ \A i \in 1 .. n : cache'[i] = s[i]
  BY <1>1, <1>4, <1>5
<1>8. Len(cache') <= CacheSizeLimit
  BY <1>2, <1>4, <1>7
<1>9. \A i \in 1 .. n : s[i].key # key
  BY <1>4, <1>6
<1>10. \A i \in 1 .. n + 1 : i \in 1 .. n \/ i = n + 1
  BY <1>4
<1> HIDE DEF n
<1>11. \A i, j \in DOMAIN cache' : cache'[i].key = cache'[j].key => i = j
  BY <1>1, <1>4, <1>7, <1>9, <1>10
<1>12. ASSUME NEW i \in DOMAIN cache' PROVE cache'[i] = e \/ \E j \in DOMAIN cache : cache'[i] = cache[j]
  BY <1>4, <1>7, <1>10
<1> QED BY <1>7, <1>8, <1>11, <1>12 DEF e

\* What a get finds, in the cache or in the storage.
Found(key) == IF Cached(key) THEN CacheGet(key) ELSE Loaded(key)

LEMMA FoundProps ==
    ASSUME DataInv, NEW key PROVE Found(key) \subseteq Entries(key)
<1>1. CASE Cached(key)
  <2>1. Position(key) \in DOMAIN cache /\ cache[Position(key)].key = key
    BY <1>1 DEF Cached, Position
  <2> QED BY <1>1, <2>1 DEF Found, CacheGet, DataInv, CacheOK, Fresh
<1>2. CASE ~Cached(key)
  BY <1>2 DEF Found, Loaded
<1> QED BY <1>1, <1>2

LEMMA GetProps ==
    ASSUME DataInv, Get
    PROVE  /\ task \in [pc : {"handle"}, req : ReqOK] /\ task.req.type = "GET" /\ task' = Polling
           /\ UNCHANGED <<storageVars, requests, command, mismatched, lostRequests>>
           /\ responses' = responses \cup {Request("GET", task.req.client, n, db[n]) : n \in Found(task.req.name)}
           /\ strays' = IF Cardinality(Found(task.req.name)) > 1 THEN strays \cup {task.req.client} ELSE strays
           /\ \/ cache' = cache
              \/ ~Cached(task.req.name) /\ CachePut(task.req.name, Loaded(task.req.name))
<1> DEFINE key == task.req.name
<1>1. task.pc = "handle" /\ task.req.type = "GET" /\ task' = Polling
  BY DEF Get, Handling
<1>2. task \in [pc : {"handle"}, req : ReqOK]
  BY <1>1, PollingOK DEF DataInv, TaskOK
<1>3. /\ UNCHANGED <<blobs, writer, storing, interrupted, vanished, requests, command, mismatched, lostRequests>>
      /\ IF Cached(key) THEN UNCHANGED db ELSE Cleanup(Disappeared(key))
      /\ IF Cached(key) \/ Found(key) = {} THEN UNCHANGED cache ELSE CachePut(key, Found(key))
      /\ responses' = responses \cup {Request("GET", task.req.client, n, db[n]) : n \in Found(key)}
      /\ strays' = IF Cardinality(Found(key)) > 1 THEN strays \cup {task.req.client} ELSE strays
  BY DEF Get, Found, Respond
<1>4. UNCHANGED db
  BY <1>3, MissingAreFiles, CleanupInv DEF DataInv
<1>5. ~Cached(key) => Found(key) = Loaded(key)
  BY DEF Found
<1> QED BY <1>1, <1>2, <1>3, <1>4, <1>5 DEF storageVars

LEMMA GetInv == DataInv /\ Get => DataInv' /\ Grows
<1> SUFFICES ASSUME DataInv, Get PROVE DataInv' /\ Grows OBVIOUS
<1> DEFINE key == task.req.name
<1>1. /\ task \in [pc : {"handle"}, req : ReqOK] /\ task' = Polling
      /\ UNCHANGED <<storageVars, requests, command, mismatched, lostRequests>>
      /\ responses' = responses \cup {Request("GET", task.req.client, n, db[n]) : n \in Found(key)}
      /\ strays' = IF Cardinality(Found(key)) > 1 THEN strays \cup {task.req.client} ELSE strays
      /\ cache' = cache \/ (~Cached(key) /\ CachePut(key, Loaded(key)))
  BY GetProps
<1>2. StorageInv' /\ Grows /\ db' = db /\ vanished' = vanished
  BY <1>1, StorageUnchanged DEF DataInv, storageVars
<1>3. key \in Names /\ task.req.client \in DataClients
  BY <1>1 DEF ReqOK, RequestSet
<1>4. \A n \in Found(key) : n \in Names /\ db[n] \in Contents
  BY FoundProps DEF DataInv, StorageInv, Entries
<1>5. responses' \subseteq RequestSet /\ strays' \subseteq DataClients
  BY <1>1, <1>3, <1>4 DEF DataInv, RequestSet, Request
<1>6. CASE cache' = cache
  <2>1. CacheOK'
    BY <1>1, <1>2, <1>6, SameCache DEF DataInv
  <2> QED BY <1>1, <1>2, <1>5, <2>1 DEF DataInv, TaskOK
<1>7. CASE ~Cached(key) /\ CachePut(key, Loaded(key))
  <2> DEFINE e == [key |-> key, names |-> Loaded(key)]
  <2>1. Loaded(key) \in SUBSET Names
    BY DEF DataInv, StorageInv, Loaded, Entries
  <2>2. /\ cache' \in Seq(CacheEntry) /\ Len(cache') <= CacheSizeLimit
        /\ \A i, j \in DOMAIN cache' : cache'[i].key = cache'[j].key => i = j
        /\ \A i \in DOMAIN cache' : cache'[i] = e \/ \E j \in DOMAIN cache : cache'[i] = cache[j]
    BY <1>3, <1>7, <2>1, CachePutProps DEF DataInv
  <2>3. e.key = key /\ e.names = Loaded(key)
    OBVIOUS
  <2> HIDE DEF e
  <2>4. key \in DOMAIN db => key \in Loaded(key) \/ db[key] \in vanished
    BY <1>3, RecStorageConstants DEF Loaded, Entries, DataInv, StorageInv
  <2>5. ASSUME NEW i \in DOMAIN cache' PROVE Fresh(cache[i])'
    <3>1. CASE cache'[i] = e
      BY <1>2, <2>3, <2>4, <3>1 DEF Fresh, Entries, Loaded
    <3>2. CASE \E j \in DOMAIN cache : cache'[i] = cache[j]
      <4>1. PICK j \in DOMAIN cache : cache'[i] = cache[j]
        BY <3>2
      <4>2. Fresh(cache[j]) /\ task.pc # "stored"
        BY <1>1 DEF DataInv, CacheOK
      <4> QED BY <1>2, <4>1, <4>2 DEF Fresh, Entries
    <3> QED BY <2>2, <2>5, <3>1, <3>2
  <2>6. CacheOK'
    BY <2>2, <2>5 DEF CacheOK
  <2> QED BY <1>1, <1>2, <1>5, <2>6 DEF DataInv, TaskOK
<1> QED BY <1>1, <1>6, <1>7

LEMMA RestartDatastoreInv == DataInv /\ RestartDatastore => DataInv' /\ Grows
<1> SUFFICES ASSUME DataInv, RestartDatastore PROVE DataInv' /\ Grows OBVIOUS
<1>1. StorageInv' /\ Grows
  BY InterruptInv DEF DataInv, RestartDatastore
<1>2. /\ task' = Polling /\ cache' = <<>>
      /\ UNCHANGED <<requests, responses, command, strays, mismatched>>
      /\ lostRequests' = IF task = Polling THEN lostRequests ELSE lostRequests \cup {task.req.client}
  BY DEF RestartDatastore
<1>3. lostRequests' \subseteq DataClients
  BY <1>2 DEF DataInv, TaskOK, ReqOK, RequestSet
<1>4. cache' \in Seq(CacheEntry) /\ Len(cache') = 0 /\ DOMAIN cache' = {}
  BY <1>2
<1>5. CacheOK'
  BY <1>4, RecDatastoreConstants DEF CacheOK
<1> QED BY <1>1, <1>2, <1>3, <1>5 DEF DataInv, TaskOK

LEMMA VanishDataInv == DataInv /\ VanishData => DataInv' /\ Grows
<1> SUFFICES ASSUME DataInv, VanishData PROVE DataInv' /\ Grows OBVIOUS
<1>1. PICK c \in Contents : Vanish(c)
  BY DEF VanishData
<1>2. UNCHANGED <<requests, task, cache, responses, command, strays, mismatched, lostRequests>>
  BY DEF VanishData, dataVars
<1>3. StorageInv' /\ Grows /\ db' = db /\ vanished \subseteq vanished' /\ storing' = storing
  BY <1>1, VanishInv DEF DataInv, Vanish
<1>4. CacheOK'
  BY <1>2, <1>3, SameCache DEF DataInv
<1>5. TaskOK'
  BY <1>2, <1>3 DEF DataInv, TaskOK
<1> QED BY <1>2, <1>3, <1>4, <1>5 DEF DataInv

\* Steps of clients, which leave the datastore alone.
LEMMA ClientInv ==
    ASSUME DataInv, UNCHANGED <<storageVars, task, cache>>,
           requests' \subseteq ReqOK, responses' \subseteq RequestSet,
           command' \in [DataClients -> ReqOK \cup {NoCommand}],
           strays' \subseteq DataClients, mismatched' \subseteq DataClients, lostRequests' \subseteq DataClients
    PROVE  DataInv' /\ Grows
<1>1. StorageInv' /\ Grows /\ db' = db /\ vanished' = vanished /\ storing' = storing
  BY StorageUnchanged DEF DataInv, storageVars
<1>2. CacheOK'
  BY <1>1, SameCache DEF DataInv
<1>3. TaskOK'
  BY <1>1 DEF DataInv, TaskOK
<1> QED BY <1>1, <1>2, <1>3 DEF DataInv

Issuing(c) ==
    \E n \in Names : \/ Issue(c, "GET", n, Nothing)
                     \/ \E content \in Contents : Issue(c, "PUT", n, content)

LEMMA IssuingProps ==
    ASSUME NEW c \in DataClients, Issuing(c)
    PROVE  \E r \in ReqOK :
              /\ r.client = c /\ command[c] = NoCommand
              /\ command' = [command EXCEPT ![c] = r] /\ requests' = requests \cup {r}
              /\ UNCHANGED <<storageVars, task, cache, responses, strays, mismatched, lostRequests>>
<1>1. \A n \in Names : Request("GET", c, n, Nothing) \in ReqOK /\ Request("GET", c, n, Nothing).client = c
  BY DEF Request, ReqOK, RequestSet
<1>2. \A n \in Names, content \in Contents :
         Request("PUT", c, n, content) \in ReqOK /\ Request("PUT", c, n, content).client = c
  BY DEF Request, ReqOK, RequestSet
<1>3. CASE \E n \in Names : Issue(c, "GET", n, Nothing)
  BY <1>1, <1>3 DEF Issue
<1>4. CASE \E n \in Names : \E content \in Contents : Issue(c, "PUT", n, content)
  BY <1>2, <1>4 DEF Issue
<1> QED BY <1>3, <1>4 DEF Issuing

LEMMA DataNextInv == DataInv /\ [DataNext]_allDataVars => DataInv' /\ Grows
<1> SUFFICES ASSUME DataInv, [DataNext]_allDataVars PROVE DataInv' /\ Grows OBVIOUS
<1>1. /\ requests \subseteq ReqOK /\ responses \subseteq RequestSet
      /\ command \in [DataClients -> ReqOK \cup {NoCommand}]
      /\ strays \subseteq DataClients /\ mismatched \subseteq DataClients /\ lostRequests \subseteq DataClients
  BY DEF DataInv
<1>2. ASSUME NEW c \in DataClients, Issuing(c) PROVE DataInv' /\ Grows
  BY <1>1, <1>2, IssuingProps, ClientInv
<1>3. ASSUME NEW c \in DataClients, TakeReply(c) PROVE DataInv' /\ Grows
  <2>1. UNCHANGED <<storageVars, requests, task, cache, strays, lostRequests>> /\ command' = [command EXCEPT ![c] = NoCommand]
    BY <1>3 DEF TakeReply
  <2>2. responses' \subseteq responses /\ mismatched' \subseteq DataClients
    BY <1>1, <1>3 DEF TakeReply
  <2> QED BY <1>1, <2>1, <2>2, ClientInv
<1>4. ASSUME NEW c \in DataClients, Quit(c) PROVE DataInv' /\ Grows
  BY <1>1, <1>4, ClientInv DEF Quit
<1>5. CASE UNCHANGED allDataVars
  BY <1>1, <1>5, ClientInv DEF allDataVars, dataVars
<1> QED
  BY <1>2, <1>3, <1>4, <1>5, PollInv, PutOpenInv, PutWriteInv, PutInsertInv, PutAtOnceInv, PutReplyInv,
     GetInv, RestartDatastoreInv, VanishDataInv DEF DataNext, Issuing

LEMMA DataInvariance == DataSpec => []DataInv
BY DataInitInv, DataNextInv, PTL DEF DataSpec

-----------------------------------------------------------------------------
\* The types, the bound of the cache and the uniqueness of its keys.
THEOREM DatastoreTypes == DataSpec => []DataTypeOK
<1>1. ReqOK \subseteq RequestSet
  BY DEF ReqOK
<1>2. ASSUME DataInv
      PROVE  task.pc \in {"poll", "handle", "store", "stored", "refused"} /\ task.req \in RequestSet \cup {Nothing}
  BY <1>1, <1>2, PollingOK DEF DataInv, TaskOK
<1>3. DataInv => DataTypeOK
  BY <1>1, <1>2, StorageTypes DEF DataInv, DataTypeOK, CacheOK
<1> QED BY <1>3, DataInvariance, PTL

\* No put, crash, removal of a file or clean-up ever changes or removes an entry of
\* the database: store_data refuses a name that is taken, and _cleanup looks for
\* names that are file names.
THEOREM NamesTheorem == DataSpec => NamesAreStable
<1>1. DataInv /\ [DataNext]_allDataVars => [\A n \in DOMAIN db : n \in DOMAIN db' /\ db'[n] = db[n]]_allDataVars
  BY DataNextInv DEF Grows
<1> QED BY <1>1, DataInvariance, PTL DEF DataSpec, NamesAreStable

\* An entry has a whole file unless a write of that content was cut off or the file
\* was removed.
THEOREM DatastoreEntries == DataSpec => []DataIsWhole
<1>1. DataInv => DataIsWhole
  BY DEF DataInv, StorageInv, DataIsWhole
<1> QED BY <1>1, DataInvariance, PTL

\* From the moment that a put is answered the cache has nothing for that name, or
\* has the name, for every size of the cache and every order of puts and gets.
THEOREM CacheTheorem == DataSpec => []CacheIsFresh
<1>1. DataInv => CacheIsFresh
  BY DEF DataInv, CacheOK, Fresh, CacheIsFresh
<1> QED BY <1>1, DataInvariance, PTL

-----------------------------------------------------------------------------
(* Stray replies.  A client that got no more replies than it took has its    *)
(* command in one place at most: with dtnd, in the hands of the datastore,   *)
(* or answered, once.                                                        *)

Asked(c)    == \E r \in requests : r.client = c
InHand(c)   == task # Polling /\ task.req.client = c
Answered(c) == \E r \in responses : r.client = c

ClientOK(c) ==
    /\ \A r \in requests : r.client = c => r = command[c]
    /\ InHand(c) => task.req = command[c]
    /\ \A r \in responses : r.client = c =>
          /\ r.type = command[c].type /\ <<r.name, command[c].name>> \in Extends
          /\ \A s \in responses : s.client = c => s = r
    /\ Asked(c) => ~InHand(c) /\ ~Answered(c)
    /\ InHand(c) => ~Answered(c)

StraysInv == mismatched \subseteq strays /\ \A c \in DataClients \ strays : ClientOK(c)

LEMMA TaskRequest ==
    ASSUME DataInv, task.pc # "poll"
    PROVE  /\ task # Polling
           /\ task.req \in ReqOK /\ task.req.client \in DataClients /\ task.req.name \in Names
BY PollingOK DEF DataInv, TaskOK, ReqOK, RequestSet

LEMMA SameStrays ==
    ASSUME StraysInv, UNCHANGED <<requests, task, responses, command, strays, mismatched>>
    PROVE  StraysInv'
BY DEF StraysInv, ClientOK, Asked, InHand, Answered

\* Steps of the receive task with one request in hand before and after.
LEMMA SameHand ==
    ASSUME StraysInv, UNCHANGED <<requests, responses, command, strays, mismatched>>,
           task # Polling, task' # Polling, task'.req = task.req
    PROVE  StraysInv'
BY DEF StraysInv, ClientOK, Asked, InHand, Answered

\* A client that waits for nothing has nothing under way.
LEMMA NothingUnderWay ==
    ASSUME DataInv, NEW c \in DataClients, ClientOK(c), command[c] = NoCommand
    PROVE  ~Asked(c) /\ ~InHand(c) /\ ~Answered(c)
<1>1. NoCommand.type = "none"
  BY DEF NoCommand, Request
<1>2. \A r \in RequestSet : r.type # "none"
  BY DEF RequestSet
<1>3. ReqOK \subseteq RequestSet
  BY DEF ReqOK
<1>4. InHand(c) => task.req \in ReqOK
  BY DEF InHand, DataInv, TaskOK
<1> QED BY <1>1, <1>2, <1>3, <1>4 DEF ClientOK, Asked, InHand, Answered, DataInv

LEMMA PollStrays == DataInv /\ StraysInv /\ Poll => StraysInv'
<1> SUFFICES ASSUME DataInv, StraysInv, Poll PROVE StraysInv' OBVIOUS
<1>1. PICK r \in requests : task' = [pc |-> "handle", req |-> r] /\ requests' = requests \ {r}
  BY DEF Poll
<1>2. task = Polling /\ UNCHANGED <<responses, command, strays, mismatched>>
  BY DEF Poll
<1>3. task' # Polling /\ task'.req = r
  BY <1>1, PollingOK
<1>4. ASSUME NEW c \in DataClients \ strays PROVE ClientOK(c)'
  <2>1. ClientOK(c)
    BY <1>4 DEF StraysInv
  <2>2. CASE r.client = c
    <3>1. r = command[c] /\ ~Answered(c) /\ \A q \in requests' : q.client # c
      BY <1>1, <2>1, <2>2 DEF ClientOK, Asked
    <3> QED BY <1>2, <1>3, <3>1 DEF ClientOK, Asked, InHand, Answered
  <2>3. CASE r.client # c
    <3>1. ~InHand(c)' /\ \A q \in requests' : q \in requests
      BY <1>1, <1>3, <2>3 DEF InHand
    <3> QED BY <1>2, <2>1, <3>1 DEF ClientOK, Asked, Answered
  <2> QED BY <2>2, <2>3
<1> QED BY <1>2, <1>4 DEF StraysInv

\* The request in hand is answered by replies of which there are several only for
\* a client that becomes stray.
LEMMA AnswerStrays ==
    ASSUME DataInv, StraysInv, task # Polling, task' = Polling, NEW new,
           UNCHANGED <<requests, command, mismatched>>, responses' = responses \cup new,
           strays \subseteq strays',
           \A r \in new : /\ r.client = task.req.client /\ r.type = task.req.type
                          /\ <<r.name, task.req.name>> \in Extends,
           task.req.client \in strays' \/ \A r, s \in new : r = s
    PROVE  StraysInv'
<1>1. ASSUME NEW c \in DataClients \ strays' PROVE ClientOK(c)'
  <2>1. ClientOK(c)
    BY <1>1 DEF StraysInv
  <2>2. CASE c # task.req.client
    BY <2>1, <2>2 DEF ClientOK, Asked, InHand, Answered
  <2>3. CASE c = task.req.client
    <3>1. InHand(c) /\ task.req = command[c] /\ ~Asked(c) /\ ~Answered(c)
      BY <2>1, <2>3 DEF ClientOK, InHand
    <3>2. \A r \in responses' : r.client = c => r \in new
      BY <3>1 DEF Answered
    <3>3. \A r \in requests' : r.client # c
      BY <3>1 DEF Asked
    <3>4. \A r, s \in new : r = s
      BY <1>1, <2>3
    <3> QED BY <2>3, <3>1, <3>2, <3>3, <3>4 DEF ClientOK, Asked, InHand, Answered
  <2> QED BY <2>2, <2>3
<1> QED BY <1>1 DEF StraysInv

LEMMA PutReplyStrays == DataInv /\ StraysInv /\ PutReply => StraysInv'
<1> SUFFICES ASSUME DataInv, StraysInv, PutReply PROVE StraysInv' OBVIOUS
<1> DEFINE reply == Request("PUT", task.req.client, task.req.name, Nothing)
<1>1. /\ task.pc \in {"stored", "refused"} /\ task' = Polling /\ responses' = responses \cup {reply}
      /\ UNCHANGED <<requests, command, strays, mismatched>>
  BY DEF PutReply, Respond
<1>2. task # Polling /\ task.req.name \in Names
  BY <1>1, TaskRequest
<1>3. task.req.type = "PUT"
  BY <1>1, <1>2 DEF DataInv, TaskOK
<1>4. reply.client = task.req.client /\ reply.type = "PUT" /\ reply.name = task.req.name
  BY DEF Request
<1>5. <<reply.name, task.req.name>> \in Extends
  BY <1>2, <1>4, RecStorageConstants
<1> HIDE DEF reply
<1> DEFINE new == {reply}
<1>6. /\ responses' = responses \cup new /\ \A r, s \in new : r = s
      /\ \A r \in new : /\ r.client = task.req.client /\ r.type = task.req.type
                        /\ <<r.name, task.req.name>> \in Extends
  BY <1>1, <1>3, <1>4, <1>5
<1> HIDE DEF new
<1> QED BY <1>1, <1>2, <1>6, AnswerStrays

\* A finite set with no more than one element.
LEMMA AtMostOne ==
    ASSUME NEW S, IsFiniteSet(S), ~(Cardinality(S) > 1), NEW a \in S, NEW b \in S PROVE a = b
<1> SUFFICES ASSUME a # b PROVE FALSE OBVIOUS
<1>1. IsFiniteSet({a}) /\ Cardinality({a}) = 1
  BY FS_Singleton
<1>2. Cardinality({a} \cup {b}) = 2
  BY <1>1, FS_AddElement
<1>3. Cardinality({a} \cup {b}) <= Cardinality(S) /\ Cardinality(S) \in Nat
  BY FS_Subset, FS_CardinalityType
<1> QED BY <1>2, <1>3

LEMMA GetStrays == DataInv /\ StraysInv /\ Get => StraysInv'
<1> SUFFICES ASSUME DataInv, StraysInv, Get PROVE StraysInv' OBVIOUS
<1> DEFINE found == Found(task.req.name)
           reply(n) == Request("GET", task.req.client, n, db[n])
           new == {reply(n) : n \in found}
<1>1. /\ task \in [pc : {"handle"}, req : ReqOK] /\ task.req.type = "GET" /\ task' = Polling
      /\ UNCHANGED <<requests, command, mismatched>>
      /\ responses' = responses \cup new
      /\ strays' = IF Cardinality(found) > 1 THEN strays \cup {task.req.client} ELSE strays
  BY GetProps
<1>2. task # Polling
  BY <1>1, PollingOK
<1>3. \A n \in found : <<n, task.req.name>> \in Extends /\ n \in DOMAIN db
  BY FoundProps DEF Entries
<1>4. \A n : reply(n).client = task.req.client /\ reply(n).type = "GET" /\ reply(n).name = n
  BY DEF Request
<1>5. IsFiniteSet(found)
  BY <1>3, FS_Subset DEF DataInv, StorageInv
<1>6. task.req.client \in strays' \/ \A m, n \in found : m = n
  BY <1>1, <1>5, AtMostOne
<1> HIDE DEF reply, found
<1>7. \A r \in new : /\ r.client = task.req.client /\ r.type = task.req.type
                     /\ <<r.name, task.req.name>> \in Extends
  BY <1>1, <1>3, <1>4
<1>8. task.req.client \in strays' \/ \A r, s \in new : r = s
  BY <1>6
<1> HIDE DEF new
<1> QED BY <1>1, <1>2, <1>7, <1>8, AnswerStrays

LEMMA RestartStrays == DataInv /\ StraysInv /\ RestartDatastore => StraysInv'
<1> SUFFICES ASSUME DataInv, StraysInv, RestartDatastore PROVE StraysInv' OBVIOUS
<1>1. task' = Polling /\ UNCHANGED <<requests, responses, command, strays, mismatched>>
  BY DEF RestartDatastore
<1> QED BY <1>1 DEF StraysInv, ClientOK, Asked, InHand, Answered

LEMMA IssueStrays ==
    ASSUME DataInv, StraysInv, NEW d \in DataClients, Issuing(d) PROVE StraysInv'
<1>1. PICK r \in ReqOK :
         /\ r.client = d /\ command[d] = NoCommand
         /\ command' = [command EXCEPT ![d] = r] /\ requests' = requests \cup {r}
         /\ UNCHANGED <<task, responses, strays, mismatched>>
  BY IssuingProps
<1>2. ASSUME NEW c \in DataClients \ strays PROVE ClientOK(c)'
  <2>1. ClientOK(c)
    BY <1>2 DEF StraysInv
  <2>2. CASE c # d
    <3>1. command'[c] = command[c] /\ \A q \in requests' : q.client = c => q \in requests
      BY <1>1, <2>2 DEF DataInv
    <3> QED BY <1>1, <2>1, <3>1 DEF ClientOK, Asked, InHand, Answered
  <2>3. CASE c = d
    <3>1. ~Asked(c) /\ ~InHand(c) /\ ~Answered(c)
      BY <1>1, <2>1, <2>3, NothingUnderWay
    <3>2. command'[c] = r
      BY <1>1, <2>3 DEF DataInv
    <3> QED BY <1>1, <3>1, <3>2 DEF ClientOK, Asked, InHand, Answered
  <2> QED BY <2>2, <2>3
<1> QED BY <1>1, <1>2 DEF StraysInv

LEMMA TakeReplyStrays ==
    ASSUME DataInv, StraysInv, NEW d \in DataClients, TakeReply(d) PROVE StraysInv'
<1>1. PICK r \in responses, others \in SUBSET {o \in responses : o.client = d} :
         /\ r.client = d /\ r.type = command[d].type
         /\ responses' = responses \ (others \cup {r})
         /\ mismatched' = IF <<r.name, command[d].name>> \in Extends THEN mismatched ELSE mismatched \cup {d}
  BY DEF TakeReply
<1>2. UNCHANGED <<requests, task, strays>> /\ command' = [command EXCEPT ![d] = NoCommand]
  BY DEF TakeReply
<1>3. mismatched' \subseteq strays'
  <2>1. d \notin strays => ClientOK(d)
    BY DEF StraysInv
  <2>2. ClientOK(d) => <<r.name, command[d].name>> \in Extends
    BY <1>1, Zenon DEF ClientOK
  <2>3. mismatched \subseteq strays
    BY DEF StraysInv
  <2> QED BY <1>1, <1>2, <2>1, <2>2, <2>3
<1>4. ASSUME NEW c \in DataClients \ strays PROVE ClientOK(c)'
  <2>1. ClientOK(c)
    BY <1>4 DEF StraysInv
  <2>2. CASE c # d
    <3>1. command'[c] = command[c] /\ \A q \in responses' : q \in responses
      BY <1>1, <1>2, <2>2 DEF DataInv
    <3>2. Answered(c)' => Answered(c)
      BY <3>1 DEF Answered
    <3> QED BY <1>2, <2>1, <3>1, <3>2 DEF ClientOK, Asked, InHand
  <2>3. CASE c = d
    <3>1. Answered(c) /\ ~Asked(c) /\ ~InHand(c)
      BY <1>1, <2>1, <2>3 DEF ClientOK, Answered
    <3>2. \A q \in responses' : q.client # c
      BY <1>1, <2>1, <2>3 DEF ClientOK
    <3> QED BY <1>2, <3>1, <3>2 DEF ClientOK, Asked, InHand, Answered
  <2> QED BY <2>2, <2>3
<1> QED BY <1>2, <1>3, <1>4 DEF StraysInv

LEMMA QuitStrays ==
    ASSUME DataInv, StraysInv, NEW d \in DataClients, Quit(d) PROVE StraysInv'
<1>1. /\ command' = [command EXCEPT ![d] = NoCommand] /\ strays' = strays \cup {d}
      /\ UNCHANGED <<requests, task, responses, mismatched>>
  BY DEF Quit
<1>2. \A c \in DataClients \ strays' : command'[c] = command[c] /\ ClientOK(c)
  BY <1>1 DEF DataInv, StraysInv
<1>3. ASSUME NEW c \in DataClients \ strays' PROVE ClientOK(c)'
  <2>1. command'[c] = command[c] /\ ClientOK(c)
    BY <1>2
  <2> QED BY <1>1, <2>1 DEF ClientOK, Asked, InHand, Answered
<1>4. mismatched' \subseteq strays'
  BY <1>1 DEF StraysInv
<1> QED BY <1>3, <1>4 DEF StraysInv

LEMMA StraysNext == DataInv /\ StraysInv /\ [DataNext]_allDataVars => StraysInv'
<1> SUFFICES ASSUME DataInv, StraysInv, [DataNext]_allDataVars PROVE StraysInv' OBVIOUS
<1>1. CASE PutOpen \/ PutInsert \/ PutAtOnce
  <2>1. /\ task.pc \in {"handle", "store"} /\ UNCHANGED <<requests, responses, command, strays, mismatched>>
        /\ \E pc \in {"store", "stored", "refused"} : task' = [task EXCEPT !.pc = pc]
    BY <1>1 DEF PutOpen, PutInsert, PutAtOnce, Handling
  <2>2. task # Polling /\ task \in [pc : {"handle", "store", "stored", "refused"}, req : ReqOK]
    BY <2>1, PollingOK DEF DataInv, TaskOK
  <2>3. task'.req = task.req /\ task'.pc # "poll"
    BY <2>1, <2>2
  <2> QED BY <2>1, <2>2, <2>3, SameHand, PollingOK
<1>2. CASE PutWrite \/ VanishData \/ UNCHANGED allDataVars
  <2>1. UNCHANGED <<requests, task, responses, command, strays, mismatched>>
    BY <1>2 DEF PutWrite, VanishData, allDataVars, dataVars
  <2> QED BY <2>1, SameStrays
<1>3. CASE Poll \/ PutReply \/ Get \/ RestartDatastore
  BY <1>3, PollStrays, PutReplyStrays, GetStrays, RestartStrays
<1>4. ASSUME NEW c \in DataClients, Issuing(c) \/ TakeReply(c) \/ Quit(c) PROVE StraysInv'
  BY <1>4, IssueStrays, TakeReplyStrays, QuitStrays
<1> QED BY <1>1, <1>2, <1>3, <1>4 DEF DataNext, Issuing

\* wait_reply compares types only.  All the same, a client takes the answer to
\* another request only if several replies were sent for a get, or it was stopped
\* before, for every number of clients, names and requests.
THEOREM StraysTheorem == DataSpec => []StraysOnly
<1>1. DataInit => StraysInv
  BY DEF DataInit, StraysInv, ClientOK, Asked, InHand, Answered
<1>2. StraysInv => StraysOnly
  BY DEF StraysInv, StraysOnly
<1> QED BY <1>1, <1>2, StraysNext, DataInvariance, PTL DEF DataSpec
=============================================================================
