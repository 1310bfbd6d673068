----------------------------- MODULE RecDatastore -----------------------------
(***************************************************************************)
(* A datastore (src/rec/dtn/datastore.py) with its cache over its storage, *)
(* and clients that get and put named data (client.py).  The datastore     *)
(* handles one bundle after the other in its receive task.  A client runs  *)
(* one command in a process of its own and takes the first reply of the    *)
(* right type for the answer; replies it does not fetch stay in dtnd.      *)
(*                                                                         *)
(* Puts reach the datastore as a broker would forward them, in the name of *)
(* the client.                                                             *)
(***************************************************************************)
EXTENDS RecStorage, Sequences

CONSTANTS
    DataClients,
    CacheSizeLimit,
    MaxStops    \* bound: processes that are stopped

ASSUME RecDatastoreConstants ==
    /\ Tasks # {} /\ Nothing \notin DataClients
    /\ CacheSizeLimit \in Nat \ {0} /\ MaxStops \in Nat

VARIABLES
    requests,   \* bundles that dtnd holds for the datastore
    task,       \* the receive task: the request it handles, and where
    cache,      \* _cache, oldest entry first: [key, names that load_data returned]
    responses,  \* bundles that dtnd holds for clients
    command,    \* the command each client process runs
    strays,     \* history: clients that more replies are sent to than they take
    mismatched, \* history: clients that took the reply to another request
    lostRequests, \* history: clients whose request was lost with the datastore
    stops

dataVars == <<requests, task, cache, responses, command, strays, mismatched, lostRequests, stops>>
allDataVars == <<storageVars, dataVars>>

Request(type, c, name, content) == [type |-> type, client |-> c, name |-> name, content |-> content]

Polling == [pc |-> "poll", req |-> Nothing]
NoCommand == Request("none", Nothing, Nothing, Nothing)

\* The task handles a request of this type and is at this point.
Handling(type, pc) == task.pc = pc /\ task.req.type = type

Respond(set) == responses' = responses \cup set

-----------------------------------------------------------------------------
(* DataCache                                                                  *)

Cached(key) == \E i \in DOMAIN cache : cache[i].key = key
Position(key) == CHOOSE i \in DOMAIN cache : cache[i].key = key
CacheGet(key) == cache[Position(key)].names

\* Only a key that is not in the cache is put there.
CachePut(key, names) ==
    cache' = Append(IF Len(cache) >= CacheSizeLimit THEN Tail(cache) ELSE cache,
                    [key |-> key, names |-> names])

\* Mutant of CacheInvalidate: the entry stays.
CacheInvalidateSkipped(key) == UNCHANGED cache

CacheInvalidate(key) ==
    IF Cached(key)
    THEN cache' = [i \in 1 .. Len(cache) - 1 |-> cache[IF i < Position(key) THEN i ELSE i + 1]]
    ELSE UNCHANGED cache

-----------------------------------------------------------------------------
(* The receive task of the datastore                                          *)

\* The receive task is the only one that uses the storage.
Receiver == CHOOSE t \in Tasks : TRUE

\* Mutant of Poll: dtnd hands out the same bundles again.
PollAgain ==
    /\ task = Polling
    /\ \E r \in requests : task' = [pc |-> "handle", req |-> r]
    /\ UNCHANGED <<storageVars, requests, cache, responses, command, strays, mismatched, lostRequests, stops>>

Poll ==
    /\ task = Polling
    /\ \E r \in requests :
          /\ task' = [pc |-> "handle", req |-> r]
          /\ requests' = requests \ {r}
    /\ UNCHANGED <<storageVars, cache, responses, command, strays, mismatched, lostRequests, stops>>

\* NDATA_PUT: store_data opens the file, writes it and inserts the name.
PutOpen ==
    /\ Handling("PUT", "handle")
    /\ StoreOpen(Receiver, task.req.name, task.req.content)
    /\ task' = [task EXCEPT !.pc = "store"]
    /\ UNCHANGED <<requests, cache, responses, command, strays, mismatched, lostRequests, stops>>

PutWrite ==
    /\ Handling("PUT", "store")
    /\ StoreWrite(Receiver)
    /\ UNCHANGED dataVars

PutInsert ==
    /\ Handling("PUT", "store")
    /\ StoreInsert(Receiver)
    /\ task' = [task EXCEPT !.pc = "stored"]
    /\ UNCHANGED <<requests, cache, responses, command, strays, mismatched, lostRequests, stops>>

\* store_data has nothing to write: the name is taken, or the blob is there.
PutAtOnce ==
    /\ Handling("PUT", "handle")
    /\ StoreAtOnce(task.req.name, task.req.content)
    /\ task' = [task EXCEPT !.pc = IF Taken(task.req.name) THEN "refused" ELSE "stored"]
    /\ UNCHANGED <<requests, cache, responses, command, strays, mismatched, lostRequests, stops>>

\* Mutant of PutReply: NameTakenError is not caught, and nothing is sent.
PutReplyRaises ==
    /\ task.pc \in {"stored", "refused"}
    /\ IF task.pc = "stored"
       THEN /\ CacheInvalidate(task.req.name)
            /\ Respond({Request("PUT", task.req.client, task.req.name, Nothing)})
       ELSE UNCHANGED <<cache, responses>>
    /\ task' = Polling
    /\ UNCHANGED <<storageVars, requests, command, strays, mismatched, lostRequests, stops>>

\* The rest of _handle_data for a put: invalidate the cache, and reply.  With the
\* name taken there is an error in the reply, which data_put takes for success.
PutReply ==
    /\ task.pc \in {"stored", "refused"}
    /\ IF task.pc = "stored" THEN CacheInvalidate(task.req.name) ELSE UNCHANGED cache
    /\ Respond({Request("PUT", task.req.client, task.req.name, Nothing)})
    /\ task' = Polling
    /\ UNCHANGED <<storageVars, requests, command, strays, mismatched, lostRequests, stops>>

\* NDATA_GET: from the cache or else from storage, one reply per name.
Get ==
    /\ Handling("GET", "handle")
    /\ LET key  == task.req.name
           c     == task.req.client
           found == IF Cached(key) THEN CacheGet(key) ELSE Loaded(key)
       IN  /\ IF Cached(key) \/ found = {} THEN UNCHANGED cache ELSE CachePut(key, found)
           /\ IF Cached(key) THEN UNCHANGED db ELSE Cleanup(Disappeared(key))
           /\ Respond({Request("GET", c, n, db[n]) : n \in found})
           /\ strays' = IF Cardinality(found) > 1 THEN strays \cup {c} ELSE strays
    /\ task' = Polling
    /\ UNCHANGED <<blobs, writer, storing, interrupted, vanished>>
    /\ UNCHANGED <<requests, command, mismatched, lostRequests, stops>>

\* The datastore stops and starts again: the request in hand, and the cache, are
\* gone.  The same happens to the request when run cancels the receive task that
\* Node.run has started.
RestartDatastore ==
    /\ stops < MaxStops
    /\ stops' = stops + 1
    /\ Interrupt(Tasks)
    /\ lostRequests' = IF task = Polling THEN lostRequests ELSE lostRequests \cup {task.req.client}
    /\ task' = Polling
    /\ cache' = <<>>
    /\ UNCHANGED <<db, blobs, vanished, requests, responses, command, strays, mismatched>>

VanishData == (\E content \in Contents : Vanish(content)) /\ UNCHANGED dataVars

-----------------------------------------------------------------------------
(* DataClients                                                                    *)

\* data_get and data_put as far as wait_reply.
Issue(c, type, name, content) ==
    LET r == Request(type, c, name, content)
    IN  /\ command[c] = NoCommand
        /\ command' = [command EXCEPT ![c] = r]
        /\ requests' = requests \cup {r}
        /\ UNCHANGED <<storageVars, task, cache, responses, strays, mismatched, lostRequests, stops>>

\* wait_reply returns the first reply of the type, and the process ends; other
\* replies that it has fetched are gone.
TakeReply(c) ==
    /\ command[c] # NoCommand
    /\ \E r \in responses, others \in SUBSET {o \in responses : o.client = c} :
          /\ r.client = c /\ r.type = command[c].type
          /\ responses' = responses \ (others \cup {r})
          /\ mismatched' = IF <<r.name, command[c].name>> \in Extends
                           THEN mismatched ELSE mismatched \cup {c}
    /\ command' = [command EXCEPT ![c] = NoCommand]
    /\ UNCHANGED <<storageVars, requests, task, cache, strays, lostRequests, stops>>

\* The user stops a client that waits.
Quit(c) ==
    /\ command[c] # NoCommand
    /\ stops < MaxStops
    /\ stops' = stops + 1
    /\ command' = [command EXCEPT ![c] = NoCommand]
    /\ strays' = strays \cup {c}
    /\ UNCHANGED <<storageVars, requests, task, cache, responses, mismatched, lostRequests>>

-----------------------------------------------------------------------------

DataInit ==
    /\ StorageInit
    /\ requests = {} /\ task = Polling /\ cache = <<>> /\ responses = {}
    /\ command = [c \in DataClients |-> NoCommand]
    /\ strays = {} /\ mismatched = {} /\ lostRequests = {} /\ stops = 0

DataNext ==
    \/ Poll \/ PutOpen \/ PutWrite \/ PutInsert \/ PutAtOnce \/ PutReply \/ Get
    \/ RestartDatastore \/ VanishData
    \/ \E c \in DataClients :
          \/ \E n \in Names : \/ Issue(c, "GET", n, Nothing)
                              \/ \E content \in Contents : Issue(c, "PUT", n, content)
          \/ TakeReply(c) \/ Quit(c)

DataSpec == DataInit /\ [][DataNext]_allDataVars

\* The datastore polls again and again and handles what it gets, and a client that
\* waits polls as well.
DataFairSpec ==
    /\ DataSpec
    /\ WF_allDataVars(Poll) /\ WF_allDataVars(PutOpen \/ PutWrite \/ PutInsert \/ PutAtOnce)
    /\ WF_allDataVars(PutReply) /\ WF_allDataVars(Get)
    /\ \A c \in DataClients : WF_allDataVars(TakeReply(c))

-----------------------------------------------------------------------------
(* Properties                                                                 *)

RequestSet == [type : {"GET", "PUT"}, client : DataClients, name : Names, content : Contents \cup {Nothing}]

DataTypeOK ==
    /\ StorageTypeOK
    /\ requests \subseteq RequestSet /\ responses \subseteq RequestSet
    /\ task.pc \in {"poll", "handle", "store", "stored", "refused"}
    /\ task.req \in RequestSet \cup {Nothing}
    /\ Len(cache) <= CacheSizeLimit
    /\ \A i, j \in DOMAIN cache : cache[i].key = cache[j].key => i = j
    /\ command \in [DataClients -> RequestSet \cup {NoCommand}]
    /\ strays \subseteq DataClients /\ mismatched \subseteq DataClients /\ lostRequests \subseteq DataClients

\* A name always stands for the same content: once put it is never replaced or
\* removed, however often it is put again and whatever happens to the files.
NamesAreStable == [][\A n \in DOMAIN db : n \in DOMAIN db' /\ db'[n] = db[n]]_allDataVars

\* An entry of the database has a whole file, except where a crash cut off the
\* write of that content (store_data takes the torn file for a copy) or where the
\* file was removed.
DataIsWhole ==
    \A n \in DOMAIN db : blobs[db[n]] = "whole" \/ db[n] \in interrupted \cup vanished

\* The cache is fresh for the name asked for: what it has for a name includes that
\* name from the moment that its put is answered, and nothing it has was not stored.
CacheIsFresh ==
    \A i \in DOMAIN cache :
        /\ cache[i].names \subseteq Entries(cache[i].key)
        /\ cache[i].key \in DOMAIN db =>
              \/ cache[i].key \in cache[i].names
              \/ task.pc = "stored" /\ task.req.name = cache[i].key
              \/ blobs[db[cache[i].key]] = "absent" \/ db[cache[i].key] \in vanished

\* wait_reply goes by the type of a reply alone, and yet a client takes the answer
\* to another request only after more replies were sent to it than it takes: to a
\* get with several results, or to a command that was stopped.
StraysOnly == mismatched \subseteq strays

\* Puts are answered, whether the name was taken or not, unless the request was
\* lost with the datastore.
PutsAreAnswered ==
    \A c \in DataClients : (command[c].type = "PUT") ~> (command[c].type # "PUT" \/ c \in lostRequests)

\* What load_data says it returns, and so what the cache should keep of it: all the
\* data whose names start with the one asked for.
PrefixGetIsComplete ==
    \A i \in DOMAIN cache : task.pc = "poll" /\ vanished = {} => cache[i].names = Entries(cache[i].key)
=============================================================================
