------------------------------ MODULE RecStorage ------------------------------
(***************************************************************************)
(* Named data on disk (src/rec/dtn/storage.py): a database from names to   *)
(* file names, which are hashes of the content, and a directory of blobs.  *)
(* store_data writes under the writer lock and is one action per durable   *)
(* write; reads are atomic, as they exclude writers.  A file that is open  *)
(* but not yet written is "torn".                                          *)
(***************************************************************************)
EXTENDS Integers, FiniteSets, Functions

CONSTANTS
    Names,
    Contents,   \* what is stored, which is also the file name (its hash)
    Extends,    \* the <<name, prefix>> with name.startswith(prefix)
    Tasks,      \* tasks of one process that use the storage
    Nothing,
    MaxVanish   \* bound: blobs that something else removes

ASSUME RecStorageConstants ==
    /\ Names \cap Contents = {}
    /\ Extends \subseteq Names \X Names
    /\ \A n \in Names : <<n, n>> \in Extends
    /\ Nothing \notin Tasks \cup Contents
    /\ MaxVanish \in Nat

VARIABLES
    db,         \* the entries of the database, from name to file name
    blobs,      \* the state of the file of every content
    writer,     \* the holder of the writer lock
    storing,    \* what each task is storing
    interrupted,\* history: contents whose write was cut off
    vanished    \* history: contents whose blob was removed

storageVars == <<db, blobs, writer, storing, interrupted, vanished>>

NotStoring == [pc |-> "no", name |-> Nothing, content |-> Nothing]

Insert(name, content) ==
    db' = [n \in DOMAIN db \cup {name} |-> IF n = name THEN content ELSE db[n]]

Taken(name) == name \in DOMAIN db

\* store_data returns or raises at once: the name is taken, or a file with the
\* content's hash exists.
StoreReturns(name, content) == Taken(name) \/ blobs[content] # "absent"

\* Mutant of StoreAtOnce: a name that is taken gets the new content.
StoreAtOnceReplaces(name, content) ==
    /\ writer = Nothing
    /\ StoreReturns(name, content)
    /\ IF blobs[content] # "absent" THEN Insert(name, content) ELSE UNCHANGED db
    /\ UNCHANGED <<blobs, writer, storing, interrupted, vanished>>

StoreAtOnce(name, content) ==
    /\ writer = Nothing
    /\ StoreReturns(name, content)
    /\ IF Taken(name) THEN UNCHANGED db ELSE Insert(name, content)
    /\ UNCHANGED <<blobs, writer, storing, interrupted, vanished>>

\* Mutant of StoreOpen: the lock is free again once the file is open.
StoreOpenUnlocked(t, name, content) ==
    /\ writer = Nothing
    /\ ~StoreReturns(name, content)
    /\ blobs' = [blobs EXCEPT ![content] = "torn"]
    /\ storing' = [storing EXCEPT ![t] = [pc |-> "write", name |-> name, content |-> content]]
    /\ UNCHANGED <<db, writer, interrupted, vanished>>

StoreOpen(t, name, content) ==
    /\ writer = Nothing
    /\ ~StoreReturns(name, content)
    /\ writer' = t
    /\ blobs' = [blobs EXCEPT ![content] = "torn"]
    /\ storing' = [storing EXCEPT ![t] = [pc |-> "write", name |-> name, content |-> content]]
    /\ UNCHANGED <<db, interrupted, vanished>>

StoreWrite(t) ==
    /\ storing[t].pc = "write"
    /\ blobs' = [blobs EXCEPT ![storing[t].content] = "whole"]
    /\ storing' = [storing EXCEPT ![t].pc = "insert"]
    /\ UNCHANGED <<db, writer, interrupted, vanished>>

StoreInsert(t) ==
    /\ storing[t].pc = "insert"
    /\ Insert(storing[t].name, storing[t].content)
    /\ storing' = [storing EXCEPT ![t] = NotStoring]
    /\ writer' = Nothing
    /\ UNCHANGED <<blobs, interrupted, vanished>>

\* The entries that load_data finds: all whose name starts with this one.
Entries(name) == {n \in DOMAIN db : <<n, name>> \in Extends}

\* What load_data returns, and the file names that it found missing.
Loaded(name) == {n \in Entries(name) : blobs[db[n]] # "absent"}
Disappeared(name) == {db[n] : n \in Entries(name) \ Loaded(name)}

\* _cleanup: it removes the entries whose name is one of these.
Cleanup(names) == db' = Restrict(db, DOMAIN db \ names)

FindMissing(names) == {n \in names : ~Taken(n)}

\* copy_to_file finds the data of every one of these names.
CanCopy(names) == \A n \in names : Taken(n) /\ blobs[db[n]] # "absent"

\* The file names it does not find.
MissingFiles(names) == {db[n] : n \in {m \in names : Taken(m) /\ blobs[db[m]] = "absent"}}

\* The process ends, or its tasks are cancelled: the lock is free, and files stay
\* as they are.
Interrupt(tasks) ==
    /\ storing' = [t \in Tasks |-> IF t \in tasks THEN NotStoring ELSE storing[t]]
    /\ writer' = IF writer \in tasks THEN Nothing ELSE writer
    /\ interrupted' = interrupted \cup {storing[t].content : t \in {u \in tasks : storing[u].pc = "write"}}

\* Something else removes a file.
Vanish(content) ==
    /\ blobs[content] = "whole"
    /\ Cardinality(vanished) < MaxVanish
    /\ \A t \in Tasks : storing[t].content # content
    /\ blobs' = [blobs EXCEPT ![content] = "absent"]
    /\ vanished' = vanished \cup {content}
    /\ UNCHANGED <<db, writer, storing, interrupted>>

StorageInit ==
    /\ db = [n \in {} |-> Nothing]
    /\ blobs = [c \in Contents |-> "absent"]
    /\ writer = Nothing
    /\ storing = [t \in Tasks |-> NotStoring]
    /\ interrupted = {} /\ vanished = {}

StorageTypeOK ==
    /\ DOMAIN db \subseteq Names /\ Range(db) \subseteq Contents
    /\ blobs \in [Contents -> {"absent", "torn", "whole"}]
    /\ writer \in Tasks \cup {Nothing}
    /\ storing \in [Tasks -> [pc : {"no", "write", "insert"}, name : Names \cup {Nothing},
                              content : Contents \cup {Nothing}]]
    /\ interrupted \subseteq Contents /\ vanished \subseteq Contents
=============================================================================
