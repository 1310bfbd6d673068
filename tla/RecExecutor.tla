------------------------------ MODULE RecExecutor ------------------------------
(***************************************************************************)
(* An executor (src/rec/dtn/executor.py): its receive task stores data and *)
(* queues jobs, its scheduler runs the jobs that have their inputs, and a  *)
(* third task fetches what is missing.  They share the deque of pending    *)
(* jobs under a readers-writer lock, the storage under its own lock, and   *)
(* the condition variable on which the scheduler waits.  An action goes    *)
(* from one suspension of a task to the next.                              *)
(*                                                                         *)
(* Discovery and heartbeats are in RecBroker.  Sending never suspends a    *)
(* task; of what is sent, the notification that a job is completed and the *)
(* requests for data are kept.                                             *)
(***************************************************************************)
EXTENDS RecStorage, Sequences

CONSTANTS
    Jobs,
    Required(_),    \* required_named_data
    Provided(_),    \* the names of the data that comes with a job
    Produces(_),    \* the names of its named results
    Content(_),     \* the content of a name
    Published,      \* the names that a datastore has
    Heavy,          \* jobs that the system is not always capable of
    Recv, Sched,    \* the tasks that store
    Fetch,          \* the task that only reads
    MaxFaults       \* bound: restarts, requests lost and files removed

ASSUME RecExecutorConstants ==
    /\ Tasks = {Recv, Sched} /\ Recv # Sched /\ Fetch \notin Tasks
    /\ \A j \in Jobs : Required(j) \cup Provided(j) \cup Produces(j) \subseteq Names
    /\ \A n \in Names : Content(n) \in Contents
    /\ Published \subseteq Names /\ Heavy \subseteq Jobs
    /\ Jobs \cap Names = {} /\ Nothing \notin Jobs
    /\ MaxFaults \in Nat

VARIABLES
    inbox,      \* bundles dtnd holds for the executor: jobs, and names of data
    pending,    \* _pending_jobs
    readers,    \* holders of the reader lock of _state_mutex
    stateWriter,\* the holder of its writer lock
    cv,         \* the holder of the lock of _job_ready_cv
    recv,       \* the receive task: the bundle in hand and the names to store
    sched,      \* the scheduler: the job in hand, names to store, a position
    fetch,      \* the fetcher: a position, and what it found missing
    gets,       \* requests for data on their way
    completed,  \* history: jobs reported to the broker
    failed,     \* history: jobs dropped by an exception
    lost,       \* history: jobs and data that a fault removed
    stopping,   \* "no", then "set" by stop, then "notified"
    faults

taskVars == <<pending, readers, stateWriter, cv, recv, sched, fetch>>
envVars == <<inbox, gets, completed, failed, lost, stopping, faults>>
vars == <<storageVars, taskVars, envVars>>

Running == stopping = "no"

CanRead == stateWriter = Nothing
CanWrite == stateWriter = Nothing /\ readers = {}
StorageFree == writer = Nothing

Idle == [pc |-> "poll", bundle |-> Nothing, left |-> {}]
Checking == [pc |-> "check", job |-> Nothing, left |-> {}, i |-> 0]
Fetching == [pc |-> "start", i |-> 0, missing |-> {}]

\* notify_all: the scheduler is the one that waits.
Notified == IF sched.pc = "wait" THEN [sched EXCEPT !.pc = "woken"] ELSE sched

\* What _system_can_run may return: it reads the free resources of the moment.
SystemCanRun(j) == IF j \in Heavy THEN BOOLEAN ELSE {TRUE}

\* _job_has_all_inputs, and the system can run the job.
Runnable(j, can) == FindMissing(Required(j)) = {} /\ can

-----------------------------------------------------------------------------
(* store_data in a task that has names to store                               *)

LeftIn(t) == IF t = Recv THEN recv.left ELSE sched.left
StoresIn(t) == IF t = Recv THEN recv.pc = "store" ELSE sched.pc = "store"

Stored(t, name) ==
    IF t = Recv THEN recv' = [recv EXCEPT !.left = @ \ {name}] /\ UNCHANGED sched
                ELSE sched' = [sched EXCEPT !.left = @ \ {name}] /\ UNCHANGED recv

StoreOne(t) ==
    /\ StoresIn(t)
    /\ \/ \E n \in LeftIn(t) : storing[t] = NotStoring /\ StoreOpen(t, n, Content(n)) /\ UNCHANGED <<recv, sched>>
       \/ StoreWrite(t) /\ UNCHANGED <<recv, sched>>
       \/ StoreInsert(t) /\ Stored(t, storing[t].name)
       \/ \E n \in LeftIn(t) : storing[t] = NotStoring /\ StoreAtOnce(n, Content(n)) /\ Stored(t, n)
    /\ UNCHANGED <<pending, readers, stateWriter, cv, fetch, envVars>>

-----------------------------------------------------------------------------
(* The receive task                                                           *)

Receive ==
    /\ recv = Idle /\ Running
    /\ \E b \in inbox :
          /\ inbox' = inbox \ {b}
          /\ recv' = [pc |-> "store", bundle |-> b, left |-> IF b \in Jobs THEN Provided(b) ELSE {b}]
    /\ UNCHANGED <<storageVars, pending, readers, stateWriter, cv, sched, fetch>>
    /\ UNCHANGED <<gets, completed, failed, lost, stopping, faults>>

\* Mutant of Enqueue: without the writer lock.
EnqueueUnlocked ==
    /\ recv.pc = "store" /\ recv.left = {} /\ recv.bundle \in Jobs
    /\ pending' = Append(pending, recv.bundle)
    /\ recv' = [recv EXCEPT !.pc = "notify"]
    /\ UNCHANGED <<storageVars, readers, stateWriter, cv, sched, fetch, envVars>>

\* The rest of _handle_job up to the notification.
Enqueue ==
    /\ recv.pc = "store" /\ recv.left = {} /\ recv.bundle \in Jobs
    /\ CanWrite
    /\ pending' = Append(pending, recv.bundle)
    /\ recv' = [recv EXCEPT !.pc = "notify"]
    /\ UNCHANGED <<storageVars, readers, stateWriter, cv, sched, fetch, envVars>>

\* Both handlers end with a notification.
Handled ==
    \/ recv.pc = "notify"
    \/ recv.pc = "store" /\ recv.left = {} /\ recv.bundle \in Names

\* Mutant of Notify: data that arrives wakes nobody.
NotifyJobsOnly ==
    /\ Handled
    /\ cv = Nothing
    /\ sched' = IF recv.pc = "notify" THEN Notified ELSE sched
    /\ recv' = Idle
    /\ UNCHANGED <<storageVars, pending, readers, stateWriter, cv, fetch, envVars>>

\* The end of _handle_job and of _handle_data.
Notify ==
    /\ Handled
    /\ cv = Nothing
    /\ sched' = Notified
    /\ recv' = Idle
    /\ UNCHANGED <<storageVars, pending, readers, stateWriter, cv, fetch, envVars>>

ReceiveEnds ==
    /\ recv = Idle /\ ~Running
    /\ recv' = [recv EXCEPT !.pc = "done"]
    /\ UNCHANGED <<storageVars, pending, readers, stateWriter, cv, sched, fetch, envVars>>

-----------------------------------------------------------------------------
(* The scheduler                                                              *)

\* async with _job_ready_cv, at the start of the loop or when woken.
EnterCv ==
    /\ sched.pc \in {"check", "woken"} /\ cv = Nothing
    /\ cv' = Sched
    /\ sched' = [sched EXCEPT !.pc = "predicate"]
    /\ UNCHANGED <<storageVars, pending, readers, stateWriter, recv, fetch, envVars>>

\* The condition of the inner loop: leave it when stopping, else ask
\* _has_runnable_job, which takes the reader lock.
Predicate ==
    /\ sched.pc = "predicate"
    /\ IF Running
       THEN /\ CanRead
            /\ readers' = readers \cup {Sched}
            /\ sched' = [sched EXCEPT !.pc = "scan", !.i = 1]
            /\ UNCHANGED cv
       ELSE /\ cv' = Nothing
            /\ sched' = [sched EXCEPT !.pc = "pop"]
            /\ UNCHANGED readers
    /\ UNCHANGED <<storageVars, pending, stateWriter, recv, fetch, envVars>>

\* The body of _has_runnable_job for one job; at the end, wait.
HasRunnableJob ==
    /\ sched.pc = "scan" /\ StorageFree
    /\ \/ /\ sched.i <= Len(pending)
          /\ \E can \in SystemCanRun(pending[sched.i]) : ~Runnable(pending[sched.i], can)
          /\ sched' = [sched EXCEPT !.i = @ + 1]
          /\ UNCHANGED <<readers, cv>>
       \/ /\ \/ /\ sched.i <= Len(pending)
                /\ \E can \in SystemCanRun(pending[sched.i]) : Runnable(pending[sched.i], can)
                /\ sched' = [sched EXCEPT !.pc = "pop", !.i = 0]
             \/ /\ sched.i > Len(pending)
                /\ sched' = [sched EXCEPT !.pc = "wait", !.i = 0]
          /\ readers' = readers \ {Sched}
          /\ cv' = Nothing
    /\ UNCHANGED <<storageVars, pending, stateWriter, recv, fetch, envVars>>

PopLock ==
    /\ sched.pc = "pop" /\ CanWrite
    /\ stateWriter' = Sched
    /\ sched' = [sched EXCEPT !.pc = "popping", !.i = Len(pending)]
    /\ UNCHANGED <<storageVars, pending, readers, cv, recv, fetch, envVars>>

\* Mutant of PopNextRunnableJob: a job that cannot run is not put back.
PopNextRunnableJobDrops ==
    /\ sched.pc = "popping" /\ StorageFree
    /\ IF sched.i = 0
       THEN sched' = [sched EXCEPT !.pc = "loop"] /\ stateWriter' = Nothing /\ UNCHANGED pending
       ELSE /\ pending' = Tail(pending)
            /\ \E can \in SystemCanRun(Head(pending)) :
                  IF Runnable(Head(pending), can)
                  THEN sched' = [sched EXCEPT !.pc = "start", !.job = Head(pending), !.i = 0] /\ stateWriter' = Nothing
                  ELSE sched' = [sched EXCEPT !.i = @ - 1] /\ UNCHANGED stateWriter
    /\ UNCHANGED <<storageVars, readers, cv, recv, fetch, envVars>>

\* Mutant of PopNextRunnableJob: the first job, which has or has not its inputs.
PopNextRunnableJobFirst ==
    /\ sched.pc = "popping" /\ StorageFree
    /\ stateWriter' = Nothing
    /\ IF sched.i = 0
       THEN sched' = [sched EXCEPT !.pc = "loop"] /\ UNCHANGED pending
       ELSE /\ pending' = Tail(pending)
            /\ sched' = [sched EXCEPT !.pc = "start", !.job = Head(pending), !.i = 0]
    /\ UNCHANGED <<storageVars, readers, cv, recv, fetch, envVars>>

\* The body of _pop_next_runnable_job for one job.
PopNextRunnableJob ==
    /\ sched.pc = "popping" /\ StorageFree
    /\ IF sched.i = 0
       THEN sched' = [sched EXCEPT !.pc = "loop"] /\ stateWriter' = Nothing /\ UNCHANGED pending
       ELSE LET j == Head(pending)
            IN  \E can \in SystemCanRun(j) :
                IF Runnable(j, can)
                THEN /\ sched' = [sched EXCEPT !.pc = "start", !.job = j, !.i = 0]
                     /\ pending' = Tail(pending)
                     /\ stateWriter' = Nothing
                ELSE /\ sched' = [sched EXCEPT !.i = @ - 1]
                     /\ pending' = Append(Tail(pending), j)
                     /\ UNCHANGED stateWriter
    /\ UNCHANGED <<storageVars, readers, cv, recv, fetch, envVars>>

\* _run_job takes the writer lock.
RunLock ==
    /\ sched.pc = "start" /\ CanWrite
    /\ stateWriter' = Sched
    /\ sched' = [sched EXCEPT !.pc = "prepare"]
    /\ UNCHANGED <<storageVars, pending, readers, cv, recv, fetch, envVars>>

\* _prepare_wasi_environment copies the inputs; NoSuchNameError drops the job.
Prepare ==
    /\ sched.pc = "prepare" /\ StorageFree
    /\ stateWriter' = Nothing
    /\ IF CanCopy(Required(sched.job))
       THEN sched' = [sched EXCEPT !.pc = "exec"] /\ UNCHANGED <<failed, db>>
       ELSE /\ sched' = [sched EXCEPT !.pc = "finally", !.job = Nothing]
            /\ failed' = failed \cup {sched.job}
            /\ Cleanup(MissingFiles(Required(sched.job)))
    /\ UNCHANGED <<blobs, writer, storing, interrupted, vanished>>
    /\ UNCHANGED <<pending, readers, cv, recv, fetch, inbox, gets, completed, lost, stopping, faults>>

\* The module ends, with all its named results or, when it fails, with none, and
\* the broker is told that the job is completed.
Execute ==
    /\ sched.pc = "exec"
    /\ \E results \in {Produces(sched.job), {}} : sched' = [sched EXCEPT !.pc = "store", !.left = results]
    /\ completed' = completed \cup {sched.job}
    /\ UNCHANGED <<storageVars, pending, readers, stateWriter, cv, recv, fetch>>
    /\ UNCHANGED <<inbox, gets, failed, lost, stopping, faults>>

ResultsStored ==
    /\ sched.pc = "store" /\ sched.left = {}
    /\ sched' = [sched EXCEPT !.pc = "finally", !.job = Nothing]
    /\ UNCHANGED <<storageVars, pending, readers, stateWriter, cv, recv, fetch, envVars>>

\* finally: nobody else waits for the condition variable.
Finally ==
    /\ sched.pc = "finally" /\ cv = Nothing
    /\ sched' = [sched EXCEPT !.pc = "loop"]
    /\ UNCHANGED <<storageVars, pending, readers, stateWriter, cv, recv, fetch, envVars>>

\* Mutant of Loop: it goes on when stopping.
LoopForever ==
    /\ sched.pc = "loop"
    /\ sched' = Checking
    /\ UNCHANGED <<storageVars, pending, readers, stateWriter, cv, recv, fetch, envVars>>

Loop ==
    /\ sched.pc = "loop"
    /\ sched' = IF Running THEN Checking ELSE [Checking EXCEPT !.pc = "done"]
    /\ UNCHANGED <<storageVars, pending, readers, stateWriter, cv, recv, fetch, envVars>>

-----------------------------------------------------------------------------
(* The fetcher                                                                *)

FetchLock ==
    /\ fetch.pc = "start" /\ Running /\ CanRead
    /\ readers' = readers \cup {Fetch}
    /\ fetch' = [pc |-> "scan", i |-> 1, missing |-> {}]
    /\ UNCHANGED <<storageVars, pending, stateWriter, cv, recv, sched, envVars>>

\* The body of the loop for one job; then one request per missing name, of which
\* those that no datastore can answer are left out.
FetchMissingData ==
    /\ fetch.pc = "scan" /\ StorageFree
    /\ IF fetch.i <= Len(pending)
       THEN /\ fetch' = [fetch EXCEPT !.i = @ + 1, !.missing = @ \cup FindMissing(Required(pending[fetch.i]))]
            /\ UNCHANGED <<readers, gets>>
       ELSE /\ fetch' = [Fetching EXCEPT !.pc = "sleep"]
            /\ readers' = readers \ {Fetch}
            /\ gets' = gets \cup (fetch.missing \cap Published)
    /\ UNCHANGED <<storageVars, pending, stateWriter, cv, recv, sched>>
    /\ UNCHANGED <<inbox, completed, failed, lost, stopping, faults>>

FetchSleeps ==
    /\ fetch.pc = "sleep" \/ (fetch.pc = "start" /\ ~Running)
    /\ fetch' = [fetch EXCEPT !.pc = IF Running THEN "start" ELSE "done"]
    /\ UNCHANGED <<storageVars, pending, readers, stateWriter, cv, recv, sched, envVars>>

-----------------------------------------------------------------------------
(* Stop and the environment                                                   *)

Stop ==
    /\ Running
    /\ stopping' = "set"
    /\ UNCHANGED <<storageVars, taskVars, inbox, gets, completed, failed, lost, faults>>

\* stop goes on when the receive task has ended.
StopNotify ==
    /\ stopping = "set" /\ recv.pc = "done" /\ cv = Nothing
    /\ stopping' = "notified"
    /\ sched' = Notified
    /\ UNCHANGED <<storageVars, pending, readers, stateWriter, cv, recv, fetch>>
    /\ UNCHANGED <<inbox, gets, completed, failed, lost, faults>>

\* Jobs that are only in the memory of the process.
InMemory ==
    Range(pending) \cup ({sched.job} \cap (Jobs \ completed))
                   \cup (IF recv.pc = "store" THEN {recv.bundle} \cap Jobs ELSE {})

\* The process is killed and started again.
Restart ==
    /\ faults < MaxFaults /\ Running
    /\ faults' = faults + 1
    /\ Interrupt(Tasks)
    /\ lost' = lost \cup InMemory
    /\ pending' = <<>> /\ readers' = {} /\ stateWriter' = Nothing /\ cv' = Nothing
    /\ recv' = Idle /\ sched' = Checking /\ fetch' = Fetching
    /\ UNCHANGED <<db, blobs, vanished, inbox, gets, completed, failed, stopping>>

VanishBlob ==
    /\ faults < MaxFaults
    /\ faults' = faults + 1
    /\ \E c \in Contents : Vanish(c)
    /\ UNCHANGED <<taskVars, inbox, gets, completed, failed, lost, stopping>>

\* A datastore that has the data answers a request.
Answer(n) ==
    /\ n \in gets
    /\ gets' = gets \ {n}
    /\ inbox' = inbox \cup {n}
    /\ UNCHANGED <<storageVars, taskVars, completed, failed, lost, stopping, faults>>

LoseRequest ==
    /\ faults < MaxFaults
    /\ faults' = faults + 1
    /\ \E n \in gets : gets' = gets \ {n}
    /\ UNCHANGED <<storageVars, taskVars, inbox, completed, failed, lost, stopping>>

-----------------------------------------------------------------------------

Init ==
    /\ StorageInit
    /\ inbox = Jobs /\ pending = <<>>
    /\ readers = {} /\ stateWriter = Nothing /\ cv = Nothing
    /\ recv = Idle /\ sched = Checking /\ fetch = Fetching
    /\ gets = {} /\ completed = {} /\ failed = {} /\ lost = {}
    /\ stopping = "no" /\ faults = 0

Ended == recv.pc = "done" /\ sched.pc = "done" /\ fetch.pc = "done" /\ stopping = "notified"

RecvStep == Receive \/ StoreOne(Recv) \/ Enqueue \/ Notify \/ ReceiveEnds
SchedStep ==
    \/ EnterCv \/ Predicate \/ HasRunnableJob \/ PopLock \/ PopNextRunnableJob \/ RunLock
    \/ Prepare \/ Execute \/ StoreOne(Sched) \/ ResultsStored \/ Finally \/ Loop
FetchStep == FetchLock \/ FetchMissingData \/ FetchSleeps

Next ==
    \/ RecvStep \/ SchedStep \/ FetchStep
    \/ Stop \/ StopNotify \/ Restart \/ VanishBlob \/ LoseRequest
    \/ \E n \in Names : Answer(n)
    \/ Ended /\ UNCHANGED vars

Spec == Init /\ [][Next]_vars

\* The event loop runs every task that is ready, the locks serve those that wait
\* in turn (hence the strong fairness of tasks that compete for them), and a
\* datastore answers.
FairSpec ==
    /\ Spec
    /\ SF_vars(RecvStep) /\ SF_vars(SchedStep) /\ SF_vars(FetchStep)
    /\ SF_vars(StopNotify) /\ \A n \in Published : WF_vars(Answer(n))

-----------------------------------------------------------------------------
(* Properties                                                                 *)

\* Types, and the exclusion that the locks of the executor give.
TypeOK ==
    /\ StorageTypeOK
    /\ inbox \subseteq Jobs \cup Names /\ gets \subseteq Names
    /\ pending \in Seq(Jobs)
    /\ readers \subseteq {Sched, Fetch} /\ stateWriter \in {Sched, Nothing} /\ cv \in {Sched, Nothing}
    /\ stateWriter # Nothing => readers = {}
    /\ completed \cup failed \cup lost \subseteq Jobs

\* Where a job may be.
Places == <<inbox, Range(pending), IF recv.pc = "store" THEN {recv.bundle} ELSE {},
            {sched.job} \ completed, completed, failed, lost>>

\* No job is dropped or run twice between its arrival and its end: it is in one
\* place, and once in the deque, through rotations, failures and restarts.
JobsAreKept ==
    /\ IsInjective(pending)
    /\ \A j \in Jobs : \E p \in DOMAIN Places : \A q \in DOMAIN Places : j \in Places[q] <=> q = p

\* An entry of the database has a whole file, however the tasks' calls of store_data
\* for one content interleave, except after a crash in a write or a removal.
EntriesAreWhole ==
    \A n \in DOMAIN db : blobs[db[n]] = "whole" \/ db[n] \in interrupted \cup vanished

\* No task changes the deque while another one iterates over it: what is left of
\* an iteration is there ("deque mutated during iteration" would end the executor).
IterationIsStable ==
    [][/\ sched.pc = "scan" => pending' = pending \/ sched'.pc # "scan"
       /\ fetch.pc = "scan" => pending' = pending \/ fetch'.pc # "scan"]_vars

\* A job fails for want of an input only if a file was removed: between the check
\* in the pop and the copies in _run_job no input goes away by itself.
FailuresAreExplained == failed # {} => vanished # {}

\* A job whose inputs a datastore has is run, past jobs that cannot run, though
\* requests get lost; jobs the system is not capable of for a while are excepted,
\* as nothing wakes the scheduler when that changes.
JobsAreRun ==
    \A j \in {k \in Jobs \ Heavy : Required(k) \subseteq Published} :
        (j \in Range(pending)) ~> (j \notin Range(pending) \/ ~Running)

\* stop ends all tasks, whatever they wait for.
StopEnds == (stopping # "no") ~> Ended
=============================================================================
