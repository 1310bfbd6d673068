--------------------------- MODULE RecExecutorProofs ---------------------------
(***************************************************************************)
(* For any jobs and data: the locks exclude, nobody changes the deque of   *)
(* pending jobs under an iteration, entries of the database are whole, and *)
(* a job fails for want of an input only after a file was removed.         *)
(***************************************************************************)
EXTENDS RecExecutor, RecDatastoreProofs

-----------------------------------------------------------------------------
(* Where a job is                                                            *)

InRecv(j)  == recv.pc = "store" /\ recv.bundle = j
InSched(j) == sched.job = j /\ j \notin completed
InDeque(j) == j \in Range(pending)

ExactlyOne(a, b, c, d, e, f, g) ==
    /\ a \/ b \/ c \/ d \/ e \/ f \/ g
    /\ a => ~(b \/ c \/ d \/ e \/ f \/ g)
    /\ b => ~(c \/ d \/ e \/ f \/ g)
    /\ c => ~(d \/ e \/ f \/ g)
    /\ d => ~(e \/ f \/ g)
    /\ e => ~(f \/ g)
    /\ f => ~g

Kept(j) == ExactlyOne(j \in inbox, InDeque(j), InRecv(j), InSched(j), j \in completed, j \in failed, j \in lost)

\* A job that was popped has not been reported, one whose results are stored has,
\* and otherwise the scheduler has none.
SchedJob ==
    /\ sched.pc \in {"start", "prepare", "exec"} => sched.job \in Jobs \ completed
    /\ sched.pc = "store" => sched.job \in completed
    /\ sched.pc \notin {"start", "prepare", "exec", "store"} => sched.job = Nothing

KeptInv == SchedJob /\ IsInjective(pending) /\ \A j \in Jobs : Kept(j)

\* Kept says what JobsAreKept says of a job.
LEMMA KeptMeans ==
    ASSUME NEW j, Kept(j)
    PROVE  \E p \in DOMAIN Places : \A q \in DOMAIN Places : j \in Places[q] <=> q = p
<1>1. DOMAIN Places = 1 .. 7
  BY DEF Places
<1>2. /\ j \in Places[1] <=> j \in inbox
      /\ j \in Places[2] <=> InDeque(j)
      /\ j \in Places[3] <=> InRecv(j)
      /\ j \in Places[4] <=> InSched(j)
      /\ j \in Places[5] <=> j \in completed
      /\ j \in Places[6] <=> j \in failed
      /\ j \in Places[7] <=> j \in lost
  BY DEF Places, InDeque, InRecv, InSched
<1>3. \A q \in 1 .. 7 : q = 1 \/ q = 2 \/ q = 3 \/ q = 4 \/ q = 5 \/ q = 6 \/ q = 7
  OBVIOUS
<1>4. \E p \in 1 .. 7 : \A q \in 1 .. 7 : j \in Places[q] <=> q = p
  <2>1. \E p \in 1 .. 7 : j \in Places[p]
    BY <1>2 DEF Kept, ExactlyOne
  <2>2. \A p, q \in 1 .. 7 : j \in Places[p] /\ j \in Places[q] => p = q
    BY <1>2, <1>3 DEF Kept, ExactlyOne
  <2> QED BY <2>1, <2>2
<1> QED BY <1>1, <1>4

LEMMA KeptJobs == KeptInv => JobsAreKept
BY KeptMeans DEF KeptInv, JobsAreKept

LEMMA AppendRange ==
    ASSUME NEW S, NEW s \in Seq(S), NEW x \in S
    PROVE  /\ \A y : y \in Range(Append(s, x)) <=> y \in Range(s) \/ y = x
           /\ IsInjective(s) /\ x \notin Range(s) => IsInjective(Append(s, x))
<1> DEFINE t == Append(s, x)
           n == Len(s)
<1>1. /\ n \in Nat /\ DOMAIN s = 1 .. n /\ DOMAIN t = 1 .. n + 1
      /\ t[n + 1] = x /\ \A i \in 1 .. n : t[i] = s[i]
  OBVIOUS
<1>2. \A i \in 1 .. n + 1 : i \in 1 .. n \/ i = n + 1
  BY <1>1
<1>3. \A i \in 1 .. n : i \in 1 .. n + 1
  BY <1>1
<1>4. n + 1 \in 1 .. n + 1
  BY <1>1
<1> HIDE DEF t, n
<1>5. \A y : y \in Range(t) <=> y \in Range(s) \/ y = x
  BY <1>1, <1>2, <1>3, <1>4 DEF Range
<1>6. IsInjective(s) /\ x \notin Range(s) => IsInjective(t)
  BY <1>1, <1>2 DEF IsInjective, Range
<1> QED BY <1>5, <1>6 DEF t

LEMMA TailRange ==
    ASSUME NEW S, NEW s \in Seq(S), s # <<>>, IsInjective(s)
    PROVE  /\ \A y : y \in Range(Tail(s)) <=> y \in Range(s) /\ y # Head(s)
           /\ IsInjective(Tail(s)) /\ Head(s) \in Range(s)
<1> DEFINE t == Tail(s)
           n == Len(s)
<1>1. /\ n \in Nat \ {0} /\ DOMAIN s = 1 .. n /\ DOMAIN t = 1 .. n - 1
      /\ Head(s) = s[1] /\ \A i \in 1 .. n - 1 : t[i] = s[i + 1]
  OBVIOUS
<1>2. \A i \in 1 .. n : i = 1 \/ (i - 1 \in 1 .. n - 1 /\ (i - 1) + 1 = i)
  BY <1>1
<1>3. \A i \in 1 .. n - 1 : i + 1 \in 1 .. n /\ i + 1 # 1
  BY <1>1
<1>4. \A i, k \in 1 .. n - 1 : i + 1 = k + 1 => i = k
  BY <1>1
<1>5. 1 \in 1 .. n
  BY <1>1
<1> HIDE DEF t, n
<1>6. ASSUME NEW y PROVE y \in Range(t) <=> y \in Range(s) /\ y # Head(s)
  <2>1. ASSUME y \in Range(t) PROVE y \in Range(s) /\ y # Head(s)
    <3>1. PICK i \in 1 .. n - 1 : y = s[i + 1]
      BY <1>1, <2>1 DEF Range
    <3> QED BY <1>1, <1>3, <1>5, <3>1 DEF Range, IsInjective
  <2>2. ASSUME y \in Range(s), y # Head(s) PROVE y \in Range(t)
    <3>1. PICK i \in 1 .. n : y = s[i]
      BY <1>1, <2>2 DEF Range
    <3>2. i - 1 \in 1 .. n - 1 /\ t[i - 1] = y
      BY <1>1, <1>2, <2>2, <3>1
    <3> QED BY <1>1, <3>2 DEF Range
  <2> QED BY <2>1, <2>2
<1>7. IsInjective(t)
  <2>1. ASSUME NEW i \in 1 .. n - 1, NEW j \in 1 .. n - 1, t[i] = t[j] PROVE i = j
    <3>1. i + 1 \in 1 .. n /\ j + 1 \in 1 .. n /\ s[i + 1] = s[j + 1]
      BY <1>1, <1>3, <2>1
    <3>2. i + 1 = j + 1
      BY <1>1, <1>3, <3>1 DEF IsInjective
    <3> QED BY <1>4, <3>2
  <2> QED BY <1>1, <2>1 DEF IsInjective
<1>8. Head(s) \in Range(s)
  BY <1>1, <1>5 DEF Range
<1> QED BY <1>6, <1>7, <1>8 DEF t

\* The tasks at their start, and an empty deque.
LEMMA AtRest ==
    /\ Idle.pc = "poll" /\ Checking.pc = "check" /\ Checking.job = Nothing
    /\ Range(<<>>) = {} /\ IsInjective(<<>>) /\ Nothing \notin Jobs
BY RecExecutorConstants DEF Idle, Checking, Range, IsInjective

LEMMA InitKept == Init => KeptInv
<1> SUFFICES ASSUME Init PROVE KeptInv OBVIOUS
<1>1. /\ sched.pc = "check" /\ sched.job = Nothing /\ recv.pc = "poll"
      /\ Range(pending) = {} /\ IsInjective(pending) /\ Nothing \notin Jobs
  BY AtRest DEF Init
<1>2. ASSUME NEW j \in Jobs PROVE ~InDeque(j) /\ ~InRecv(j) /\ ~InSched(j)
  BY <1>1 DEF InDeque, InRecv, InSched
<1>3. inbox = Jobs /\ completed = {} /\ failed = {} /\ lost = {}
  BY DEF Init
<1> QED BY <1>1, <1>2, <1>3 DEF KeptInv, SchedJob, Kept, ExactlyOne

-----------------------------------------------------------------------------
(* The executor                                                              *)

SchedPcs == {"check", "predicate", "scan", "wait", "woken", "pop", "popping", "start", "prepare",
             "exec", "store", "finally", "loop", "done"}

Types ==
    /\ inbox \subseteq Jobs \cup Names /\ gets \subseteq Names
    /\ pending \in Seq(Jobs)
    /\ recv \in [pc : {"poll", "store", "notify", "done"}, bundle : Jobs \cup Names \cup {Nothing}, left : SUBSET Names]
    /\ sched \in [pc : SchedPcs, job : Jobs \cup {Nothing}, left : SUBSET Names, i : Nat]
    /\ fetch \in [pc : {"start", "scan", "sleep", "done"}, i : Nat, missing : SUBSET Names]
    /\ completed \cup failed \cup lost \subseteq Jobs

\* Who holds the locks follows from where the tasks are.
LocksAt(spc, fpc, r, w, c) ==
    /\ r = {x \in {Sched, Fetch} : IF x = Sched THEN spc = "scan" ELSE fpc = "scan"}
    /\ w = IF spc \in {"popping", "prepare"} THEN Sched ELSE Nothing
    /\ c = IF spc \in {"predicate", "scan"} THEN Sched ELSE Nothing
    /\ w # Nothing => r = {}

Locks == LocksAt(sched.pc, fetch.pc, readers, stateWriter, cv)

\* A job that was popped has its inputs; a rotation stays within the deque.
JobInHand ==
    /\ sched.pc \in {"start", "prepare", "exec"} => sched.job \in Jobs
    /\ sched.pc \in {"start", "prepare"} => Required(sched.job) \subseteq DOMAIN db
    /\ sched.pc = "popping" => sched.i <= Len(pending)
    /\ fetch.pc = "scan" => fetch.i # 0
    /\ failed # {} => vanished # {}

ExecInv == StorageInv /\ Types /\ Locks /\ JobInHand

\* What IterationIsStable says of a step.
Stable ==
    /\ sched.pc = "scan" => pending' = pending \/ sched'.pc # "scan"
    /\ fetch.pc = "scan" => pending' = pending \/ fetch'.pc # "scan"

-----------------------------------------------------------------------------
LEMMA ExecInitInv == Init => ExecInv
<1> SUFFICES ASSUME Init PROVE ExecInv OBVIOUS
<1>1. StorageInv
  BY StorageInitInv DEF Init
<1>2. Types
  BY DEF Init, Types, Idle, Checking, Fetching, SchedPcs
<1>3. sched.pc = "check" /\ fetch.pc = "start"
  BY DEF Init, Checking, Fetching
<1>4. Locks
  BY <1>3 DEF Init, Locks, LocksAt
<1>5. JobInHand
  BY <1>3 DEF Init, JobInHand
<1> QED BY <1>1, <1>2, <1>4, <1>5 DEF ExecInv

\* The scheduler changes its place in a way that touches no lock.
LEMMA NoLock ==
    ASSUME Locks, UNCHANGED <<readers, stateWriter, cv>>, fetch'.pc = "scan" <=> fetch.pc = "scan",
           sched'.pc = sched.pc \/
           {sched.pc, sched'.pc} \cap {"predicate", "scan", "popping", "prepare"} = {}
    PROVE  Locks'
<1>1. \A pc \in {"predicate", "scan", "popping", "prepare"} : sched'.pc = pc <=> sched.pc = pc
  OBVIOUS
<1> QED BY <1>1 DEF Locks, LocksAt

LEMMA NotifiedPc ==
    ASSUME Types
    PROVE  /\ Notified \in [pc : SchedPcs, job : Jobs \cup {Nothing}, left : SUBSET Names, i : Nat]
           /\ Notified.job = sched.job /\ Notified.i = sched.i
           /\ Notified.pc = sched.pc \/ (sched.pc = "wait" /\ Notified.pc = "woken")
BY DEF Types, Notified, SchedPcs

\* Steps that leave the storage and the scheduler's place alone.
LEMMA OtherTask ==
    ASSUME ExecInv, UNCHANGED storageVars, Types', Locks', UNCHANGED <<sched, failed>>,
           fetch' = fetch \/ (fetch'.pc = "scan" => fetch'.i # 0),
           pending' = pending \/ (sched.pc # "popping" /\ Stable)
    PROVE  ExecInv' /\ Stable
<1>1. StorageInv' /\ db' = db /\ vanished' = vanished
  BY StorageUnchanged DEF ExecInv, storageVars
<1>2. JobInHand'
  BY <1>1 DEF ExecInv, JobInHand
<1> QED BY <1>1, <1>2 DEF ExecInv, Stable

-----------------------------------------------------------------------------
(* The receive task, and what the tasks store                                *)

LEMMA StoreOneInv ==
    ASSUME ExecInv, NEW t \in Tasks, StoreOne(t) PROVE ExecInv' /\ Stable
<1>1. /\ UNCHANGED <<pending, readers, stateWriter, cv, fetch, envVars>>
      /\ LeftIn(t) \subseteq Names
  BY DEF StoreOne, LeftIn, ExecInv, Types
<1>2. StorageInv' /\ Grows /\ vanished' = vanished
  <2>1. ASSUME NEW n \in LeftIn(t), StoreOpen(t, n, Content(n)) \/ StoreAtOnce(n, Content(n))
        PROVE  StorageInv' /\ Grows /\ vanished' = vanished
    <3>1. n \in Names /\ Content(n) \in Contents
      BY <1>1, RecExecutorConstants
    <3> QED BY <2>1, <3>1, StoreOpenInv, StoreAtOnceInv DEF ExecInv, StoreOpen, StoreAtOnce
  <2>2. CASE StoreWrite(t)
    BY <2>2, StoreWriteInv DEF ExecInv, StoreWrite
  <2>3. CASE StoreInsert(t)
    BY <2>3, StoreInsertInv DEF ExecInv, StoreInsert
  <2> QED BY <2>1, <2>2, <2>3 DEF StoreOne
<1>3. \/ UNCHANGED <<recv, sched>>
      \/ \E n : recv' = [recv EXCEPT !.left = @ \ {n}] /\ UNCHANGED sched
      \/ \E n : sched' = [sched EXCEPT !.left = @ \ {n}] /\ UNCHANGED recv
  <2>1. ASSUME NEW n, Stored(t, n)
        PROVE  \/ recv' = [recv EXCEPT !.left = @ \ {n}] /\ UNCHANGED sched
               \/ sched' = [sched EXCEPT !.left = @ \ {n}] /\ UNCHANGED recv
    BY <2>1 DEF Stored
  <2> QED BY <2>1 DEF StoreOne
<1>4. /\ recv' \in [pc : {"poll", "store", "notify", "done"}, bundle : Jobs \cup Names \cup {Nothing}, left : SUBSET Names]
      /\ sched' \in [pc : SchedPcs, job : Jobs \cup {Nothing}, left : SUBSET Names, i : Nat]
      /\ sched'.pc = sched.pc /\ sched'.job = sched.job /\ sched'.i = sched.i
  BY <1>3 DEF ExecInv, Types
<1>5. Types'
  BY <1>1, <1>4 DEF ExecInv, Types, envVars
<1>6. Locks'
  BY <1>1, <1>4 DEF ExecInv, Locks
<1>7. JobInHand'
  BY <1>1, <1>2, <1>4 DEF ExecInv, JobInHand, Grows, envVars
<1> QED BY <1>1, <1>2, <1>5, <1>6, <1>7 DEF ExecInv, Stable

LEMMA ReceiveInv == ExecInv /\ Receive => ExecInv' /\ Stable
<1> SUFFICES ASSUME ExecInv, Receive PROVE ExecInv' /\ Stable OBVIOUS
<1>1. UNCHANGED <<storageVars, pending, readers, stateWriter, cv, sched, fetch, gets, completed, failed, lost>>
  BY DEF Receive
<1>2. PICK b \in inbox :
         /\ inbox' = inbox \ {b}
         /\ recv' = [pc |-> "store", bundle |-> b, left |-> IF b \in Jobs THEN Provided(b) ELSE {b}]
  BY DEF Receive
<1>3. b \in Jobs \cup Names /\ (IF b \in Jobs THEN Provided(b) ELSE {b}) \subseteq Names
  BY RecExecutorConstants DEF ExecInv, Types
<1>4. Types'
  BY <1>1, <1>2, <1>3 DEF ExecInv, Types
<1>5. Locks'
  BY <1>1, NoLock DEF ExecInv
<1> QED BY <1>1, <1>4, <1>5, OtherTask

LEMMA EnqueueInv == ExecInv /\ Enqueue => ExecInv' /\ Stable
<1> SUFFICES ASSUME ExecInv, Enqueue PROVE ExecInv' /\ Stable OBVIOUS
<1>1. /\ UNCHANGED <<storageVars, readers, stateWriter, cv, sched, fetch, envVars>>
      /\ recv.bundle \in Jobs /\ pending' = Append(pending, recv.bundle)
      /\ recv' = [recv EXCEPT !.pc = "notify"] /\ readers = {} /\ stateWriter = Nothing
  BY DEF Enqueue, CanWrite
<1>2. Types'
  <2>1. pending' \in Seq(Jobs)
    BY <1>1 DEF ExecInv, Types
  <2>2. recv' \in [pc : {"poll", "store", "notify", "done"}, bundle : Jobs \cup Names \cup {Nothing}, left : SUBSET Names]
    BY <1>1 DEF ExecInv, Types
  <2> QED BY <1>1, <2>1, <2>2 DEF ExecInv, Types, envVars
<1>3. Locks'
  BY <1>1, NoLock DEF ExecInv
<1>4. sched.pc # "popping" /\ sched.pc # "scan" /\ fetch.pc # "scan"
  BY <1>1, RecExecutorConstants, RecStorageConstants DEF ExecInv, Locks, LocksAt
<1> QED BY <1>1, <1>2, <1>3, <1>4, OtherTask DEF Stable, envVars

\* Steps in which a waiting scheduler may be woken and nothing else changes.
LEMMA WakeInv ==
    ASSUME ExecInv, sched' = Notified, UNCHANGED <<storageVars, pending, readers, stateWriter, cv, fetch>>,
           UNCHANGED <<inbox, gets, completed, failed, lost>>,
           recv' = recv \/ recv' = Idle
    PROVE  ExecInv' /\ Stable
<1>1. /\ sched' \in [pc : SchedPcs, job : Jobs \cup {Nothing}, left : SUBSET Names, i : Nat]
      /\ sched'.job = sched.job /\ sched'.i = sched.i
      /\ sched'.pc = sched.pc \/ (sched.pc = "wait" /\ sched'.pc = "woken")
  BY NotifiedPc DEF ExecInv
<1>2. recv' \in [pc : {"poll", "store", "notify", "done"}, bundle : Jobs \cup Names \cup {Nothing}, left : SUBSET Names]
  BY DEF Idle, ExecInv, Types
<1>3. Types'
  BY <1>1, <1>2 DEF ExecInv, Types
<1>4. Locks'
  BY <1>1, NoLock DEF ExecInv
<1>5. StorageInv' /\ db' = db /\ vanished' = vanished
  BY StorageUnchanged DEF ExecInv, storageVars
<1>6. JobInHand'
  BY <1>1, <1>5 DEF ExecInv, JobInHand
<1> QED BY <1>3, <1>4, <1>5, <1>6 DEF ExecInv, Stable

LEMMA NotifyInv == ExecInv /\ Notify => ExecInv' /\ Stable
BY WakeInv DEF Notify, envVars

LEMMA StopNotifyInv == ExecInv /\ StopNotify => ExecInv' /\ Stable
BY WakeInv DEF StopNotify

LEMMA ReceiveEndsInv == ExecInv /\ ReceiveEnds => ExecInv' /\ Stable
<1> SUFFICES ASSUME ExecInv, ReceiveEnds PROVE ExecInv' /\ Stable OBVIOUS
<1>1. /\ UNCHANGED <<storageVars, pending, readers, stateWriter, cv, sched, fetch, envVars>>
      /\ recv' = [recv EXCEPT !.pc = "done"]
  BY DEF ReceiveEnds
<1>2. Types'
  BY <1>1 DEF ExecInv, Types, envVars
<1>3. Locks'
  BY <1>1, NoLock DEF ExecInv
<1> QED BY <1>1, <1>2, <1>3, OtherTask DEF envVars

-----------------------------------------------------------------------------
(* The scheduler                                                             *)

\* A step of the scheduler that stores nothing: its new place, the locks that go
\* with it, and the job in hand.
LEMMA SchedInv ==
    ASSUME ExecInv, UNCHANGED <<storageVars, recv, fetch, inbox, gets, failed, lost>>,
           sched' \in [pc : SchedPcs, job : Jobs \cup {Nothing}, left : SUBSET Names, i : Nat],
           pending' \in Seq(Jobs), completed' \subseteq Jobs,
           pending' = pending \/ stateWriter = Sched,
           Locks',
           sched'.pc \in {"start", "prepare", "exec"} => sched'.job \in Jobs,
           sched'.pc \in {"start", "prepare"} => Required(sched'.job) \subseteq DOMAIN db,
           sched'.pc = "popping" => sched'.i <= Len(pending')
    PROVE  ExecInv' /\ Stable
<1>1. StorageInv' /\ db' = db /\ vanished' = vanished
  BY StorageUnchanged DEF ExecInv, storageVars
<1>2. Types'
  BY DEF ExecInv, Types
<1>3. JobInHand'
  BY <1>1 DEF ExecInv, JobInHand
<1>4. stateWriter = Sched => sched.pc # "scan" /\ fetch.pc # "scan"
  BY RecExecutorConstants, RecStorageConstants DEF ExecInv, Locks, LocksAt
<1> QED BY <1>1, <1>2, <1>3, <1>4 DEF ExecInv, Stable

LEMMA EnterCvInv == ExecInv /\ EnterCv => ExecInv' /\ Stable
<1> SUFFICES ASSUME ExecInv, EnterCv PROVE ExecInv' /\ Stable OBVIOUS
<1>1. /\ sched.pc \in {"check", "woken"} /\ cv' = Sched /\ sched' = [sched EXCEPT !.pc = "predicate"]
      /\ UNCHANGED <<storageVars, pending, readers, stateWriter, recv, fetch, envVars>>
  BY DEF EnterCv
<1>2. /\ sched' \in [pc : SchedPcs, job : Jobs \cup {Nothing}, left : SUBSET Names, i : Nat]
      /\ sched'.pc = "predicate"
  BY <1>1 DEF ExecInv, Types, SchedPcs
<1>3. Locks'
  BY <1>1, <1>2 DEF ExecInv, Locks, LocksAt
<1>4. pending \in Seq(Jobs) /\ completed \subseteq Jobs
  BY DEF ExecInv, Types
<1> QED BY <1>1, <1>2, <1>3, <1>4, SchedInv DEF envVars

LEMMA PredicateInv == ExecInv /\ Predicate => ExecInv' /\ Stable
<1> SUFFICES ASSUME ExecInv, Predicate PROVE ExecInv' /\ Stable OBVIOUS
<1>1. /\ sched.pc = "predicate"
      /\ UNCHANGED <<storageVars, pending, stateWriter, recv, fetch, envVars>>
      /\ \/ /\ readers' = readers \cup {Sched} /\ sched' = [sched EXCEPT !.pc = "scan", !.i = 1]
            /\ cv' = cv /\ stateWriter = Nothing
         \/ /\ cv' = Nothing /\ sched' = [sched EXCEPT !.pc = "pop"] /\ readers' = readers
  BY DEF Predicate, CanRead
<1>2. /\ sched' \in [pc : SchedPcs, job : Jobs \cup {Nothing}, left : SUBSET Names, i : Nat]
      /\ \/ sched'.pc = "scan" /\ readers' = readers \cup {Sched} /\ cv' = cv /\ stateWriter = Nothing
         \/ sched'.pc = "pop" /\ cv' = Nothing /\ readers' = readers
  <2>1. sched \in [pc : SchedPcs, job : Jobs \cup {Nothing}, left : SUBSET Names, i : Nat]
    BY DEF ExecInv, Types
  <2>2. CASE sched' = [sched EXCEPT !.pc = "scan", !.i = 1]
    BY <1>1, <2>1, <2>2 DEF SchedPcs
  <2>3. CASE sched' = [sched EXCEPT !.pc = "pop"]
    BY <1>1, <2>1, <2>3 DEF SchedPcs
  <2> QED BY <1>1, <2>2, <2>3
<1>3. Locks'
  BY <1>1, <1>2 DEF ExecInv, Locks, LocksAt
<1>4. pending \in Seq(Jobs) /\ completed \subseteq Jobs
  BY DEF ExecInv, Types
<1> QED BY <1>1, <1>2, <1>3, <1>4, SchedInv DEF envVars

LEMMA HasRunnableJobInv == ExecInv /\ HasRunnableJob => ExecInv' /\ Stable
<1> SUFFICES ASSUME ExecInv, HasRunnableJob PROVE ExecInv' /\ Stable OBVIOUS
<1>1. /\ sched.pc = "scan"
      /\ UNCHANGED <<storageVars, pending, stateWriter, recv, fetch, envVars>>
      /\ \/ sched' = [sched EXCEPT !.i = @ + 1] /\ readers' = readers /\ cv' = cv
         \/ /\ readers' = readers \ {Sched} /\ cv' = Nothing
            /\ \E pc \in {"pop", "wait"} : sched' = [sched EXCEPT !.pc = pc, !.i = 0]
  BY DEF HasRunnableJob
<1>2. /\ sched' \in [pc : SchedPcs, job : Jobs \cup {Nothing}, left : SUBSET Names, i : Nat]
      /\ \/ sched'.pc = "scan" /\ readers' = readers /\ cv' = cv
         \/ sched'.pc \in {"pop", "wait"} /\ cv' = Nothing /\ readers' = readers \ {Sched}
  <2>1. sched \in [pc : SchedPcs, job : Jobs \cup {Nothing}, left : SUBSET Names, i : Nat]
    BY DEF ExecInv, Types
  <2>2. CASE sched' = [sched EXCEPT !.i = @ + 1] /\ readers' = readers /\ cv' = cv
    BY <1>1, <2>1, <2>2
  <2>3. ASSUME NEW pc \in {"pop", "wait"}, sched' = [sched EXCEPT !.pc = pc, !.i = 0]
        PROVE  /\ sched' \in [pc : SchedPcs, job : Jobs \cup {Nothing}, left : SUBSET Names, i : Nat]
               /\ sched'.pc = pc
    BY <2>1, <2>3 DEF SchedPcs
  <2> QED BY <1>1, <2>2, <2>3
<1>3. Locks'
  BY <1>1, <1>2 DEF ExecInv, Locks, LocksAt
<1>4. pending \in Seq(Jobs) /\ completed \subseteq Jobs
  BY DEF ExecInv, Types
<1> QED BY <1>1, <1>2, <1>3, <1>4, SchedInv DEF envVars

LEMMA PopLockInv == ExecInv /\ PopLock => ExecInv' /\ Stable
<1> SUFFICES ASSUME ExecInv, PopLock PROVE ExecInv' /\ Stable OBVIOUS
<1>1. /\ sched.pc = "pop" /\ readers = {} /\ stateWriter' = Sched
      /\ sched' = [sched EXCEPT !.pc = "popping", !.i = Len(pending)]
      /\ UNCHANGED <<storageVars, pending, readers, cv, recv, fetch, envVars>>
  BY DEF PopLock, CanWrite
<1>2. pending \in Seq(Jobs) /\ Len(pending) \in Nat /\ completed \subseteq Jobs
  BY DEF ExecInv, Types
<1>3. /\ sched' \in [pc : SchedPcs, job : Jobs \cup {Nothing}, left : SUBSET Names, i : Nat]
      /\ sched'.pc = "popping" /\ sched'.i = Len(pending)
  BY <1>1, <1>2 DEF ExecInv, Types, SchedPcs
<1>4. Locks'
  BY <1>1, <1>3 DEF ExecInv, Locks, LocksAt
<1> QED BY <1>1, <1>2, <1>3, <1>4, SchedInv DEF envVars

LEMMA RunLockInv == ExecInv /\ RunLock => ExecInv' /\ Stable
<1> SUFFICES ASSUME ExecInv, RunLock PROVE ExecInv' /\ Stable OBVIOUS
<1>1. /\ sched.pc = "start" /\ readers = {} /\ stateWriter' = Sched
      /\ sched' = [sched EXCEPT !.pc = "prepare"]
      /\ UNCHANGED <<storageVars, pending, readers, cv, recv, fetch, envVars>>
  BY DEF RunLock, CanWrite
<1>2. pending \in Seq(Jobs) /\ completed \subseteq Jobs
      /\ sched.job \in Jobs /\ Required(sched.job) \subseteq DOMAIN db
  BY <1>1 DEF ExecInv, Types, JobInHand
<1>3. /\ sched' \in [pc : SchedPcs, job : Jobs \cup {Nothing}, left : SUBSET Names, i : Nat]
      /\ sched'.pc = "prepare" /\ sched'.job = sched.job
  BY <1>1 DEF ExecInv, Types, SchedPcs
<1>4. Locks'
  BY <1>1, <1>3 DEF ExecInv, Locks, LocksAt
<1> QED BY <1>1, <1>2, <1>3, <1>4, SchedInv DEF envVars

LEMMA PopNextRunnableJobInv == ExecInv /\ PopNextRunnableJob => ExecInv' /\ Stable
<1> SUFFICES ASSUME ExecInv, PopNextRunnableJob PROVE ExecInv' /\ Stable OBVIOUS
<1> DEFINE j == Head(pending)
<1>1. /\ sched.pc = "popping" /\ UNCHANGED <<storageVars, readers, cv, recv, fetch, envVars>>
      /\ \/ /\ sched.i = 0
            /\ sched' = [sched EXCEPT !.pc = "loop"] /\ stateWriter' = Nothing /\ pending' = pending
         \/ /\ sched.i # 0 /\ FindMissing(Required(j)) = {}
            /\ sched' = [sched EXCEPT !.pc = "start", !.job = j, !.i = 0]
            /\ pending' = Tail(pending) /\ stateWriter' = Nothing
         \/ /\ sched.i # 0
            /\ sched' = [sched EXCEPT !.i = @ - 1]
            /\ pending' = Append(Tail(pending), j) /\ stateWriter' = stateWriter
  BY DEF PopNextRunnableJob, Runnable
<1>2. /\ sched \in [pc : SchedPcs, job : Jobs \cup {Nothing}, left : SUBSET Names, i : Nat]
      /\ pending \in Seq(Jobs) /\ completed \subseteq Jobs /\ sched.i <= Len(pending)
      /\ stateWriter = Sched
  BY <1>1 DEF ExecInv, Types, JobInHand, Locks, LocksAt
<1>3. sched.i # 0 => /\ j \in Jobs /\ Tail(pending) \in Seq(Jobs)
                     /\ Append(Tail(pending), j) \in Seq(Jobs)
                     /\ Len(Append(Tail(pending), j)) = Len(pending)
  <2>1. sched.i # 0 => pending # <<>>
    BY <1>2
  <2>2. pending # <<>> => j \in Jobs /\ Tail(pending) \in Seq(Jobs) /\ Len(Tail(pending)) = Len(pending) - 1
    BY <1>2
  <2>3. j \in Jobs /\ Tail(pending) \in Seq(Jobs) =>
           Append(Tail(pending), j) \in Seq(Jobs) /\ Len(Append(Tail(pending), j)) = Len(Tail(pending)) + 1
    OBVIOUS
  <2>4. Len(pending) \in Nat
    BY <1>2
  <2> QED BY <2>1, <2>2, <2>3, <2>4
<1> HIDE DEF j
<1>4. CASE sched' = [sched EXCEPT !.pc = "loop"] /\ stateWriter' = Nothing /\ pending' = pending
  <2>1. sched' \in [pc : SchedPcs, job : Jobs \cup {Nothing}, left : SUBSET Names, i : Nat] /\ sched'.pc = "loop"
    BY <1>2, <1>4 DEF SchedPcs
  <2>2. Locks'
    BY <1>1, <1>4, <2>1 DEF ExecInv, Locks, LocksAt
  <2> QED BY <1>1, <1>2, <1>4, <2>1, <2>2, SchedInv DEF envVars
<1>5. CASE /\ sched.i # 0 /\ FindMissing(Required(j)) = {}
           /\ sched' = [sched EXCEPT !.pc = "start", !.job = j, !.i = 0]
           /\ pending' = Tail(pending) /\ stateWriter' = Nothing
  <2>1. sched' \in [pc : SchedPcs, job : Jobs \cup {Nothing}, left : SUBSET Names, i : Nat] /\ sched'.pc = "start" /\ sched'.job = j
    BY <1>2, <1>3, <1>5 DEF SchedPcs
  <2>2. Locks'
    BY <1>1, <1>5, <2>1 DEF ExecInv, Locks, LocksAt
  <2>3. Required(j) \subseteq DOMAIN db
    BY <1>5 DEF FindMissing, Taken
  <2> QED BY <1>1, <1>2, <1>3, <1>5, <2>1, <2>2, <2>3, SchedInv DEF envVars
<1>6. CASE /\ sched.i # 0
           /\ sched' = [sched EXCEPT !.i = @ - 1]
           /\ pending' = Append(Tail(pending), j) /\ stateWriter' = stateWriter
  <2>1. sched' \in [pc : SchedPcs, job : Jobs \cup {Nothing}, left : SUBSET Names, i : Nat] /\ sched'.pc = "popping" /\ sched'.i = sched.i - 1
    <3>1. sched.i - 1 \in Nat /\ sched.pc = "popping" /\ sched \in [pc : SchedPcs, job : Jobs \cup {Nothing}, left : SUBSET Names, i : Nat]
      BY <1>1, <1>2, <1>6
    <3> QED BY <1>6, <3>1
  <2>2. Locks'
    BY <1>1, <1>6, <2>1 DEF ExecInv, Locks, LocksAt
  <2>3. sched'.i <= Len(pending')
    <3>1. Len(pending') = Len(pending) /\ Len(pending) \in Nat /\ sched.i \in Nat
      BY <1>2, <1>3, <1>6
    <3> QED BY <1>2, <2>1, <3>1
  <2> QED BY <1>1, <1>2, <1>3, <1>6, <2>1, <2>2, <2>3, SchedInv DEF envVars
<1> QED BY <1>1, <1>4, <1>5, <1>6

\* An input that was there when the job was popped can only be missing because its
\* file was removed.
LEMMA PrepareInv == ExecInv /\ Prepare => ExecInv' /\ Stable
<1> SUFFICES ASSUME ExecInv, Prepare PROVE ExecInv' /\ Stable OBVIOUS
<1>1. /\ sched.pc = "prepare" /\ stateWriter' = Nothing
      /\ UNCHANGED <<blobs, writer, storing, interrupted, vanished>>
      /\ UNCHANGED <<pending, readers, cv, recv, fetch, inbox, gets, completed, lost>>
      /\ \/ sched' = [sched EXCEPT !.pc = "exec"] /\ UNCHANGED <<failed, db>>
         \/ /\ ~CanCopy(Required(sched.job))
            /\ sched' = [sched EXCEPT !.pc = "finally", !.job = Nothing]
            /\ failed' = failed \cup {sched.job}
            /\ Cleanup(MissingFiles(Required(sched.job)))
  BY DEF Prepare
<1>2. /\ sched \in [pc : SchedPcs, job : Jobs \cup {Nothing}, left : SUBSET Names, i : Nat]
      /\ sched.job \in Jobs /\ Required(sched.job) \subseteq DOMAIN db /\ StorageInv /\ failed \subseteq Jobs
  BY <1>1 DEF ExecInv, Types, JobInHand
<1>3. db' = db
  BY <1>1, <1>2, MissingAreFiles, CleanupInv
<1>4. ~CanCopy(Required(sched.job)) => vanished # {}
  BY <1>2 DEF CanCopy, Taken, StorageInv
<1>5. StorageInv'
  BY <1>1, <1>2, <1>3, StorageUnchanged DEF storageVars
<1>6. CASE sched' = [sched EXCEPT !.pc = "exec"] /\ failed' = failed
  <2>1. sched' \in [pc : SchedPcs, job : Jobs \cup {Nothing}, left : SUBSET Names, i : Nat] /\ sched'.pc = "exec" /\ sched'.job = sched.job
    BY <1>2, <1>6 DEF SchedPcs
  <2>2. Locks'
    BY <1>1, <2>1 DEF ExecInv, Locks, LocksAt
  <2>3. Types'
    BY <1>1, <1>6, <2>1 DEF ExecInv, Types
  <2>4. JobInHand'
    BY <1>1, <1>2, <1>6, <2>1 DEF ExecInv, JobInHand
  <2> QED BY <1>1, <1>5, <2>2, <2>3, <2>4 DEF ExecInv, Stable
<1>7. CASE /\ ~CanCopy(Required(sched.job))
           /\ sched' = [sched EXCEPT !.pc = "finally", !.job = Nothing]
           /\ failed' = failed \cup {sched.job}
  <2>1. sched' \in [pc : SchedPcs, job : Jobs \cup {Nothing}, left : SUBSET Names, i : Nat] /\ sched'.pc = "finally"
    BY <1>2, <1>7 DEF SchedPcs
  <2>2. Locks'
    BY <1>1, <2>1 DEF ExecInv, Locks, LocksAt
  <2>3. Types'
    BY <1>1, <1>2, <1>7, <2>1 DEF ExecInv, Types
  <2>4. JobInHand'
    BY <1>1, <1>4, <1>7, <2>1 DEF ExecInv, JobInHand
  <2> QED BY <1>1, <1>5, <2>2, <2>3, <2>4 DEF ExecInv, Stable
<1> QED BY <1>1, <1>6, <1>7

LEMMA ExecuteInv == ExecInv /\ Execute => ExecInv' /\ Stable
<1> SUFFICES ASSUME ExecInv, Execute PROVE ExecInv' /\ Stable OBVIOUS
<1>1. PICK results \in {Produces(sched.job), {}} : sched' = [sched EXCEPT !.pc = "store", !.left = results]
  BY DEF Execute
<1>2. /\ sched.pc = "exec" /\ completed' = completed \cup {sched.job}
      /\ UNCHANGED <<storageVars, pending, readers, stateWriter, cv, recv, fetch, inbox, gets, failed, lost>>
  BY DEF Execute
<1>3. sched.job \in Jobs /\ results \subseteq Names /\ pending \in Seq(Jobs) /\ completed' \subseteq Jobs
  BY <1>2, RecExecutorConstants DEF ExecInv, JobInHand, Types
<1>4. sched' \in [pc : SchedPcs, job : Jobs \cup {Nothing}, left : SUBSET Names, i : Nat] /\ sched'.pc = "store"
  BY <1>1, <1>3 DEF ExecInv, Types, SchedPcs
<1>5. Locks'
  BY <1>2, <1>4, NoLock DEF ExecInv
<1> QED BY <1>2, <1>3, <1>4, <1>5, SchedInv

LEMMA QuietStepsInv == ExecInv /\ (ResultsStored \/ Finally \/ Loop) => ExecInv' /\ Stable
<1> SUFFICES ASSUME ExecInv, ResultsStored \/ Finally \/ Loop PROVE ExecInv' /\ Stable OBVIOUS
<1>1. /\ UNCHANGED <<storageVars, pending, readers, stateWriter, cv, recv, fetch, envVars>>
      /\ sched.pc \in {"store", "finally", "loop"}
      /\ \/ sched' = [sched EXCEPT !.pc = "finally", !.job = Nothing]
         \/ sched' = [sched EXCEPT !.pc = "loop"]
         \/ sched' = Checking
         \/ sched' = [Checking EXCEPT !.pc = "done"]
  BY DEF ResultsStored, Finally, Loop
<1>2. sched \in [pc : SchedPcs, job : Jobs \cup {Nothing}, left : SUBSET Names, i : Nat] /\ Checking \in [pc : SchedPcs, job : Jobs \cup {Nothing}, left : SUBSET Names, i : Nat]
  BY DEF ExecInv, Types, Checking, SchedPcs
<1>3. Checking.pc = "check"
  BY DEF Checking
<1>4. sched' \in [pc : SchedPcs, job : Jobs \cup {Nothing}, left : SUBSET Names, i : Nat] /\ sched'.pc \in {"finally", "loop", "check", "done"}
  BY <1>1, <1>2, <1>3 DEF SchedPcs
<1>5. Locks'
  BY <1>1, <1>4, NoLock DEF ExecInv
<1>6. pending \in Seq(Jobs) /\ completed \subseteq Jobs
  BY DEF ExecInv, Types
<1> QED BY <1>1, <1>4, <1>5, <1>6, SchedInv DEF envVars

-----------------------------------------------------------------------------
(* The fetcher, stop, faults and the network                                 *)

LEMMA FetchStepInv == ExecInv /\ FetchStep => ExecInv' /\ Stable
<1> SUFFICES ASSUME ExecInv, FetchStep PROVE ExecInv' /\ Stable OBVIOUS
<1> DEFINE FR == [pc : {"start", "scan", "sleep", "done"}, i : Nat, missing : SUBSET Names]
<1>1. /\ fetch \in FR /\ gets \subseteq Names /\ pending \in Seq(Jobs) /\ Len(pending) \in Nat
      /\ Fetch # Sched /\ Sched # Nothing
  BY RecExecutorConstants, RecStorageConstants DEF ExecInv, Types
<1>2. CASE FetchLock
  <2>1. /\ UNCHANGED <<storageVars, pending, stateWriter, cv, recv, sched, envVars>>
        /\ stateWriter = Nothing /\ readers' = readers \cup {Fetch}
        /\ fetch' = [pc |-> "scan", i |-> 1, missing |-> {}]
    BY <1>2 DEF FetchLock, CanRead
  <2>2. fetch' \in FR /\ fetch'.pc = "scan" /\ fetch'.i # 0
    BY <2>1
  <2>3. Locks'
    BY <1>1, <2>1, <2>2 DEF ExecInv, Locks, LocksAt
  <2>4. Types'
    BY <2>1, <2>2 DEF ExecInv, Types, envVars
  <2> QED BY <2>1, <2>2, <2>3, <2>4, OtherTask DEF envVars
<1>3. CASE FetchMissingData
  <2>1. /\ UNCHANGED <<storageVars, pending, stateWriter, cv, recv, sched, inbox, completed, failed, lost>>
        /\ fetch.pc = "scan"
    BY <1>3 DEF FetchMissingData
  <2>2. CASE fetch.i <= Len(pending)
    <3>1. /\ fetch' = [fetch EXCEPT !.i = @ + 1, !.missing = @ \cup FindMissing(Required(pending[fetch.i]))]
          /\ UNCHANGED <<readers, gets>>
      BY <1>3, <2>2 DEF FetchMissingData
    <3>2. fetch.i # 0 => FindMissing(Required(pending[fetch.i])) \subseteq Names
      BY <1>1, <2>2, RecExecutorConstants DEF FindMissing
    <3>3. fetch.i # 0
      BY <2>1 DEF ExecInv, JobInHand
    <3>4. fetch' \in FR /\ fetch'.pc = "scan" /\ fetch'.i # 0
      <4> DEFINE more == fetch.missing \cup FindMissing(Required(pending[fetch.i]))
      <4>1. more \in SUBSET Names /\ fetch.i + 1 \in Nat /\ fetch.i + 1 # 0
        BY <1>1, <3>2, <3>3
      <4>2. fetch' = [fetch EXCEPT !.i = fetch.i + 1, !.missing = more]
        BY <1>1, <3>1
      <4> HIDE DEF more
      <4> QED BY <1>1, <2>1, <4>1, <4>2
    <3>5. Locks'
      BY <2>1, <3>1, <3>4, NoLock DEF ExecInv
    <3>6. Types'
      BY <2>1, <3>1, <3>4 DEF ExecInv, Types
    <3> QED BY <2>1, <3>4, <3>5, <3>6, OtherTask
  <2>3. CASE ~(fetch.i <= Len(pending))
    <3>1. /\ fetch' = [Fetching EXCEPT !.pc = "sleep"] /\ readers' = readers \ {Fetch}
          /\ gets' = gets \cup (fetch.missing \cap Published)
      BY <1>3, <2>3 DEF FetchMissingData
    <3>2. Fetching \in FR
      BY DEF Fetching
    <3>3. fetch' \in FR /\ fetch'.pc = "sleep" /\ gets' \subseteq Names
      BY <1>1, <3>1, <3>2, RecExecutorConstants
    <3>4. Locks'
      BY <1>1, <2>1, <3>1, <3>3 DEF ExecInv, Locks, LocksAt
    <3>5. Types'
      BY <2>1, <3>3 DEF ExecInv, Types
    <3> QED BY <2>1, <3>3, <3>4, <3>5, OtherTask
  <2> QED BY <2>2, <2>3
<1>4. CASE FetchSleeps
  <2>1. /\ UNCHANGED <<storageVars, pending, readers, stateWriter, cv, recv, sched, envVars>>
        /\ fetch.pc \in {"sleep", "start"}
        /\ \E pc \in {"start", "done"} : fetch' = [fetch EXCEPT !.pc = pc]
    BY <1>4 DEF FetchSleeps
  <2>2. fetch' \in FR /\ fetch'.pc \in {"start", "done"}
    BY <1>1, <2>1
  <2>3. Locks'
    BY <2>1, <2>2, NoLock DEF ExecInv
  <2>4. Types'
    BY <2>1, <2>2 DEF ExecInv, Types, envVars
  <2> QED BY <2>1, <2>2, <2>3, <2>4, OtherTask DEF envVars
<1> QED BY <1>2, <1>3, <1>4 DEF FetchStep

\* Steps of the network, of stop, and none at all.
LEMMA OutsideInv ==
    ASSUME ExecInv, UNCHANGED <<storageVars, taskVars, completed, failed, lost>>,
           inbox' \subseteq Jobs \cup Names, gets' \subseteq Names
    PROVE  ExecInv' /\ Stable
<1>1. UNCHANGED <<pending, readers, stateWriter, cv, recv, sched, fetch>>
  BY DEF taskVars
<1>2. Types'
  BY <1>1 DEF ExecInv, Types
<1>3. Locks'
  BY <1>1, NoLock DEF ExecInv
<1> QED BY <1>1, <1>2, <1>3, OtherTask

LEMMA RestartInv == ExecInv /\ Restart => ExecInv' /\ Stable
<1> SUFFICES ASSUME ExecInv, Restart PROVE ExecInv' /\ Stable OBVIOUS
<1>1. /\ Interrupt(Tasks) /\ lost' = lost \cup InMemory
      /\ pending' = <<>> /\ readers' = {} /\ stateWriter' = Nothing /\ cv' = Nothing
      /\ recv' = Idle /\ sched' = Checking /\ fetch' = Fetching
      /\ UNCHANGED <<db, blobs, vanished, inbox, gets, completed, failed>>
  BY DEF Restart
<1>2. StorageInv'
  BY <1>1, InterruptInv DEF ExecInv
<1>3. InMemory \subseteq Jobs
  BY DEF InMemory, ExecInv, Types, Range
<1>4. Types'
  <2>1. recv' \in [pc : {"poll", "store", "notify", "done"}, bundle : Jobs \cup Names \cup {Nothing}, left : SUBSET Names]
    BY <1>1 DEF Idle
  <2>2. sched' \in [pc : SchedPcs, job : Jobs \cup {Nothing}, left : SUBSET Names, i : Nat]
    BY <1>1 DEF Checking, SchedPcs
  <2>3. fetch' \in [pc : {"start", "scan", "sleep", "done"}, i : Nat, missing : SUBSET Names]
    BY <1>1 DEF Fetching
  <2>4. pending' \in Seq(Jobs)
    BY <1>1
  <2> QED BY <1>1, <1>3, <2>1, <2>2, <2>3, <2>4 DEF ExecInv, Types
<1>5. sched'.pc = "check" /\ fetch'.pc = "start"
  BY <1>1 DEF Checking, Fetching
<1>6. Locks'
  BY <1>1, <1>5 DEF Locks, LocksAt
<1>7. JobInHand'
  BY <1>1, <1>5 DEF ExecInv, JobInHand
<1> QED BY <1>2, <1>4, <1>5, <1>6, <1>7 DEF ExecInv, Stable

LEMMA VanishBlobInv == ExecInv /\ VanishBlob => ExecInv' /\ Stable
<1> SUFFICES ASSUME ExecInv, VanishBlob PROVE ExecInv' /\ Stable OBVIOUS
<1>1. PICK c \in Contents : Vanish(c)
  BY DEF VanishBlob
<1>2. UNCHANGED <<taskVars, inbox, gets, completed, failed, lost>>
  BY DEF VanishBlob
<1>3. StorageInv' /\ db' = db /\ vanished \subseteq vanished'
  BY <1>1, VanishInv DEF ExecInv, Vanish
<1>4. Types'
  BY <1>2 DEF ExecInv, Types, taskVars
<1>5. Locks'
  BY <1>2, NoLock DEF ExecInv, taskVars
<1>6. JobInHand'
  BY <1>2, <1>3 DEF ExecInv, JobInHand, taskVars
<1> QED BY <1>2, <1>3, <1>4, <1>5, <1>6 DEF ExecInv, Stable, taskVars

LEMMA ExecNextInv == ExecInv /\ [Next]_vars => ExecInv' /\ Stable
<1> SUFFICES ASSUME ExecInv, [Next]_vars PROVE ExecInv' /\ Stable OBVIOUS
<1>1. inbox \subseteq Jobs \cup Names /\ gets \subseteq Names
  BY DEF ExecInv, Types
<1>2. CASE RecvStep
  BY <1>2, RecExecutorConstants, ReceiveInv, StoreOneInv, EnqueueInv, NotifyInv, ReceiveEndsInv DEF RecvStep
<1>3. CASE SchedStep
  BY <1>3, RecExecutorConstants, EnterCvInv, PredicateInv, HasRunnableJobInv, PopLockInv, PopNextRunnableJobInv,
     RunLockInv, PrepareInv, ExecuteInv, StoreOneInv, QuietStepsInv DEF SchedStep
<1>4. CASE Stop
  BY <1>1, <1>4, OutsideInv DEF Stop
<1>5. CASE LoseRequest
  <2>1. gets' \subseteq Names /\ UNCHANGED <<storageVars, taskVars, inbox, completed, failed, lost>>
    BY <1>1, <1>5 DEF LoseRequest
  <2> QED BY <1>1, <2>1, OutsideInv
<1>6. ASSUME NEW n \in Names, Answer(n) PROVE ExecInv' /\ Stable
  BY <1>1, <1>6, OutsideInv DEF Answer
<1>7. CASE UNCHANGED vars
  BY <1>1, <1>7, OutsideInv DEF vars, envVars
<1> QED BY <1>2, <1>3, <1>4, <1>5, <1>6, <1>7, FetchStepInv, StopNotifyInv, RestartInv, VanishBlobInv DEF Next

LEMMA ExecInvariance == Spec => []ExecInv
BY ExecInitInv, ExecNextInv, PTL DEF Spec

-----------------------------------------------------------------------------
\* The types, and the exclusion between the writer lock and the reader locks of
\* _state_mutex.
THEOREM ExecutorTypes == Spec => []TypeOK
<1>1. ExecInv => TypeOK
  BY StorageTypes DEF ExecInv, Types, Locks, LocksAt, TypeOK
<1> QED BY <1>1, ExecInvariance, PTL

\* No step of any task changes the deque while the scheduler or the fetcher is in
\* an iteration over it.
THEOREM IterationTheorem == Spec => IterationIsStable
<1>1. ExecInv /\ [Next]_vars =>
         [/\ sched.pc = "scan" => pending' = pending \/ sched'.pc # "scan"
          /\ fetch.pc = "scan" => pending' = pending \/ fetch'.pc # "scan"]_vars
  BY ExecNextInv DEF Stable
<1> QED BY <1>1, ExecInvariance, PTL DEF Spec, IterationIsStable

\* Two tasks that store the same content at once leave no entry without its whole
\* file: the second finds the file only when the first has let go of the lock.
THEOREM ExecutorEntries == Spec => []EntriesAreWhole
<1>1. ExecInv => EntriesAreWhole
  BY DEF ExecInv, StorageInv, EntriesAreWhole
<1> QED BY <1>1, ExecInvariance, PTL

\* The inputs that a job had when it was popped are still there when _run_job
\* copies them, unless a file was removed.
THEOREM FailuresTheorem == Spec => []FailuresAreExplained
<1>1. ExecInv => FailuresAreExplained
  BY DEF ExecInv, JobInHand, FailuresAreExplained
<1> QED BY <1>1, ExecInvariance, PTL

-----------------------------------------------------------------------------
(* No job is lost or run twice.                                              *)

\* Steps in which no job moves.
LEMMA SamePlaces ==
    ASSUME KeptInv, SchedJob', UNCHANGED <<pending, completed, failed, lost>>,
           \A j \in Jobs : /\ j \in inbox' <=> j \in inbox
                           /\ InRecv(j)' <=> InRecv(j)
                           /\ InSched(j)' <=> InSched(j)
    PROVE  KeptInv'
BY DEF KeptInv, Kept, ExactlyOne, InDeque

\* Steps of the scheduler with the same job in hand, or none, and no job moves.
LEMMA SamePlacesSched ==
    ASSUME KeptInv, UNCHANGED <<pending, completed, failed, lost, inbox, recv>>,
           SchedJob', sched'.job = sched.job
    PROVE  KeptInv'
BY SamePlaces DEF InRecv, InSched

LEMMA StoreOneKept ==
    ASSUME ExecInv, KeptInv, NEW t \in Tasks, StoreOne(t) PROVE KeptInv'
<1>1. UNCHANGED <<pending, inbox, completed, failed, lost>>
  BY DEF StoreOne, envVars
<1>2. \/ UNCHANGED <<recv, sched>>
      \/ \E n : recv' = [recv EXCEPT !.left = @ \ {n}] /\ UNCHANGED sched
      \/ \E n : sched' = [sched EXCEPT !.left = @ \ {n}] /\ UNCHANGED recv
  <2>1. ASSUME NEW n, Stored(t, n)
        PROVE  \/ recv' = [recv EXCEPT !.left = @ \ {n}] /\ UNCHANGED sched
               \/ sched' = [sched EXCEPT !.left = @ \ {n}] /\ UNCHANGED recv
    BY <2>1 DEF Stored
  <2> QED BY <2>1 DEF StoreOne
<1>3. /\ sched'.pc = sched.pc /\ sched'.job = sched.job
      /\ recv'.pc = recv.pc /\ recv'.bundle = recv.bundle
  BY <1>2 DEF ExecInv, Types
<1> QED BY <1>1, <1>3, SamePlaces DEF KeptInv, SchedJob, InRecv, InSched

LEMMA ReceiveKept == ExecInv /\ KeptInv /\ Receive => KeptInv'
<1> SUFFICES ASSUME ExecInv, KeptInv, Receive PROVE KeptInv' OBVIOUS
<1>1. /\ UNCHANGED <<pending, sched, completed, failed, lost>> /\ recv.pc = "poll"
  BY DEF Receive, Idle
<1>2. PICK b \in inbox : inbox' = inbox \ {b} /\ recv'.pc = "store" /\ recv'.bundle = b
  BY DEF Receive
<1>3. ASSUME NEW j \in Jobs PROVE Kept(j)'
  BY <1>1, <1>2, <1>3 DEF KeptInv, Kept, ExactlyOne, InDeque, InRecv, InSched
<1> QED BY <1>1, <1>3 DEF KeptInv, SchedJob

LEMMA EnqueueKept == ExecInv /\ KeptInv /\ Enqueue => KeptInv'
<1> SUFFICES ASSUME ExecInv, KeptInv, Enqueue PROVE KeptInv' OBVIOUS
<1> DEFINE b == recv.bundle
<1>1. /\ UNCHANGED <<sched, inbox, completed, failed, lost>>
      /\ recv.pc = "store" /\ b \in Jobs /\ pending' = Append(pending, b)
      /\ recv' = [recv EXCEPT !.pc = "notify"]
  BY DEF Enqueue, envVars
<1>2. recv'.pc = "notify" /\ pending \in Seq(Jobs)
  BY <1>1 DEF ExecInv, Types
<1>3. ~InDeque(b)
  BY <1>1 DEF KeptInv, Kept, ExactlyOne, InRecv
<1>4. IsInjective(pending') /\ \A j : InDeque(j)' <=> InDeque(j) \/ j = b
  BY <1>1, <1>2, <1>3, AppendRange DEF KeptInv, InDeque
<1>5. ASSUME NEW j \in Jobs PROVE Kept(j)'
  <2>1. (InDeque(j)' <=> InDeque(j) \/ j = b) /\ (InRecv(j) <=> j = b) /\ ~InRecv(j)' /\ (InSched(j)' <=> InSched(j))
    BY <1>1, <1>2, <1>4 DEF InRecv, InSched
  <2> QED BY <1>1, <1>5, <2>1 DEF KeptInv, Kept, ExactlyOne
<1> QED BY <1>1, <1>4, <1>5 DEF KeptInv, SchedJob

\* A scheduler that waits has no job, and neither has the receive task that has
\* just handled its bundle.
LEMMA WakeKept ==
    ASSUME ExecInv, KeptInv, sched' = Notified, UNCHANGED <<pending, inbox, completed, failed, lost>>,
           recv' = recv \/ (recv' = Idle /\ Handled)
    PROVE  KeptInv'
<1>1. /\ sched'.job = sched.job
      /\ sched'.pc = sched.pc \/ (sched.pc = "wait" /\ sched'.pc = "woken")
  BY NotifiedPc DEF ExecInv
<1>2. SchedJob'
  BY <1>1 DEF KeptInv, SchedJob
<1>3. \A j \in Jobs : InRecv(j)' <=> InRecv(j)
  BY RecExecutorConstants DEF Handled, InRecv, Idle
<1> QED BY <1>1, <1>2, <1>3, SamePlaces DEF InSched

LEMMA PopNextRunnableJobKept == ExecInv /\ KeptInv /\ PopNextRunnableJob => KeptInv'
<1> SUFFICES ASSUME ExecInv, KeptInv, PopNextRunnableJob PROVE KeptInv' OBVIOUS
<1> DEFINE h == Head(pending)
           s == Tail(pending)
<1>1. /\ sched.pc = "popping" /\ UNCHANGED <<recv, inbox, completed, failed, lost>>
      /\ \/ sched' = [sched EXCEPT !.pc = "loop"] /\ pending' = pending
         \/ /\ sched.i # 0 /\ sched' = [sched EXCEPT !.pc = "start", !.job = h, !.i = 0]
            /\ pending' = s
         \/ /\ sched.i # 0 /\ sched' = [sched EXCEPT !.i = @ - 1] /\ pending' = Append(s, h)
  BY DEF PopNextRunnableJob, envVars
<1>2. /\ sched \in [pc : SchedPcs, job : Jobs \cup {Nothing}, left : SUBSET Names, i : Nat]
      /\ pending \in Seq(Jobs) /\ sched.i <= Len(pending) /\ IsInjective(pending) /\ sched.job = Nothing
      /\ Nothing \notin Jobs
  BY <1>1, RecExecutorConstants DEF ExecInv, Types, JobInHand, KeptInv, SchedJob
<1>3. CASE sched' = [sched EXCEPT !.pc = "loop"] /\ pending' = pending
  <2>1. sched'.pc = "loop" /\ sched'.job = sched.job
    BY <1>2, <1>3
  <2> QED BY <1>1, <1>2, <1>3, <2>1, SamePlacesSched DEF SchedJob
<1>4. ASSUME sched.i # 0
      PROVE  /\ h \in Jobs /\ s \in Seq(Jobs) /\ IsInjective(s) /\ InDeque(h)
             /\ \A y : y \in Range(s) <=> InDeque(y) /\ y # h
  <2>1. pending # <<>>
    BY <1>2, <1>4
  <2> QED BY <1>2, <2>1, TailRange DEF InDeque
<1> HIDE DEF h, s
<1>5. CASE sched.i # 0 /\ sched' = [sched EXCEPT !.pc = "start", !.job = h, !.i = 0] /\ pending' = s
  <2>1. sched'.pc = "start" /\ sched'.job = h
    BY <1>2, <1>5
  <2>2. h \notin completed
    BY <1>4, <1>5 DEF KeptInv, Kept, ExactlyOne
  <2>3. ASSUME NEW j \in Jobs PROVE Kept(j)'
    <3>1. /\ InDeque(j)' <=> InDeque(j) /\ j # h
          /\ ~InSched(j) /\ (InSched(j)' <=> j = h) /\ (InRecv(j)' <=> InRecv(j)) /\ InDeque(h)
      BY <1>1, <1>2, <1>4, <1>5, <2>1, <2>2 DEF InDeque, InRecv, InSched
    <3> QED BY <1>1, <2>3, <3>1 DEF KeptInv, Kept, ExactlyOne
  <2>4. SchedJob'
    BY <1>1, <1>4, <1>5, <2>1, <2>2 DEF SchedJob
  <2> QED BY <1>4, <1>5, <2>3, <2>4 DEF KeptInv
<1>6. CASE sched.i # 0 /\ sched' = [sched EXCEPT !.i = @ - 1] /\ pending' = Append(s, h)
  <2>1. sched'.pc = "popping" /\ sched'.job = sched.job
    BY <1>1, <1>2, <1>6
  <2>2. h \notin Range(s)
    BY <1>4, <1>6
  <2>3. IsInjective(pending') /\ \A y : y \in Range(pending') <=> y \in Range(s) \/ y = h
    BY <1>4, <1>6, <2>2, AppendRange
  <2>4. \A y : InDeque(y)' <=> InDeque(y)
    BY <1>4, <1>6, <2>3 DEF InDeque
  <2>5. ASSUME NEW j \in Jobs PROVE Kept(j)'
    BY <1>1, <2>1, <2>4, <2>5 DEF KeptInv, Kept, ExactlyOne, InRecv, InSched
  <2>6. SchedJob'
    BY <1>2, <2>1 DEF SchedJob
  <2> QED BY <2>3, <2>5, <2>6 DEF KeptInv
<1> QED BY <1>1, <1>3, <1>5, <1>6

LEMMA PrepareKept == ExecInv /\ KeptInv /\ Prepare => KeptInv'
<1> SUFFICES ASSUME ExecInv, KeptInv, Prepare PROVE KeptInv' OBVIOUS
<1>1. /\ sched.pc = "prepare" /\ UNCHANGED <<pending, recv, inbox, completed, lost>>
      /\ \/ sched' = [sched EXCEPT !.pc = "exec"] /\ failed' = failed
         \/ /\ sched' = [sched EXCEPT !.pc = "finally", !.job = Nothing]
            /\ failed' = failed \cup {sched.job}
  BY DEF Prepare
<1>2. sched \in [pc : SchedPcs, job : Jobs \cup {Nothing}, left : SUBSET Names, i : Nat] /\ sched.job \in Jobs \ completed /\ Nothing \notin Jobs
  BY <1>1, RecExecutorConstants DEF ExecInv, Types, KeptInv, SchedJob
<1>3. CASE sched' = [sched EXCEPT !.pc = "exec"] /\ failed' = failed
  <2>1. sched'.pc = "exec" /\ sched'.job = sched.job
    BY <1>2, <1>3
  <2> QED BY <1>1, <1>2, <1>3, <2>1, SamePlacesSched DEF SchedJob
<1>4. CASE sched' = [sched EXCEPT !.pc = "finally", !.job = Nothing] /\ failed' = failed \cup {sched.job}
  <2>1. sched'.pc = "finally" /\ sched'.job = Nothing
    BY <1>2, <1>4
  <2>2. ASSUME NEW j \in Jobs PROVE Kept(j)'
    <3>1. ~InSched(j)' /\ (InSched(j) <=> j = sched.job) /\ (InRecv(j)' <=> InRecv(j)) /\ (InDeque(j)' <=> InDeque(j))
      BY <1>1, <1>2, <2>1 DEF InSched, InRecv, InDeque
    <3> QED BY <1>1, <1>4, <2>2, <3>1 DEF KeptInv, Kept, ExactlyOne
  <2> QED BY <1>1, <2>1, <2>2 DEF KeptInv, SchedJob
<1> QED BY <1>1, <1>3, <1>4

LEMMA ExecuteKept == ExecInv /\ KeptInv /\ Execute => KeptInv'
<1> SUFFICES ASSUME ExecInv, KeptInv, Execute PROVE KeptInv' OBVIOUS
<1>1. /\ sched.pc = "exec" /\ completed' = completed \cup {sched.job}
      /\ UNCHANGED <<pending, recv, inbox, failed, lost>>
      /\ \E results : sched' = [sched EXCEPT !.pc = "store", !.left = results]
  BY DEF Execute
<1>2. /\ sched'.pc = "store" /\ sched'.job = sched.job
      /\ sched.job \in Jobs \ completed
  BY <1>1 DEF ExecInv, Types, KeptInv, SchedJob
<1>3. ASSUME NEW j \in Jobs PROVE Kept(j)'
  <2>1. ~InSched(j)' /\ (InSched(j) <=> j = sched.job) /\ (InRecv(j)' <=> InRecv(j)) /\ (InDeque(j)' <=> InDeque(j))
    BY <1>1, <1>2 DEF InSched, InRecv, InDeque
  <2> QED BY <1>1, <1>3, <2>1 DEF KeptInv, Kept, ExactlyOne
<1> QED BY <1>1, <1>2, <1>3 DEF KeptInv, SchedJob

\* The other steps of the scheduler.
LEMMA SchedKept ==
    ASSUME ExecInv, KeptInv,
           \/ EnterCv \/ Predicate \/ HasRunnableJob \/ PopLock \/ RunLock
           \/ ResultsStored \/ Finally \/ Loop
    PROVE  KeptInv'
<1>1. UNCHANGED <<pending, recv, inbox, completed, failed, lost>>
  BY DEF EnterCv, Predicate, HasRunnableJob, PopLock, RunLock, ResultsStored, Finally, Loop, envVars
<1>2. sched \in [pc : SchedPcs, job : Jobs \cup {Nothing}, left : SUBSET Names, i : Nat] /\ SchedJob /\ Nothing \notin Jobs
  BY RecExecutorConstants DEF ExecInv, Types, KeptInv
<1>3. CASE EnterCv \/ Predicate \/ HasRunnableJob \/ PopLock \/ Finally
  <2>1. sched.pc \notin {"start", "prepare", "exec", "store"} /\ sched.job = Nothing
    BY <1>2, <1>3 DEF EnterCv, Predicate, HasRunnableJob, PopLock, Finally, SchedJob
  <2>2. /\ sched'.job = sched.job
        /\ sched'.pc = sched.pc \/ sched'.pc \in {"predicate", "scan", "pop", "wait", "popping", "loop"}
    BY <1>2, <1>3 DEF EnterCv, Predicate, HasRunnableJob, PopLock, Finally
  <2> QED BY <1>1, <2>1, <2>2, SamePlacesSched DEF SchedJob
<1>4. CASE RunLock
  <2>1. sched.pc = "start" /\ sched'.pc = "prepare" /\ sched'.job = sched.job
    BY <1>2, <1>4 DEF RunLock
  <2> QED BY <1>1, <1>2, <2>1, SamePlacesSched DEF SchedJob
<1>5. CASE Loop
  <2>1. sched.job = Nothing /\ sched'.job = Nothing /\ sched'.pc \in {"check", "done"}
    BY <1>2, <1>5 DEF Loop, Checking, SchedJob
  <2> QED BY <1>1, <2>1, SamePlacesSched DEF SchedJob
<1>6. CASE ResultsStored
  <2>1. sched.job \in completed /\ sched'.job = Nothing /\ sched'.pc = "finally"
    BY <1>2, <1>6 DEF ResultsStored, SchedJob
  <2>2. \A j \in Jobs : ~InSched(j) /\ ~InSched(j)' /\ (InRecv(j)' <=> InRecv(j))
    BY <1>1, <1>2, <2>1 DEF InSched, InRecv
  <2>3. SchedJob'
    BY <2>1 DEF SchedJob
  <2> QED BY <1>1, <2>2, <2>3, SamePlaces
<1> QED BY <1>3, <1>4, <1>5, <1>6

LEMMA RestartKept == ExecInv /\ KeptInv /\ Restart => KeptInv'
<1> SUFFICES ASSUME ExecInv, KeptInv, Restart PROVE KeptInv' OBVIOUS
<1>1. /\ lost' = lost \cup InMemory /\ pending' = <<>> /\ recv' = Idle /\ sched' = Checking
      /\ UNCHANGED <<inbox, completed, failed>>
  BY DEF Restart
<1>2. /\ recv'.pc = "poll" /\ sched'.pc = "check" /\ sched'.job = Nothing /\ Range(pending') = {}
      /\ IsInjective(pending') /\ Nothing \notin Jobs
  BY <1>1, AtRest
<1>3. ASSUME NEW j \in Jobs PROVE Kept(j)'
  <2>1. j \in InMemory <=> InDeque(j) \/ InSched(j) \/ InRecv(j)
    BY DEF InMemory, InDeque, InSched, InRecv
  <2>2. ~InDeque(j)' /\ ~InSched(j)' /\ ~InRecv(j)'
    BY <1>2 DEF InDeque, InSched, InRecv
  <2> QED BY <1>1, <1>3, <2>1, <2>2 DEF KeptInv, Kept, ExactlyOne
<1> QED BY <1>2, <1>3 DEF KeptInv, SchedJob

LEMMA KeptNext == ExecInv /\ KeptInv /\ [Next]_vars => KeptInv'
<1> SUFFICES ASSUME ExecInv, KeptInv, [Next]_vars PROVE KeptInv' OBVIOUS
<1>1. CASE Notify \/ StopNotify
  BY <1>1, WakeKept DEF Notify, StopNotify, envVars
<1>2. CASE ReceiveEnds
  <2>1. recv.pc = "poll" /\ recv'.pc = "done" /\ UNCHANGED <<pending, sched, inbox, completed, failed, lost>>
    BY <1>2 DEF ReceiveEnds, Idle, envVars
  <2> QED BY <2>1, SamePlaces DEF KeptInv, SchedJob, InRecv, InSched
<1>3. CASE FetchStep \/ Stop \/ VanishBlob \/ LoseRequest \/ UNCHANGED vars
  <2>1. UNCHANGED <<pending, recv, sched, inbox, completed, failed, lost>>
    BY <1>3 DEF FetchStep, FetchLock, FetchMissingData, FetchSleeps, Stop, VanishBlob, LoseRequest, vars, taskVars, envVars
  <2> QED BY <2>1, SamePlaces DEF KeptInv, SchedJob, InRecv, InSched
<1>4. ASSUME NEW n \in Names, Answer(n) PROVE KeptInv'
  <2>1. inbox' = inbox \cup {n} /\ n \notin Jobs /\ UNCHANGED <<pending, recv, sched, completed, failed, lost>>
    BY <1>4, RecExecutorConstants DEF Answer, taskVars
  <2> QED BY <2>1, SamePlaces DEF KeptInv, SchedJob, InRecv, InSched
<1>5. CASE RecvStep
  BY <1>1, <1>2, <1>5, RecExecutorConstants, ReceiveKept, StoreOneKept, EnqueueKept DEF RecvStep
<1>6. CASE SchedStep
  BY <1>6, RecExecutorConstants, SchedKept, PopNextRunnableJobKept, PrepareKept, ExecuteKept, StoreOneKept DEF SchedStep
<1> QED BY <1>1, <1>3, <1>4, <1>5, <1>6, RestartKept DEF Next

\* Whatever the tasks, the faults and stop do, every job is in one place: in dtnd,
\* in the hands of the receive task, once in the deque, with the scheduler, or
\* ended in one of the three ways.
THEOREM JobsTheorem == Spec => []JobsAreKept
BY InitKept, KeptJobs, KeptNext, ExecInvariance, PTL DEF Spec
=============================================================================
