------------------------------ MODULE IdKeeper ------------------------------
(***************************************************************************)
(* pkg/id_keeper: the numbers that make the IDs of this node's bundles     *)
(* unique.  An ID is a source, a creation time and a sequence number.  The *)
(* time is the clock's, or one that the client gives (the epoch, usually). *)
(* The counters are in memory and start again when the daemon does.        *)
(***************************************************************************)
EXTENDS Integers, Sequences

CONSTANTS
    EIDs,        \* the endpoints of this node
    Addresses,   \* where bundles go
    GivenTimes,  \* creation times that clients give
    MaxClock     \* bound on the clock

VARIABLES
    clock,       \* DtnTimeNow
    life,        \* how often the daemon has been started
    data,        \* IdKeeper.data; -1 is no entry
    sent         \* history: the bundles sent, with the life they were sent in

ids == <<clock, life, data, sent>>

ASSUME ClockAssumption == MaxClock \in Nat /\ GivenTimes \subseteq 0..MaxClock

Bundle == [src : EIDs, time : 0..MaxClock, dst : Addresses, seq : Nat]
SameID(b, c) == b.src = c.src /\ b.time = c.time /\ b.seq = c.seq
Tuples == EIDs \X (0..MaxClock)
NoCounters == [p \in Tuples |-> -1]

\* Mutant of Update: the counter starts at 0 and stays there.
UpdateOnce(src, time) == [data EXCEPT ![<<src, time>>] = 0]

\* IdKeeper.Update
Update(src, time) == [data EXCEPT ![<<src, time>>] = @ + 1]

\* CreationTimestampNow, or CreationTimestampEpoch and CreationTimestampTime
Stamp(time, given) == IF given THEN time \in GivenTimes ELSE time = clock

\* The builder stamps the bundle and Manager.Send has it numbered.  That is one
\* step: only a restart could tell, and it would end the request.
Issue(src, dst, time, given) ==
    /\ Stamp(time, given)
    /\ data' = Update(src, time)
    /\ sent' = Append(sent, [life |-> life, given |-> given,
                             bundle |-> [src |-> src, time |-> time, dst |-> dst,
                                         seq |-> data'[<<src, time>>]]])
    /\ UNCHANGED <<clock, life>>

Tick ==
    /\ clock < MaxClock
    /\ clock' = clock + 1
    /\ UNCHANGED <<life, data, sent>>

\* InitializeIdKeeper in a new process; starting takes longer than a tick.
Reset ==
    /\ clock < MaxClock
    /\ clock' = clock + 1
    /\ life' = life + 1
    /\ data' = NoCounters
    /\ UNCHANGED sent

IdInit == clock \in 0..MaxClock /\ life = 1 /\ data = NoCounters /\ sent = << >>

IdNext ==
    \/ \E src \in EIDs, dst \in Addresses, time \in 0..MaxClock, given \in BOOLEAN :
          Issue(src, dst, time, given)
    \/ Tick \/ Reset

IdSpec == IdInit /\ [][IdNext]_ids

\* IdKeeper.Update: two bundles get the same ID only when the daemon was
\* restarted between them and one of them carries a time that its client gave.
UniqueIDs ==
    \A i, j \in DOMAIN sent :
        i # j /\ SameID(sent[i].bundle, sent[j].bundle)
            => sent[i].life # sent[j].life /\ (sent[i].given \/ sent[j].given)

=============================================================================
