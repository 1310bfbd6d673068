----------------------------- MODULE BundleBuilder -----------------------------
(***************************************************************************)
(* Bundles and how the daemon makes them (pkg/bpv7: bundle.go, the blocks, *)
(* their CheckValid methods, and the BundleBuilder that the application    *)
(* agents use).  A builder is a chain of method calls that remembers the   *)
(* first error; Build checks the bundle.                                   *)
(*                                                                         *)
(* Endpoints are dtn:none or not.  A creation time is zero, or the clock's,*)
(* and then the lifetime is over at some moment ("expired").  The four     *)
(* status report requests are one flag.                                    *)
(***************************************************************************)
EXTENDS Integers, FiniteSets, FiniteSetsExt, Functions, Sequences

CONSTANTS
    Bytes,          \* what payloads are made of
    Payloads,       \* the payloads of clients
    Lifetimes,      \* the lifetimes they give
    MaxCalls        \* bound: calls of one builder

ASSUME BuilderConstants ==
    /\ Payloads \subseteq Seq(Bytes)
    /\ Lifetimes \subseteq Nat /\ MaxCalls \in Nat

VARIABLES
    bldr,           \* the builder
    calls,          \* how often it was called
    expired         \* creation time and lifetime lie behind

builderVars == <<bldr, calls, expired>>

BlockTypes == {"age", "prev", "other"}
CRCTypes   == {"CRCNo", "CRC16", "CRC32"}

\* NewCanonicalBlock
NewCanonicalBlock(no, flags, type, age) ==
    [no |-> no, flags |-> flags, type |-> type, age |-> age, crc |-> "CRCNo"]
NewPayload(flags, data, crc) == [flags |-> flags, data |-> data, crc |-> crc]
NoPayload == NewPayload({}, << >>, "nil")

-----------------------------------------------------------------------------
(* Extension blocks of a bundle, a slice sorted by block number              *)

ExtensionBlocksByType(exts, type) == {i \in DOMAIN exts : exts[i].type = type}

\* Mutant of AddExtensionBlock: the number after the number of blocks.
AddExtensionBlockCounted(exts, block) ==
    Append(exts, [block EXCEPT !.no = Len(exts) + 2])

\* The block gets the lowest free number, and sortExtensionBlocks its place.
AddExtensionBlock(exts, block) ==
    LET no    == Min((2..Len(exts) + 2) \ {exts[i].no : i \in DOMAIN exts})
        lower == Cardinality({i \in DOMAIN exts : exts[i].no < no})
    IN  SubSeq(exts, 1, lower) \o <<[block EXCEPT !.no = no]>> \o SubSeq(exts, lower + 1, Len(exts))

RemoveExtensionBlockByBlockNumber(exts, no) == SelectSeq(exts, LAMBDA b : b.no # no)

-----------------------------------------------------------------------------
(* CheckValid                                                                *)

\* BundleControlFlags.CheckValid
FlagsValid(flags) ==
    /\ ~({"IsFragment", "MustNotFragmented"} \subseteq flags)
    /\ ~({"AdministrativeRecordPayload", "StatusRequest"} \subseteq flags)

\* PrimaryBlock.CheckValid
PrimaryValid(b) ==
    /\ FlagsValid(b.flags)
    /\ b.source = "dtn:none" => "MustNotFragmented" \in b.flags /\ "StatusRequest" \notin b.flags

\* CheckContextValid of the blocks: one age and one previous node at most.
BlocksValid(exts) ==
    /\ \A i, j \in DOMAIN exts : i # j => exts[i].no # exts[j].no
    /\ \A type \in {"age", "prev"} : Cardinality(ExtensionBlocksByType(exts, type)) <= 1

\* A bundle without a creation time lives by its age block.
IsLifetimeExceeded(b) ==
    IF b.zeroTime
    THEN \/ Cardinality(ExtensionBlocksByType(b.exts, "age")) # 1
         \/ \E i \in ExtensionBlocksByType(b.exts, "age") : b.exts[i].age > b.lifetime
    ELSE expired \/ b.lifetime = 0

\* Bundle.CheckValid
CheckValid(b) ==
    /\ PrimaryValid(b)
    /\ BlocksValid(b.exts)
    /\ "StatusReportBlock" \notin b.payload.flags
    /\ b.zeroTime => ExtensionBlocksByType(b.exts, "age") # {}
    /\ ~IsLifetimeExceeded(b)

-----------------------------------------------------------------------------
(* BundleBuilder                                                             *)

Builder ==
    [err |-> FALSE, source |-> "unset", destination |-> "unset", zeroTime |-> TRUE, lifetime |-> 0,
     flags |-> {}, canonicals |-> << >>, canonicalCounter |-> 2, payload |-> NoPayload,
     crc |-> "CRCNo"]

\* A method called on a builder without an error; with one it would do nothing.
Call == ~bldr.err /\ calls < MaxCalls /\ calls' = calls + 1 /\ UNCHANGED expired

Set(field, value) == Call /\ bldr' = [bldr EXCEPT ![field] = value]

CRC(type)              == Set("crc", type)
Source(eid)            == Set("source", eid)
Destination(eid)       == Set("destination", eid)
CreationTimestampNow   == Set("zeroTime", FALSE)
CreationTimestampEpoch == Set("zeroTime", TRUE)
Lifetime(ms)           == Set("lifetime", ms)
BundleCtrlFlags(flags) == Set("flags", flags)

\* An argument that bldrParseEndpoint, bldrParseLifetime or a type switch refuses.
WrongArgument == Set("err", TRUE)

\* Canonical, of a block that is not the payload.
Canonical(type, flags, age) ==
    /\ Call
    /\ bldr' = [bldr EXCEPT !.canonicalCounter = @ + 1,
                            !.canonicals = Append(@, NewCanonicalBlock(bldr.canonicalCounter, flags, type, age))]

\* BundleAgeBlock and PreviousNodeBlock lose the flags they are given
\* (canonicalParseFlags gets the slice of arguments as its one argument).
BundleAgeBlock(age) == Canonical("age", {"ReplicateBlock"}, age)
PreviousNodeBlock   == Canonical("prev", {"ReplicateBlock"}, 0)

\* PayloadBlock, and Canonical of a payload.
PayloadBlock(data, flags) ==
    Set("payload", NewPayload(flags, data, "CRCNo"))

AdministrativeRecord(data) ==
    /\ Call
    /\ bldr' = [bldr EXCEPT !.payload = NewPayload({}, data, "CRCNo"),
                            !.flags = (@ \cup {"AdministrativeRecordPayload"}) \ {"StatusRequest"}]

\* Bundle.SetCRCType; the primary block has a CRC in any case.
SetCRCType(b, type) ==
    [b EXCEPT !.crc = IF type = "CRCNo" THEN "CRC32" ELSE type,
              !.payload = NewPayload(@.flags, @.data, type),
              !.exts = [i \in DOMAIN @ |-> [@[i] EXCEPT !.crc = type]]]

\* NewBundle, from what the builder holds.
NewBundle ==
    [flags |-> bldr.flags, source |-> bldr.source, zeroTime |-> bldr.zeroTime, lifetime |-> bldr.lifetime,
     offset |-> 0, total |-> 0, crc |-> "CRCNo", exts |-> bldr.canonicals, payload |-> bldr.payload]

\* How Build ends.  CheckValid of the blocks calls a method of the payload, which
\* is a nil interface when no method has set it.
BuildResult ==
    IF bldr.err \/ bldr.source = "unset" \/ bldr.destination = "unset" THEN "error"
    ELSE IF bldr.payload = NoPayload THEN "panic"
    ELSE IF CheckValid(NewBundle) THEN "ok" ELSE "error"

\* The methods with the arguments of the agents' clients; BuildFromMap calls them
\* in the order of a map, which is any.
BuilderStep ==
    \/ \E type \in CRCTypes : CRC(type)
    \/ \E eid \in {"dtn:none", "dtn://node/"} : Source(eid) \/ Destination(eid)
    \/ CreationTimestampNow \/ CreationTimestampEpoch
    \/ \E ms \in Lifetimes : Lifetime(ms) \/ BundleAgeBlock(ms)
    \/ \E flags \in SUBSET {"MustNotFragmented", "StatusRequest"} : BundleCtrlFlags(flags)
    \/ WrongArgument
    \/ \E flags \in SUBSET {"ReplicateBlock"} : Canonical("other", flags, 0) \/ Canonical("age", flags, 0)
    \/ PreviousNodeBlock
    \/ \E data \in Payloads : \/ AdministrativeRecord(data)
                              \/ \E flags \in SUBSET {"StatusReportBlock"} : PayloadBlock(data, flags)

\* The lifetime of a bundle with a creation time ends.
Expire == ~expired /\ expired' = TRUE /\ UNCHANGED <<bldr, calls>>

BuilderInit == bldr = Builder /\ calls = 0 /\ expired = FALSE

=============================================================================
