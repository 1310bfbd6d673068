----------------------------- MODULE Fragmentation -----------------------------
(***************************************************************************)
(* Fragmentation and reassembly of a bundle (pkg/bpv7/fragmentation.go).   *)
(* A bundle of the builder is fragmented, for links with different MTUs    *)
(* more than once.  The fragments travel as bundles of their own, so that a*)
(* receiver has some of them, in any order and some of them several times, *)
(* when it tries to reassemble the bundle.                                 *)
(*                                                                         *)
(* Each round of a loop is a step: the clock runs on, and CheckValid looks *)
(* at it in each round.                                                    *)
(***************************************************************************)
EXTENDS BundleBuilder

CONSTANTS
    MTUs,
    PrimaryBytes,   \* length of a primary block without fragment fields and CRC
    BlockBytes,     \* length of an extension block without its number and CRC
    Refragment,     \* whether fragments are fragmented again
    MaxOutputs,     \* bound: fragmentations of the bundle
    MaxReceived     \* bound: fragments given to a reassembly

ASSUME FragmentationConstants ==
    /\ MTUs \subseteq Nat /\ PrimaryBytes \in Nat /\ BlockBytes \in Nat
    /\ Refragment \in BOOLEAN /\ MaxOutputs \in Nat /\ MaxReceived \in Nat

VARIABLES
    pc,             \* what goes on: "idle", or where in which function
    orig,           \* the bundle that was built
    call,           \* local variables of Fragment
    outputs,        \* what calls of Fragment have returned, with their MTU
    re,             \* local variables of ReassembleFragments
    result          \* what it has returned

fragmentVars == <<call, outputs>>
receiverVars == <<re, result>>
vars == <<pc, orig, fragmentVars, receiverVars, builderVars>>

NoBundle == [flags |-> {}, source |-> "unset", zeroTime |-> TRUE, lifetime |-> 0, offset |-> 0,
             total |-> 0, crc |-> "CRCNo", exts |-> << >>, payload |-> NoPayload]
NoCall == [b |-> NoBundle, mtu |-> 0, first |-> 0, others |-> 0, k |-> 1, i |-> 0, bs |-> << >>]
NoRe   == [bs |-> << >>, k |-> 1, lastIndex |-> 0, data |-> << >>]
NoResult == [how |-> "none", bundle |-> NoBundle]

-----------------------------------------------------------------------------
(* Lengths of CBOR encodings.  Numbers are below 2^32.                       *)

UIntLen(n) == IF n < 24 THEN 1 ELSE IF n < 256 THEN 2 ELSE IF n < 65536 THEN 3 ELSE 5

CRCLen(type) == CASE type = "CRC16" -> 3 [] type = "CRC32" -> 5 [] OTHER -> 0

\* PrimaryBlock.MarshalCbor
PrimaryLen(b) ==
    PrimaryBytes + CRCLen(b.crc)
    + (IF "IsFragment" \in b.flags THEN UIntLen(b.offset) + UIntLen(b.total) ELSE 0)

\* CanonicalBlock.MarshalCbor, of an extension block and of a payload.
BlockLen(no, crc) == BlockBytes + UIntLen(no) + CRCLen(crc)
PayloadLen(n, crc) == 5 + UIntLen(n) + n + CRCLen(crc)

\* Bundle.MarshalCbor
BundleLen(b) ==
    2 + PrimaryLen(b) + PayloadLen(Len(b.payload.data), b.payload.crc)
      + FoldFunction(LAMBDA block, sum : BlockLen(block.no, block.crc) + sum, 0, b.exts)

-----------------------------------------------------------------------------
(* The bundle                                                                *)

Construct == pc = "building" /\ BuilderStep /\ UNCHANGED <<pc, orig, fragmentVars, receiverVars>>

\* Build; after an error or a panic there is no bundle to go on with.
Build ==
    /\ pc = "building"
    /\ pc' = IF BuildResult = "ok" THEN "idle" ELSE BuildResult
    /\ orig' = IF BuildResult = "ok" THEN SetCRCType(NewBundle, bldr.crc) ELSE orig
    /\ bldr' = Builder /\ calls' = 0
    /\ UNCHANGED <<fragmentVars, receiverVars, expired>>

\* forwardingAsync: the previous node block is replaced.
ReplacePreviousNode ==
    LET prev == ExtensionBlocksByType(orig.exts, "prev")
        rest == IF Cardinality(prev) = 1
                THEN RemoveExtensionBlockByBlockNumber(orig.exts, orig.exts[CHOOSE i \in prev : TRUE].no)
                ELSE orig.exts
    IN  /\ pc = "idle" /\ outputs = {}
        /\ orig' = [orig EXCEPT !.exts = AddExtensionBlock(rest, NewCanonicalBlock(0, {}, "prev", 0))]
        /\ UNCHANGED <<pc, fragmentVars, receiverVars, builderVars>>

TimePasses == Expire /\ UNCHANGED <<pc, orig, fragmentVars, receiverVars>>

-----------------------------------------------------------------------------
(* Fragment                                                                  *)

Fragments == UNION {Range(out.bs) : out \in outputs}

\* The call, unless the bundle must not be fragmented.
Fragment(b, mtu) ==
    /\ pc = "idle" /\ Cardinality(outputs) < MaxOutputs
    /\ "MustNotFragmented" \notin b.flags
    /\ call' = [NoCall EXCEPT !.b = b, !.mtu = mtu]
    /\ pc' = "lengths"
    /\ UNCHANGED <<orig, outputs, receiverVars, builderVars>>

\* fragmentExtensionBlocksLen, a round of its loop: an upper bound for the first
\* fragment, which gets all the blocks, and for the others.
ExtensionBlockLen ==
    /\ pc = "lengths" /\ call.k <= Len(call.b.exts)
    /\ LET block == call.b.exts[call.k]
           len   == BlockLen(block.no, "CRC32")
       IN  call' = [call EXCEPT !.k = @ + 1, !.first = @ + len,
                                !.others = IF "ReplicateBlock" \in block.flags THEN @ + len ELSE @]
    /\ UNCHANGED <<pc, orig, outputs, receiverVars, builderVars>>

\* Its end: the payload block, with a length field that would do for mtu bytes.
PayloadOverhead(mtu) == PayloadLen(0, "CRC32") + UIntLen(mtu) - 1

PayloadBlockLen ==
    /\ pc = "lengths" /\ call.k > Len(call.b.exts)
    /\ call' = [call EXCEPT !.first = @ + PayloadOverhead(call.mtu), !.others = @ + PayloadOverhead(call.mtu)]
    /\ pc' = "split"
    /\ UNCHANGED <<orig, outputs, receiverVars, builderVars>>

\* A bundle with what b's primary block says besides flags, offset and length.
Derived(b, flags, offset, total, exts, payload) ==
    [flags |-> flags, source |-> b.source, zeroTime |-> b.zeroTime, lifetime |-> b.lifetime,
     offset |-> offset, total |-> total, crc |-> b.crc, exts |-> exts, payload |-> payload]

\* fragmentPrimaryBlock, in a bundle with blocks exts and payload.
FragmentPrimary(b, offset, total, exts, payload) ==
    Derived(b, b.flags \cup {"IsFragment"}, offset, total, exts, payload)

\* The blocks a fragment gets.
Replicated(exts, i) ==
    IF i = 0 THEN exts ELSE SelectSeq(exts, LAMBDA block : "ReplicateBlock" \in block.flags)

\* AddExtensionBlock of one block after the other.
AddAll(exts) ==
    LET added[n \in 0..Len(exts)] ==
            IF n = 0 THEN << >> ELSE AddExtensionBlock(added[n - 1], exts[n])
    IN  added[Len(exts)]

\* Mutant of Overhead: the blocks that only the first fragment gets are not counted.
OverheadOthers(c) == 2 + PrimaryLen(FragmentPrimary(c.b, c.i, Len(c.b.payload.data), << >>, NoPayload)) + c.others

\* The overhead of the fragment at offset i.
Overhead(c) ==
    2 + PrimaryLen(FragmentPrimary(c.b, c.i, Len(c.b.payload.data), << >>, NoPayload)) + (IF c.i = 0 THEN c.first ELSE c.others)

\* Where it ends.
EndOf(c) ==
    LET end == c.i + (c.mtu - Overhead(c))
    IN  IF end < Len(c.b.payload.data) THEN end ELSE Len(c.b.payload.data)

FragmentAt(c) ==
    FragmentPrimary(c.b, c.i, Len(c.b.payload.data), AddAll(Replicated(c.b.exts, c.i)),
        NewPayload(c.b.payload.flags, SubSeq(c.b.payload.data, c.i + 1, EndOf(c)), c.b.payload.crc))

Fits(c) == Overhead(c) < c.mtu

\* A round of Fragment's loop; an error ends the call.
Split ==
    /\ pc = "split" /\ call.i < Len(call.b.payload.data)
    /\ IF Fits(call) /\ CheckValid(FragmentAt(call))
       THEN /\ call' = [call EXCEPT !.bs = Append(@, FragmentAt(call)), !.i = @ + (call.mtu - Overhead(call))]
            /\ UNCHANGED pc
       ELSE pc' = "idle" /\ call' = NoCall
    /\ UNCHANGED <<orig, outputs, receiverVars, builderVars>>

\* The end of Fragment: a single fragment is the bundle itself.
FragmentReturns ==
    /\ pc = "split" /\ call.i >= Len(call.b.payload.data)
    /\ outputs' = outputs \cup {[mtu |-> call.mtu,
                                 bs  |-> IF Len(call.bs) = 1 THEN <<call.b>> ELSE call.bs]}
    /\ call' = NoCall /\ pc' = "idle"
    /\ UNCHANGED <<orig, receiverVars, builderVars>>

-----------------------------------------------------------------------------
(* ReassembleFragments                                                       *)

\* Mutant of Sorted: the fragments stay in the order they came in.
SortedNot(bs) == {bs}

\* What sort.Slice, which is not stable, may make of bs.
Sorted(bs) ==
    {s \in {[i \in DOMAIN bs |-> bs[p[i]]] : p \in Bijection(DOMAIN bs, DOMAIN bs)} :
        \A i, j \in DOMAIN s : i < j => s[i].offset <= s[j].offset}

\* What may have reached a receiver, in the order it came in.
Arrivals == UNION {[1..n -> Fragments] : n \in 1..MaxReceived}

\* The call; without a fragment it is an error.
ReassembleFragments(bs) ==
    /\ pc = "idle"
    /\ \E s \in Sorted(bs) : re' = [NoRe EXCEPT !.bs = s]
    /\ pc' = "prepare"
    /\ UNCHANGED <<orig, fragmentVars, result, builderVars>>

Return(how, bundle) ==
    /\ result' = [how |-> how, bundle |-> bundle]
    /\ pc' = "returned"

\* The caller has its result.
Done ==
    /\ pc = "returned"
    /\ pc' = "idle" /\ re' = NoRe /\ result' = NoResult
    /\ UNCHANGED <<orig, fragmentVars, builderVars>>

\* prepareReassembly, a round of its loop.
Prepare ==
    /\ pc = "prepare" /\ re.k <= Len(re.bs)
    /\ LET f == re.bs[re.k]
       IN  IF "IsFragment" \notin f.flags \/ f.offset > re.lastIndex
           THEN Return("refused", NoBundle) /\ UNCHANGED re
           ELSE /\ re' = [re EXCEPT !.k = @ + 1, !.lastIndex = f.offset + Len(f.payload.data)]
                /\ UNCHANGED <<pc, result>>
    /\ UNCHANGED <<orig, fragmentVars, builderVars>>

\* Its end.
Prepared ==
    /\ pc = "prepare" /\ re.k > Len(re.bs)
    /\ IF re.bs[1].total # re.lastIndex
       THEN Return("refused", NoBundle) /\ UNCHANGED re
       ELSE re' = [re EXCEPT !.k = 1, !.lastIndex = 0] /\ pc' = "merge" /\ UNCHANGED result
    /\ UNCHANGED <<orig, fragmentVars, builderVars>>

\* Mutant of Rest: the part that overlaps is not cut off.
RestUncut(f, lastIndex) == f.payload.data

\* The bytes of fragment f from lastIndex on.
Rest(f, lastIndex) == SubSeq(f.payload.data, lastIndex - f.offset + 1, Len(f.payload.data))

\* mergeFragmentPayload, a round of its loop; a slice expression with a bound past
\* the end panics.
Merge ==
    /\ pc = "merge" /\ re.k <= Len(re.bs)
    /\ LET f == re.bs[re.k]
       IN  IF re.lastIndex - f.offset \in 0..Len(f.payload.data)
           THEN /\ re' = [re EXCEPT !.k = @ + 1, !.data = @ \o Rest(f, re.lastIndex),
                                    !.lastIndex = f.offset + Len(f.payload.data)]
                /\ UNCHANGED pc
           ELSE pc' = "panic" /\ UNCHANGED re
    /\ UNCHANGED <<orig, fragmentVars, result, builderVars>>

\* The bundle made of the first fragment and the payload.
Reassembled(f, data) ==
    Derived(f, f.flags \ {"IsFragment"}, 0, 0, AddAll(f.exts), NewPayload(f.payload.flags, data, f.payload.crc))

ReassemblyReturns ==
    /\ pc = "merge" /\ re.k > Len(re.bs)
    /\ LET b == Reassembled(re.bs[1], re.data)
       IN  Return(IF CheckValid(b) THEN "ok" ELSE "invalid", b)
    /\ UNCHANGED <<orig, fragmentVars, re, builderVars>>

-----------------------------------------------------------------------------

Init ==
    /\ BuilderInit
    /\ pc = "building" /\ orig = NoBundle
    /\ call = NoCall /\ outputs = {}
    /\ re = NoRe /\ result = NoResult

Next ==
    \/ Construct \/ Build \/ ReplacePreviousNode \/ TimePasses
    \/ \E b \in {orig} \cup (IF Refragment THEN Fragments ELSE {}), mtu \in MTUs : Fragment(b, mtu)
    \/ ExtensionBlockLen \/ PayloadBlockLen \/ Split \/ FragmentReturns
    \/ \E bs \in Arrivals : ReassembleFragments(bs)
    \/ Done \/ Prepare \/ Prepared \/ Merge \/ ReassemblyReturns

Spec == Init /\ [][Next]_vars

-----------------------------------------------------------------------------
(* Properties                                                                *)

\* A reassembly that returns a bundle returns the one that was fragmented, with
\* its payload byte for byte and its primary block, whichever fragments of however
\* many fragmentations it was given, some of them twice.
ReassembledIsOriginal ==
    result.how = "ok" => result.bundle = [orig EXCEPT !.exts = result.bundle.exts]

\* Its blocks are the original's under their numbers, and a fragment has the
\* blocks that want to be replicated (the first fragment has all).
BlocksSurvive ==
    LET Kinds(exts) == [i \in DOMAIN exts |-> exts[i].type]
    IN  /\ result.how = "ok" => result.bundle.exts = orig.exts
        /\ ~Refragment => \A f \in Fragments \ {orig} :
              Kinds(f.exts) = Kinds(Replicated(orig.exts, f.offset))

\* The fragments of one call of Fragment: while nothing else is among them,
\* merging never panics, and reassembly is refused only while one is missing.
OneCallReassembles ==
    \A out \in outputs :
        Range(re.bs) \subseteq Range(out.bs) /\ re.bs # << >> /\ Len(out.bs) > 1 =>
            /\ pc # "panic"
            /\ result.how = "refused" => Range(re.bs) # Range(out.bs)

\* What Fragment returns fits the MTU as serialized, for all that it calculates
\* with estimates of the blocks' lengths; and a fragment carries data.
FragmentsFit ==
    \A out \in outputs : \A f \in Range(out.bs) :
        BundleLen(f) <= out.mtu /\ f.payload.data # << >>

-----------------------------------------------------------------------------
(* What does not hold                                                        *)

\* prepareReassembly "checks if their are any gaps left": fragments without a gap
\* are not refused.  It looks at the end of the last one, though, which may lie
\* before the end of another.
OnlyGapsAreRefused ==
    LET bytes == UNION {f.offset..(f.offset + Len(f.payload.data) - 1) : f \in Range(re.bs)}
    IN  result.how = "refused" /\ orig \notin Range(re.bs) => bytes # 0..(Len(orig.payload.data) - 1)

\* Merging fragments that prepareReassembly has accepted does not panic.
MergingIsSafe == pc = "panic" => re = NoRe

\* A bundle is not lost by fragmenting it: an empty payload makes no fragment.
SomethingIsReturned == \A out \in outputs : out.bs # << >>

\* "So it is safe to be called by unchecked data" (BuildFromMap): a bundle without
\* a payload ends in a panic.
BuilderIsSafe == pc = "panic" => re # NoRe
=============================================================================
