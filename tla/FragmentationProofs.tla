-------------------------- MODULE FragmentationProofs --------------------------
(***************************************************************************)
(* Theorems about Fragmentation, for any payloads, MTUs and block lengths: *)
(* what a reassembly returns is the bundle that was fragmented, and the    *)
(* fragments of one call always reassemble.  Neither holds when fragments  *)
(* are fragmented again.                                                   *)
(***************************************************************************)
EXTENDS Fragmentation, TLAPS

\* Sequences with the same elements are equal.
LEMMA SameElements ==
    ASSUME NEW S, NEW s \in Seq(S), NEW t \in Seq(S),
           Len(s) = Len(t), \A i \in 1..Len(s) : s[i] = t[i]
    PROVE  s = t
OBVIOUS

\* The elements of a concatenation.
LEMMA Concatenation ==
    ASSUME NEW S, NEW s \in Seq(S), NEW t \in Seq(S)
    PROVE  /\ s \o t \in Seq(S)
           /\ Len(s \o t) = Len(s) + Len(t)
           /\ \A i \in 1 .. Len(s) + Len(t) :
                 (s \o t)[i] = IF i <= Len(s) THEN s[i] ELSE t[i - Len(s)]
OBVIOUS

\* A subsequence that ends before it begins is empty.
LEMMA NothingOfASequence == ASSUME NEW s PROVE SubSeq(s, 1, 0) = << >>
OBVIOUS

ClientFlags == {"MustNotFragmented", "StatusRequest", "AdministrativeRecordPayload"}
EndpointIDs == {"unset", "dtn:none", "dtn://node/"}

CanonicalBlocks ==
    [no : Nat, flags : SUBSET {"ReplicateBlock"}, type : BlockTypes, age : Nat, crc : CRCTypes]
CanonicalSeqs == Seq(CanonicalBlocks)
PayloadBlocks ==
    [flags : SUBSET {"StatusReportBlock"}, data : Seq(Bytes), crc : CRCTypes \cup {"nil"}]

\* A builder's fields have their types; it never makes a fragment.
BuilderOK ==
    bldr \in [err : BOOLEAN, source : EndpointIDs, destination : EndpointIDs, zeroTime : BOOLEAN,
              lifetime : Nat, flags : SUBSET ClientFlags, canonicals : CanonicalSeqs,
              canonicalCounter : Nat, payload : PayloadBlocks, crc : CRCTypes]

\* A bundle that is not a fragment.
Whole(b) ==
    b \in [flags : SUBSET ClientFlags, source : EndpointIDs, zeroTime : BOOLEAN, lifetime : Nat,
           offset : {0}, total : {0}, crc : CRCTypes, exts : {b.exts}, payload : PayloadBlocks]

Size(b) == Len(b.payload.data)
End(f)  == f.offset + Len(f.payload.data)

\* The fragment of b with the bytes from..to-1, and all fragments of b.
Piece(b, from, to) ==
    FragmentPrimary(b, from, Size(b), AddAll(Replicated(b.exts, from)),
        NewPayload(b.payload.flags, SubSeq(b.payload.data, from + 1, to), b.payload.crc))
Spans(n)  == {span \in (0..n) \X (0..n) : span[1] < span[2]}
Pieces(b) == {Piece(b, span[1], span[2]) : span \in Spans(Size(b))}

\* Fragments bs are in order, do not overlap, and leave no gap up to byte n.
Tiling(bs, n) ==
    /\ \A j \in DOMAIN bs : End(bs[j]) <= n
    /\ \A j, k \in DOMAIN bs : j < k => End(bs[j]) <= bs[k].offset
    /\ \A j \in DOMAIN bs : End(bs[j]) < n => \E k \in DOMAIN bs : bs[k].offset = End(bs[j])
    /\ n > 0 => \E j \in DOMAIN bs : bs[j].offset = 0

\* The loop of Fragment has dealt with the bytes before i.
CallOK ==
    pc \in {"lengths", "split"} =>
        /\ call.b = orig /\ call.mtu \in MTUs
        /\ call.first \in Nat /\ call.others \in Nat /\ call.k \in Nat /\ call.i \in Nat
        /\ call.bs \in Seq(Pieces(orig))
        /\ Tiling(call.bs, IF call.i < Size(orig) THEN call.i ELSE Size(orig))
        /\ call = [b |-> call.b, mtu |-> call.mtu, first |-> call.first, others |-> call.others,
                   k |-> call.k, i |-> call.i, bs |-> call.bs]

OutputsOK ==
    \A out \in outputs :
        \/ out.bs = <<orig>>
        \/ out.bs \in Seq(Pieces(orig)) /\ Tiling(out.bs, Size(orig))

\* Where the fragments before the k-th of bs end.
Before(bs, k) == IF k = 1 THEN 0 ELSE End(bs[k - 1])

\* The first n of bs are fragments that connect to each other.
Connected(bs, n) ==
    \A j \in 1..n : bs[j] # orig /\ bs[j].offset <= Before(bs, j)

\* A reassembly's fragments.
Given(bs) ==
    /\ bs \in Seq(Pieces(orig) \cup {orig}) /\ bs # << >>
    /\ \A j \in DOMAIN bs : bs[j] \in Fragments
    /\ \A j, k \in DOMAIN bs : j < k => bs[j].offset <= bs[k].offset

\* Prepare has seen the fragments before the k-th, Merge has their bytes.
ReassemblyOK ==
    /\ pc \in {"prepare", "merge"} =>
        /\ re = [bs |-> re.bs, k |-> re.k, lastIndex |-> re.lastIndex, data |-> re.data]
        /\ Given(re.bs)
        /\ re.k \in 1..Len(re.bs) + 1 /\ re.lastIndex = Before(re.bs, re.k)
    /\ pc = "prepare" => Connected(re.bs, re.k - 1) /\ re.data = << >>
    /\ pc = "merge" =>
        /\ Connected(re.bs, Len(re.bs)) /\ End(re.bs[Len(re.bs)]) = Size(orig)
        /\ re.data = SubSeq(orig.payload.data, 1, re.lastIndex)

\* Why a reassembly is refused, and when it panics.
Refused(bs) ==
    \/ \E k \in DOMAIN bs : bs[k] = orig \/ bs[k].offset > Before(bs, k)
    \/ End(bs[Len(bs)]) # Size(orig)
Panics(bs) ==
    /\ Connected(bs, Len(bs))
    /\ \E k \in DOMAIN bs : Before(bs, k) - bs[k].offset \notin 0..Len(bs[k].payload.data)

ResultOK ==
    /\ result.how \in {"none", "refused", "invalid", "ok"}
    /\ result.how # "none" => pc = "returned"
    /\ result.how = "ok" => result.bundle = [orig EXCEPT !.exts = result.bundle.exts]
    /\ result.how = "refused" => Given(re.bs) /\ Refused(re.bs)
    /\ pc = "panic" /\ re # NoRe => Given(re.bs) /\ Panics(re.bs)

\* The inductive invariant.
FInv ==
    /\ BuilderOK /\ Whole(orig)
    /\ pc \in {"building", "error", "panic", "idle", "lengths", "split", "prepare", "merge", "returned"}
    /\ pc \in {"building", "error"} => outputs = {}
    /\ pc \in {"building", "error", "idle", "lengths", "split"} => re = NoRe /\ result = NoResult
    /\ CallOK /\ OutputsOK /\ ReassemblyOK /\ ResultOK

-----------------------------------------------------------------------------
(* Lengths and parts of sequences                                            *)

\* Every length is a number, whatever it is the length of.
LEMMA LengthTypes ==
    /\ \A n : UIntLen(n) \in Nat \ {0}
    /\ \A type : CRCLen(type) \in Nat
    /\ \A no, crc : BlockLen(no, crc) \in Nat
    /\ \A mtu : PayloadOverhead(mtu) \in Nat
    /\ \A b : PrimaryLen(b) \in Nat
<1>1. \A n : UIntLen(n) \in Nat \ {0}
  BY DEF UIntLen
<1>2. \A type : CRCLen(type) \in Nat
  BY DEF CRCLen
<1>3. \A no, crc : BlockLen(no, crc) \in Nat
  BY <1>1, <1>2, FragmentationConstants DEF BlockLen
<1>4. \A mtu : PayloadOverhead(mtu) \in Nat
  BY <1>1, <1>2 DEF PayloadOverhead, PayloadLen
<1>5. \A b : PrimaryLen(b) \in Nat
  BY <1>1, <1>2, FragmentationConstants DEF PrimaryLen
<1> QED  BY <1>1, <1>2, <1>3, <1>4, <1>5

\* The bytes up to last and, of those from off to end, the ones from last on are the
\* bytes up to end: what mergeFragmentPayload does in a round.
LEMMA MergeBytes ==
    ASSUME NEW S, NEW d \in Seq(S), NEW off \in Nat, NEW last \in Nat, NEW end \in Nat,
           off <= last, last <= end, end <= Len(d)
    PROVE  SubSeq(d, 1, last) \o SubSeq(SubSeq(d, off + 1, end), last - off + 1, end - off)
               = SubSeq(d, 1, end)
<1> DEFINE head == SubSeq(d, 1, last)
           part == SubSeq(d, off + 1, end)
           tail == SubSeq(part, last - off + 1, end - off)
<1>1. head \in Seq(S) /\ Len(head) = last /\ \A i \in 1..last : head[i] = d[i]
  OBVIOUS
<1>2. part \in Seq(S) /\ Len(part) = end - off /\ \A i \in 1..(end - off) : part[i] = d[off + i]
  OBVIOUS
<1>3. tail \in Seq(S) /\ Len(tail) = end - last /\ \A i \in 1..(end - last) : tail[i] = part[last - off + i]
  <2> HIDE DEF part
  <2> QED  BY <1>2
<1>4. \A i \in 1..(end - last) : tail[i] = d[last + i]
  <2> HIDE DEF part, tail
  <2> QED  BY <1>2, <1>3
<1> DEFINE all == SubSeq(d, 1, end)
<1>5. all \in Seq(S) /\ Len(all) = end /\ \A i \in 1..end : all[i] = d[i]
  OBVIOUS
<1> HIDE DEF head, tail, all, part
<1>6. /\ head \o tail \in Seq(S)
      /\ Len(head \o tail) = Len(head) + Len(tail)
      /\ \A i \in 1 .. Len(head) + Len(tail) :
            (head \o tail)[i] = IF i <= Len(head) THEN head[i] ELSE tail[i - Len(head)]
  <2>1. head \in Seq(S) /\ tail \in Seq(S)
    BY <1>1, <1>3
  <2> QED  BY ONLY <2>1, Concatenation, Zenon
<1> DEFINE both == head \o tail
<1>9. /\ both \in Seq(S)
      /\ Len(both) = Len(head) + Len(tail)
      /\ \A i \in 1 .. Len(head) + Len(tail) :
            both[i] = IF i <= Len(head) THEN head[i] ELSE tail[i - Len(head)]
  BY ONLY <1>6, Zenon
<1> HIDE DEF both
<1>7. both \in Seq(S) /\ Len(both) = end /\ \A i \in 1..end : both[i] = d[i]
  <2>1. both \in Seq(S) /\ Len(both) = end
    BY <1>9, <1>1, <1>3
  <2>2. ASSUME NEW i \in 1..end  PROVE both[i] = d[i]
    <3>1. both[i] = IF i <= last THEN head[i] ELSE tail[i - last]
      BY <1>9, <1>1, <1>3
    <3>2. CASE i <= last
      BY <3>1, <3>2, <1>1
    <3>3. CASE i > last
      <4>1. i - last \in 1..(end - last) /\ last + (i - last) = i
        BY <3>3
      <4> QED  BY <3>1, <3>3, <4>1, <1>4
    <3> QED  BY <3>2, <3>3
  <2> QED  BY <2>1, <2>2
<1>8. both = all
  BY <1>5, <1>7, SameElements
<1> QED  BY <1>8 DEF both, head, tail, all, part

\* Fragment f holds the bytes from..to-1 of b.
MadeOf(f, b, from, to) ==
    /\ f.offset = from /\ f.total = Size(b) /\ End(f) = to
    /\ f.payload.data = SubSeq(b.payload.data, from + 1, to)
    /\ Len(f.payload.data) = to - from
    /\ "IsFragment" \in f.flags
    /\ f.flags \ {"IsFragment"} = b.flags

\* What a fragment is made of.
LEMMA PieceFields ==
    ASSUME NEW b, Whole(b), NEW from \in Nat, NEW to \in Nat, from < to, to <= Size(b)
    PROVE  MadeOf(Piece(b, from, to), b, from, to)
<1> DEFINE f == Piece(b, from, to)
<1>1. b.payload.data \in Seq(Bytes) /\ Size(b) \in Nat
  BY DEF Whole, Size, PayloadBlocks
<1>2. f = [flags |-> b.flags \cup {"IsFragment"}, source |-> b.source, zeroTime |-> b.zeroTime,
           lifetime |-> b.lifetime, offset |-> from, total |-> Size(b), crc |-> b.crc,
           exts |-> AddAll(Replicated(b.exts, from)),
           payload |-> [flags |-> b.payload.flags, data |-> SubSeq(b.payload.data, from + 1, to),
                        crc |-> b.payload.crc]]
  BY DEF Piece, FragmentPrimary, Derived, NewPayload
<1> HIDE DEF f
<1>3. f.payload.data = SubSeq(b.payload.data, from + 1, to) /\ f.offset = from /\ f.total = Size(b)
  BY <1>2
<1>4. Len(f.payload.data) = to - from
  BY <1>1, <1>3 DEF Size
<1>5. f.flags = b.flags \cup {"IsFragment"} /\ "IsFragment" \notin b.flags
  BY <1>2 DEF Whole, ClientFlags
<1>6. MadeOf(f, b, from, to)
  BY <1>3, <1>4, <1>5 DEF MadeOf, End
<1> QED  BY <1>6 DEF f

\* A whole payload in a fragment's clothes is the bundle itself, but for its blocks.
LEMMA ReassembledPiece ==
    ASSUME NEW b, Whole(b), NEW from \in Nat, NEW to \in Nat, from < to, to <= Size(b)
    PROVE  LET r == Reassembled(Piece(b, from, to), b.payload.data)
           IN  r = [b EXCEPT !.exts = r.exts]
<1> DEFINE f == Piece(b, from, to)
           r == Reassembled(f, b.payload.data)
<1>1. /\ f.source = b.source /\ f.zeroTime = b.zeroTime /\ f.lifetime = b.lifetime /\ f.crc = b.crc
      /\ f.payload.flags = b.payload.flags /\ f.payload.crc = b.payload.crc
      /\ f.flags = b.flags \cup {"IsFragment"}
  BY DEF Piece, FragmentPrimary, Derived, NewPayload
<1>2. f.flags \ {"IsFragment"} = b.flags
  BY <1>1 DEF Whole, ClientFlags
<1> HIDE DEF f
<1>3. r = [flags |-> b.flags, source |-> b.source, zeroTime |-> b.zeroTime, lifetime |-> b.lifetime,
           offset |-> 0, total |-> 0, crc |-> b.crc, exts |-> AddAll(f.exts),
           payload |-> [flags |-> b.payload.flags, data |-> b.payload.data, crc |-> b.payload.crc]]
  BY <1>1, <1>2 DEF Reassembled, Derived, NewPayload
<1>4. b.payload = [flags |-> b.payload.flags, data |-> b.payload.data, crc |-> b.payload.crc]
  BY DEF Whole, PayloadBlocks
<1>5. b = [flags |-> b.flags, source |-> b.source, zeroTime |-> b.zeroTime, lifetime |-> b.lifetime,
           offset |-> 0, total |-> 0, crc |-> b.crc, exts |-> b.exts, payload |-> b.payload]
  BY DEF Whole
<1>6. r.exts = AddAll(f.exts)
  BY <1>3
<1>7. [b EXCEPT !.exts = AddAll(f.exts)]
        = [flags |-> b.flags, source |-> b.source, zeroTime |-> b.zeroTime, lifetime |-> b.lifetime,
           offset |-> 0, total |-> 0, crc |-> b.crc, exts |-> AddAll(f.exts), payload |-> b.payload]
  BY <1>5
<1> HIDE DEF r
<1> QED  BY <1>3, <1>4, <1>6, <1>7 DEF r, f
\* The same of any fragment of b.
LEMMA PiecesFacts ==
    ASSUME NEW b, Whole(b), NEW f \in Pieces(b)
    PROVE  /\ f.offset \in Nat /\ End(f) \in Nat /\ f.offset < End(f) /\ End(f) <= Size(b)
           /\ Len(f.payload.data) = End(f) - f.offset
           /\ f.payload.data = SubSeq(b.payload.data, f.offset + 1, End(f))
           /\ f.total = Size(b) /\ "IsFragment" \in f.flags /\ f # b
           /\ Reassembled(f, b.payload.data)
                = [b EXCEPT !.exts = Reassembled(f, b.payload.data).exts]
<1>0. Size(b) \in Nat
  BY DEF Whole, Size, PayloadBlocks
<1>1. PICK span \in Spans(Size(b)) : f = Piece(b, span[1], span[2])
  BY DEF Pieces
<1> DEFINE from == span[1]
           to   == span[2]
<1>2. from \in Nat /\ to \in Nat /\ from < to /\ to <= Size(b)
  BY <1>0 DEF Spans
<1> HIDE DEF from, to
<1>3. f = Piece(b, from, to)
  BY <1>1 DEF from, to
<1>4. /\ f.offset = from /\ f.total = Size(b) /\ End(f) = to
      /\ f.payload.data = SubSeq(b.payload.data, from + 1, to)
      /\ Len(f.payload.data) = to - from
      /\ "IsFragment" \in f.flags
  <2>1. MadeOf(f, b, from, to)
    BY <1>2, <1>3, PieceFields, Zenon
  <2> QED  BY ONLY <2>1 DEF MadeOf
<1>5. "IsFragment" \notin b.flags
  BY DEF Whole, ClientFlags
<1>6. Reassembled(f, b.payload.data) = [b EXCEPT !.exts = Reassembled(f, b.payload.data).exts]
  <2>1. LET r == Reassembled(Piece(b, from, to), b.payload.data)
        IN  r = [b EXCEPT !.exts = r.exts]
    BY <1>2, ReassembledPiece, Zenon
  <2> QED  BY ONLY <2>1, <1>3, Zenon
<1> QED  BY <1>2, <1>4, <1>5, <1>6

\* A round of Fragment's loop continues the tiling.
LEMMA TilingAppend ==
    ASSUME NEW b, Whole(b), NEW bs \in Seq(Pieces(b)), NEW i \in Nat, NEW to \in Nat,
           i < to, to <= Size(b), Tiling(bs, i)
    PROVE  /\ Append(bs, Piece(b, i, to)) \in Seq(Pieces(b))
           /\ Tiling(Append(bs, Piece(b, i, to)), to)
<1> DEFINE f  == Piece(b, i, to)
           cs == Append(bs, f)
           n  == Len(bs)
<1>0. Size(b) \in Nat
  BY DEF Whole, Size, PayloadBlocks
<1>1. f \in Pieces(b)
  <2>1. <<i, to>> \in Spans(Size(b))
    BY <1>0 DEF Spans
  <2> QED  BY <2>1 DEF Pieces
<1>2. f.offset = i /\ End(f) = to
  <2>1. MadeOf(f, b, i, to)
    BY PieceFields, Zenon
  <2> HIDE DEF f
  <2> QED  BY ONLY <2>1 DEF MadeOf
<1> HIDE DEF f
<1>3. /\ n \in Nat /\ DOMAIN bs = 1..n
      /\ cs \in Seq(Pieces(b)) /\ DOMAIN cs = 1..(n + 1)
      /\ cs[n + 1] = f /\ \A j \in 1..n : cs[j] = bs[j]
  BY <1>1
<1>4. \A j \in 1..n : End(bs[j]) \in Nat /\ bs[j].offset \in Nat
  <2> TAKE j \in 1..n
  <2>1. bs[j] \in Pieces(b)
    BY <1>3
  <2> QED  BY <2>1, PiecesFacts
<1> HIDE DEF cs, n
<1>5. \A j \in DOMAIN cs : End(cs[j]) <= to
  BY <1>2, <1>3, <1>4 DEF Tiling
<1>6. \A j, k \in DOMAIN cs : j < k => End(cs[j]) <= cs[k].offset
  <2> TAKE j, k \in DOMAIN cs
  <2> HAVE j < k
  <2>1. CASE k = n + 1
    BY <2>1, <1>2, <1>3, <1>4 DEF Tiling
  <2>2. CASE k # n + 1
    BY <2>2, <1>3 DEF Tiling
  <2> QED  BY <2>1, <2>2
<1>7. \A j \in DOMAIN cs : End(cs[j]) < to => \E k \in DOMAIN cs : cs[k].offset = End(cs[j])
  <2> TAKE j \in DOMAIN cs
  <2> HAVE End(cs[j]) < to
  <2>1. j \in 1..n /\ cs[j] = bs[j] /\ End(bs[j]) <= i
    BY <1>2, <1>3 DEF Tiling
  <2>2. CASE End(bs[j]) = i
    BY <2>1, <2>2, <1>2, <1>3
  <2>3. CASE End(bs[j]) < i
    <3>1. PICK k \in DOMAIN bs : bs[k].offset = End(bs[j])
      BY <2>1, <2>3, <1>3 DEF Tiling
    <3> QED  BY <3>1, <2>1, <1>3
  <2> QED  BY <2>1, <2>2, <2>3, <1>4
<1>8. \E j \in DOMAIN cs : cs[j].offset = 0
  <2>1. CASE i = 0
    BY <2>1, <1>2, <1>3
  <2>2. CASE i > 0
    <3>1. PICK j \in DOMAIN bs : bs[j].offset = 0
      BY <2>2 DEF Tiling
    <3> QED  BY <3>1, <1>3
  <2> QED  BY <2>1, <2>2
<1>9. Tiling(cs, to)
  BY <1>5, <1>6, <1>7, <1>8 DEF Tiling
<1> QED  BY <1>3, <1>9 DEF cs, f

-----------------------------------------------------------------------------
(* The builder                                                               *)

\* A call of a builder's method keeps its type.
LEMMA BuilderKeepsType == BuilderOK /\ BuilderStep => BuilderOK'
<1> SUFFICES ASSUME BuilderOK, BuilderStep  PROVE BuilderOK'
  OBVIOUS
<1> USE DEF BuilderOK, Set, Call
<1>1. ASSUME NEW type \in CRCTypes, CRC(type)  PROVE BuilderOK'
  BY <1>1 DEF CRC
<1>2. ASSUME NEW eid \in {"dtn:none", "dtn://node/"}, Source(eid) \/ Destination(eid)  PROVE BuilderOK'
  BY <1>2 DEF Source, Destination, EndpointIDs
<1>3. ASSUME CreationTimestampNow \/ CreationTimestampEpoch  PROVE BuilderOK'
  BY <1>3 DEF CreationTimestampNow, CreationTimestampEpoch
<1>4. ASSUME NEW type \in BlockTypes, NEW flags \in SUBSET {"ReplicateBlock"}, NEW age \in Nat,
             Canonical(type, flags, age)
      PROVE  BuilderOK'
  <2>1. NewCanonicalBlock(bldr.canonicalCounter, flags, type, age) \in CanonicalBlocks
    BY <1>4 DEF NewCanonicalBlock, CanonicalBlocks, CRCTypes
  <2>2. Append(bldr.canonicals, NewCanonicalBlock(bldr.canonicalCounter, flags, type, age)) \in CanonicalSeqs
    BY <2>1 DEF CanonicalSeqs
  <2> DEFINE cs == Append(bldr.canonicals, NewCanonicalBlock(bldr.canonicalCounter, flags, type, age))
             n  == bldr.canonicalCounter + 1
  <2>3. bldr' = [bldr EXCEPT !.canonicalCounter = n, !.canonicals = cs]
    BY <1>4 DEF Canonical
  <2>5. n \in Nat
    OBVIOUS
  <2> HIDE DEF cs, n
  <2>4. cs \in CanonicalSeqs
    BY <2>2 DEF cs
  <2> QED  BY <2>3, <2>4, <2>5
<1>5. ASSUME NEW ms \in Lifetimes, Lifetime(ms) \/ BundleAgeBlock(ms)  PROVE BuilderOK'
  <2>1. ms \in Nat
    BY BuilderConstants
  <2>2. CASE Lifetime(ms)
    BY <2>1, <2>2 DEF Lifetime
  <2>3. CASE BundleAgeBlock(ms)
    BY <2>1, <2>3, <1>4 DEF BundleAgeBlock, BlockTypes
  <2> QED  BY <1>5, <2>2, <2>3
<1>6. ASSUME NEW flags \in SUBSET {"MustNotFragmented", "StatusRequest"}, BundleCtrlFlags(flags)
      PROVE  BuilderOK'
  BY <1>6 DEF BundleCtrlFlags, ClientFlags
<1>7. ASSUME WrongArgument  PROVE BuilderOK'
  BY <1>7 DEF WrongArgument
<1>8. ASSUME NEW flags \in SUBSET {"ReplicateBlock"},
             Canonical("other", flags, 0) \/ Canonical("age", flags, 0)
      PROVE  BuilderOK'
  BY <1>8, <1>4 DEF BlockTypes
<1>9. ASSUME PreviousNodeBlock  PROVE BuilderOK'
  BY <1>9, <1>4 DEF PreviousNodeBlock, BlockTypes
<1>10. ASSUME NEW data \in Payloads, AdministrativeRecord(data)  PROVE BuilderOK'
  <2>1. NewPayload({}, data, "CRCNo") \in PayloadBlocks
    BY BuilderConstants DEF NewPayload, PayloadBlocks, CRCTypes
  <2> HIDE DEF PayloadBlocks
  <2> QED  BY <2>1, <1>10 DEF AdministrativeRecord, ClientFlags
<1>11. ASSUME NEW data \in Payloads, NEW flags \in SUBSET {"StatusReportBlock"}, PayloadBlock(data, flags)
       PROVE  BuilderOK'
  <2>1. NewPayload(flags, data, "CRCNo") \in PayloadBlocks
    BY BuilderConstants DEF NewPayload, PayloadBlocks, CRCTypes
  <2> HIDE DEF PayloadBlocks
  <2> QED  BY <2>1, <1>11 DEF PayloadBlock
<1> QED
  BY <1>1, <1>2, <1>3, <1>5, <1>6, <1>7, <1>8, <1>9, <1>10, <1>11 DEF BuilderStep

\* What Build makes is a whole bundle.
LEMMA BuiltIsWhole == BuilderOK => Whole(SetCRCType(NewBundle, bldr.crc))
<1> SUFFICES ASSUME BuilderOK  PROVE Whole(SetCRCType(NewBundle, bldr.crc))
  OBVIOUS
<1> DEFINE p    == NewPayload(bldr.payload.flags, bldr.payload.data, bldr.crc)
           e    == [i \in DOMAIN bldr.canonicals |-> [bldr.canonicals[i] EXCEPT !.crc = bldr.crc]]
           c    == IF bldr.crc = "CRCNo" THEN "CRC32" ELSE bldr.crc
<1>1. p \in PayloadBlocks /\ c \in CRCTypes
  BY DEF BuilderOK, NewPayload, PayloadBlocks, CRCTypes
<1> DEFINE nb == NewBundle
<1>2. nb \in [flags : SUBSET ClientFlags, source : EndpointIDs, zeroTime : BOOLEAN, lifetime : Nat,
              offset : {0}, total : {0}, crc : CRCTypes, exts : {bldr.canonicals}, payload : PayloadBlocks]
  BY DEF NewBundle, BuilderOK, CRCTypes
<1>3. nb.payload = bldr.payload /\ nb.exts = bldr.canonicals
  BY DEF NewBundle
<1> HIDE DEF nb
<1>4. SetCRCType(nb, bldr.crc) = [nb EXCEPT !.crc = c, !.payload = p, !.exts = e]
  BY <1>2, <1>3 DEF SetCRCType
<1> HIDE DEF p, e, c
<1>5. SetCRCType(nb, bldr.crc) \in
        [flags : SUBSET ClientFlags, source : EndpointIDs, zeroTime : BOOLEAN, lifetime : Nat,
         offset : {0}, total : {0}, crc : CRCTypes, exts : {e}, payload : PayloadBlocks]
  BY <1>1, <1>2, <1>4
<1> QED  BY <1>5 DEF Whole, nb
-----------------------------------------------------------------------------
(* The inductive invariant                                                   *)

LEMMA InitFInv == Init => FInv
<1> SUFFICES ASSUME Init  PROVE FInv
  OBVIOUS
<1>1. NoPayload \in PayloadBlocks
  BY DEF NoPayload, NewPayload, PayloadBlocks
<1>2. BuilderOK
  <2>1. << >> \in CanonicalSeqs
    BY DEF CanonicalSeqs
  <2> QED  BY <1>1, <2>1 DEF Init, BuilderInit, Builder, BuilderOK, EndpointIDs, CRCTypes
<1>3. Whole(orig)
  BY <1>1 DEF Init, Whole, NoBundle, EndpointIDs, CRCTypes
<1>4. /\ pc = "building" /\ outputs = {} /\ re = NoRe /\ result = NoResult
  BY DEF Init
<1>5. CallOK /\ OutputsOK /\ ReassemblyOK
  BY <1>4 DEF CallOK, OutputsOK, ReassemblyOK
<1>6. ResultOK
  BY <1>4 DEF ResultOK, NoResult
<1> QED  BY <1>2, <1>3, <1>4, <1>5, <1>6 DEF FInv

\* Steps that leave everything but the builder alone.
LEMMA FrameFInv ==
    FInv /\ UNCHANGED <<pc, orig, fragmentVars, receiverVars>> /\ BuilderOK' => FInv'
<1> SUFFICES ASSUME FInv, UNCHANGED <<pc, orig, fragmentVars, receiverVars>>, BuilderOK'
             PROVE  FInv'
  OBVIOUS
<1> USE DEF FInv, fragmentVars, receiverVars
<1>1. Whole(orig)'
  OBVIOUS
<1>2. CallOK' /\ OutputsOK'
  BY DEF CallOK, OutputsOK
<1>3. ReassemblyOK'
  BY DEF ReassemblyOK, Given, Fragments, Connected
<1>4. ResultOK'
  BY DEF ResultOK, Given, Fragments, Panics, Refused, Connected
<1> QED  BY <1>1, <1>2, <1>3, <1>4

LEMMA ConstructFInv == FInv /\ Construct => FInv'
<1> SUFFICES ASSUME FInv, Construct  PROVE FInv'
  OBVIOUS
<1>1. BuilderOK'
  BY BuilderKeepsType DEF FInv, Construct
<1> QED  BY <1>1, FrameFInv DEF Construct

LEMMA TimePassesFInv == FInv /\ TimePasses => FInv'
<1> SUFFICES ASSUME FInv, TimePasses  PROVE FInv'
  OBVIOUS
<1>1. BuilderOK'
  BY DEF FInv, TimePasses, Expire, BuilderOK
<1> QED  BY <1>1, FrameFInv DEF TimePasses

\* While nothing is fragmented and nothing reassembled, any whole bundle will do.
LEMMA FreshFInv ==
    ASSUME FInv, outputs = {}, re = NoRe, result = NoResult, UNCHANGED <<fragmentVars, receiverVars>>,
           BuilderOK', Whole(orig)', pc' \in {"building", "error", "panic", "idle"}
    PROVE  FInv'
<1>1. outputs' = {} /\ re' = NoRe /\ result' = NoResult
  BY DEF fragmentVars, receiverVars
<1>2. CallOK' /\ OutputsOK' /\ ReassemblyOK'
  BY <1>1 DEF CallOK, OutputsOK, ReassemblyOK
<1>3. ResultOK'
  BY <1>1 DEF ResultOK, NoResult
<1> QED  BY <1>1, <1>2, <1>3 DEF FInv

LEMMA BuildFInv == FInv /\ Build => FInv'
<1> SUFFICES ASSUME FInv, Build  PROVE FInv'
  OBVIOUS
<1>1. outputs = {} /\ re = NoRe /\ result = NoResult /\ UNCHANGED <<fragmentVars, receiverVars>>
  BY DEF FInv, Build
<1>2. BuilderOK'
  <2>1. NoPayload \in PayloadBlocks /\ << >> \in CanonicalSeqs
    BY DEF NoPayload, NewPayload, PayloadBlocks, CanonicalSeqs
  <2> QED  BY <2>1 DEF Build, Builder, BuilderOK, EndpointIDs, CRCTypes
<1>3. Whole(orig)'
  <2>1. CASE BuildResult = "ok"
    <3>1. orig' = SetCRCType(NewBundle, bldr.crc)
      BY <2>1 DEF Build
    <3> QED  BY <3>1, BuiltIsWhole DEF FInv
  <2>2. CASE BuildResult # "ok"
    BY <2>2 DEF Build, FInv
  <2> QED  BY <2>1, <2>2
<1>4. pc' \in {"building", "error", "panic", "idle"}
  BY DEF Build, BuildResult
<1> QED  BY <1>1, <1>2, <1>3, <1>4, FreshFInv

LEMMA ReplacePreviousNodeFInv == FInv /\ ReplacePreviousNode => FInv'
<1> SUFFICES ASSUME FInv, ReplacePreviousNode  PROVE FInv'
  OBVIOUS
<1>1. PICK e : orig' = [orig EXCEPT !.exts = e]
  BY DEF ReplacePreviousNode
<1>2. /\ pc = "idle" /\ outputs = {} /\ UNCHANGED <<pc, fragmentVars, receiverVars, builderVars>>
  BY DEF ReplacePreviousNode
<1>3. re = NoRe /\ result = NoResult
  BY <1>2 DEF FInv
<1>4. Whole(orig)'
  BY <1>1 DEF FInv, Whole
<1>5. BuilderOK'
  BY <1>2 DEF FInv, BuilderOK, builderVars
<1> QED  BY <1>2, <1>3, <1>4, <1>5, FreshFInv
\* A step of Fragment touches only its own variables.
LEMMA CallFInv ==
    ASSUME FInv, UNCHANGED <<orig, receiverVars, builderVars>>, pc \in {"idle", "lengths", "split"},
           pc' \in {"idle", "lengths", "split"}, CallOK', OutputsOK'
    PROVE  FInv'
<1>1. re' = NoRe /\ result' = NoResult /\ BuilderOK' /\ Whole(orig)'
  BY DEF FInv, receiverVars, builderVars, BuilderOK
<1>2. ReassemblyOK'
  BY DEF ReassemblyOK
<1>3. ResultOK'
  BY <1>1 DEF ResultOK, NoResult
<1> QED  BY <1>1, <1>2, <1>3 DEF FInv

\* With no fragment yet, nothing is tiled.
LEMMA EmptyTiling == Tiling(<< >>, 0)
BY DEF Tiling

LEMMA FragmentFInv ==
    ASSUME FInv, NEW mtu \in MTUs, Fragment(orig, mtu)
    PROVE  FInv'
<1>1. Size(orig) \in Nat
  BY DEF FInv, Whole, Size, PayloadBlocks
<1>2. call' = [b |-> orig, mtu |-> mtu, first |-> 0, others |-> 0, k |-> 1, i |-> 0, bs |-> << >>]
  BY DEF Fragment, NoCall
<1>3. CallOK'
  <2>1. Tiling(<< >>, IF 0 < Size(orig) THEN 0 ELSE Size(orig))
    BY <1>1, EmptyTiling
  <2>2. << >> \in Seq(Pieces(orig))
    OBVIOUS
  <2>3. orig' = orig
    BY DEF Fragment
  <2> QED  BY <1>2, <2>1, <2>2, <2>3 DEF CallOK
<1>4. OutputsOK'
  BY DEF FInv, OutputsOK, Fragment
<1> QED  BY <1>3, <1>4, CallFInv DEF Fragment

LEMMA ExtensionBlockLenFInv == FInv /\ ExtensionBlockLen => FInv'
<1> SUFFICES ASSUME FInv, ExtensionBlockLen  PROVE FInv'
  OBVIOUS
<1> DEFINE block == call.b.exts[call.k]
           len   == BlockLen(block.no, "CRC32")
           first == call.first + len
           others == IF "ReplicateBlock" \in block.flags THEN call.others + len ELSE call.others
<1>1. pc = "lengths" /\ pc' = pc /\ UNCHANGED <<orig, outputs, receiverVars, builderVars>>
  BY DEF ExtensionBlockLen
<1>2. len \in Nat
  BY LengthTypes
<1> HIDE DEF len
<1>3. first \in Nat /\ others \in Nat
  BY <1>1, <1>2 DEF FInv, CallOK
<1>4. call' = [call EXCEPT !.k = call.k + 1, !.first = first, !.others = others]
  BY DEF ExtensionBlockLen, len
<1> HIDE DEF first, others
<1>5. call' = [b |-> call.b, mtu |-> call.mtu, first |-> first, others |-> others,
               k |-> call.k + 1, i |-> call.i, bs |-> call.bs]
  BY <1>1, <1>4 DEF FInv, CallOK
<1>6. CallOK'
  BY <1>1, <1>3, <1>5 DEF FInv, CallOK
<1>7. OutputsOK'
  BY <1>1 DEF FInv, OutputsOK
<1> QED  BY <1>1, <1>6, <1>7, CallFInv

LEMMA PayloadBlockLenFInv == FInv /\ PayloadBlockLen => FInv'
<1> SUFFICES ASSUME FInv, PayloadBlockLen  PROVE FInv'
  OBVIOUS
<1> DEFINE len == PayloadOverhead(call.mtu)
           first == call.first + len
           others == call.others + len
<1>1. pc = "lengths" /\ pc' = "split" /\ UNCHANGED <<orig, outputs, receiverVars, builderVars>>
  BY DEF PayloadBlockLen
<1>2. len \in Nat
  BY LengthTypes
<1> HIDE DEF len
<1>3. first \in Nat /\ others \in Nat
  BY <1>1, <1>2 DEF FInv, CallOK
<1>4. call' = [call EXCEPT !.first = first, !.others = others]
  BY DEF PayloadBlockLen, len
<1> HIDE DEF first, others
<1>5. call' = [b |-> call.b, mtu |-> call.mtu, first |-> first, others |-> others,
               k |-> call.k, i |-> call.i, bs |-> call.bs]
  BY <1>1, <1>4 DEF FInv, CallOK
<1>6. CallOK'
  BY <1>1, <1>3, <1>5 DEF FInv, CallOK
<1>7. OutputsOK'
  BY <1>1 DEF FInv, OutputsOK
<1> QED  BY <1>1, <1>6, <1>7, CallFInv

LEMMA SplitFInv == FInv /\ Split => FInv'
<1> SUFFICES ASSUME FInv, Split  PROVE FInv'
  OBVIOUS
<1>1. /\ pc = "split" /\ call.i < Len(call.b.payload.data)
      /\ UNCHANGED <<orig, outputs, receiverVars, builderVars>>
  BY DEF Split
<1>2. OutputsOK'
  BY <1>1 DEF FInv, OutputsOK
<1>3. CASE ~(Fits(call) /\ CheckValid(FragmentAt(call)))
  <2>1. pc' = "idle"
    BY <1>3 DEF Split
  <2>2. CallOK'
    BY <2>1 DEF CallOK
  <2> QED  BY <1>1, <1>2, <2>1, <2>2, CallFInv
<1>4. CASE Fits(call) /\ CheckValid(FragmentAt(call))
  <2> DEFINE step == call.mtu - Overhead(call)
             i    == call.i
             to   == IF i + step < Size(orig) THEN i + step ELSE Size(orig)
             bs   == Append(call.bs, Piece(orig, i, to))
             next == i + step
  <2>1. Size(orig) \in Nat /\ Whole(orig) /\ call.b = orig /\ i < Size(orig)
    BY <1>1 DEF FInv, CallOK, Whole, Size, PayloadBlocks
  <2>2. step \in Nat /\ step > 0
    <3>1. call.mtu \in Nat /\ call.first \in Nat /\ call.others \in Nat
      BY <1>1, FragmentationConstants DEF FInv, CallOK
    <3>2. Overhead(call) \in Nat
      BY <3>1, LengthTypes DEF Overhead
    <3> QED  BY <1>4, <3>1, <3>2 DEF Fits
  <2>3. i \in Nat /\ Tiling(call.bs, i) /\ call.bs \in Seq(Pieces(orig))
    BY <1>1, <2>1 DEF FInv, CallOK
  <2>4. EndOf(call) = to /\ FragmentAt(call) = Piece(orig, i, to)
    BY <2>1 DEF EndOf, FragmentAt, Piece, Size
  <2>5. call' = [call EXCEPT !.bs = bs, !.i = next] /\ pc' = pc
    BY <1>4, <2>4 DEF Split
  <2> HIDE DEF step
  <2>6. to \in Nat /\ i < to /\ to <= Size(orig) /\ next \in Nat
    BY <2>1, <2>2, <2>3
  <2>7. to = IF next < Size(orig) THEN next ELSE Size(orig)
    OBVIOUS
  <2> HIDE DEF to, i
  <2>8. bs \in Seq(Pieces(orig)) /\ Tiling(bs, to)
    BY <2>1, <2>3, <2>6, TilingAppend
  <2> HIDE DEF bs, next
  <2>9. call' = [b |-> call.b, mtu |-> call.mtu, first |-> call.first, others |-> call.others,
                 k |-> call.k, i |-> next, bs |-> bs]
    BY <1>1, <2>5 DEF FInv, CallOK
  <2>10. Tiling(bs, IF next < Size(orig) THEN next ELSE Size(orig))
    BY <2>7, <2>8
  <2>11. CallOK'
    BY <1>1, <2>5, <2>6, <2>8, <2>9, <2>10 DEF FInv, CallOK
  <2> QED  BY <1>1, <1>2, <2>5, <2>11, CallFInv
<1> QED  BY <1>3, <1>4

LEMMA FragmentReturnsFInv == FInv /\ FragmentReturns => FInv'
<1> SUFFICES ASSUME FInv, FragmentReturns  PROVE FInv'
  OBVIOUS
<1> DEFINE new == [mtu |-> call.mtu, bs |-> IF Len(call.bs) = 1 THEN <<call.b>> ELSE call.bs]
<1>1. /\ pc = "split" /\ pc' = "idle" /\ call.i >= Len(call.b.payload.data)
      /\ outputs' = outputs \cup {new}
      /\ UNCHANGED <<orig, receiverVars, builderVars>>
  BY DEF FragmentReturns
<1>2. /\ call.b = orig /\ call.bs \in Seq(Pieces(orig))
      /\ Tiling(call.bs, IF call.i < Size(orig) THEN call.i ELSE Size(orig))
      /\ call.i \in Nat /\ Size(orig) \in Nat /\ ~(call.i < Size(orig))
  BY <1>1 DEF FInv, CallOK, Whole, Size, PayloadBlocks
<1>3. Tiling(call.bs, Size(orig))
  BY <1>2
<1>4. new.bs = <<orig>> \/ (new.bs \in Seq(Pieces(orig)) /\ Tiling(new.bs, Size(orig)))
  BY <1>2, <1>3
<1> HIDE DEF new
<1>5. OutputsOK'
  BY <1>1, <1>4 DEF FInv, OutputsOK
<1>6. CallOK'
  BY <1>1 DEF CallOK
<1> QED  BY <1>1, <1>5, <1>6, CallFInv
\* Where fragments of a reassembly begin and end.
LEMMA GivenFacts ==
    ASSUME FInv, NEW bs, Given(bs)
    PROVE  /\ Len(bs) \in Nat \ {0} /\ DOMAIN bs = 1..Len(bs)
           /\ \A k \in DOMAIN bs : /\ bs[k] \in Pieces(orig) \/ bs[k] = orig
                                  /\ bs[k].offset \in Nat /\ End(bs[k]) \in Nat
                                  /\ Len(bs[k].payload.data) = End(bs[k]) - bs[k].offset
                                  /\ bs[k].offset <= End(bs[k]) /\ End(bs[k]) <= Size(orig)
           /\ Size(orig) \in Nat
<1>1. Whole(orig) /\ Size(orig) \in Nat
  BY DEF FInv, Whole, Size, PayloadBlocks
<1>2. Len(bs) \in Nat \ {0} /\ DOMAIN bs = 1..Len(bs) /\ \A k \in DOMAIN bs : bs[k] \in Pieces(orig) \/ bs[k] = orig
  BY DEF Given
<1>3. orig.offset = 0 /\ End(orig) = Size(orig) /\ Len(orig.payload.data) = Size(orig)
  BY <1>1 DEF Whole, End, Size
<1>4. ASSUME NEW k \in DOMAIN bs
      PROVE  /\ bs[k].offset \in Nat /\ End(bs[k]) \in Nat
             /\ Len(bs[k].payload.data) = End(bs[k]) - bs[k].offset
             /\ bs[k].offset <= End(bs[k]) /\ End(bs[k]) <= Size(orig)
  <2>1. CASE bs[k] \in Pieces(orig)
    <3> DEFINE f == bs[k]
    <3> HIDE DEF f
    <3>1. f \in Pieces(orig)
      BY <2>1 DEF f
    <3>2. /\ f.offset \in Nat /\ End(f) \in Nat /\ f.offset < End(f) /\ End(f) <= Size(orig)
          /\ Len(f.payload.data) = End(f) - f.offset
      BY <3>1, <1>1, PiecesFacts
    <3> QED  BY <3>2 DEF f
  <2>2. CASE bs[k] = orig
    BY <2>2, <1>1, <1>3
  <2> QED  BY <1>2, <2>1, <2>2
<1> QED  BY <1>1, <1>2, <1>4

\* A step of a reassembly touches only its own variables.
LEMMA ReassemblyFInv ==
    ASSUME FInv, UNCHANGED <<orig, fragmentVars, builderVars>>,
           pc \in {"idle", "prepare", "merge", "returned"},
           \/ pc' \in {"prepare", "merge", "returned", "panic"}
           \/ pc' = "idle" /\ re' = NoRe /\ result' = NoResult,
           ReassemblyOK', ResultOK'
    PROVE  FInv'
<1>1. BuilderOK' /\ Whole(orig)'
  BY DEF FInv, builderVars, BuilderOK
<1>2. CallOK'
  BY DEF CallOK
<1>3. OutputsOK'
  BY DEF FInv, OutputsOK, fragmentVars
<1> QED  BY <1>1, <1>2, <1>3 DEF FInv

LEMMA ReassembleFInv ==
    ASSUME FInv, NEW bs \in Arrivals, ReassembleFragments(bs)
    PROVE  FInv'
<1>1. /\ pc = "idle" /\ pc' = "prepare" /\ result' = result /\ result = NoResult
      /\ UNCHANGED <<orig, fragmentVars, builderVars>>
  BY DEF ReassembleFragments, FInv
<1>2. PICK n \in 1..MaxReceived : bs \in [1..n -> Fragments]
  BY DEF Arrivals
<1>3. PICK s \in Sorted(bs) : re' = [NoRe EXCEPT !.bs = s]
  BY DEF ReassembleFragments
<1>4. PICK p \in Bijection(DOMAIN bs, DOMAIN bs) : s = [i \in DOMAIN bs |-> bs[p[i]]]
  BY DEF Sorted
<1>5. n \in Nat \ {0} /\ DOMAIN bs = 1..n
  BY <1>2, FragmentationConstants
<1>6. s \in [1..n -> Fragments]
  <2>1. p \in [1..n -> 1..n]
    BY <1>4, <1>5 DEF Bijection, Injection, Surjection
  <2> QED  BY <2>1, <1>2, <1>4, <1>5
<1>7. \A f \in Fragments : f \in Pieces(orig) \cup {orig}
  <2> TAKE f \in Fragments
  <2>1. PICK out \in outputs : f \in Range(out.bs)
    BY DEF Fragments
  <2>2. PICK j \in DOMAIN out.bs : f = out.bs[j]
    BY <2>1 DEF Range
  <2>3. CASE out.bs = <<orig>>
    BY <2>2, <2>3
  <2>4. CASE out.bs \in Seq(Pieces(orig))
    BY <2>2, <2>4
  <2> QED  BY <2>3, <2>4 DEF FInv, OutputsOK
<1>8. s \in Seq(Pieces(orig) \cup {orig}) /\ s # << >> /\ DOMAIN s = 1..n /\ Len(s) = n
  <2>1. s \in [1..n -> Pieces(orig) \cup {orig}]
    BY <1>6, <1>7
  <2> QED  BY <2>1, <1>5
<1>9. \A j, k \in DOMAIN s : j < k => s[j].offset <= s[k].offset
  BY <1>3 DEF Sorted
<1>10. Given(s) /\ Given(s)'
  <2>1. \A j \in DOMAIN s : s[j] \in Fragments
    BY <1>6
  <2>2. Fragments' = Fragments /\ orig' = orig
    BY <1>1 DEF Fragments, fragmentVars
  <2> QED  BY <1>8, <1>9, <2>1, <2>2 DEF Given
<1>11. re' = [bs |-> s, k |-> 1, lastIndex |-> 0, data |-> << >>]
  BY <1>3 DEF NoRe
<1>12. ReassemblyOK'
  BY <1>1, <1>5, <1>8, <1>10, <1>11 DEF ReassemblyOK, Before, Connected
<1>13. ResultOK'
  BY <1>1 DEF ResultOK, NoResult
<1> QED  BY <1>1, <1>12, <1>13, ReassemblyFInv

LEMMA DoneFInv == FInv /\ Done => FInv'
<1> SUFFICES ASSUME FInv, Done  PROVE FInv'
  OBVIOUS
<1>1. ReassemblyOK'
  BY DEF Done, ReassemblyOK
<1>2. ResultOK'
  BY DEF Done, ResultOK, NoResult
<1> QED  BY <1>1, <1>2, ReassemblyFInv DEF Done

LEMMA PrepareFInv == FInv /\ Prepare => FInv'
<1> SUFFICES ASSUME FInv, Prepare  PROVE FInv'
  OBVIOUS
<1> DEFINE f == re.bs[re.k]
<1>1. /\ pc = "prepare" /\ re.k <= Len(re.bs) /\ UNCHANGED <<orig, fragmentVars, builderVars>>
  BY DEF Prepare
<1>2. /\ Given(re.bs) /\ re.k \in 1..Len(re.bs) + 1 /\ re.lastIndex = Before(re.bs, re.k)
      /\ Connected(re.bs, re.k - 1) /\ re.data = << >>
      /\ re = [bs |-> re.bs, k |-> re.k, lastIndex |-> re.lastIndex, data |-> re.data]
  BY <1>1 DEF FInv, ReassemblyOK
<1>3. re.k \in DOMAIN re.bs /\ Len(re.bs) \in Nat \ {0} /\ DOMAIN re.bs = 1..Len(re.bs)
  BY <1>1, <1>2, GivenFacts
<1>4. Fragments' = Fragments /\ orig' = orig
  BY <1>1 DEF Fragments, fragmentVars
<1>5. result.how = "none"
  BY <1>1 DEF FInv, ResultOK
<1>6. CASE "IsFragment" \notin f.flags \/ f.offset > re.lastIndex
  <2>1. re' = re /\ pc' = "returned" /\ result'.how = "refused"
    BY <1>6 DEF Prepare, Return
  <2>2. f = orig \/ f.offset > Before(re.bs, re.k)
    <3>1. CASE f \in Pieces(orig)
      <4>1. Whole(orig)
        BY DEF FInv
      <4> HIDE DEF f
      <4>2. "IsFragment" \in f.flags
        BY <3>1, <4>1, PiecesFacts
      <4> QED  BY <4>2, <1>6, <1>2
    <3> QED  BY <3>1, <1>2, <1>3, GivenFacts
  <2>3. Refused(re.bs)
    BY <2>2, <1>3 DEF Refused
  <2>4. Given(re.bs)' /\ Refused(re.bs)'
    BY <2>1, <2>3, <1>2, <1>4 DEF Given, Refused
  <2>5. ResultOK'
    BY <2>1, <2>4 DEF ResultOK
  <2>6. ReassemblyOK'
    BY <2>1 DEF ReassemblyOK
  <2> QED  BY <1>1, <2>1, <2>5, <2>6, ReassemblyFInv
<1>7. CASE ~("IsFragment" \notin f.flags \/ f.offset > re.lastIndex)
  <2>1. /\ re' = [re EXCEPT !.k = re.k + 1, !.lastIndex = f.offset + Len(f.payload.data)]
        /\ pc' = pc /\ result' = result
    BY <1>7 DEF Prepare
  <2>2. re' = [bs |-> re.bs, k |-> re.k + 1, lastIndex |-> End(f), data |-> << >>]
    BY <2>1, <1>2 DEF End
  <2>3. f # orig /\ f.offset <= Before(re.bs, re.k)
    <3>1. "IsFragment" \notin orig.flags
      BY DEF FInv, Whole, ClientFlags
    <3>2. f.offset \in Nat /\ re.lastIndex \in Nat
      <4>1. re.k # 1 => re.k - 1 \in DOMAIN re.bs
        BY <1>2, <1>3
      <4> QED  BY <4>1, <1>2, <1>3, GivenFacts DEF Before
    <3> QED  BY <3>1, <3>2, <1>2, <1>7
  <2>4. Connected(re.bs, re.k)
    <3> SUFFICES ASSUME NEW j \in 1..re.k  PROVE re.bs[j] # orig /\ re.bs[j].offset <= Before(re.bs, j)
      BY DEF Connected
    <3>1. CASE j = re.k
      BY <3>1, <2>3
    <3>2. CASE j # re.k
      BY <3>2, <1>2, <1>3 DEF Connected
    <3> QED  BY <3>1, <3>2
  <2>5. Before(re.bs, re.k + 1) = End(f)
    BY <1>2, <1>3 DEF Before
  <2>7. ReassemblyOK'
    <3>1. re'.bs = re.bs /\ re'.k = re.k + 1 /\ re'.lastIndex = End(f) /\ re'.data = << >>
      BY <2>2
    <3>2. Given(re.bs)'
      BY <3>1, <1>2, <1>4 DEF Given
    <3>3. Connected(re.bs, re.k - 1)'
      <4>1. re'.k - 1 = re.k
        BY <3>1, <1>2, <1>3
      <4> QED  BY <4>1, <3>1, <2>4, <1>4 DEF Connected, Before
    <3>4. re'.k \in 1..Len(re'.bs) + 1 /\ re'.lastIndex = Before(re'.bs, re'.k)
      BY <3>1, <2>5, <1>1, <1>2, <1>3
    <3> QED  BY <1>1, <2>1, <2>2, <3>1, <3>2, <3>3, <3>4 DEF ReassemblyOK
  <2>8. ResultOK'
    BY <1>1, <1>5, <2>1 DEF ResultOK
  <2> QED  BY <1>1, <2>1, <2>7, <2>8, ReassemblyFInv
<1> QED  BY <1>6, <1>7
\* A fragment that connects is a piece of the original.
LEMMA ConnectedFacts ==
    ASSUME FInv, NEW bs, Given(bs), Connected(bs, Len(bs))
    PROVE  \A k \in DOMAIN bs : bs[k] \in Pieces(orig) /\ bs[k].total = Size(orig)
<1> TAKE k \in DOMAIN bs
<1> DEFINE f == bs[k]
<1>1. f \in Pieces(orig)
  BY GivenFacts DEF Connected
<1> HIDE DEF f
<1>2. f.total = Size(orig)
  BY <1>1, PiecesFacts DEF FInv
<1> QED  BY <1>1, <1>2 DEF f

LEMMA PreparedFInv == FInv /\ Prepared => FInv'
<1> SUFFICES ASSUME FInv, Prepared  PROVE FInv'
  OBVIOUS
<1> DEFINE n == Len(re.bs)
<1>1. /\ pc = "prepare" /\ re.k > n /\ UNCHANGED <<orig, fragmentVars, builderVars>>
  BY DEF Prepared
<1>2. /\ Given(re.bs) /\ re.k \in 1..n + 1 /\ re.lastIndex = Before(re.bs, re.k)
      /\ Connected(re.bs, re.k - 1) /\ re.data = << >>
      /\ re = [bs |-> re.bs, k |-> re.k, lastIndex |-> re.lastIndex, data |-> re.data]
  BY <1>1 DEF FInv, ReassemblyOK
<1>3. n \in Nat \ {0} /\ DOMAIN re.bs = 1..n
  BY <1>2, GivenFacts
<1>4. Connected(re.bs, n) /\ re.lastIndex = End(re.bs[n])
  <2>1. re.k = n + 1 /\ re.k - 1 = n
    BY <1>1, <1>2, <1>3
  <2> QED  BY <2>1, <1>2, <1>3 DEF Before
<1>5. re.bs[1].total = Size(orig)
  BY <1>2, <1>3, <1>4, ConnectedFacts
<1>6. Fragments' = Fragments /\ orig' = orig
  BY <1>1 DEF Fragments, fragmentVars
<1>7. result.how = "none"
  BY <1>1 DEF FInv, ResultOK
<1>8. CASE re.bs[1].total # re.lastIndex
  <2>1. re' = re /\ pc' = "returned" /\ result'.how = "refused"
    BY <1>8 DEF Prepared, Return
  <2>2. Refused(re.bs)
    BY <1>4, <1>5, <1>8 DEF Refused
  <2>3. Given(re.bs)' /\ Refused(re.bs)'
    BY <2>1, <2>2, <1>2, <1>6 DEF Given, Refused
  <2>4. ResultOK'
    BY <2>1, <2>3 DEF ResultOK
  <2>5. ReassemblyOK'
    BY <2>1 DEF ReassemblyOK
  <2> QED  BY <1>1, <2>1, <2>4, <2>5, ReassemblyFInv
<1>9. CASE re.bs[1].total = re.lastIndex
  <2>1. re' = [re EXCEPT !.k = 1, !.lastIndex = 0] /\ pc' = "merge" /\ result' = result
    BY <1>9 DEF Prepared
  <2>2. re' = [bs |-> re.bs, k |-> 1, lastIndex |-> 0, data |-> << >>]
    BY <2>1, <1>2
  <2>3. re'.bs = re.bs /\ re'.k = 1 /\ re'.lastIndex = 0 /\ re'.data = << >>
    BY <2>2
  <2>4. Given(re.bs)'
    BY <2>3, <1>2, <1>6 DEF Given
  <2>5. Connected(re.bs, Len(re.bs))'
    BY <2>3, <1>4, <1>6 DEF Connected
  <2>6. End(re.bs[Len(re.bs)])' = Size(orig)'
    BY <2>3, <1>4, <1>5, <1>6, <1>9
  <2>7. << >> = SubSeq(orig.payload.data, 1, 0)
    BY NothingOfASequence
  <2>8. ReassemblyOK'
    <3>1. re'.k \in 1..Len(re'.bs) + 1 /\ re'.lastIndex = Before(re'.bs, re'.k)
      BY <2>3, <1>3 DEF Before
    <3>2. re'.data = SubSeq(orig'.payload.data, 1, re'.lastIndex)
      BY <2>3, <2>7, <1>6
    <3>3. re' = [bs |-> re'.bs, k |-> re'.k, lastIndex |-> re'.lastIndex, data |-> re'.data]
      BY <2>2
    <3> QED  BY <2>1, <2>4, <2>5, <2>6, <3>1, <3>2, <3>3 DEF ReassemblyOK
  <2>9. ResultOK'
    BY <1>7, <2>1 DEF ResultOK
  <2> QED  BY <1>1, <2>1, <2>8, <2>9, ReassemblyFInv
<1> QED  BY <1>8, <1>9

LEMMA MergeFInv == FInv /\ Merge => FInv'
<1> SUFFICES ASSUME FInv, Merge  PROVE FInv'
  OBVIOUS
<1> DEFINE n == Len(re.bs)
           f == re.bs[re.k]
           last == re.lastIndex
<1>1. /\ pc = "merge" /\ re.k <= n /\ result' = result
      /\ UNCHANGED <<orig, fragmentVars, builderVars>>
  BY DEF Merge
<1>2. /\ Given(re.bs) /\ re.k \in 1..n + 1 /\ last = Before(re.bs, re.k)
      /\ Connected(re.bs, n) /\ End(re.bs[n]) = Size(orig)
      /\ re.data = SubSeq(orig.payload.data, 1, last)
      /\ re = [bs |-> re.bs, k |-> re.k, lastIndex |-> re.lastIndex, data |-> re.data]
  BY <1>1 DEF FInv, ReassemblyOK
<1>3. n \in Nat \ {0} /\ DOMAIN re.bs = 1..n /\ re.k \in DOMAIN re.bs
  BY <1>1, <1>2, GivenFacts
<1>4. Fragments' = Fragments /\ orig' = orig
  BY <1>1 DEF Fragments, fragmentVars
<1>5. result.how = "none"
  BY <1>1 DEF FInv, ResultOK
<1>6. CASE last - f.offset \notin 0..Len(f.payload.data)
  <2>1. re' = re /\ pc' = "panic"
    BY <1>6 DEF Merge
  <2>2. Panics(re.bs)
    BY <1>2, <1>3, <1>6 DEF Panics
  <2>3. Given(re.bs)' /\ Panics(re.bs)'
    BY <2>1, <2>2, <1>2, <1>4 DEF Given, Panics, Connected
  <2>4. ResultOK'
    BY <2>1, <2>3, <1>1, <1>5 DEF ResultOK
  <2>5. ReassemblyOK'
    BY <2>1 DEF ReassemblyOK
  <2> QED  BY <1>1, <2>1, <2>4, <2>5, ReassemblyFInv
<1>7. CASE last - f.offset \in 0..Len(f.payload.data)
  <2>1. /\ re' = [re EXCEPT !.k = re.k + 1, !.data = re.data \o Rest(f, last),
                            !.lastIndex = f.offset + Len(f.payload.data)]
        /\ pc' = pc
    BY <1>7 DEF Merge
  <2>2. orig.payload.data \in Seq(Bytes) /\ Whole(orig)
    BY DEF FInv, Whole, PayloadBlocks
  <2>3. /\ f.offset \in Nat /\ End(f) \in Nat /\ End(f) <= Size(orig)
        /\ Len(f.payload.data) = End(f) - f.offset
    BY <1>2, <1>3, GivenFacts
  <2>4. last \in Nat
    <3>1. re.k # 1 => re.k - 1 \in DOMAIN re.bs
      BY <1>2, <1>3
    <3> QED  BY <3>1, <1>2, <1>3, GivenFacts DEF Before
  <2>5. f.payload.data = SubSeq(orig.payload.data, f.offset + 1, End(f))
    <3>1. f \in Pieces(orig)
      BY <1>2, <1>3, ConnectedFacts
    <3> HIDE DEF f
    <3> QED  BY <3>1, <2>2, PiecesFacts
  <2>6. re.data \o Rest(f, last) = SubSeq(orig.payload.data, 1, End(f))
    <3>1. f.offset <= last /\ last <= End(f) /\ End(f) <= Len(orig.payload.data)
      BY <1>7, <2>3, <2>4 DEF Size
    <3>2. Rest(f, last) = SubSeq(SubSeq(orig.payload.data, f.offset + 1, End(f)), last - f.offset + 1, End(f) - f.offset)
      BY <2>3, <2>5 DEF Rest
    <3> DEFINE d   == orig.payload.data
               off == f.offset
               end == End(f)
    <3> HIDE DEF d, off, end, last
    <3>3. d \in Seq(Bytes) /\ off \in Nat /\ last \in Nat /\ end \in Nat
      BY <2>2, <2>3, <2>4 DEF d, off, end
    <3>4. off <= last /\ last <= end /\ end <= Len(d)
      BY <3>1 DEF d, off, end
    <3>5. SubSeq(d, 1, last) \o SubSeq(SubSeq(d, off + 1, end), last - off + 1, end - off) = SubSeq(d, 1, end)
      BY ONLY <3>3, <3>4, MergeBytes, Zenon
    <3> QED  BY ONLY <3>2, <3>5, <1>2, Zenon DEF d, off, end, last
  <2> DEFINE data == re.data \o Rest(f, last)
  <2>7. re' = [bs |-> re.bs, k |-> re.k + 1, lastIndex |-> End(f), data |-> data]
    BY <2>1, <1>2 DEF End
  <2> HIDE DEF data
  <2>8. re'.bs = re.bs /\ re'.k = re.k + 1 /\ re'.lastIndex = End(f) /\ re'.data = data
    BY <2>7
  <2>9. Given(re.bs)'
    BY <2>8, <1>2, <1>4 DEF Given
  <2>10. Connected(re.bs, Len(re.bs))'
    BY <2>8, <1>2, <1>4 DEF Connected
  <2>11. End(re.bs[Len(re.bs)])' = Size(orig)'
    BY <2>8, <1>2, <1>4
  <2>12. re'.data = SubSeq(orig'.payload.data, 1, re'.lastIndex)
    BY <2>6, <2>8, <1>4 DEF data
  <2>13. Before(re.bs, re.k + 1) = End(f)
    BY <1>2, <1>3 DEF Before
  <2>14. re'.k \in 1..Len(re'.bs) + 1 /\ re'.lastIndex = Before(re'.bs, re'.k)
    BY <2>8, <2>13, <1>1, <1>2, <1>3
  <2>15. ReassemblyOK'
    BY <2>1, <2>7, <2>8, <2>9, <2>10, <2>11, <2>12, <2>14, <1>1 DEF ReassemblyOK
  <2>16. ResultOK'
    BY <1>1, <1>5, <2>1 DEF ResultOK
  <2> QED  BY <1>1, <2>1, <2>15, <2>16, ReassemblyFInv
<1> QED  BY <1>6, <1>7

LEMMA ReassemblyReturnsFInv == FInv /\ ReassemblyReturns => FInv'
<1> SUFFICES ASSUME FInv, ReassemblyReturns  PROVE FInv'
  OBVIOUS
<1> DEFINE n == Len(re.bs)
           b == Reassembled(re.bs[1], re.data)
<1>1. /\ pc = "merge" /\ re.k > n /\ pc' = "returned" /\ re' = re
      /\ result'.how \in {"ok", "invalid"} /\ result'.bundle = b
      /\ UNCHANGED <<orig, fragmentVars, builderVars>>
  BY DEF ReassemblyReturns, Return
<1>2. /\ Given(re.bs) /\ re.k \in 1..n + 1 /\ re.lastIndex = Before(re.bs, re.k)
      /\ Connected(re.bs, n) /\ End(re.bs[n]) = Size(orig)
      /\ re.data = SubSeq(orig.payload.data, 1, re.lastIndex)
  BY <1>1 DEF FInv, ReassemblyOK
<1>3. n \in Nat \ {0} /\ DOMAIN re.bs = 1..n
  BY <1>2, GivenFacts
<1>4. re.lastIndex = Size(orig)
  <2>1. re.k = n + 1 /\ re.k # 1 /\ re.k - 1 = n
    BY <1>1, <1>2, <1>3
  <2> QED  BY <2>1, <1>2 DEF Before
<1>5. re.data = orig.payload.data
  <2>1. orig.payload.data \in Seq(Bytes)
    BY DEF FInv, Whole, PayloadBlocks
  <2>2. SubSeq(orig.payload.data, 1, Len(orig.payload.data)) = orig.payload.data
    BY <2>1
  <2> QED  BY <2>2, <1>2, <1>4 DEF Size
<1>6. b = [orig EXCEPT !.exts = b.exts]
  <2> DEFINE f == re.bs[1]
  <2>1. f \in Pieces(orig)
    BY <1>2, <1>3, ConnectedFacts
  <2> HIDE DEF f
  <2>2. Reassembled(f, orig.payload.data) = [orig EXCEPT !.exts = Reassembled(f, orig.payload.data).exts]
    BY <2>1, PiecesFacts DEF FInv
  <2> QED  BY <2>2, <1>5 DEF f
<1> HIDE DEF b
<1>7. ResultOK'
  BY <1>1, <1>6 DEF ResultOK
<1>8. ReassemblyOK'
  BY <1>1 DEF ReassemblyOK
<1> QED  BY <1>1, <1>7, <1>8, ReassemblyFInv

\* Every step keeps the invariant while only the original is fragmented.
LEMMA NextFInv ==
    ASSUME ~Refragment, FInv, [Next]_vars
    PROVE  FInv'
<1>1. ASSUME NEW b \in {orig} \cup (IF Refragment THEN Fragments ELSE {}), NEW mtu \in MTUs, Fragment(b, mtu)
      PROVE  FInv'
  BY <1>1, FragmentFInv
<1>2. ASSUME NEW bs \in Arrivals, ReassembleFragments(bs)
      PROVE  FInv'
  BY <1>2, ReassembleFInv
<1>3. CASE UNCHANGED vars
  <2>1. BuilderOK'
    BY <1>3 DEF FInv, BuilderOK, vars, builderVars
  <2> QED  BY <1>3, <2>1, FrameFInv DEF vars
<1> QED
  BY <1>1, <1>2, <1>3, ConstructFInv, BuildFInv, ReplacePreviousNodeFInv, TimePassesFInv,
     ExtensionBlockLenFInv, PayloadBlockLenFInv, SplitFInv, FragmentReturnsFInv, DoneFInv,
     PrepareFInv, PreparedFInv, MergeFInv, ReassemblyReturnsFInv DEF Next

THEOREM FragmentationInvariant == ~Refragment => (Spec => []FInv)
<1> SUFFICES ASSUME ~Refragment  PROVE Spec => []FInv
  OBVIOUS
<1>1. FInv /\ [Next]_vars => FInv'
  BY NextFInv
<1> QED  BY <1>1, InitFInv, PTL DEF Spec

-----------------------------------------------------------------------------
(* Theorems                                                                  *)

\* A reassembly that succeeds returns the bundle that was fragmented, byte for byte:
\* for every payload, every MTU, and any fragments of any number of fragmentations
\* in any order, repeated or not (ReassembleFragments, mergeFragmentPayload).
THEOREM ReassemblyTheorem == ~Refragment => (Spec => []ReassembledIsOriginal)
<1> SUFFICES ASSUME ~Refragment  PROVE Spec => []ReassembledIsOriginal
  OBVIOUS
<1>1. FInv => ReassembledIsOriginal
  BY DEF FInv, ResultOK, ReassembledIsOriginal
<1> QED  BY <1>1, FragmentationInvariant, PTL
\* Sorted fragments of one call connect, and none lies within another: merging them
\* does not panic.
LEMMA OneCallNeverPanics ==
    ASSUME FInv, NEW out \in outputs, Len(out.bs) > 1, NEW bs, Given(bs),
           Range(bs) \subseteq Range(out.bs)
    PROVE  ~Panics(bs)
<1> SUFFICES ASSUME Panics(bs)  PROVE FALSE
  OBVIOUS
<1>1. out.bs \in Seq(Pieces(orig)) /\ Tiling(out.bs, Size(orig))
  <2> DEFINE single == <<orig>>
  <2>1. ~(Len(single) > 1)
    OBVIOUS
  <2> HIDE DEF single
  <2>2. out.bs # single
    BY <2>1, Zenon
  <2> QED  BY <2>2 DEF FInv, OutputsOK, single
<1>2. PICK k \in DOMAIN bs : Before(bs, k) - bs[k].offset \notin 0..Len(bs[k].payload.data)
  BY DEF Panics
<1>3. Len(bs) \in Nat \ {0} /\ DOMAIN bs = 1..Len(bs)
  BY GivenFacts
<1> DEFINE f == bs[k]
           g == bs[k - 1]
<1>4. /\ f.offset \in Nat /\ End(f) \in Nat /\ Len(f.payload.data) = End(f) - f.offset
      /\ f.offset <= Before(bs, k)
  BY GivenFacts, <1>3 DEF Panics, Connected
<1>5. CASE k = 1
  BY <1>2, <1>4, <1>5 DEF Before, End
<1>6. CASE k # 1
  <2>1. k - 1 \in DOMAIN bs /\ k - 1 < k
    BY <1>3, <1>6
  <2>2. g.offset \in Nat /\ End(g) \in Nat /\ g.offset <= f.offset /\ Before(bs, k) = End(g)
    BY <2>1, <1>6, GivenFacts DEF Given, Before
  <2>3. PICK i \in DOMAIN out.bs : f = out.bs[i]
    BY DEF Range
  <2>4. PICK j \in DOMAIN out.bs : g = out.bs[j]
    BY <2>1 DEF Range
  <2>5. f.offset < End(f)
    <3> HIDE DEF f
    <3>1. f \in Pieces(orig)
      BY <1>1, <2>3
    <3> QED  BY <3>1, PiecesFacts DEF FInv
  <2>6. i \in Nat /\ j \in Nat
    BY <1>1
  <2>7. CASE i = j
    BY <2>2, <2>3, <2>4, <2>5, <2>7, <1>2, <1>4
  <2>8. CASE j < i
    <3>1. End(g) <= f.offset
      BY <2>3, <2>4, <2>8, <1>1 DEF Tiling
    <3> HIDE DEF f, g
    <3> QED  BY <3>1, <2>2, <2>5, <1>2, <1>4 DEF f
  <2>9. CASE i < j
    <3>1. End(f) <= g.offset
      BY <2>3, <2>4, <2>9, <1>1 DEF Tiling
    <3> QED  BY <3>1, <2>2, <2>5, <1>4
  <2> QED  BY <2>6, <2>7, <2>8, <2>9
<1> QED  BY <1>5, <1>6

\* All the fragments of a call leave no gap: they are not refused.
LEMMA OneCallIsNotRefused ==
    ASSUME FInv, NEW out \in outputs, Len(out.bs) > 1, NEW bs, Given(bs),
           Range(bs) = Range(out.bs)
    PROVE  ~Refused(bs)
<1> DEFINE n == Len(bs)
<1>1. out.bs \in Seq(Pieces(orig)) /\ Tiling(out.bs, Size(orig))
  <2> DEFINE single == <<orig>>
  <2>1. ~(Len(single) > 1)
    OBVIOUS
  <2> HIDE DEF single
  <2>2. out.bs # single
    BY <2>1, Zenon
  <2> QED  BY <2>2 DEF FInv, OutputsOK, single
<1>2. n \in Nat \ {0} /\ DOMAIN bs = 1..n /\ Size(orig) \in Nat
  BY GivenFacts
<1>3. \A k \in DOMAIN bs : \E i \in DOMAIN out.bs : bs[k] = out.bs[i]
  BY DEF Range
<1>4. \A i \in DOMAIN out.bs : \E k \in DOMAIN bs : bs[k] = out.bs[i]
  BY DEF Range
<1>5. ASSUME NEW k \in DOMAIN bs
      PROVE  /\ bs[k].offset \in Nat /\ End(bs[k]) \in Nat /\ bs[k].offset < End(bs[k])
             /\ End(bs[k]) <= Size(orig) /\ bs[k] # orig
  <2> DEFINE f == bs[k]
  <2>1. f \in Pieces(orig)
    BY <1>1, <1>3
  <2> HIDE DEF f
  <2>2. /\ f.offset \in Nat /\ End(f) \in Nat /\ f.offset < End(f)
        /\ End(f) <= Size(orig) /\ f # orig
    BY <2>1, PiecesFacts DEF FInv
  <2> QED  BY <2>2 DEF f
<1>6. ASSUME NEW k \in DOMAIN bs, End(bs[k]) < Size(orig)
      PROVE  \E m \in DOMAIN bs : bs[m].offset = End(bs[k])
  <2>1. PICK i \in DOMAIN out.bs : bs[k] = out.bs[i]
    BY <1>3
  <2>2. PICK j \in DOMAIN out.bs : out.bs[j].offset = End(bs[k])
    BY <1>1, <1>6, <2>1 DEF Tiling
  <2> QED  BY <1>4, <2>2
<1>7. \A j, k \in DOMAIN bs : j < k => bs[j].offset <= bs[k].offset
  BY DEF Given
<1> HIDE DEF n
<1>8. End(bs[n]) = Size(orig)
  <2> SUFFICES ASSUME End(bs[n]) < Size(orig)  PROVE FALSE
    BY <1>2, <1>5
  <2>1. PICK m \in DOMAIN bs : bs[m].offset = End(bs[n])
    BY <1>2, <1>6
  <2> QED  BY <2>1, <1>2, <1>5, <1>7
<1>9. ASSUME NEW k \in DOMAIN bs  PROVE ~(bs[k].offset > Before(bs, k))
  <2> SUFFICES ASSUME bs[k].offset > Before(bs, k)  PROVE FALSE
    OBVIOUS
  <2>1. CASE k = 1
    <3>1. Size(orig) > 0
      BY <1>2, <1>5
    <3>2. PICK i \in DOMAIN out.bs : out.bs[i].offset = 0
      BY <3>1, <1>1 DEF Tiling
    <3>3. PICK m \in DOMAIN bs : bs[m].offset = 0
      BY <3>2, <1>4
    <3> QED  BY <3>3, <2>1, <1>2, <1>5, <1>7 DEF Before
  <2>2. CASE k # 1
    <3>1. k - 1 \in DOMAIN bs /\ Before(bs, k) = End(bs[k - 1])
      BY <2>2, <1>2 DEF Before
    <3>2. End(bs[k - 1]) < Size(orig) /\ bs[k].offset > End(bs[k - 1])
      BY <3>1, <1>2, <1>5
    <3>3. PICK m \in DOMAIN bs : bs[m].offset = End(bs[k - 1])
      BY <3>1, <3>2, <1>6
    <3>4. bs[m].offset \in Nat /\ bs[k].offset \in Nat /\ bs[k - 1].offset \in Nat
          /\ bs[k - 1].offset < End(bs[k - 1])
      BY <3>1, <1>5
    <3>5. CASE m <= k - 1
      BY <3>1, <3>3, <3>4, <3>5, <1>2, <1>7
    <3>6. CASE m >= k
      BY <3>2, <3>3, <3>4, <3>6, <1>2, <1>7
    <3> QED  BY <3>5, <3>6, <1>2
  <2> QED  BY <2>1, <2>2
<1> QED  BY <1>5, <1>8, <1>9 DEF Refused, n

\* The fragments of one call of Fragment, whole or in part, in any order and with
\* duplicates, never make ReassembleFragments panic, and it refuses them only while
\* one of them is missing: for every payload, every MTU and all block lengths.
THEOREM OneCallTheorem == ~Refragment => (Spec => []OneCallReassembles)
<1> SUFFICES ASSUME ~Refragment  PROVE Spec => []OneCallReassembles
  OBVIOUS
<1>1. FInv => OneCallReassembles
  <2> SUFFICES ASSUME FInv, NEW out \in outputs, Range(re.bs) \subseteq Range(out.bs),
                      re.bs # << >>, Len(out.bs) > 1
               PROVE  /\ pc # "panic"
                      /\ result.how = "refused" => Range(re.bs) # Range(out.bs)
    BY DEF OneCallReassembles
  <2>1. pc # "panic"
    <3>1. re # NoRe
      BY DEF NoRe
    <3> QED  BY <3>1, OneCallNeverPanics DEF FInv, ResultOK
  <2>2. result.how = "refused" => Range(re.bs) # Range(out.bs)
    BY OneCallIsNotRefused DEF FInv, ResultOK
  <2> QED  BY <2>1, <2>2
<1> QED  BY <1>1, FragmentationInvariant, PTL
=============================================================================
