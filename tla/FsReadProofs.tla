---------------------------- MODULE FsReadProofs ----------------------------
(***************************************************************************)
(* Proofs about FileSystem::read for every set of entries, requests,       *)
(* device sizes and bad blocks.                                            *)
(***************************************************************************)
EXTENDS FsRead, TLAPS

(* The sorted extents are extents of the entry, and every unit written so  *)
(* far lies in the span of one of them.                                    *)
RInv ==
    /\ TypeOK
    /\ \A j \in 1..Len(exts) :
          \E m \in 1..Len(entry.extents) : exts[j] = entry.extents[m]
    /\ \A u \in written :
          \E j \in 1..Len(exts) : exts[j].la <= u /\ u < exts[j].la + exts[j].len


(* The sorted extents tile the file: the first starts at 0, each starts    *)
(* where the one before it ends, each starts inside the file and the last  *)
(* reaches its end (a last block rounded up past the end is allowed).     *)
Tiles(s, L) ==
    /\ Len(s) = 0 => L = 0
    /\ Len(s) > 0 => s[1].la = 0 /\ L <= s[Len(s)].la + s[Len(s)].len
    /\ \A j \in 1..(Len(s) - 1) : s[j + 1].la = s[j].la + s[j].len
    /\ \A j \in 1..Len(s) : s[j].la < L

(* Every extent's blocks are good and lie on the device.                  *)
OnDevice(s) ==
    \A j \in 1..Len(s) :
        /\ s[j].phys \notin BadBlocks
        /\ DeviceOffset(s[j]) + s[j].len <= DevSize

(* The file being read is fully recoverable: its extents in offset order   *)
(* cover it without a hole and every pread of them succeeds in full.      *)
Covered == Tiles(exts, entry.length) /\ OnDevice(exts)

(* For a covered file the loop has written everything before the extent   *)
(* it is at, and remaining is what is left of the file from there; after   *)
(* the loop the whole file is written and the copy stays inside it; no   *)
(* pread writes past the length; exts is the sorted copy of the entry's  *)
(* extents once a call has started.                                      *)
CovInv ==
    /\ RInv
    /\ Covered /\ pc = "loop" /\ k <= Len(exts) =>
          /\ remaining = entry.length - exts[k].la
          /\ \A u \in 0..(exts[k].la - 1) : u \in written
    /\ Covered /\ k > Len(exts) => \A u \in 0..(entry.length - 1) : u \in written
    /\ pc = "idle" /\ k > Len(exts) => ret = 0 \/ req.offset + ret <= entry.length
    /\ Covered => \A u \in written : u < entry.length
    /\ \/ exts \in SortedByOffset(entry.extents)
       \/ pc = "idle" /\ exts = <<>> /\ written = {} /\ ret = 0

(* Every order the sort can put entry e's extents in tiles the file and   *)
(* lies on good blocks: a file the scan recovered whole, its last block   *)
(* possibly rounded up past the length.                                   *)
FileCovered(e) ==
    \A p \in SortedByOffset(e.extents) : Tiles(p, e.length) /\ OnDevice(p)


-----------------------------------------------------------------------------

(* A sorted copy of a sequence of extents is a sequence of extents of the  *)
(* same length, each element of which is an element of the original.      *)
LEMMA SortedIsPermutation ==
    ASSUME NEW s \in Seq(Extent), NEW p \in SortedByOffset(s)
    PROVE  /\ p \in Seq(Extent)
           /\ Len(p) = Len(s)
           /\ \A j \in 1..Len(p) : \E m \in 1..Len(s) : p[j] = s[m]
<1>1. PICK f \in Bijection(DOMAIN s, DOMAIN s) : p = [i \in DOMAIN s |-> s[f[i]]]
  BY DEF SortedByOffset
<1>2. DOMAIN s = 1..Len(s) /\ Len(s) \in Nat
  OBVIOUS
<1>3. f \in [1..Len(s) -> 1..Len(s)]
  BY <1>1, <1>2 DEF Bijection, Injection, Surjection
<1>4. p \in [1..Len(s) -> Extent]
  BY <1>1, <1>2, <1>3
<1>5. p \in Seq(Extent) /\ Len(p) = Len(s)
  BY <1>2, <1>4
<1>. QED
  BY <1>1, <1>2, <1>3, <1>5

LEMMA MinBounds ==
    ASSUME NEW a \in Int, NEW b \in Int
    PROVE  /\ Min2(a, b) <= a /\ Min2(a, b) <= b
           /\ Min2(a, b) \in {a, b}
  BY DEF Min2

(* What pread returns: -1, or at most the length asked for.                *)
LEMMA PreadBound ==
    ASSUME NEW e \in Extent, NEW off \in Int, NEW n \in Nat
    PROVE  Pread(e, off, n) \in {-1} \cup 0..n
  BY ReadAssumption, MinBounds DEF Pread


-----------------------------------------------------------------------------

LEMMA InitRInv == Init => RInv
  BY ReadAssumption DEF Init, RInv, TypeOK

LEMMA NextRInv == RInv /\ [Next]_vars => RInv'
<1> SUFFICES ASSUME RInv, [Next]_vars PROVE RInv'
  OBVIOUS
<1>1. ASSUME NEW e \in Entries, NEW r \in Requests, Start(e, r) PROVE RInv'
  <2>1. e.extents \in Seq(Extent) /\ e.length \in Nat
    BY ReadAssumption
  <2>2. /\ exts' \in Seq(Extent)
        /\ \A j \in 1..Len(exts') :
              \E m \in 1..Len(e.extents) : exts'[j] = e.extents[m]
    BY <1>1, <2>1, SortedIsPermutation DEF Start
  <2>. QED
    BY <1>1, <2>1, <2>2 DEF Start, RInv, TypeOK
<1>2. ASSUME ReadExtent PROVE RInv'
  <2> DEFINE x == exts[k]
             n == Min2(x.len, remaining)
             rr == Pread(x, DeviceOffset(x), n)
  <2>1. pc = "loop" /\ k \in 1..Len(exts) /\ x \in Extent
    BY <1>2 DEF ReadExtent, RInv, TypeOK, x
  <2>2. n \in Nat /\ n <= x.len /\ n <= remaining
    <3>1. x.len \in Nat /\ remaining \in Nat
      BY <2>1 DEF Extent, RInv, TypeOK
    <3>2. Min2(x.len, remaining) \in Nat /\ Min2(x.len, remaining) <= x.len
          /\ Min2(x.len, remaining) <= remaining
      BY <3>1, MinBounds
    <3>. QED
      BY <3>2 DEF n
  <2>3. rr \in {-1} \cup 0..n
    <3>1. DeviceOffset(x) \in Int
      BY <2>1 DEF DeviceOffset, CodeBase, BlockUnits, Extent
    <3>. QED
      BY <2>1, <2>2, <3>1, PreadBound DEF rr
  <2>4. CASE rr <= 0
    <3>1. pc' = "idle" /\ ret' = 0
          /\ UNCHANGED <<entry, req, exts, k, remaining, written>>
      BY <1>2, <2>4 DEF ReadExtent, x, n, rr
    <3>. QED
      BY <3>1 DEF RInv, TypeOK
  <2>5. CASE rr > 0
    <3>1. /\ written' = written \cup {x.la + u : u \in 0..(rr - 1)}
          /\ remaining' = remaining - rr
          /\ k' = k + 1
          /\ UNCHANGED <<pc, ret, entry, req, exts>>
      BY <1>2, <2>3, <2>5 DEF ReadExtent, x, n, rr
    <3>2. \A u \in 0..(rr - 1) : x.la <= x.la + u /\ x.la + u < x.la + x.len
      BY <2>1, <2>2, <2>3, <2>5 DEF Extent
    <3>3. remaining - rr \in Nat /\ k + 1 \in 1..(Len(exts) + 1)
      BY <2>1, <2>2, <2>3, <2>5 DEF RInv, TypeOK, Extent
    <3>4. \A u \in written' :
             \E j \in 1..Len(exts) : exts[j].la <= u /\ u < exts[j].la + exts[j].len
      BY <2>1, <3>1, <3>2 DEF RInv
    <3>5. written' \subseteq Nat
      <4>1. x.la \in Nat /\ rr \in Int
        BY <2>1, <2>2, <2>3 DEF Extent
      <4>2. \A u \in 0..(rr - 1) : x.la + u \in Nat
        BY <4>1
      <4>. QED
        BY <3>1, <4>2 DEF RInv, TypeOK
    <3>6. pc' = pc /\ ret' = ret /\ entry' = entry /\ req' = req /\ exts' = exts
      BY <3>1
    <3>7. TypeOK'
      BY <3>1, <3>3, <3>5, <3>6 DEF RInv, TypeOK
    <3>8. \A j \in 1..Len(exts') :
             \E m \in 1..Len(entry'.extents) : exts'[j] = entry'.extents[m]
      BY <3>6 DEF RInv
    <3>. QED
      BY <3>4, <3>6, <3>7, <3>8 DEF RInv
  <2>. QED
    BY <2>1, <2>3, <2>4, <2>5
<1>3. ASSUME Copy PROVE RInv'
  <2>1. entry.length \in Nat /\ req.offset \in Nat /\ req.size \in Nat
    BY ReadAssumption DEF RInv, TypeOK
  <2>2. req.offset < entry.length => Min2(req.size, entry.length - req.offset) \in Nat
    BY <2>1, MinBounds
  <2>. QED
    BY <1>3, <2>2 DEF Copy, RInv, TypeOK
<1>4. CASE UNCHANGED vars
  BY <1>4 DEF vars, RInv, TypeOK
<1>. QED
  BY <1>1, <1>2, <1>3, <1>4 DEF Next

(***************************************************************************)
(* Every state FileSystem::read passes through is well typed; in           *)
(* particular `remaining` never goes below zero, since no pread returns    *)
(* more than readLen = MIN(length, remaining).                             *)
(***************************************************************************)
THEOREM TypeCorrect == Spec => []TypeOK
<1>1. RInv => TypeOK
  BY DEF RInv
<1>. QED
  BY <1>1, InitRInv, NextRInv, PTL DEF Spec

-----------------------------------------------------------------------------

LEMMA InitCovInv == Init => CovInv
  BY InitRInv DEF Init, CovInv, Covered, Tiles

(* Covered reads only the entry, the sorted extents and constants.         *)
LEMMA CoveredUnchanged ==
    ASSUME entry' = entry, exts' = exts
    PROVE  Covered' <=> Covered
  BY DEF Covered, Tiles, OnDevice, DeviceOffset

LEMMA NextCovInv == CovInv /\ [Next]_vars => CovInv'
<1> SUFFICES ASSUME CovInv, [Next]_vars PROVE CovInv'
  OBVIOUS
<1>0. RInv'
  BY NextRInv DEF CovInv
<1>5. pc = "loop" => exts \in SortedByOffset(entry.extents)
  BY DEF CovInv
<1>1. ASSUME NEW e \in Entries, NEW r \in Requests, Start(e, r) PROVE CovInv'
  <2>1. pc' = "loop" /\ k' = 1 /\ remaining' = e.length /\ written' = {}
        /\ entry' = e
    BY <1>1 DEF Start
  <2>2. e.length \in Nat /\ Len(exts') \in Nat
    BY <1>0, ReadAssumption DEF RInv, TypeOK
  <2>3. Covered' /\ 1 <= Len(exts') => exts'[1].la = 0
    BY <2>2 DEF Covered, Tiles
  <2>4. Covered' /\ 1 > Len(exts') => e.length = 0
    BY <2>1, <2>2 DEF Covered, Tiles
  <2>5. exts' \in SortedByOffset(e.extents)
    BY <1>1 DEF Start
  <2>. QED
    BY <1>0, <2>1, <2>2, <2>3, <2>4, <2>5 DEF CovInv
<1>2. ASSUME ReadExtent PROVE CovInv'
  <2> DEFINE x == exts[k]
             n == Min2(x.len, remaining)
             rr == Pread(x, DeviceOffset(x), n)
             L == entry.length
  <2>1. /\ pc = "loop" /\ k \in 1..Len(exts) /\ Len(exts) \in Nat
        /\ x \in Extent /\ remaining \in Nat /\ L \in Nat /\ written \subseteq Nat
    BY <1>2, ReadAssumption DEF ReadExtent, CovInv, RInv, TypeOK, x, L
  <2>2. n \in Nat /\ n = IF x.len < remaining THEN x.len ELSE remaining
    BY <2>1 DEF n, Min2, Extent
  <2>3. rr \in {-1} \cup 0..n
    <3>1. DeviceOffset(x) \in Int
      BY <2>1 DEF DeviceOffset, CodeBase, BlockUnits, Extent
    <3>. QED
      BY <2>1, <2>2, <3>1, PreadBound DEF rr
  <2>4. CASE rr <= 0
    <3>1. pc' = "idle" /\ ret' = 0 /\ UNCHANGED <<entry, exts, k, written>>
      BY <1>2, <2>4 DEF ReadExtent, x, n, rr
    <3>2. Covered' <=> Covered
      BY <3>1, CoveredUnchanged
    <3>. QED
      BY <1>0, <1>5, <2>1, <3>1, <3>2 DEF CovInv
  <2>5. CASE rr > 0
    <3>1. /\ written' = written \cup {x.la + u : u \in 0..(rr - 1)}
          /\ remaining' = remaining - rr
          /\ k' = k + 1
          /\ UNCHANGED <<pc, ret, entry, req, exts>>
      BY <1>2, <2>3, <2>5 DEF ReadExtent, x, n, rr
    <3>2. Covered' <=> Covered
      BY <3>1, CoveredUnchanged
    <3>3. CASE ~Covered
      BY <1>0, <1>5, <2>1, <3>1, <3>2, <3>3 DEF CovInv
    <3>4. CASE Covered
      <4>1. remaining = L - x.la /\ \A u \in 0..(x.la - 1) : u \in written
        BY <2>1, <3>4 DEF CovInv, x, L
      <4>2. x.phys \notin BadBlocks /\ DeviceOffset(x) + x.len <= DevSize
        BY <2>1, <3>4 DEF Covered, OnDevice, x
      <4>3. x.la \in Nat /\ x.len \in Nat /\ x.la < L
        BY <2>1, <3>4 DEF Covered, Tiles, Extent, x, L
      <4>4. rr = n
        <5>1. DeviceOffset(x) \in Int /\ DevSize \in Nat
          BY <2>1, ReadAssumption DEF DeviceOffset, CodeBase, BlockUnits, Extent
        <5>. QED
          BY <2>2, <2>5, <4>2, <4>3, <5>1 DEF rr, Pread, Min2
      <4>5. \A u \in 0..(x.la + n - 1) : u \in written'
        <5> SUFFICES ASSUME NEW u \in 0..(x.la + n - 1) PROVE u \in written'
          OBVIOUS
        <5>1. CASE u < x.la
          BY <3>1, <4>1, <4>3, <5>1
        <5>2. CASE u >= x.la
          <6>1. u - x.la \in 0..(rr - 1) /\ u = x.la + (u - x.la)
            BY <2>2, <4>3, <4>4, <5>2
          <6>. QED
            BY <3>1, <6>1
        <5>. QED
          BY <4>3, <5>1, <5>2
      <4>6. k + 1 <= Len(exts) => exts[k + 1].la = x.la + x.len /\ exts[k + 1].la < L
        BY <2>1, <3>4 DEF Covered, Tiles, x, L
      <4>7. k + 1 > Len(exts) => L <= x.la + x.len
        BY <2>1, <3>4 DEF Covered, Tiles, x, L
      <4>8. k + 1 <= Len(exts) =>
               /\ remaining' = L - exts[k + 1].la
               /\ \A u \in 0..(exts[k + 1].la - 1) : u \in written'
        <5> SUFFICES ASSUME k + 1 <= Len(exts) PROVE remaining' = L - exts[k + 1].la
                                                     /\ \A u \in 0..(exts[k + 1].la - 1) : u \in written'
          OBVIOUS
        <5>1. x.len < remaining
          BY <2>1, <4>1, <4>3, <4>6 DEF L
        <5>2. n = x.len
          BY <2>2, <5>1
        <5>3. exts[k + 1].la = x.la + x.len
          BY <4>6
        <5>4. remaining' = L - exts[k + 1].la
          BY <2>1, <3>1, <4>1, <4>3, <4>4, <5>2, <5>3 DEF L
        <5>5. exts[k + 1].la - 1 = x.la + n - 1
          BY <4>3, <5>2, <5>3
        <5>. QED
          BY <4>5, <5>4, <5>5
      <4>9. k + 1 > Len(exts) => \A u \in 0..(L - 1) : u \in written'
        <5> SUFFICES ASSUME k + 1 > Len(exts) PROVE \A u \in 0..(L - 1) : u \in written'
          OBVIOUS
        <5>1. remaining <= x.len
          BY <2>1, <4>1, <4>3, <4>7 DEF L
        <5>2. n = L - x.la
          BY <2>1, <2>2, <4>1, <4>3, <5>1 DEF L
        <5>3. L - 1 = x.la + n - 1
          BY <2>1, <4>3, <5>2 DEF L
        <5>. QED
          BY <4>5, <5>3
      <4>10. pc' = "loop" /\ k' = k + 1 /\ exts' = exts /\ entry' = entry
        BY <2>1, <3>1
      <4>11. \A u \in written' : u < L
        <5>1. \A u \in written : u < L
          BY <3>4 DEF CovInv, L
        <5>2. \A v \in 0..(rr - 1) : x.la + v < L
          BY <2>1, <2>2, <4>1, <4>3, <4>4
        <5>. QED
          BY <3>1, <5>1, <5>2
      <4>. QED
        BY <1>0, <1>5, <2>1, <3>1, <3>2, <4>8, <4>9, <4>10, <4>11 DEF CovInv, L
    <3>. QED
      BY <3>3, <3>4
  <2>. QED
    BY <2>3, <2>4, <2>5
<1>3. ASSUME Copy PROVE CovInv'
  <2>1. entry.length \in Nat /\ req.offset \in Nat /\ req.size \in Nat
    BY ReadAssumption DEF CovInv, RInv, TypeOK
  <2>2. req.offset < entry.length =>
           req.offset + Min2(req.size, entry.length - req.offset) <= entry.length
    BY <2>1 DEF Min2
  <2>3. UNCHANGED <<entry, req, exts, k, written>> /\ pc' = "idle"
    BY <1>3 DEF Copy
  <2>4. Covered' <=> Covered
    BY <2>3, CoveredUnchanged
  <2>. QED
    BY <1>0, <1>3, <1>5, <2>2, <2>3, <2>4 DEF Copy, CovInv
<1>4. CASE UNCHANGED vars
  <2>1. Covered' <=> Covered
    BY <1>4, CoveredUnchanged DEF vars
  <2>. QED
    BY <1>0, <1>4, <2>1 DEF vars, CovInv
<1>. QED
  BY <1>1, <1>2, <1>3, <1>4 DEF Next

(* On a file the scan recovered whole, exts is a covered order, or no     *)
(* call has started yet.                                                   *)
LEMMA FileCoveredCovered ==
    CovInv /\ FileCovered(entry) => Covered \/ (written = {} /\ ret = 0)
  BY DEF CovInv, FileCovered, Covered

(***************************************************************************)
(* For every entry whose extents, in any order std::sort can leave them,  *)
(* tile the file on good blocks, and so also for the usual last extent    *)
(* rounded up to a block past entry->length, read's preads               *)
(* (filesystem.cpp:93) write only inside the entry->length bytes of       *)
(* fileBuffer (:82).  It rests on the sort (:85) and on                   *)
(* readLen = MIN(length, remaining) (:88): remaining is what is left of   *)
(* the file from the extent the loop is at.  The readoverflow run shows   *)
(* the overflow of an extent past a stale length.                         *)
(***************************************************************************)
THEOREM WritesWithinBufferProved ==
    Spec => [](FileCovered(entry) => WritesWithinBuffer)
<1>1. CovInv /\ FileCovered(entry) => WritesWithinBuffer
  BY FileCoveredCovered DEF CovInv, WritesWithinBuffer
<1>. QED
  BY <1>1, InitCovInv, NextCovInv, PTL DEF Spec

(***************************************************************************)
(* For the same files, every byte FileSystem::read hands back through the *)
(* memcpy (filesystem.cpp:109) was written by one of the loop's preads    *)
(* (:93): none comes from the uninitialised new uint8_t[] (:82).  The     *)
(* sparse and short runs show the property failing when the extents leave *)
(* a hole or the device ends early.                                        *)
(***************************************************************************)
THEOREM ReturnedBytesReadProved ==
    Spec => [](FileCovered(entry) => ReturnedBytesRead)
<1>1. CovInv /\ Covered => ReturnedBytesRead
  <2> SUFFICES ASSUME CovInv, Covered, pc = "idle", k > Len(exts),
                      NEW u \in req.offset..(req.offset + ret - 1)
               PROVE  u \in written
    BY DEF ReturnedBytesRead
  <2>1. req.offset \in Nat /\ ret \in Nat /\ entry.length \in Nat
    BY ReadAssumption DEF CovInv, RInv, TypeOK
  <2>2. req.offset + ret <= entry.length
    BY <2>1 DEF CovInv
  <2>. QED
    BY <2>1, <2>2 DEF CovInv
<1>2. CovInv /\ ret = 0 => ReturnedBytesRead
  BY ReadAssumption DEF CovInv, RInv, TypeOK, ReturnedBytesRead
<1>3. CovInv /\ FileCovered(entry) => ReturnedBytesRead
  BY <1>1, <1>2, FileCoveredCovered
<1>. QED
  BY <1>3, InitCovInv, NextCovInv, PTL DEF Spec

=============================================================================
