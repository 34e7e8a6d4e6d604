------------------------------- MODULE FsRead -------------------------------
(***************************************************************************)
(* FileSystem::read (src/libsbb/filesystem.cpp:80-119), the call sbbfuse   *)
(* makes for every FUSE read of a recovered file.  It allocates a buffer   *)
(* of entry->length bytes, sorts the extents by logical address, preads    *)
(* each extent to fileBuffer + logicalAddress, and copies the requested    *)
(* slice out.                                                              *)
(*                                                                         *)
(* Byte counts are in units of 1 KiB, so a 4096-byte block is BlockUnits   *)
(* units and the code's hard-coded base 0xc805000 is CodeBase units.  The  *)
(* device is DevSize units long and BadBlocks are the physical blocks      *)
(* whose pread fails with EIO.                                             *)
(***************************************************************************)
EXTENDS Integers, Sequences, Functions

CONSTANTS
    Entries,        \* the Entry objects findByPath can hand to read
    Requests,       \* the (offset, size) pairs a FUSE read can ask for
    DevSize,        \* length of the device, in units
    BadBlocks       \* physical blocks whose pread fails

BlockUnits == 4
CodeBase == 204820          \* 0xc805000 bytes in 1 KiB units

Extent == [la : Nat, phys : Nat, len : Nat]

ASSUME ReadAssumption ==
    /\ Entries \subseteq [length : Nat, extents : Seq(Extent)]
    /\ Requests \subseteq [offset : Nat, size : Nat]
    /\ DevSize \in Nat
    /\ BadBlocks \subseteq Nat

VARIABLES
    pc,          \* "idle" between calls, "loop" in the extent loop
    entry,       \* the Entry being read
    req,         \* the offset and size of the call
    exts,        \* entry->extents after the sort
    k,           \* index of the extent the loop is at
    remaining,   \* uint64_t remaining
    written,     \* units of fileBuffer (at any index) written by pread
    ret          \* what the last call returned

vars == <<pc, entry, req, exts, k, remaining, written, ret>>

Min2(a, b) == IF a < b THEN a ELSE b

(* std::sort with compareOffsets: any permutation ordered by logical       *)
(* address; extents with equal addresses may come out in either order.     *)
SortedByOffset(s) ==
    { p \in { [i \in DOMAIN s |-> s[f[i]]] : f \in Bijection(DOMAIN s, DOMAIN s) } :
        \A i, j \in DOMAIN p : i < j => p[i].la <= p[j].la }

(* The device offset the code computes for an extent.                      *)
DeviceOffset(e) == CodeBase + e.phys * BlockUnits

(* ::pread of n units at off: -1 on a bad block, else what the device      *)
(* holds from off, at most n.                                              *)
Pread(e, off, n) ==
    IF e.phys \in BadBlocks THEN -1
    ELSE IF off >= DevSize THEN 0
    ELSE Min2(n, DevSize - off)

Init ==
    /\ pc = "idle"
    /\ entry \in Entries
    /\ req \in Requests
    /\ exts = <<>>
    /\ k = 1
    /\ remaining = 0
    /\ written = {}
    /\ ret = 0

(* Mutant: the extents are read in the order the scan stored them.        *)
StartNoSort(e, r) ==
    /\ pc = "idle"
    /\ pc' = "loop"
    /\ entry' = e
    /\ req' = r
    /\ exts' = e.extents
    /\ k' = 1
    /\ remaining' = e.length
    /\ written' = {}
    /\ UNCHANGED ret

(* Entry to read(): the buffer is allocated, the extents are sorted in     *)
(* place and remaining is the file's length.                               *)
Start(e, r) ==
    /\ pc = "idle"
    /\ pc' = "loop"
    /\ entry' = e
    /\ req' = r
    /\ exts' \in SortedByOffset(e.extents)
    /\ k' = 1
    /\ remaining' = e.length
    /\ written' = {}
    /\ UNCHANGED ret

(* Mutant: only a negative pread result ends the loop.                    *)
ReadExtentErrorOnly ==
    /\ pc = "loop"
    /\ k <= Len(exts)
    /\ LET e == exts[k]
           r == Pread(e, DeviceOffset(e), Min2(e.len, remaining))
       IN IF r < 0
            THEN /\ pc' = "idle"
                 /\ ret' = 0
                 /\ UNCHANGED <<written, remaining, k>>
            ELSE /\ written' = written \cup {e.la + u : u \in 0..(r - 1)}
                 /\ remaining' = remaining - r
                 /\ k' = k + 1
                 /\ UNCHANGED <<pc, ret>>
    /\ UNCHANGED <<entry, req, exts>>

(* One pass of the extent loop: readLen = MIN(length, remaining), pread to *)
(* fileBuffer + logicalAddress; a result <= 0 returns 0 at once.           *)
ReadExtent ==
    /\ pc = "loop"
    /\ k <= Len(exts)
    /\ LET e == exts[k]
           readLen == Min2(e.len, remaining)
           off == DeviceOffset(e)
           r == Pread(e, off, readLen)
       IN IF r <= 0
            THEN /\ pc' = "idle"
                 /\ ret' = 0
                 /\ UNCHANGED <<written, remaining, k>>
            ELSE /\ written' = written \cup {e.la + u : u \in 0..(r - 1)}
                 /\ remaining' = remaining - r
                 /\ k' = k + 1
                 /\ UNCHANGED <<pc, ret>>
    /\ UNCHANGED <<entry, req, exts>>

(* Mutant: the size is clipped without testing the offset against the end. *)
CopyUnchecked ==
    /\ pc = "loop"
    /\ k > Len(exts)
    /\ pc' = "idle"
    /\ ret' = Min2(req.size, entry.length - req.offset)
    /\ UNCHANGED <<entry, req, exts, k, remaining, written>>

(* After the loop: the slice [offset, offset + size) clipped to the file   *)
(* is copied out and its size returned; an offset past the end returns 0.  *)
Copy ==
    /\ pc = "loop"
    /\ k > Len(exts)
    /\ pc' = "idle"
    /\ ret' = IF req.offset < entry.length
                THEN Min2(req.size, entry.length - req.offset)
                ELSE 0
    /\ UNCHANGED <<entry, req, exts, k, remaining, written>>

Next ==
    \/ \E e \in Entries, r \in Requests : Start(e, r)
    \/ ReadExtent
    \/ Copy

Spec == Init /\ [][Next]_vars /\ WF_vars(ReadExtent \/ Copy)

-----------------------------------------------------------------------------

TypeOK ==
    /\ pc \in {"idle", "loop"}
    /\ entry \in Entries
    /\ req \in Requests
    /\ exts \in Seq(Extent)
    /\ k \in 1..(Len(exts) + 1)
    /\ remaining \in Nat
    /\ written \subseteq Nat
    /\ ret \in Nat

(* Every pread of read() lands inside the entry->length bytes allocated    *)
(* for fileBuffer (filesystem.cpp:82 and :93).                             *)
WritesWithinBuffer == \A u \in written : u < entry.length

(* A call that gets through the extent loop returns only bytes some pread  *)
(* wrote: the memcpy at filesystem.cpp:109 never hands the caller          *)
(* uninitialised heap from the new uint8_t[] at :82.                       *)
ReturnedBytesRead ==
    (pc = "idle" /\ k > Len(exts)) =>
        \A u \in req.offset..(req.offset + ret - 1) : u \in written

=============================================================================
