# A TLA+ model of superbadblock's APFS scan and its FUSE reader

superbadblock recovers files from damaged APFS containers. It reads the
device block by block and does not walk the B-trees from the superblock.
It decodes every B-tree leaf it finds, wherever it lies, and merges the
records into an entry graph kept in SQLite. This directory holds TLA+
models of that scan, TLC configurations that check them on small disks,
and TLAPS proofs of the main invariants for every value of the constants.

## The system

| Part | Source | What it does |
|------|--------|--------------|
| DiskScanner | `src/libsbb/diskscanner.cpp` | `scan()` clears the tables, then reads 4096 bytes at a time until EOF, a read error or `stop()`. Each block is wrapped in a database transaction and handed to every scanner. |
| APFSScanner::scanBlock | `src/libsbb/apfsscanner.cpp:45-102` | Verifies `fletcher64` over `m_currentBlockSize - 8` bytes. A container superblock sets `m_currentBlockSize` and (when it is still 0) `m_fsOffset`. B-tree blocks go to `scanBTreeBlock`. |
| scanBTreeBlock | `apfsscanner.cpp:104-275` | Builds the table of contents and groups records by object id in a `std::map`, so groups run in ascending id order. Each group is processed in TOC order with a local `fileEntry`, which `updateEntry` writes at the end of the group. |
| Record interpreters | `apfsscanner.cpp:277-450` | `scanInode`, `scanFileExtent` and `scanDirRec`. Each looks up or creates an `Entry` and applies its fields only if the entry's version is not newer than the node's xid (the version gate). Each then calls `updateEntry`. |
| FileSystem | `src/libsbb/filesystem.cpp` | `m_diskEntries` is an in-memory map written through to the `entry` and `extent` tables. `findByInode` checks the map, then the table. `updateEntry` INSERTs or UPDATEs the row and, if `extentsUpdated`, rewrites the extent rows. |
| filehunter | `src/filehunter/main.cpp` | Runs one scan. SIGINT calls `stop()`. |
| sbbfuse | `src/sbbfuse/main.cpp` | Serves the recovered tree over FUSE: `findByPath`, `findByParentInode`, `FileSystem::read`. |

How the parts interact: DiskScanner drives APFSScanner one block at a time.
APFSScanner reads and writes the store only through `findByInode` and
`updateEntry`. The FUSE front end reads the store after, or while, a scan
runs.

## Modules

- `ApfsScan.tla`: the scan, from `DiskScanner::scan` through
  `APFSScanner` into the `FileSystem` store.
  - State:
    - the scan loop (`phase`, `running`, `pos`);
    - the scanner's `m_currentBlockSize`, `m_fsOffset` and `m_objId2inode`;
    - the node being decoded: `node`, the TOC index `idx`, the groups left in `pending`, the current group `grp` and its `fileEntry`;
    - the store: `cache` is `m_diskEntries`, `db` the entry table, `dbExt` the extent table.
  - Actions, one per branch of the code:
    - `ScanIgnored`, `ScanOverrun`, `ScanSuperblock` and `ScanBTree` are the branches of `scanBlock`;
    - `TocEntry` is the grouping loop;
    - `NextGroup`, `SkipRecord` and `EndGroup` are the group loop;
    - `ScanInode`, `ScanFileExtent` and `ScanDirRec` are the record interpreters, each including its `updateEntry`;
    - `EndBlock`, `ReadEof`, `ReadError` and `Exit` are the scan loop;
    - `Stop` is the SIGINT handler.

  Each interpreter's version gate is a function of the `Entry`
  (`InodeUpdate`, `AppendExtent`, `DirRecUpdate`). `UpdateEntry` is
  `addEntry`/`updateEntry`: an UPDATE of a row that is not there changes
  nothing.

  Data is abstracted. A record is the decoded key/value pair: its kind,
  its object id, and the fields the interpreter reads. A block carries its
  type, whether its checksum matches, the size it was checksummed at, the
  superblock's magic and block size, and the node. Block sizes are in units
  of 4096 bytes.

  Four history variables support the properties. `extLog`, `extAttached`
  and `inoLog` record every extent and inode record decoded. `sbSeen` is
  set once a superblock with a good magic has been read.
- `MC_ApfsScan.tla`: the small disks. Inode 2 is the root directory and
  inode 5 a file in it. The node versions are the ones copy-on-write leaves
  behind:
  - the file at xid 1 and again at xid 2, with its extents split over two leaves;
  - a leaf of extents without their inode;
  - the root's leaf rewritten at xid 2;
  - a corrupt copy of a node;
  - superblocks of 4096 and 8192 bytes;
  - zero blocks, unknown objects, and a superblock without its magic.

  A disk is any 4 of these blocks, in any order and with repeats. Stopping
  at any step and read errors are part of every run.
- `ApfsScanProofs.tla`: the TLAPS proofs of type correctness and of the write-through invariant.
- `ApfsScanExtentProofs.tla`: the TLAPS proof of the extent-generation invariant.
- `ApfsScanStoreProofs.tla`: the TLAPS proof that the scan refines `EntryStore`.
- `FuseFsProofs.tla` and `FsReadProofs.tla`: the TLAPS proofs about the FUSE
  callbacks and about `read`.
- `EntryStore.tla`: the abstract store, i.e. what `FileSystem` promises a
  reader. It is one map `entries` from inode to `Entry` that changes only
  by `Upsert(i)`. An upsert creates an entry or supersedes it: versions do
  not go down, and within one extent generation the extents are only
  appended. `ApfsScan` maps onto it through `Persisted`: the entry graph as
  `findByInode` would load it from the tables (`LoadRow`). `StoreRefinement`
  is `EntryStore!Spec` under that mapping.
- `FsRead.tla`: `FileSystem::read` (`filesystem.cpp:80-119`).
  - `Start` allocates the buffer, sorts the extents (`SortedByOffset`:
    any order of equal addresses, as `std::sort` allows) and sets
    `remaining`.
  - `ReadExtent` is one pass of the loop: `readLen`, the device offset
    with the hard-coded `0xc805000`, and `pread`, which fails on a bad
    block and is short at the end of the device. A result `<= 0` returns 0.
  - `Copy` clips the request to the file and returns its size.
  - `written` is the set of buffer positions some `pread` filled. Sizes
    are in 1 KiB units, and a block is 4 units.
- `MC_FsRead.tla`: four entries, one per edge:
  - unsorted extents;
  - an extent on a bad block;
  - an extent past the end of the device;
  - the same extent twice.

  There are four requests: at the start, across an extent boundary, at
  the end and past it. The violation runs use an extent past the file's
  length, and a device that ends inside the second extent.
- `FuseFs.tla`: sbbfuse's callbacks on the libfuse worker threads.
  - Every callback (`Call`) runs `findByPath`:
    - `Lock` takes `m_databaseMutex`;
    - `FindRoot`/`FoundRoot` is `findByInode(2)`, hit, load or null;
    - `Walk` is one `findByName` per path part, with the break on a
      missing name and the crash on a null `partEntry`;
    - `Unlocked` is the unlock.
  - `sbb_readdir` then runs `findByParentInode` without the lock (`List`).
  - Every row loaded goes through `getEntryFromQuery`, whose map insert
    completes in `Inserted`.
  - Each `std::map` find and insert is entered in one step and left in
    another, so two threads inside the map at once are a visible state.
  - The entry table is fixed, because the scan that wrote it has ended.
- `MC_FuseFs.tla`: two threads, a table with and without the root row, a
  directory with two children of the same name, and the paths `/`, `/d`,
  `/d/f`, `/x/f` and `/g`. Symmetry over the threads is sound because
  they are interchangeable model values.

## Runs

| Run | Expect | Checks | What it shows |
|-----|--------|--------|---------------|
| scan | pass | `TypeOK`, `ExtentsAreNewestGeneration`, `StoreMatchesCache` | Whatever the order of the node versions on the disk, each inode's extents are exactly the extent records of the newest generation seen with the inode, and the tables equal the map between blocks. About 16,000 states. |
| length | violation | `LengthFromNewestInode` | The directory leaf at xid 2 stamps inode 5's shared `versionId`. The inode's own size record at xid 1 is then discarded. |
| orphan | violation | `ExtentRecordsRecovered` | Extents in a leaf without their inode record are dropped (`fileEntry` is null). |
| reapply | violation | `NoDuplicateExtents` | A second copy of the same node appends its extents again. |
| offset | violation | `BaseOffsetIsFirstSuperblock` | A superblock at position 0 leaves `m_fsOffset` at its sentinel 0, so a later superblock moves it. |
| bigblock | violation | `ChecksumWithinBuffer` | After an 8192-byte superblock, `fletcher64` reads past the 4096-byte buffer. |
| readerr | violation | `ScanCoversDisk` | One failed `read()` ends the scan before the end of the disk. |
| read | pass | `TypeOK`, `WritesWithinBuffer`, `ReturnedBytesRead` | `read` writes only inside its buffer, and a call that finishes its loop returns only bytes `pread` wrote. This holds for unsorted and repeated extents, bad blocks, extents past the device, and every request offset. 116 states. |
| readoverflow | violation | `WritesWithinBuffer` | An extent past the entry's length is read to `fileBuffer + logicalAddress`, beyond the buffer. |
| readshort | violation | `ReturnedBytesRead` | A short `pread` at the end of the device is accepted, and the copy returns bytes no read wrote. |
| fuse | pass | `TypeOK`, `OnlyListingRaces`, `CrashOnlyWithoutRoot` | The mutex keeps every `findByPath` out of the map while another writes it. Every race involves readdir's unlocked child loads, and a crash needs a table without the root. About 1.2 million states. |
| fuserace | violation | `MapAccessExclusive` | readdir inserts into `m_diskEntries` while another thread is inside it under the mutex. |

Each violation run is a finding in `PROJECT.json`: the code disagrees
with `spec.md` (sections 3, 4.3, 7, 8), reads or writes past a buffer,
returns uninitialised bytes, or races on the map.

Each property of the passing run has a mutant that breaks it:
- dropping the null check on `fileEntry` in `scanDirRec` breaks `TypeOK`;
- dropping the extent reset for a newer xid breaks `ExtentsAreNewestGeneration`;
- dropping the extent rewrite from `updateEntry` breaks `StoreMatchesCache`.
- a position that does not advance breaks `ScanTerminates`;
- dropping the version gate of `scanInode` breaks `StoreRefinement`;
- not sorting the extents breaks `WritesWithinBuffer`: the file's last
  extent, read first, gets a whole block of `remaining` and writes past
  the file's end;
- ending the loop only on a negative result breaks `ReturnedBytesRead`;
- clipping the copy without the offset test breaks `TypeOK` of `FsRead`;
- `findByPath` not waiting for the mutex breaks `OnlyListingRaces`;
- building the root without a row breaks `TypeOK` of `FuseFs`;
- not breaking on a missing name breaks `CrashOnlyWithoutRoot`.

**Bounds.** Two inodes, two xids and three extents are the fewest that
show each case:
- an older generation to discard;
- a newer one split over two leaves;
- a directory node whose xid is newer than its child's inode record;
- a node read twice.

Four blocks are enough for the longest of these sequences: superblock,
then three nodes. Block sizes of 1 and 2 units separate a block that fits
the buffer from one that does not.

Reads need four requests and four entries to separate each branch of
`read`. Two FUSE threads are enough for a race, and the five paths reach
every branch of `findByPath`.

**Fairness.** `ScannerNext` (every step of the scanning thread) is
weakly fair. The scan loop is a single thread that never waits, so once
it can take a step it does. `ScanTerminates` rests on this. `Stop` comes
from a signal and is not assumed fair. In `FsRead` the loop and the copy
are weakly fair for the same reason. `FuseFs` assumes no fairness: a
pthread mutex is not fair, and the kernel need not send any callback.
Its runs check only safety.

## What is proved

`ApfsScanProofs.tla` proves these for every set of ids, names, sizes,
xids, block sizes and blocks that satisfies the assumptions of
`ApfsScan`:
- The value sets are naturals.
- Blocks have the shape `Block`.
- The sentinels (`NoEntry`, `NoSize`, and so on) are not ordinary values.

Theorems:
- **`TypeCorrect`**: `Spec => []TypeOK`. `TypeOK` alone is not inductive.
  `ScanFileExtent` and `EndGroup` read `cache[fileEntry]`, and
  `TocEntry` reads the current record of `node`, so the invariant `IInv`
  adds two facts:
  - while a node is decoded, it is a `Node`;
  - a non-null `fileEntry` names an entry of the map.

  The proof has one step per action. It rests on lemmas showing that
  each version gate (`InodeUpdate`, `AppendExtent`, `DirRecUpdate`) maps
  an `Entry` to an `Entry`, and that `UpdateEntry` keeps every entry
  already in the map.
- **`StoreMatchesCacheProved`**: `Spec => []StoreMatchesCache`. The
  strengthening `SInv` says the tables match the map in every state, not
  only between blocks. Three facts carry the inductive step:
  - `findByInode` never falls through to the table, because an inode
    the map lacks has no row;
  - every interpreter passes `isNew` exactly for a new entry;
  - it either rewrites the extents or leaves them as the tables hold them.

- **`ExtentsAreNewestGenerationProved`** (in `ApfsScanExtentProofs.tla`):
  `Spec => []ExtentsAreNewestGeneration`. The invariant needs `IInv`,
  `SInv`, and `EInv`, which says an extent record is attached only to an
  inode with an entry in the map. Without `EInv`, a new entry's
  generation 0 could meet records attached before it existed. The steps:
  - `scanInode`, `scanDirRec` and the end of a group leave every
    inode's extent generation unchanged (`UpdateKeepsGeneration`). This
    holds because `findByInode` returns the map's own entry (`SInv`)
    and the version gates do not touch the extents.
  - `scanFileExtent` attaches `<<fileEntry, xid, ext>>`. `AttachStep`
    splits on the entry's generation against the xid:
    - if it is older, the extents restart as `<<ext>>`;
    - if it is equal, the extent is appended (`RangeAppend`);
    - if it is newer, the record is dropped, and its xid lies below the
      generation.
- **`StoreRefinementProved`** (in `ApfsScanStoreProofs.tla`):
  `Spec => StoreRefinement`, meaning the scan implements `EntryStore`.
  The argument:
  - `SInv` makes `Persisted` equal to `cache` in every state
    (`PersistedIsCache`), and the same holds in the next state.
  - Each action leaves `cache` alone or changes one inode
    (`NextCacheUpsert`).
  - The version gates give `Supersedes` (`GateSupersedes`). An extent
    either starts a newer generation or is appended to the current one
    (`AppendSupersedes`).
  - So every step is an `Upsert` or a stutter of `Persisted`
    (`RefineStep`). `IInv /\ SInv` holds throughout, by the earlier
    theorems.

`FuseFsProofs.tla` proves these for every number of threads, every
entry table and every set of paths. The assumption `FuseAssumption` says
paths are sequences of strings, as `splitString` returns them, and that
inodes are naturals.
- **`TypeCorrect`**: `Spec => []TypeOK`. `TypeOK` is strengthened by
  `TInv`, which adds:
  - where an insert returns (`after`);
  - that a thread in `find` looks up inode 2;
  - that an inserting thread's key is an inode of the table, so the keys
    of the map stay inodes of the table.
- **`OnlyListingRacesProved`**: `Spec => []OnlyListingRaces`. The
  inductive invariant `LInv` is the mutual-exclusion argument: every
  thread between `findByPath`'s lock and its unlock (`Locked`) owns
  `m_databaseMutex`. Two threads inside the map that are not loading
  readdir children are both `Locked`, so they are the same thread.
- **`CrashOnlyWithoutRootProved`**: `Spec => []CrashOnlyWithoutRoot`.
  `CInv` says a walking thread has a null `partEntry` with parts left
  only when the table lacks the root. The reason is that the break on a
  missing name moves the loop index past the end.

`FsReadProofs.tla` proves these for every set of entries, requests,
device sizes and bad blocks:
- **`TypeCorrect`**: `Spec => []TypeOK`. The key fact is that `pread`
  returns at most `readLen = MIN(length, remaining)` (`PreadBound`,
  `MinBounds`), so `remaining` stays a natural. The sort is modelled
  with `Bijection` of the `Functions` module. `SortedIsPermutation`
  shows the sorted extents are a sequence of the entry's extents.
- **`WritesWithinBufferProved`** and **`ReturnedBytesReadProved`**:
  `Spec => [](FileCovered(entry) => WritesWithinBuffer)` and the same
  with `ReturnedBytesRead`. `FileCovered(e)` says every order the sort
  can leave `e`'s extents in tiles the file (`Tiles`: the first starts
  at 0, each starts where the one before ends and inside the file, and
  the last reaches the end, possibly past it when rounded up to a
  block), and lies on good blocks of the device (`OnDevice`). That is a
  file the scan recovered whole; the 5 KiB file of the `read` run is
  one, with its last block reaching unit 8. Both theorems rest on the
  sort and on `readLen = MIN(length, remaining)`: unsorted, or with the
  whole extent read, the last block would be written past the buffer.
  The cases outside the premise are the ones the violation runs show: a
  stale length (`readoverflow`), a hole (the sparse entry) and a short
  device (`readshort`).

  The strengthening `CovInv` adds to `RInv` the loop invariant of
  `read` on the state's own sorted copy `exts` (`Covered`): at extent
  `k`, `remaining = length - la[k]` and every unit below `la[k]` is
  written; after the loop every unit of the file is written; no unit at
  or past the length is written; and the copy's `offset + ret` stays
  inside the file. It also says `exts` is a sorted order of the entry's
  extents once a call has started, which carries `FileCovered(entry)`
  to `Covered` (`FileCoveredCovered`). The step uses that on a covered
  file `pread` returns all of `readLen`. If `readLen` is the extent's
  length the next extent starts where this one ended. Otherwise the
  file ends inside this extent and no extent follows. Stating the
  premise per extent, not as a sum of lengths, is what avoids induction
  over the sequence.

Each strengthening (`TInv`, `LInv`, `CInv`, `RInv`, `CovInv`) was first checked by
TLC as an invariant on the `fuse` and `read` instances (`RInv` also on
the `readoverflow` one, `CovInv` also on the `readshort` one) before it
was proved.

Only TLC checks the following:
- The liveness properties `ScanCoversDisk` and `ScanTerminates`. Liveness
  and `ENABLED` are beyond TLAPS.
- `WritesWithinBuffer` and `ReturnedBytesRead` on entries outside
  `FileCovered`. The `read` run checks them on a bad block, a block past
  the device end and an extent recorded twice, where `read` returns 0
  before the copy. That holds for those values only, and no general
  premise for it is proved.
- The properties of the violation runs. They are claims the code
  breaks, so there is nothing to prove.

## Not modelled

- `FileSystem::clear` before a second scan. It keeps the map while
  deleting the tables. No program of the repository calls `scan()` twice.
- Two FUSE reads of the same file at once. `read` sorts the shared
  `Entry`'s extents in place without the mutex; `FsRead` models one call
  on its own copy, and `FuseFs` does not run the read loop.
- The widths in `read`: the `int readLen` truncates only extents over
  2 GiB, which are far beyond a model in 1 KiB units.
- Heap ownership: the buffer `read` leaks on a failed `pread`, and the
  `Entry` that `getEntryFromQuery` leaks when the key is already mapped.
- Byte-level TOC and xfield parsing, whose counts come from disk.
- Index nodes.
- The window before `scan()` sets `m_running`.
- `ApfsScan`, `FuseFs` and `FsRead` run as separate models, so the
  hard-coded read offset is not compared with the scan's `m_fsOffset`.

`PROJECT.json` lists each of these as a hazard with the reason it is not
yet covered.

## Plan

1. Compose `FsRead` with the scan's store, so that a read uses the
   entries and `m_fsOffset` a scan produced.
2. A property that a read of a fully covered file returns its data. It
   fails on the duplicate-extent entry that reapplied nodes produce.
3. The window before `scan()` sets `m_running`, as an initial phase.
4. `fletcher64` as a pure function at a reduced word width, checked
   against the definition of the Fletcher checksum.
