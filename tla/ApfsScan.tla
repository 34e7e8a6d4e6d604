------------------------------ MODULE ApfsScan ------------------------------
(***************************************************************************)
(* The scan of libsbb: DiskScanner::scan reads the device 4096 bytes at a  *)
(* time and hands each block to APFSScanner::scanBlock, which verifies the *)
(* checksum, reads container superblocks, and decodes B-tree nodes into    *)
(* the Entry graph kept by FileSystem (an in-memory map m_diskEntries      *)
(* written through to the entry and extent tables of the database).        *)
(*                                                                         *)
(* Data is abstracted: a record is a model of one decoded key/value pair   *)
(* (its object id, its APFS record type and the fields the interpreters    *)
(* read), a block carries the outcome of its checksum test.  Control is    *)
(* kept: the table-of-contents pass that groups records by object id, the  *)
(* groups taken in ascending id order (std::map), the records of a group   *)
(* in node order with the in-progress fileEntry, every version gate, and   *)
(* every updateEntry with its INSERT/UPDATE and extent rewrite.            *)
(***************************************************************************)
EXTENDS Naturals, Sequences, Functions

CONSTANTS
    Ids,         \* object ids, which the scanner uses as inode numbers
    Parents,     \* parent_id values an inode record may carry
    Names,       \* directory-entry names
    DTypes,      \* directory-entry types (flags & DREC_TYPE_MASK)
    Sizes,       \* j_dstream_t.size values an inode xfield may carry
    Exts,        \* file-extent payloads (logical_addr, phys_block_num, len)
    Xids,        \* transaction ids of B-tree nodes (btn_o.o_xid)
    BlockSizes,  \* nx_block_size values, in units of 4096 bytes
    Blocks,      \* the blocks a disk may hold
    DiskBlocks,  \* length of the disk, in 4096-byte reads
    NoSize,      \* an inode record without a DSTREAM xfield
    NoName,      \* Entry::name before any directory record named it
    NoEntry,     \* a null Entry*: no entry, no row, no current fileEntry
    NoGroup,     \* no group of the node is being processed
    NoNode       \* no B-tree node is being decoded

\* The reads of DiskScanner::scan (uint8_t block[4096]) and the initial
\* m_currentBlockSize = 4096, in units of 4096 bytes.
ReadSize == 1
InitBlockSize == 1

\* Record types the scanner tells apart (j_key_t.obj_id_and_type >> 60):
\* APFS_TYPE_INODE, FILE_EXTENT, DIR_REC, the APFS_TYPE_ANY separator, and
\* every other type, which falls to the ignoring default of the switch.
Kinds == {"inode", "extent", "drec", "any", "other"}

Rec == [kind: Kinds, id: Ids, parent: Parents, size: Sizes \cup {NoSize},
        ext: Exts, target: Ids, name: Names, dtype: DTypes]

Node == [xid: Xids, recs: Seq(Rec)]

\* o_type (0, NX superblock, B-tree / B-tree node, other), whether the stored
\* checksum matches the bytes, the size the writer checksummed, nx_magic,
\* nx_block_size, and the node a B-tree block holds.
Block == [type: {"zero", "nx", "btree", "other"}, cksumOk: BOOLEAN,
          osize: BlockSizes, magicOk: BOOLEAN, bsize: BlockSizes, node: Node]

\* struct Entry (filesystem.h) less its key inode and its transient flags;
\* new Entry() value-initialises the fields to 0 and "".
Entry == [parentId: Nat, versionId: Nat, type: Nat, name: Names \cup {NoName},
          length: Nat, extents: Seq(Exts), extentVersionId: Nat]

NewEntry == [parentId |-> 0, versionId |-> 0, type |-> 0, name |-> NoName,
             length |-> 0, extents |-> <<>>, extentVersionId |-> 0]

\* A row of the entry table; the extent rows of an inode are dbExt[i].
Row == [parentId: Nat, versionId: Nat, type: Nat, name: Names \cup {NoName},
        length: Nat, extentVersionId: Nat]

RowOf(e) == [parentId |-> e.parentId, versionId |-> e.versionId, type |-> e.type,
             name |-> e.name, length |-> e.length,
             extentVersionId |-> e.extentVersionId]

\* The value sets are naturals where the code stores integers.
ASSUME ValuesAssumption ==
    /\ Ids \subseteq Nat \ {0}
    /\ Parents \subseteq Nat
    /\ DTypes \subseteq Nat
    /\ Sizes \subseteq Nat
    /\ Xids \subseteq Nat
    /\ BlockSizes \subseteq Nat \ {0}
    /\ InitBlockSize \in BlockSizes
    /\ DiskBlocks \in Nat

\* A disk holds blocks of the shape above.
ASSUME BlocksAssumption == Blocks \subseteq Block

\* The sentinels are no value they stand beside.
ASSUME SentinelAssumption ==
    /\ NoSize \notin Sizes
    /\ NoName \notin Names
    /\ NoEntry \notin Nat \cup Entry \cup Row
    /\ NoGroup \notin Ids
    /\ NoNode \notin Node

VARIABLES
    phase,       \* "idle" between blocks, "toc" / "groups" inside scanBTreeBlock
    running,     \* DiskScanner::m_running
    pos,         \* DiskScanner::scan's pos, in 4096-byte units
    blockSize,   \* APFSScanner::m_currentBlockSize, in 4096-byte units
    fsOffset,    \* FileSystemScanner::m_fsOffset, in 4096-byte units
    node,        \* the B-tree node being decoded
    idx,         \* index of the table-of-contents entry being looked at
    pending,     \* ids of the groups (std::map entries) not yet processed
    grp,         \* id of the group being processed
    fileEntry,   \* the group's Entry* fileEntry, as the inode it points to
    objId2inode, \* APFSScanner::m_objId2inode, 0 where the map has no key
    cache,       \* FileSystem::m_diskEntries
    db,          \* the entry table
    dbExt,       \* the extent table, per inode
    extLog,      \* history: every file-extent record decoded, <<id, xid, ext>>
    extAttached, \* history: those decoded with a non-null fileEntry
    inoLog,      \* history: every inode record decoded, <<id, xid, size>>
    sbSeen       \* history: a superblock with a good magic has been read

scanVars == <<phase, running, pos, blockSize, fsOffset, node, idx, pending, grp,
              fileEntry, objId2inode>>
storeVars == <<cache, db, dbExt>>
histVars == <<extLog, extAttached, inoLog, sbSeen>>
vars == <<scanVars, storeVars, histVars>>

TypeOK ==
    /\ phase \in {"idle", "toc", "groups", "done", "crashed"}
    /\ running \in BOOLEAN
    /\ pos \in Nat
    /\ blockSize \in BlockSizes
    /\ fsOffset \in Nat
    /\ node \in Node \cup {NoNode}
    /\ idx \in Nat
    /\ pending \subseteq Ids
    /\ grp \in Ids \cup {NoGroup}
    /\ fileEntry \in Ids \cup {NoEntry}
    /\ objId2inode \in [Ids -> Ids \cup {0}]
    /\ cache \in [Ids -> Entry \cup {NoEntry}]
    /\ db \in [Ids -> Row \cup {NoEntry}]
    /\ dbExt \in [Ids -> Seq(Exts)]
    /\ extLog \subseteq Ids \X Xids \X Exts
    /\ extAttached \subseteq Ids \X Xids \X Exts
    /\ inoLog \subseteq Ids \X Xids \X (Sizes \cup {NoSize})
    /\ sbSeen \in BOOLEAN

\* DiskScanner::scan after FileSystem::clear(): empty tables and map.
Init ==
    /\ phase = "idle"
    /\ running = TRUE
    /\ pos = 0
    /\ blockSize = InitBlockSize
    /\ fsOffset = 0
    /\ node = NoNode
    /\ idx = 0
    /\ pending = {}
    /\ grp = NoGroup
    /\ fileEntry = NoEntry
    /\ objId2inode = [i \in Ids |-> 0]
    /\ cache = [i \in Ids |-> NoEntry]
    /\ db = [i \in Ids |-> NoEntry]
    /\ dbExt = [i \in Ids |-> <<>>]
    /\ extLog = {}
    /\ extAttached = {}
    /\ inoLog = {}
    /\ sbSeen = FALSE

-----------------------------------------------------------------------------
(***************************************************************************)
(* FileSystem: the map m_diskEntries over the entry and extent tables.     *)
(***************************************************************************)

\* getEntryFromQuery: an Entry built from its entry row and extent rows.
LoadRow(i) ==
    [parentId |-> db[i].parentId, versionId |-> db[i].versionId,
     type |-> db[i].type, name |-> db[i].name, length |-> db[i].length,
     extents |-> dbExt[i], extentVersionId |-> db[i].extentVersionId]

\* findByInode: the map first, then the entry table, else nullptr.
FindByInode(i) ==
    IF cache[i] # NoEntry THEN cache[i]
    ELSE IF db[i] # NoEntry THEN LoadRow(i)
    ELSE NoEntry

\* Plausible bug: the extent rows are not rewritten (mutant of UpdateEntry).
UpdateEntryRowOnly(i, e, isNew, extentsUpdated) ==
    /\ cache' = [cache EXCEPT ![i] = e]
    /\ db' = IF isNew \/ db[i] # NoEntry THEN [db EXCEPT ![i] = RowOf(e)] ELSE db
    /\ dbExt' = dbExt

\* updateEntry of entry e with inode i: addEntry (map insert and INSERT) for
\* a new entry, else an UPDATE, which changes nothing when the row is gone;
\* then, if the extents were updated, DELETE and re-INSERT the extent rows.
UpdateEntry(i, e, isNew, extentsUpdated) ==
    /\ cache' = [cache EXCEPT ![i] = e]
    /\ db' = IF isNew \/ db[i] # NoEntry THEN [db EXCEPT ![i] = RowOf(e)] ELSE db
    /\ dbExt' = IF extentsUpdated THEN [dbExt EXCEPT ![i] = e.extents] ELSE dbExt

-----------------------------------------------------------------------------
(***************************************************************************)
(* The record interpreters' version gates, as functions of the Entry.      *)
(***************************************************************************)

\* Plausible bug: the inode's fields are taken whatever its versionId.
InodeUpdateNoGate(e, r, x) ==
    [e EXCEPT !.parentId = r.parent, !.versionId = x,
              !.length = IF r.size = NoSize THEN @ ELSE r.size]

\* scanInode: parent, versionId and (with a DSTREAM xfield) length are
\* taken when the entry's versionId is not newer than the node's xid.
InodeUpdate(e, r, x) ==
    IF e.versionId <= x
    THEN [e EXCEPT !.parentId = r.parent, !.versionId = x,
                   !.length = IF r.size = NoSize THEN @ ELSE r.size]
    ELSE e

\* Plausible bug: the extent set is never cleared for a newer xid.
AppendExtentNoClear(e, x, ext) ==
    [e EXCEPT !.extentVersionId = x, !.extents = Append(@, ext)]

\* scanFileExtent: a strictly newer xid starts a new extent generation; the
\* extent is appended to the current generation.
AppendExtent(e, x, ext) ==
    LET base == IF e.extentVersionId < x
                THEN [e EXCEPT !.extents = <<>>, !.extentVersionId = x]
                ELSE e
    IN  [base EXCEPT !.extents = Append(@, ext)]

\* Plausible bug: the null check on fileEntry is dropped.
DirRecUpdateNoNullCheck(c, r, x, fe) ==
    IF c.versionId <= x
    THEN [c EXCEPT !.parentId = fe, !.name = r.name, !.versionId = x,
                   !.type = r.dtype]
    ELSE c

\* scanDirRec: the child takes the current directory (when there is one) as
\* parent, the record's name and type, and the node's xid as versionId.
DirRecUpdate(c, r, x, fe) ==
    IF c.versionId <= x
    THEN [c EXCEPT !.parentId = IF fe = NoEntry THEN @ ELSE fe,
                   !.name = r.name, !.versionId = x, !.type = r.dtype]
    ELSE c

-----------------------------------------------------------------------------
(***************************************************************************)
(* APFSScanner::scanBlock, as one action per way a block is handled.       *)
(***************************************************************************)

\* The loop of DiskScanner::scan has read a full block at pos.
ReadBlock == phase = "idle" /\ running /\ pos < DiskBlocks

\* fletcher64 over m_currentBlockSize - 8 bytes matches o_cksum, o_type # 0.
Trusted(b) == b.type # "zero" /\ b.cksumOk /\ b.osize = blockSize

\* Plausible bug: the position is not advanced past the block.
NextPosStuck == pos' = pos

\* The block ends: endTransaction, pos += 4096.
NextPos == pos' = pos + 1

\* A block with a bad checksum, type 0, or an object type the switch
\* ignores: nothing but the position changes.
ScanIgnored(b) ==
    /\ ReadBlock
    /\ blockSize <= ReadSize
    /\ ~Trusted(b) \/ b.type = "other"
    /\ NextPos
    /\ UNCHANGED <<phase, running, blockSize, fsOffset, node, idx, pending,
                   grp, fileEntry, objId2inode, storeVars, histVars>>

\* m_currentBlockSize is larger than the 4096-byte buffer: fletcher64 reads
\* past it, an undefined read whose outcomes are a mismatch or a fault.
ScanOverrun(b) ==
    /\ ReadBlock
    /\ blockSize > ReadSize
    /\ \/ NextPos /\ UNCHANGED phase
       \/ phase' = "crashed" /\ UNCHANGED pos
    /\ UNCHANGED <<running, blockSize, fsOffset, node, idx, pending, grp,
                   fileEntry, objId2inode, storeVars, histVars>>

\* OBJECT_TYPE_NX_SUPERBLOCK with NX_MAGIC_NO: the block size is taken, and
\* the offset when m_fsOffset is still 0.
ScanSuperblock(b) ==
    /\ ReadBlock
    /\ blockSize <= ReadSize
    /\ Trusted(b)
    /\ b.type = "nx"
    /\ IF b.magicOk
       THEN /\ blockSize' = b.bsize
            /\ fsOffset' = IF fsOffset = 0 THEN pos ELSE fsOffset
            /\ sbSeen' = TRUE
       ELSE UNCHANGED <<blockSize, fsOffset, sbSeen>>
    /\ NextPos
    /\ UNCHANGED <<phase, running, node, idx, pending, grp, fileEntry,
                   objId2inode, storeVars, extLog, extAttached, inoLog>>

\* OBJECT_TYPE_BTREE / BTREE_NODE: scanBTreeBlock starts on the node's
\* table of contents.
ScanBTree(b) ==
    /\ ReadBlock
    /\ blockSize <= ReadSize
    /\ Trusted(b)
    /\ b.type = "btree"
    /\ phase' = "toc"
    /\ node' = b.node
    /\ idx' = 1
    /\ pending' = {}
    /\ UNCHANGED <<running, pos, blockSize, fsOffset, grp, fileEntry,
                   objId2inode, storeVars, histVars>>

-----------------------------------------------------------------------------
(***************************************************************************)
(* scanBTreeBlock: grouping by object id, then the groups in id order.     *)
(***************************************************************************)

\* One table-of-contents entry: its id joins the groups, and a directory
\* record's id maps to its file_id unless the map already has the id.
TocEntry ==
    /\ phase = "toc"
    /\ idx \in 1..Len(node.recs)
    /\ LET r == node.recs[idx] IN
       /\ pending' = pending \cup {r.id}
       /\ objId2inode' = IF r.kind = "drec" /\ objId2inode[r.id] = 0
                         THEN [objId2inode EXCEPT ![r.id] = r.target]
                         ELSE objId2inode
    /\ idx' = idx + 1
    /\ UNCHANGED <<phase, running, pos, blockSize, fsOffset, node, grp,
                   fileEntry, storeVars, histVars>>

\* The grouping is complete, or the previous group is done.
BetweenGroups ==
    \/ phase = "toc" /\ idx > Len(node.recs)
    \/ phase = "groups" /\ grp = NoGroup

\* The next map entry, the smallest id left, with fileEntry = nullptr.
NextGroup ==
    /\ BetweenGroups
    /\ \E g \in pending :
          /\ \A h \in pending : g <= h
          /\ grp' = g
          /\ pending' = pending \ {g}
    /\ phase' = "groups"
    /\ idx' = 1
    /\ fileEntry' = NoEntry
    /\ UNCHANGED <<running, pos, blockSize, fsOffset, node, objId2inode,
                   storeVars, histVars>>

\* The record at idx belongs to the current group and has kind k.
GroupRecord(k) ==
    /\ phase = "groups"
    /\ grp # NoGroup
    /\ idx \in 1..Len(node.recs)
    /\ node.recs[idx].id = grp
    /\ node.recs[idx].kind = k

\* A record of another group, or of APFS_TYPE_ANY or an ignored type.
SkipRecord ==
    /\ phase = "groups"
    /\ grp # NoGroup
    /\ idx \in 1..Len(node.recs)
    /\ node.recs[idx].id # grp \/ node.recs[idx].kind \in {"any", "other"}
    /\ idx' = idx + 1
    /\ UNCHANGED <<phase, running, pos, blockSize, fsOffset, node, pending, grp,
                   fileEntry, objId2inode, storeVars, histVars>>

\* scanInode: look up or create the entry of the record's own id, apply the
\* gated update, updateEntry; the entry becomes the group's fileEntry.
ScanInode ==
    /\ GroupRecord("inode")
    /\ LET r == node.recs[idx]
           found == FindByInode(r.id)
           e == IF found = NoEntry THEN NewEntry ELSE found
       IN  /\ UpdateEntry(r.id, InodeUpdate(e, r, node.xid), found = NoEntry, FALSE)
           /\ fileEntry' = r.id
           /\ inoLog' = inoLog \cup {<<r.id, node.xid, r.size>>}
    /\ idx' = idx + 1
    /\ UNCHANGED <<phase, running, pos, blockSize, fsOffset, node, pending, grp,
                   objId2inode, extLog, extAttached, sbSeen>>

\* scanFileExtent: with a fileEntry whose extentVersionId is not newer than
\* the node, append the extent (after a reset for a newer xid), mark the
\* extents updated and updateEntry; otherwise the record is dropped.
ScanFileExtent ==
    /\ GroupRecord("extent")
    /\ LET r == node.recs[idx] IN
       /\ extLog' = extLog \cup {<<r.id, node.xid, r.ext>>}
       /\ extAttached' = IF fileEntry # NoEntry
                         THEN extAttached \cup {<<fileEntry, node.xid, r.ext>>}
                         ELSE extAttached
       /\ IF fileEntry # NoEntry /\ cache[fileEntry].extentVersionId <= node.xid
          THEN UpdateEntry(fileEntry,
                           AppendExtent(cache[fileEntry], node.xid, r.ext),
                           FALSE, TRUE)
          ELSE UNCHANGED storeVars
    /\ idx' = idx + 1
    /\ UNCHANGED <<phase, running, pos, blockSize, fsOffset, node, pending, grp,
                   fileEntry, objId2inode, inoLog, sbSeen>>

\* scanDirRec: look up or create the entry of the record's file_id, apply
\* the gated update, updateEntry.
ScanDirRec ==
    /\ GroupRecord("drec")
    /\ LET r == node.recs[idx]
           found == FindByInode(r.target)
           c == IF found = NoEntry THEN NewEntry ELSE found
       IN  UpdateEntry(r.target, DirRecUpdate(c, r, node.xid, fileEntry),
                       found = NoEntry, FALSE)
    /\ idx' = idx + 1
    /\ UNCHANGED <<phase, running, pos, blockSize, fsOffset, node, pending, grp,
                   fileEntry, objId2inode, histVars>>

\* The group's records are done: updateEntry(fileEntry) when there is one.
EndGroup ==
    /\ phase = "groups"
    /\ grp # NoGroup
    /\ idx > Len(node.recs)
    /\ IF fileEntry # NoEntry
       THEN UpdateEntry(fileEntry, cache[fileEntry], FALSE, FALSE)
       ELSE UNCHANGED storeVars
    /\ grp' = NoGroup
    /\ UNCHANGED <<phase, running, pos, blockSize, fsOffset, node, idx, pending,
                   fileEntry, objId2inode, histVars>>

\* Every group is done: scanBlock returns, endTransaction, pos += 4096.
EndBlock ==
    /\ BetweenGroups
    /\ pending = {}
    /\ phase' = "idle"
    /\ NextPos
    /\ node' = NoNode
    /\ idx' = 0
    /\ grp' = NoGroup
    /\ fileEntry' = NoEntry
    /\ UNCHANGED <<running, blockSize, fsOffset, pending, objId2inode,
                   storeVars, histVars>>

-----------------------------------------------------------------------------
(***************************************************************************)
(* The loop of DiskScanner::scan and the SIGINT handler of filehunter.     *)
(***************************************************************************)

\* read() returns 0 at the end of the device: the loop breaks.
ReadEof ==
    /\ phase = "idle" /\ running /\ pos = DiskBlocks
    /\ phase' = "done"
    /\ UNCHANGED <<running, pos, blockSize, fsOffset, node, idx, pending, grp,
                   fileEntry, objId2inode, storeVars, histVars>>

\* read() fails (an unreadable sector): the loop breaks as well.
ReadError ==
    /\ ReadBlock
    /\ phase' = "done"
    /\ UNCHANGED <<running, pos, blockSize, fsOffset, node, idx, pending, grp,
                   fileEntry, objId2inode, storeVars, histVars>>

\* signalHandler -> DiskScanner::stop: m_running = false, at any time.
Stop ==
    /\ phase \notin {"done", "crashed"}
    /\ running
    /\ running' = FALSE
    /\ UNCHANGED <<phase, pos, blockSize, fsOffset, node, idx, pending, grp,
                   fileEntry, objId2inode, storeVars, histVars>>

\* while (m_running) sees the flag down between two blocks.
Exit ==
    /\ phase = "idle" /\ ~running
    /\ phase' = "done"
    /\ UNCHANGED <<running, pos, blockSize, fsOffset, node, idx, pending, grp,
                   fileEntry, objId2inode, storeVars, histVars>>

\* scan() has returned (or the process died): nothing moves any more.
Terminated == phase \in {"done", "crashed"} /\ UNCHANGED vars

\* Everything the scanning thread does; Stop comes from the signal.
ScannerNext ==
    \/ \E b \in Blocks :
          \/ ScanIgnored(b) \/ ScanOverrun(b) \/ ScanSuperblock(b) \/ ScanBTree(b)
    \/ TocEntry \/ NextGroup \/ SkipRecord \/ EndGroup \/ EndBlock
    \/ ScanInode \/ ScanFileExtent \/ ScanDirRec
    \/ ReadEof \/ ReadError \/ Exit

Next == ScannerNext \/ Stop \/ Terminated

\* The scan is one thread that runs until the loop breaks.
Spec == Init /\ [][Next]_vars /\ WF_vars(ScannerNext)

-----------------------------------------------------------------------------
(***************************************************************************)
(* Properties.                                                             *)
(***************************************************************************)

\* The extent generation of inode i: its extentVersionId and its extents.
ExtGen(i) == IF cache[i] = NoEntry THEN 0 ELSE cache[i].extentVersionId
ExtSet(i) == IF cache[i] = NoEntry THEN {} ELSE Range(cache[i].extents)

\* scanFileExtent's generations (spec 3, 8): the extents of every inode are
\* exactly the extent records, among those read in a group with the inode's
\* record, that carry the newest xid of any such record; no extent of an
\* older generation survives and none of the newest is lost, whatever the
\* order in which the nodes lie on the disk.
ExtentsAreNewestGeneration ==
    \A i \in Ids :
       /\ \A t \in extAttached : t[1] = i => t[2] <= ExtGen(i)
       /\ ExtSet(i) = {t[3] : t \in {u \in extAttached : u[1] = i /\ u[2] = ExtGen(i)}}

\* updateEntry's write-through (spec 4.6): when a block's transaction ends,
\* every inode in m_diskEntries has its entry row and exactly its extents in
\* the extent table, and there is no row for an inode the map lacks.
StoreMatchesCache ==
    phase \in {"idle", "done"} =>
       \A i \in Ids :
          IF cache[i] = NoEntry
          THEN db[i] = NoEntry
          ELSE db[i] = RowOf(cache[i]) /\ dbExt[i] = cache[i].extents

\* Spec 3: length comes from the most recent trusted size field: once an
\* inode record with a DSTREAM size has been read for i, i's length is the
\* size of such a record with the newest xid.
LengthFromNewestInode ==
    \A i \in Ids :
       LET sized == {t \in inoLog : t[1] = i /\ t[3] # NoSize}
       IN  sized # {} =>
              \E t \in sized : /\ cache[i].length = t[3]
                               /\ \A u \in sized : u[2] <= t[2]

\* Spec 8 (the three-block scenario): every file-extent record read from a
\* trusted node reaches the extents of its inode: the inode has an entry
\* whose extent generation is at least that record's xid.
ExtentRecordsRecovered ==
    \A t \in extLog : cache[t[1]] # NoEntry /\ cache[t[1]].extentVersionId >= t[2]

\* Spec 8: applying a node again changes nothing, so no extent of an inode
\* appears twice in its extents.
NoDuplicateExtents ==
    \A i \in Ids :
       cache[i] # NoEntry =>
          \A j, k \in DOMAIN cache[i].extents :
             j # k => cache[i].extents[j] # cache[i].extents[k]

\* Spec 4.3: the container's base offset is the position of the first
\* superblock read; a later superblock never moves it.
BaseOffsetIsFirstSuperblock == [][sbSeen => fsOffset' = fsOffset]_vars

\* fletcher64 reads m_currentBlockSize - 8 bytes of the 4096-byte buffer of
\* DiskScanner::scan: whenever a block is about to be checked, the block
\* size in effect fits that buffer.
ChecksumWithinBuffer == ReadBlock => blockSize <= ReadSize

\* Spec 7 (no fatal errors; the scan proceeds block by block or is stopped):
\* the scan ends having read the whole disk, unless it was stopped.
ScanCoversDisk == <>(phase = "done" /\ (pos = DiskBlocks \/ ~running))

\* DiskScanner::scan returns (filehunter/main.cpp:36): every run of the scan
\* loop ends, at the end of the disk, on a read error, after a stop, or in
\* a fault, because each block and each node is finite and pos advances.
ScanTerminates == <>(phase \in {"done", "crashed"})

-----------------------------------------------------------------------------
(***************************************************************************)
(* The tables as a reader sees them, and the store they implement.        *)
(***************************************************************************)

\* findByInode on the tables alone (a fresh process, as sbbfuse starts).
Persisted == [i \in Ids |-> IF db[i] = NoEntry THEN NoEntry ELSE LoadRow(i)]

Store == INSTANCE EntryStore WITH entries <- Persisted, Inodes <- Ids,
                                  Records <- Entry

\* Spec 3 and 6: the tables change only by an upsert of one inode that
\* keeps its versions and its current extent generation, so a reader
\* between any two steps sees an entry graph the gates allow.
StoreRefinement == Store!Spec
=============================================================================
