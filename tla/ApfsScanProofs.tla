--------------------------- MODULE ApfsScanProofs ---------------------------
(***************************************************************************)
(* Proofs about ApfsScan for every value of the constants.                 *)
(***************************************************************************)
EXTENDS ApfsScan, TLAPS

(***************************************************************************)
(* The inductive strengthening of TypeOK: the node is there while a block  *)
(* is decoded, and the group's fileEntry points into m_diskEntries, which  *)
(* scanFileExtent and the end of a group dereference.                      *)
(***************************************************************************)
IInv ==
    /\ TypeOK
    /\ phase \in {"toc", "groups"} => node \in Node
    /\ fileEntry # NoEntry => cache[fileEntry] # NoEntry

\* The empty sequence is a sequence of anything (new Entry's extents).
LEMMA EmptySeq ==
    ASSUME NEW S
    PROVE  <<>> \in Seq(S)
OBVIOUS

\* A record of the node being decoded is a Rec, its xid a natural.
LEMMA NodeRecord ==
    ASSUME NEW n \in Node, NEW k \in 1..Len(n.recs)
    PROVE  n.recs[k] \in Rec /\ n.xid \in Nat
<1>1. n.recs \in Seq(Rec) /\ n.xid \in Xids
  BY DEF Node
<1>2. n.recs[k] \in Rec
  BY <1>1
<1>. QED
  BY <1>1, <1>2, ValuesAssumption

\* A record's fields lie in their sets, and its ids are naturals.
LEMMA RecFields ==
    ASSUME NEW r \in Rec
    PROVE  /\ r.id \in Ids /\ r.target \in Ids /\ r.ext \in Exts
           /\ r.parent \in Nat /\ r.dtype \in Nat /\ r.name \in Names
           /\ r.size \in Sizes \cup {NoSize}
           /\ r.size # NoSize => r.size \in Nat
BY ValuesAssumption DEF Rec

\* getEntryFromQuery builds an Entry from a row.
LEMMA LoadRowType ==
    ASSUME TypeOK, NEW i \in Ids, db[i] # NoEntry
    PROVE  LoadRow(i) \in Entry
BY DEF TypeOK, LoadRow, Entry, Row

\* findByInode returns an Entry or nullptr.
LEMMA FindByInodeType ==
    ASSUME TypeOK, NEW i \in Ids
    PROVE  FindByInode(i) \in Entry \cup {NoEntry}
BY LoadRowType DEF TypeOK, FindByInode

\* Looking up or creating yields an Entry.
LEMMA LookupOrNewType ==
    ASSUME TypeOK, NEW i \in Ids
    PROVE  (IF FindByInode(i) = NoEntry THEN NewEntry ELSE FindByInode(i)) \in Entry
<1>1. NewEntry \in Entry
  BY EmptySeq DEF NewEntry, Entry
<1>. QED
  BY <1>1, FindByInodeType

\* The gated updates of the three interpreters keep an Entry an Entry.
LEMMA InodeUpdateType ==
    ASSUME NEW e \in Entry, NEW r \in Rec, NEW x \in Nat
    PROVE  InodeUpdate(e, r, x) \in Entry
BY RecFields DEF InodeUpdate, Entry

LEMMA AppendExtentType ==
    ASSUME NEW e \in Entry, NEW x \in Nat, NEW ext \in Exts
    PROVE  AppendExtent(e, x, ext) \in Entry
<1>. DEFINE base == IF e.extentVersionId < x
                    THEN [e EXCEPT !.extents = <<>>, !.extentVersionId = x]
                    ELSE e
<1>1. <<>> \in Seq(Exts)
  BY EmptySeq
<1>2. [e EXCEPT !.extents = <<>>, !.extentVersionId = x] \in Entry
  BY <1>1 DEF Entry
<1>3. base \in Entry
  BY <1>2
<1>4. base.extents \in Seq(Exts)
  BY <1>3 DEF Entry
<1>5. Append(base.extents, ext) \in Seq(Exts)
  BY <1>4
<1>6. [base EXCEPT !.extents = Append(base.extents, ext)] \in Entry
  BY <1>3, <1>5 DEF Entry
<1>. QED
  BY <1>6 DEF AppendExtent

LEMMA DirRecUpdateType ==
    ASSUME NEW c \in Entry, NEW r \in Rec, NEW x \in Nat,
           NEW fe \in Ids \cup {NoEntry}
    PROVE  DirRecUpdate(c, r, x, fe) \in Entry
BY RecFields, ValuesAssumption DEF DirRecUpdate, Entry

\* updateEntry keeps the map and the tables well typed, keeps every entry
\* of the map in it, and puts the updated one there.
LEMMA UpdateEntryType ==
    ASSUME TypeOK, NEW i \in Ids, NEW e \in Entry, NEW isNew, NEW upd,
           UpdateEntry(i, e, isNew, upd)
    PROVE  /\ cache' \in [Ids -> Entry \cup {NoEntry}]
           /\ db' \in [Ids -> Row \cup {NoEntry}]
           /\ dbExt' \in [Ids -> Seq(Exts)]
           /\ cache'[i] # NoEntry
           /\ \A j \in Ids : cache[j] # NoEntry => cache'[j] # NoEntry
<1>1. RowOf(e) \in Row
  BY DEF RowOf, Row, Entry
<1>2. e # NoEntry
  BY SentinelAssumption
<1>. QED
  BY <1>1, <1>2 DEF UpdateEntry, TypeOK, Entry

\* The scan starts in a state of the invariant.
LEMMA InitIInv == Init => IInv
<1> SUFFICES ASSUME Init PROVE IInv
  OBVIOUS
<1>1. <<>> \in Seq(Exts)
  BY EmptySeq
<1>2. /\ objId2inode \in [Ids -> Ids \cup {0}]
      /\ cache \in [Ids -> Entry \cup {NoEntry}]
      /\ db \in [Ids -> Row \cup {NoEntry}]
      /\ dbExt \in [Ids -> Seq(Exts)]
  BY <1>1 DEF Init
<1>3. blockSize \in BlockSizes /\ grp \in Ids \cup {NoGroup}
      /\ fileEntry \in Ids \cup {NoEntry} /\ node \in Node \cup {NoNode}
  BY ValuesAssumption DEF Init
<1>. QED
  BY <1>2, <1>3, SentinelAssumption DEF Init, IInv, TypeOK

\* The record at idx of the node being decoded, while a group runs.
LEMMA CurrentRecord ==
    ASSUME IInv, phase \in {"toc", "groups"}, idx \in 1..Len(node.recs)
    PROVE  node \in Node /\ node.recs[idx] \in Rec /\ node.xid \in Nat
           /\ node.xid \in Xids
BY NodeRecord DEF IInv, Node

\* Every step of the scanner and of the signal handler keeps the invariant.
LEMMA NextIInv == IInv /\ [Next]_vars => IInv'
<1> SUFFICES ASSUME IInv, [Next]_vars PROVE IInv'
  OBVIOUS
<1>. USE DEF IInv
<1>1. ASSUME NEW b \in Blocks, ScanIgnored(b) PROVE IInv'
  BY <1>1 DEF ScanIgnored, ReadBlock, NextPos, TypeOK, storeVars, histVars
<1>2. ASSUME NEW b \in Blocks, ScanOverrun(b) PROVE IInv'
  BY <1>2 DEF ScanOverrun, ReadBlock, NextPos, TypeOK, storeVars, histVars
<1>3. ASSUME NEW b \in Blocks, ScanSuperblock(b) PROVE IInv'
  <2>1. b.bsize \in BlockSizes
    BY BlocksAssumption DEF Block
  <2>2. CASE b.magicOk
    BY <1>3, <2>1, <2>2 DEF ScanSuperblock, ReadBlock, NextPos, TypeOK, storeVars
  <2>3. CASE ~b.magicOk
    BY <1>3, <2>3 DEF ScanSuperblock, ReadBlock, NextPos, TypeOK, storeVars
  <2>. QED
    BY <2>2, <2>3
<1>4. ASSUME NEW b \in Blocks, ScanBTree(b) PROVE IInv'
  <2>1. b.node \in Node
    BY BlocksAssumption DEF Block
  <2>. QED
    BY <1>4, <2>1, SentinelAssumption DEF ScanBTree, ReadBlock, TypeOK,
       storeVars, histVars
<1>5. CASE TocEntry
  <2>1. node.recs[idx] \in Rec
    BY <1>5, CurrentRecord DEF TocEntry
  <2>2. node.recs[idx].id \in Ids /\ node.recs[idx].target \in Ids
    BY <2>1, RecFields
  <2>. QED
    BY <1>5, <2>2 DEF TocEntry, TypeOK, storeVars, histVars
<1>6. CASE NextGroup
  <2>1. node \in Node
    BY <1>6 DEF NextGroup, BetweenGroups
  <2>. QED
    BY <1>6, <2>1 DEF NextGroup, TypeOK, storeVars, histVars
<1>7. CASE SkipRecord
  BY <1>7 DEF SkipRecord, TypeOK, storeVars, histVars
<1>8. CASE EndGroup
  <2>1. CASE fileEntry # NoEntry
    <3>1. cache[fileEntry] \in Entry
      BY <2>1 DEF TypeOK
    <3>2. UpdateEntry(fileEntry, cache[fileEntry], FALSE, FALSE)
      BY <1>8, <2>1 DEF EndGroup
    <3>. QED
      BY <1>8, <2>1, <3>1, <3>2, UpdateEntryType DEF EndGroup, TypeOK, histVars
  <2>2. CASE fileEntry = NoEntry
    BY <1>8, <2>2 DEF EndGroup, TypeOK, storeVars, histVars
  <2>. QED
    BY <2>1, <2>2
<1>9. CASE EndBlock
  BY <1>9 DEF EndBlock, BetweenGroups, NextPos, TypeOK, storeVars, histVars
<1>10. CASE ScanInode
  <2>. DEFINE r == node.recs[idx]
              found == FindByInode(r.id)
              e == IF found = NoEntry THEN NewEntry ELSE found
  <2>1. r \in Rec /\ node.xid \in Nat /\ node.xid \in Xids
    BY <1>10, CurrentRecord DEF ScanInode, GroupRecord
  <2>2. r.id \in Ids /\ r.size \in Sizes \cup {NoSize}
    BY <2>1, RecFields
  <2>3. e \in Entry
    BY <2>2, LookupOrNewType
  <2>4. InodeUpdate(e, r, node.xid) \in Entry
    BY <2>1, <2>3, InodeUpdateType
  <2>5. UpdateEntry(r.id, InodeUpdate(e, r, node.xid), found = NoEntry, FALSE)
    BY <1>10 DEF ScanInode
  <2>6. /\ cache' \in [Ids -> Entry \cup {NoEntry}]
        /\ db' \in [Ids -> Row \cup {NoEntry}]
        /\ dbExt' \in [Ids -> Seq(Exts)]
        /\ cache'[r.id] # NoEntry
    BY <2>2, <2>4, <2>5, UpdateEntryType
  <2>. QED
    BY <1>10, <2>1, <2>2, <2>6 DEF ScanInode, GroupRecord, TypeOK
<1>11. CASE ScanFileExtent
  <2>. DEFINE r == node.recs[idx]
  <2>1. r \in Rec /\ node.xid \in Nat /\ node.xid \in Xids
    BY <1>11, CurrentRecord DEF ScanFileExtent, GroupRecord
  <2>2. r.id \in Ids /\ r.ext \in Exts
    BY <2>1, RecFields
  <2>3. CASE fileEntry # NoEntry /\ cache[fileEntry].extentVersionId <= node.xid
    <3>1. cache[fileEntry] \in Entry
      BY <2>3 DEF TypeOK
    <3>2. AppendExtent(cache[fileEntry], node.xid, r.ext) \in Entry
      BY <2>1, <2>2, <3>1, AppendExtentType
    <3>3. UpdateEntry(fileEntry, AppendExtent(cache[fileEntry], node.xid, r.ext),
                      FALSE, TRUE)
      BY <1>11, <2>3 DEF ScanFileExtent
    <3>4. /\ cache' \in [Ids -> Entry \cup {NoEntry}]
          /\ db' \in [Ids -> Row \cup {NoEntry}]
          /\ dbExt' \in [Ids -> Seq(Exts)]
          /\ cache'[fileEntry] # NoEntry
      BY <2>3, <3>2, <3>3, UpdateEntryType DEF TypeOK
    <3>. QED
      BY <1>11, <2>1, <2>2, <2>3, <3>4 DEF ScanFileExtent, TypeOK
  <2>4. CASE ~(fileEntry # NoEntry /\ cache[fileEntry].extentVersionId <= node.xid)
    <3>1. UNCHANGED storeVars
      BY <1>11, <2>4 DEF ScanFileExtent
    <3>. QED
      BY <1>11, <2>1, <2>2, <3>1 DEF ScanFileExtent, TypeOK, storeVars
  <2>. QED
    BY <2>3, <2>4
<1>12. CASE ScanDirRec
  <2>. DEFINE r == node.recs[idx]
              found == FindByInode(r.target)
              c == IF found = NoEntry THEN NewEntry ELSE found
  <2>1. r \in Rec /\ node.xid \in Nat
    BY <1>12, CurrentRecord DEF ScanDirRec, GroupRecord
  <2>2. r.target \in Ids
    BY <2>1, RecFields
  <2>3. c \in Entry
    BY <2>2, LookupOrNewType
  <2>4. DirRecUpdate(c, r, node.xid, fileEntry) \in Entry
    BY <2>1, <2>3, DirRecUpdateType DEF TypeOK
  <2>5. UpdateEntry(r.target, DirRecUpdate(c, r, node.xid, fileEntry),
                    found = NoEntry, FALSE)
    BY <1>12 DEF ScanDirRec
  <2>6. /\ cache' \in [Ids -> Entry \cup {NoEntry}]
        /\ db' \in [Ids -> Row \cup {NoEntry}]
        /\ dbExt' \in [Ids -> Seq(Exts)]
        /\ \A j \in Ids : cache[j] # NoEntry => cache'[j] # NoEntry
    BY <2>2, <2>4, <2>5, UpdateEntryType
  <2>. QED
    BY <1>12, <2>6 DEF ScanDirRec, GroupRecord, TypeOK, histVars
<1>13. CASE ReadEof \/ ReadError \/ Exit
  BY <1>13 DEF ReadEof, ReadError, Exit, ReadBlock, TypeOK, storeVars, histVars
<1>14. CASE Stop
  BY <1>14 DEF Stop, TypeOK, storeVars, histVars
<1>15. CASE Terminated \/ UNCHANGED vars
  BY <1>15 DEF Terminated, vars, scanVars, storeVars, histVars, TypeOK
<1>. QED
  BY <1>1, <1>2, <1>3, <1>4, <1>5, <1>6, <1>7, <1>8, <1>9, <1>10, <1>11,
     <1>12, <1>13, <1>14, <1>15 DEF Next, ScannerNext

(***************************************************************************)
(* Type correctness of the scan: whatever blocks the disk holds, in any    *)
(* order, and wherever SIGINT stops it, every variable of DiskScanner,     *)
(* APFSScanner and FileSystem keeps its type; in particular a group's      *)
(* fileEntry, once set, names an entry in m_diskEntries.                   *)
(***************************************************************************)
THEOREM TypeCorrect == Spec => []TypeOK
<1>1. Init => IInv
  BY InitIInv
<1>2. IInv /\ [Next]_vars => IInv'
  BY NextIInv
<1>3. IInv => TypeOK
  BY DEF IInv
<1>. QED
  BY <1>1, <1>2, <1>3, PTL DEF Spec

(***************************************************************************)
(* The write-through invariant in every state, not only between blocks:   *)
(* an inode in m_diskEntries has its row and exactly its extents in the   *)
(* tables, and an inode the map lacks has neither.                         *)
(***************************************************************************)
SInv ==
    \A i \in Ids :
       IF cache[i] = NoEntry
       THEN db[i] = NoEntry /\ dbExt[i] = <<>>
       ELSE db[i] = RowOf(cache[i]) /\ dbExt[i] = cache[i].extents

\* Under SInv, findByInode finds exactly what the map holds.
LEMMA FindByInodeCache ==
    ASSUME SInv, NEW i \in Ids
    PROVE  /\ cache[i] = NoEntry => FindByInode(i) = NoEntry
           /\ cache[i] # NoEntry => FindByInode(i) = cache[i]
BY DEF SInv, FindByInode

\* The gated updates leave the extents of an entry alone.
LEMMA UpdatesKeepExtents ==
    ASSUME NEW e \in Entry, NEW r, NEW x, NEW fe
    PROVE  /\ InodeUpdate(e, r, x).extents = e.extents
           /\ DirRecUpdate(e, r, x, fe).extents = e.extents
BY DEF InodeUpdate, DirRecUpdate, Entry

\* updateEntry keeps the tables in step with the map when it is called as
\* the interpreters call it: isNew exactly for an entry the map lacks, and
\* the extents either rewritten or those the tables already hold.
LEMMA UpdateEntrySInv ==
    ASSUME TypeOK, SInv, NEW i \in Ids, NEW e \in Entry, NEW isNew, NEW upd,
           isNew = (cache[i] = NoEntry),
           upd = TRUE \/ e.extents = IF cache[i] = NoEntry THEN <<>> ELSE cache[i].extents,
           UpdateEntry(i, e, isNew, upd)
    PROVE  SInv'
<1> SUFFICES ASSUME NEW j \in Ids
             PROVE  IF cache'[j] = NoEntry
                    THEN db'[j] = NoEntry /\ dbExt'[j] = <<>>
                    ELSE db'[j] = RowOf(cache'[j]) /\ dbExt'[j] = cache'[j].extents
  BY DEF SInv
<1>1. e # NoEntry
  BY SentinelAssumption
<1>2. CASE j = i
  <2>0. isNew \/ db[i] # NoEntry
    <3>1. cache[i] # NoEntry => cache[i] \in Entry
      BY DEF TypeOK
    <3>2. cache[i] # NoEntry => RowOf(cache[i]) \in Row
      BY <3>1 DEF RowOf, Row, Entry
    <3>. QED
      BY <3>2, SentinelAssumption DEF SInv
  <2>1. cache'[j] = e /\ db'[j] = RowOf(e)
    BY <1>2, <2>0 DEF UpdateEntry, TypeOK
  <2>2. dbExt'[j] = e.extents
    <3>1. CASE upd = TRUE
      BY <1>2, <3>1 DEF UpdateEntry, TypeOK
    <3>2. CASE e.extents = IF cache[i] = NoEntry THEN <<>> ELSE cache[i].extents
      <4>1. dbExt[i] = IF cache[i] = NoEntry THEN <<>> ELSE cache[i].extents
        BY DEF SInv
      <4>. QED
        BY <1>2, <3>2, <4>1 DEF UpdateEntry, TypeOK
    <3>. QED
      BY <3>1, <3>2
  <2>. QED
    BY <1>1, <2>1, <2>2
<1>3. CASE j # i
  BY <1>3 DEF UpdateEntry, SInv, TypeOK
<1>. QED
  BY <1>2, <1>3

\* Every step keeps SInv.
LEMMA NextSInv == IInv /\ SInv /\ [Next]_vars => SInv'
<1> SUFFICES ASSUME IInv, SInv, [Next]_vars PROVE SInv'
  OBVIOUS
<1>. USE DEF IInv
<1>1. CASE ScanInode
  <2>. DEFINE r == node.recs[idx]
              found == FindByInode(r.id)
              e == IF found = NoEntry THEN NewEntry ELSE found
  <2>1. r \in Rec /\ node.xid \in Nat
    BY <1>1, CurrentRecord DEF ScanInode, GroupRecord
  <2>2. r.id \in Ids
    BY <2>1, RecFields
  <2>3. e \in Entry
    BY <2>2, LookupOrNewType
  <2>4. (found = NoEntry) = (cache[r.id] = NoEntry)
    BY <2>2, FindByInodeCache, SentinelAssumption DEF TypeOK
  <2>5. e.extents = IF cache[r.id] = NoEntry THEN <<>> ELSE cache[r.id].extents
    <3>1. CASE cache[r.id] = NoEntry
      BY <2>2, <3>1, FindByInodeCache DEF NewEntry
    <3>2. CASE cache[r.id] # NoEntry
      BY <2>2, <3>2, FindByInodeCache
    <3>. QED
      BY <3>1, <3>2
  <2>6. InodeUpdate(e, r, node.xid) \in Entry
    BY <2>1, <2>3, InodeUpdateType
  <2>7. InodeUpdate(e, r, node.xid).extents = e.extents
    BY <2>3, UpdatesKeepExtents
  <2>. QED
    BY <1>1, <2>2, <2>4, <2>5, <2>6, <2>7, UpdateEntrySInv DEF ScanInode
<1>2. CASE ScanFileExtent
  <2>. DEFINE r == node.recs[idx]
  <2>1. r \in Rec /\ node.xid \in Nat
    BY <1>2, CurrentRecord DEF ScanFileExtent, GroupRecord
  <2>2. CASE fileEntry # NoEntry /\ cache[fileEntry].extentVersionId <= node.xid
    <3>1. fileEntry \in Ids /\ cache[fileEntry] \in Entry
      BY <2>2 DEF TypeOK
    <3>2. AppendExtent(cache[fileEntry], node.xid, r.ext) \in Entry
      BY <2>1, <3>1, RecFields, AppendExtentType
    <3>. QED
      BY <1>2, <2>2, <3>1, <3>2, UpdateEntrySInv DEF ScanFileExtent
  <2>3. CASE ~(fileEntry # NoEntry /\ cache[fileEntry].extentVersionId <= node.xid)
    BY <1>2, <2>3 DEF ScanFileExtent, SInv, storeVars
  <2>. QED
    BY <2>2, <2>3
<1>3. CASE ScanDirRec
  <2>. DEFINE r == node.recs[idx]
              found == FindByInode(r.target)
              c == IF found = NoEntry THEN NewEntry ELSE found
  <2>1. r \in Rec /\ node.xid \in Nat
    BY <1>3, CurrentRecord DEF ScanDirRec, GroupRecord
  <2>2. r.target \in Ids
    BY <2>1, RecFields
  <2>3. c \in Entry
    BY <2>2, LookupOrNewType
  <2>4. (found = NoEntry) = (cache[r.target] = NoEntry)
    BY <2>2, FindByInodeCache, SentinelAssumption DEF TypeOK
  <2>5. c.extents = IF cache[r.target] = NoEntry THEN <<>> ELSE cache[r.target].extents
    <3>1. CASE cache[r.target] = NoEntry
      BY <2>2, <3>1, FindByInodeCache DEF NewEntry
    <3>2. CASE cache[r.target] # NoEntry
      BY <2>2, <3>2, FindByInodeCache
    <3>. QED
      BY <3>1, <3>2
  <2>6. DirRecUpdate(c, r, node.xid, fileEntry) \in Entry
        /\ DirRecUpdate(c, r, node.xid, fileEntry).extents = c.extents
    BY <2>1, <2>3, DirRecUpdateType, UpdatesKeepExtents DEF TypeOK
  <2>. QED
    BY <1>3, <2>2, <2>4, <2>5, <2>6, UpdateEntrySInv DEF ScanDirRec
<1>4. CASE EndGroup
  <2>1. CASE fileEntry # NoEntry
    <3>1. fileEntry \in Ids /\ cache[fileEntry] \in Entry
      BY <2>1 DEF TypeOK
    <3>. QED
      BY <1>4, <2>1, <3>1, UpdateEntrySInv DEF EndGroup
  <2>2. CASE fileEntry = NoEntry
    BY <1>4, <2>2 DEF EndGroup, SInv, storeVars
  <2>. QED
    BY <2>1, <2>2
<1>5. CASE UNCHANGED storeVars
  BY <1>5 DEF SInv, storeVars
<1>. QED
  <2>1. CASE \E b \in Blocks : ScanIgnored(b) \/ ScanOverrun(b) \/ ScanSuperblock(b)
                                \/ ScanBTree(b)
    BY <2>1, <1>5 DEF ScanIgnored, ScanOverrun, ScanSuperblock, ScanBTree
  <2>2. CASE TocEntry \/ NextGroup \/ SkipRecord \/ EndBlock \/ ReadEof
             \/ ReadError \/ Exit \/ Stop \/ Terminated \/ UNCHANGED vars
    BY <2>2, <1>5 DEF TocEntry, NextGroup, SkipRecord, EndBlock, ReadEof,
       ReadError, Exit, Stop, Terminated, vars
  <2>. QED
    BY <1>1, <1>2, <1>3, <1>4, <2>1, <2>2 DEF Next, ScannerNext

(***************************************************************************)
(* updateEntry's write-through: between blocks, and when the scan has      *)
(* ended, the entry and extent tables hold exactly what m_diskEntries      *)
(* holds, for every disk and every number of inodes.                       *)
(***************************************************************************)
THEOREM StoreMatchesCacheProved == Spec => []StoreMatchesCache
<1>1. Init => IInv /\ SInv
  BY InitIInv DEF Init, SInv
<1>2. IInv /\ SInv /\ [Next]_vars => IInv' /\ SInv'
  BY NextIInv, NextSInv
<1>3. SInv => StoreMatchesCache
  BY DEF SInv, StoreMatchesCache
<1>. QED
  BY <1>1, <1>2, <1>3, PTL DEF Spec
=============================================================================
