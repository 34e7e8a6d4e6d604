------------------------- MODULE ApfsScanStoreProofs -------------------------
(***************************************************************************)
(* The scan implements the entry store of EntryStore under the mapping     *)
(* Persisted: what findByInode returns from the tables alone.  By SInv the *)
(* tables hold exactly m_diskEntries, so Persisted is the map, and every   *)
(* step either leaves the map alone or upserts one inode through a version *)
(* gate.                                                                   *)
(***************************************************************************)
EXTENDS ApfsScanExtentProofs

\* The tables read back as entries, for any map c, entry table d and
\* extent table dx that are in step (SInv with c, d, dx for the variables).
LEMMA ViewIsCache ==
    ASSUME NEW c \in [Ids -> Entry \cup {NoEntry}], NEW d, NEW dx,
           \A i \in Ids :
              IF c[i] = NoEntry
              THEN d[i] = NoEntry /\ dx[i] = <<>>
              ELSE d[i] = RowOf(c[i]) /\ dx[i] = c[i].extents
    PROVE  [i \in Ids |->
              IF d[i] = NoEntry THEN NoEntry
              ELSE [parentId |-> d[i].parentId, versionId |-> d[i].versionId,
                    type |-> d[i].type, name |-> d[i].name,
                    length |-> d[i].length, extents |-> dx[i],
                    extentVersionId |-> d[i].extentVersionId]] = c
<1> SUFFICES ASSUME NEW i \in Ids
             PROVE  (IF d[i] = NoEntry THEN NoEntry
                     ELSE [parentId |-> d[i].parentId, versionId |-> d[i].versionId,
                           type |-> d[i].type, name |-> d[i].name,
                           length |-> d[i].length, extents |-> dx[i],
                           extentVersionId |-> d[i].extentVersionId]) = c[i]
  OBVIOUS
<1>1. CASE c[i] = NoEntry
  BY <1>1
<1>2. CASE c[i] # NoEntry
  <2>1. c[i] \in Entry
    BY <1>2
  <2>2. RowOf(c[i]) \in Row
    BY <2>1 DEF RowOf, Row, Entry
  <2>3. d[i] # NoEntry /\ d[i] = RowOf(c[i]) /\ dx[i] = c[i].extents
    BY <1>2, <2>2, SentinelAssumption
  <2>. QED
    BY <2>1, <2>3 DEF RowOf, Entry
<1>. QED
  BY <1>1, <1>2

\* Under SInv the persisted view is the map, in this state and the next.
LEMMA PersistedIsCache ==
    ASSUME TypeOK, SInv
    PROVE  Persisted = cache
BY ViewIsCache DEF TypeOK, SInv, Persisted, LoadRow

LEMMA PersistedIsCacheNext ==
    ASSUME TypeOK', SInv'
    PROVE  Persisted' = cache'
BY ViewIsCache DEF TypeOK, SInv, Persisted, LoadRow


\* A sequence is a prefix of itself and of any extension by Append.
LEMMA PrefixSelf ==
    ASSUME NEW S, NEW s \in Seq(S)
    PROVE  Len(s) <= Len(s) /\ SubSeq(s, 1, Len(s)) = s
OBVIOUS

LEMMA PrefixAppend ==
    ASSUME NEW S, NEW s \in Seq(S), NEW x \in S
    PROVE  Len(s) <= Len(Append(s, x)) /\ SubSeq(Append(s, x), 1, Len(s)) = s
OBVIOUS

\* The gates of scanInode and scanDirRec never lower versionId and leave
\* the extent generation alone; scanFileExtent's leaves versionId alone.
LEMMA GateVersions ==
    ASSUME NEW e \in Entry, NEW r \in Rec, NEW x \in Nat, NEW fe, NEW ext
    PROVE  /\ InodeUpdate(e, r, x).versionId >= e.versionId
           /\ DirRecUpdate(e, r, x, fe).versionId >= e.versionId
           /\ AppendExtent(e, x, ext).versionId = e.versionId
<1>1. InodeUpdate(e, r, x).versionId >= e.versionId
  BY RecFields DEF InodeUpdate, Entry
<1>2. DirRecUpdate(e, r, x, fe).versionId >= e.versionId
  BY RecFields DEF DirRecUpdate, Entry
<1>3. AppendExtent(e, x, ext).versionId = e.versionId
  BY DEF AppendExtent, Entry
<1>. QED
  BY <1>1, <1>2, <1>3

\* An update through scanInode's or scanDirRec's gate supersedes the entry.
LEMMA GateSupersedes ==
    ASSUME NEW e \in Entry, NEW n \in Entry,
           n.versionId >= e.versionId,
           n.extentVersionId = e.extentVersionId,
           n.extents = e.extents
    PROVE  Store!Supersedes(n, e)
<1>1. e.extents \in Seq(Exts)
  BY DEF Entry
<1>2. SubSeq(n.extents, 1, Len(e.extents)) = e.extents
  BY <1>1, PrefixSelf
<1>3. Len(e.extents) <= Len(n.extents)
  BY <1>1
<1>4. n.extentVersionId >= e.extentVersionId
  BY DEF Entry
<1>. QED
  BY <1>2, <1>3, <1>4 DEF Store!Supersedes

\* scanFileExtent's append supersedes the entry whose generation is not
\* newer than the record's xid.
LEMMA AppendSupersedes ==
    ASSUME NEW e \in Entry, NEW x \in Nat, NEW ext \in Exts,
           e.extentVersionId <= x
    PROVE  Store!Supersedes(AppendExtent(e, x, ext), e)
<1>. DEFINE n == AppendExtent(e, x, ext)
<1>1. n.versionId = e.versionId
  BY DEF AppendExtent, Entry
<1>2. CASE e.extentVersionId < x
  <2>1. n.extentVersionId = x
    BY <1>2, AppendExtentFields
  <2>. QED
    BY <1>1, <1>2, <2>1 DEF Store!Supersedes, Entry
<1>3. CASE ~(e.extentVersionId < x)
  <2>1. n.extents = Append(e.extents, ext) /\ n.extentVersionId = e.extentVersionId
    BY <1>3, AppendExtentFields
  <2>2. e.extents \in Seq(Exts)
    BY DEF Entry
  <2>3. Len(e.extents) <= Len(n.extents)
        /\ SubSeq(n.extents, 1, Len(e.extents)) = e.extents
    BY <2>1, <2>2, PrefixAppend
  <2>. QED
    BY <1>1, <2>1, <2>3 DEF Store!Supersedes, Entry
<1>. QED
  BY <1>2, <1>3

(***************************************************************************)
(* One upsert of inode i on the map: the abstract step with cache for      *)
(* entries.                                                                *)
(***************************************************************************)
CacheUpsert(i) ==
    /\ cache' \in [Ids -> Entry \cup {NoEntry}]
    /\ \A j \in Ids \ {i} : cache'[j] = cache[j]
    /\ cache'[i] \in Entry
    /\ cache[i] # NoEntry => Store!Supersedes(cache'[i], cache[i])

\* updateEntry of i with an entry that supersedes i's is such an upsert.
LEMMA UpdateEntryUpsert ==
    ASSUME TypeOK, NEW i \in Ids, NEW n \in Entry, NEW isNew, NEW upd,
           UpdateEntry(i, n, isNew, upd),
           cache[i] # NoEntry => Store!Supersedes(n, cache[i])
    PROVE  CacheUpsert(i)
<1>1. cache' = [cache EXCEPT ![i] = n]
  BY DEF UpdateEntry
<1>2. cache' \in [Ids -> Entry \cup {NoEntry}]
  BY UpdateEntryType
<1>. QED
  BY <1>1, <1>2 DEF CacheUpsert, TypeOK


\* Every step of the scan either leaves the map alone or upserts one inode.
LEMMA NextCacheUpsert ==
    IInv /\ SInv /\ [Next]_vars => cache' = cache \/ \E i \in Ids : CacheUpsert(i)
<1> SUFFICES ASSUME IInv, SInv, [Next]_vars
             PROVE  cache' = cache \/ \E i \in Ids : CacheUpsert(i)
  OBVIOUS
<1>. USE DEF IInv
<1>1. CASE ScanInode
  <2>. DEFINE r == node.recs[idx]
              found == FindByInode(r.id)
              e == IF found = NoEntry THEN NewEntry ELSE found
              n == InodeUpdate(e, r, node.xid)
  <2>1. r \in Rec /\ node.xid \in Nat
    BY <1>1, CurrentRecord DEF ScanInode, GroupRecord
  <2>2. r.id \in Ids
    BY <2>1, RecFields
  <2>3. e \in Entry /\ n \in Entry
    BY <2>1, <2>2, LookupOrNewType, InodeUpdateType
  <2>4. cache[r.id] # NoEntry => Store!Supersedes(n, cache[r.id])
    <3> SUFFICES ASSUME cache[r.id] # NoEntry
                 PROVE  Store!Supersedes(n, cache[r.id])
      OBVIOUS
    <3>1. e = cache[r.id]
      BY <2>2, FindByInodeCache
    <3>2. n.versionId >= e.versionId
      BY <2>1, <2>3, GateVersions
    <3>3. n.extentVersionId = e.extentVersionId /\ n.extents = e.extents
      BY <2>3, UpdatesKeepGeneration, UpdatesKeepExtents
    <3>. QED
      BY <2>3, <3>1, <3>2, <3>3, GateSupersedes
  <2>. QED
    BY <1>1, <2>2, <2>3, <2>4, UpdateEntryUpsert DEF ScanInode
<1>2. CASE ScanFileExtent
  <2>. DEFINE r == node.recs[idx]
  <2>1. r \in Rec /\ node.xid \in Nat
    BY <1>2, CurrentRecord DEF ScanFileExtent, GroupRecord
  <2>2. CASE fileEntry # NoEntry /\ cache[fileEntry].extentVersionId <= node.xid
    <3>1. fileEntry \in Ids /\ cache[fileEntry] \in Entry
      BY <2>2 DEF TypeOK
    <3>2. r.ext \in Exts
      BY <2>1, RecFields
    <3>3. AppendExtent(cache[fileEntry], node.xid, r.ext) \in Entry
      BY <2>1, <3>1, <3>2, AppendExtentType
    <3>4. Store!Supersedes(AppendExtent(cache[fileEntry], node.xid, r.ext),
                           cache[fileEntry])
      BY <2>1, <2>2, <3>1, <3>2, AppendSupersedes
    <3>. QED
      BY <1>2, <2>2, <3>1, <3>3, <3>4, UpdateEntryUpsert DEF ScanFileExtent
  <2>3. CASE ~(fileEntry # NoEntry /\ cache[fileEntry].extentVersionId <= node.xid)
    BY <1>2, <2>3 DEF ScanFileExtent, storeVars
  <2>. QED
    BY <2>2, <2>3
<1>3. CASE ScanDirRec
  <2>. DEFINE r == node.recs[idx]
              found == FindByInode(r.target)
              c == IF found = NoEntry THEN NewEntry ELSE found
              n == DirRecUpdate(c, r, node.xid, fileEntry)
  <2>1. r \in Rec /\ node.xid \in Nat
    BY <1>3, CurrentRecord DEF ScanDirRec, GroupRecord
  <2>2. r.target \in Ids
    BY <2>1, RecFields
  <2>3. c \in Entry /\ n \in Entry
    BY <2>1, <2>2, LookupOrNewType, DirRecUpdateType DEF TypeOK
  <2>4. cache[r.target] # NoEntry => Store!Supersedes(n, cache[r.target])
    <3> SUFFICES ASSUME cache[r.target] # NoEntry
                 PROVE  Store!Supersedes(n, cache[r.target])
      OBVIOUS
    <3>1. c = cache[r.target]
      BY <2>2, FindByInodeCache
    <3>2. n.versionId >= c.versionId
      BY <2>1, <2>3, GateVersions
    <3>3. n.extentVersionId = c.extentVersionId /\ n.extents = c.extents
      BY <2>3, UpdatesKeepGeneration, UpdatesKeepExtents
    <3>. QED
      BY <2>3, <3>1, <3>2, <3>3, GateSupersedes
  <2>. QED
    BY <1>3, <2>2, <2>3, <2>4, UpdateEntryUpsert DEF ScanDirRec
<1>4. CASE EndGroup
  <2>1. CASE fileEntry # NoEntry
    <3>1. fileEntry \in Ids /\ cache[fileEntry] \in Entry
      BY <2>1 DEF TypeOK
    <3>2. cache' = [cache EXCEPT ![fileEntry] = cache[fileEntry]]
      BY <1>4, <2>1 DEF EndGroup, UpdateEntry
    <3>. QED
      BY <3>1, <3>2 DEF TypeOK
  <2>2. CASE fileEntry = NoEntry
    BY <1>4, <2>2 DEF EndGroup, storeVars
  <2>. QED
    BY <2>1, <2>2
<1>5. CASE UNCHANGED storeVars
  BY <1>5 DEF storeVars
<1>. QED
  <2>1. CASE \E b \in Blocks : ScanIgnored(b) \/ ScanOverrun(b) \/ ScanSuperblock(b)
                                \/ ScanBTree(b)
    BY <2>1, <1>5 DEF ScanIgnored, ScanOverrun, ScanSuperblock, ScanBTree
  <2>2. CASE TocEntry \/ NextGroup \/ SkipRecord \/ EndBlock \/ ReadEof
             \/ ReadError \/ Exit \/ Stop \/ Terminated \/ UNCHANGED vars
    BY <2>2, <1>5 DEF TocEntry, NextGroup, SkipRecord, EndBlock, ReadEof,
       ReadError, Exit, Stop, Terminated, vars
  <2>. QED
    BY <1>1, <1>2, <1>3, <1>4, <2>1, <2>2 DEF Next, ScannerNext


\* Under the mapping, every step of the scan is an upsert or a stutter of
\* the abstract store.
LEMMA RefineStep ==
    IInv /\ SInv /\ [Next]_vars => [Store!Next]_Persisted
<1> SUFFICES ASSUME IInv, SInv, [Next]_vars
             PROVE  [Store!Next]_Persisted
  OBVIOUS
<1>1. IInv' /\ SInv'
  BY NextIInv, NextSInv
<1>2. Persisted = cache
  BY PersistedIsCache DEF IInv
<1>3. Persisted' = cache'
  BY <1>1, PersistedIsCacheNext DEF IInv
<1>4. CASE cache' = cache
  BY <1>2, <1>3, <1>4
<1>5. CASE \E i \in Ids : CacheUpsert(i)
  <2>1. PICK i \in Ids : CacheUpsert(i)
    BY <1>5
  <2>2. Store!Upsert(i)
    BY <1>2, <1>3, <2>1 DEF CacheUpsert, Store!Upsert
  <2>. QED
    BY <2>2 DEF Store!Next
<1>. QED
  BY <1>4, <1>5, NextCacheUpsert

(***************************************************************************)
(* The scan implements the entry store: read back from the tables at any   *)
(* step, the entry graph changes only by single upserts that keep versions *)
(* and the current extent generation, for every disk and every number of  *)
(* inodes, xids and extents.                                               *)
(***************************************************************************)
THEOREM StoreRefinementProved == Spec => StoreRefinement
<1>1. Init => Store!Init
  BY DEF Init, Persisted, Store!Init
<1>2. Init => IInv /\ SInv
  BY InitIInv DEF Init, SInv
<1>3. IInv /\ SInv /\ [Next]_vars => IInv' /\ SInv'
  BY NextIInv, NextSInv
<1>4. IInv /\ SInv /\ [Next]_vars => [Store!Next]_Persisted
  BY RefineStep
<1>. QED
  BY <1>1, <1>2, <1>3, <1>4, PTL DEF Spec, StoreRefinement, Store!Spec

=============================================================================
