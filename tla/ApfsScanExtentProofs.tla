------------------------ MODULE ApfsScanExtentProofs ------------------------
(***************************************************************************)
(* The extent-generation invariant of scanFileExtent, for every value of   *)
(* the constants.                                                          *)
(***************************************************************************)
EXTENDS ApfsScanProofs

\* The extents of an appended sequence are the old ones and the new one.
LEMMA RangeAppend ==
    ASSUME NEW S, NEW s \in Seq(S), NEW x \in S
    PROVE  Range(Append(s, x)) = Range(s) \cup {x}
<1>. DEFINE t == Append(s, x)
<1>1. /\ Len(s) \in Nat
      /\ DOMAIN t = 1..(Len(s) + 1)
      /\ \A i \in 1..Len(s) : t[i] = s[i]
      /\ t[Len(s) + 1] = x
      /\ DOMAIN s = 1..Len(s)
  OBVIOUS
<1>2. Range(t) \subseteq Range(s) \cup {x}
  <2> SUFFICES ASSUME NEW i \in DOMAIN t PROVE t[i] \in Range(s) \cup {x}
    BY DEF Range
  <2>1. CASE i \in 1..Len(s)
    BY <1>1, <2>1 DEF Range
  <2>2. CASE i = Len(s) + 1
    BY <1>1, <2>2
  <2>. QED
    BY <1>1, <2>1, <2>2
<1>3. Range(s) \cup {x} \subseteq Range(t)
  BY <1>1 DEF Range
<1>. QED
  BY <1>2, <1>3

\* A one-extent sequence holds that extent; the empty one holds none.
LEMMA RangeSmall ==
    ASSUME NEW x
    PROVE  Range(Append(<<>>, x)) = {x} /\ Range(<<>>) = {}
BY DEF Range

(***************************************************************************)
(* An extent record is attached only to an inode that has an entry in the  *)
(* map (fileEntry is non-null only after scanInode put it there), so an    *)
(* inode the map lacks has no attached extents.                            *)
(***************************************************************************)
EInv == \A t \in extAttached : cache[t[1]] # NoEntry

\* scanFileExtent's generation step on the entry: a newer xid starts the
\* extents afresh, the same xid appends.
LEMMA AppendExtentFields ==
    ASSUME NEW e \in Entry, NEW x \in Nat, NEW ext
    PROVE  /\ e.extentVersionId < x =>
                 /\ AppendExtent(e, x, ext).extents = Append(<<>>, ext)
                 /\ AppendExtent(e, x, ext).extentVersionId = x
           /\ ~(e.extentVersionId < x) =>
                 /\ AppendExtent(e, x, ext).extents = Append(e.extents, ext)
                 /\ AppendExtent(e, x, ext).extentVersionId = e.extentVersionId
BY DEF AppendExtent, Entry

\* scanInode's and scanDirRec's gates leave the extent generation alone.
LEMMA UpdatesKeepGeneration ==
    ASSUME NEW e \in Entry, NEW r, NEW x, NEW fe
    PROVE  /\ InodeUpdate(e, r, x).extentVersionId = e.extentVersionId
           /\ DirRecUpdate(e, r, x, fe).extentVersionId = e.extentVersionId
BY DEF InodeUpdate, DirRecUpdate, Entry

\* A step that attaches no extent record and leaves every inode's extent
\* generation as it was, without removing an entry, keeps the invariants.
LEMMA GenerationStable ==
    ASSUME TypeOK, EInv, ExtentsAreNewestGeneration,
           extAttached' = extAttached,
           \A j \in Ids : /\ cache[j] # NoEntry => cache'[j] # NoEntry
                          /\ ExtGen(j)' = ExtGen(j)
                          /\ ExtSet(j)' = ExtSet(j)
    PROVE  EInv' /\ ExtentsAreNewestGeneration'
<1>1. \A t \in extAttached : t[1] \in Ids
  BY DEF TypeOK
<1>2. EInv'
  BY <1>1 DEF EInv
<1>3. ExtentsAreNewestGeneration'
  BY DEF ExtentsAreNewestGeneration
<1>. QED
  BY <1>2, <1>3

\* updateEntry of inode i with an entry whose extents and generation are
\* those the map holds (or none, for a new entry) keeps every generation.
LEMMA UpdateKeepsGeneration ==
    ASSUME TypeOK, NEW i \in Ids, NEW e \in Entry, NEW isNew, NEW upd,
           UpdateEntry(i, e, isNew, upd),
           cache[i] # NoEntry => /\ e.extents = cache[i].extents
                                 /\ e.extentVersionId = cache[i].extentVersionId,
           cache[i] = NoEntry => e.extents = <<>> /\ e.extentVersionId = 0
    PROVE  \A j \in Ids : /\ cache[j] # NoEntry => cache'[j] # NoEntry
                          /\ ExtGen(j)' = ExtGen(j)
                          /\ ExtSet(j)' = ExtSet(j)
<1> SUFFICES ASSUME NEW j \in Ids
             PROVE  /\ cache[j] # NoEntry => cache'[j] # NoEntry
                    /\ ExtGen(j)' = ExtGen(j)
                    /\ ExtSet(j)' = ExtSet(j)
  OBVIOUS
<1>1. e # NoEntry
  BY SentinelAssumption
<1>2. CASE j = i /\ cache[i] = NoEntry
  <2>1. cache'[j] = e
    BY <1>2 DEF UpdateEntry, TypeOK
  <2>2. Range(<<>>) = {}
    BY RangeSmall
  <2>. QED
    BY <1>1, <1>2, <2>1, <2>2 DEF ExtGen, ExtSet
<1>3. CASE j = i /\ cache[i] # NoEntry
  <2>1. cache'[j] = e
    BY <1>3 DEF UpdateEntry, TypeOK
  <2>. QED
    BY <1>1, <1>3, <2>1 DEF ExtGen, ExtSet
<1>4. CASE j # i
  <2>1. cache'[j] = cache[j]
    BY <1>4 DEF UpdateEntry, TypeOK
  <2>. QED
    BY <2>1 DEF ExtGen, ExtSet
<1>. QED
  BY <1>2, <1>3, <1>4
\* scanFileExtent with a non-null fileEntry fe: the record <<fe, x, ext>>
\* is attached, and fe's entry takes the extent when its generation is not
\* newer than x, starting a new generation when it is older.
LEMMA AttachStep ==
    ASSUME TypeOK, EInv, ExtentsAreNewestGeneration,
           NEW fe \in Ids, cache[fe] # NoEntry, NEW x \in Nat, NEW ext \in Exts,
           extAttached' = extAttached \cup {<<fe, x, ext>>},
           \A j \in Ids \ {fe} : cache'[j] = cache[j],
           cache'[fe] = IF cache[fe].extentVersionId <= x
                        THEN AppendExtent(cache[fe], x, ext)
                        ELSE cache[fe]
    PROVE  EInv' /\ ExtentsAreNewestGeneration'
<1>. DEFINE c == cache[fe]
            new == <<fe, x, ext>>
            \* the attached records of fe at xid g, before the step
            At(g) == {u \in extAttached : u[1] = fe /\ u[2] = g}
            \* the same after the step
            AtN(g) == {u \in extAttached' : u[1] = fe /\ u[2] = g}
            \* what the invariant says of inode i
            P(i) == /\ \A t \in extAttached' : t[1] = i => t[2] <= ExtGen(i)'
                    /\ ExtSet(i)' = {t[3] : t \in {u \in extAttached' :
                                                     u[1] = i /\ u[2] = ExtGen(i)'}}
<1>1. c \in Entry /\ c.extentVersionId \in Nat /\ c.extents \in Seq(Exts)
  BY DEF TypeOK, Entry
<1>2. \A t \in extAttached : t[1] \in Ids /\ t[2] \in Nat
  BY ValuesAssumption DEF TypeOK
<1>3. cache'[fe] # NoEntry
  <2>1. AppendExtent(c, x, ext) \in Entry
    BY <1>1, AppendExtentType
  <2>. QED
    BY <1>1, <2>1, SentinelAssumption
<1>4. EInv'
  BY <1>2, <1>3 DEF EInv
<1>5. ASSUME NEW i \in Ids \ {fe} PROVE P(i)
  <2>1. ExtGen(i)' = ExtGen(i) /\ ExtSet(i)' = ExtSet(i)
    BY DEF ExtGen, ExtSet
  <2>2. {u \in extAttached' : u[1] = i} = {u \in extAttached : u[1] = i}
    OBVIOUS
  <2>. QED
    BY <2>1, <2>2 DEF ExtentsAreNewestGeneration
<1>6. \A t \in extAttached : t[1] = fe => t[2] <= c.extentVersionId
  BY DEF ExtentsAreNewestGeneration, ExtGen
<1>7. Range(c.extents) = {t[3] : t \in At(c.extentVersionId)}
  BY DEF ExtentsAreNewestGeneration, ExtGen, ExtSet
<1>8. \A g : AtN(g) = At(g) \cup (IF x = g THEN {new} ELSE {})
  OBVIOUS
<1>10. ASSUME c.extentVersionId < x PROVE P(fe)
  <2>1. cache'[fe].extents = Append(<<>>, ext) /\ cache'[fe].extentVersionId = x
    BY <1>1, <1>10, AppendExtentFields
  <2>2. ExtGen(fe)' = x /\ ExtSet(fe)' = {ext}
    BY <1>3, <2>1, RangeSmall DEF ExtGen, ExtSet
  <2>3. \A t \in extAttached' : t[1] = fe => t[2] <= x
    BY <1>1, <1>2, <1>6, <1>10
  <2>4. At(x) = {}
    BY <1>1, <1>2, <1>6, <1>10
  <2>5. AtN(x) = {new}
    BY <1>8, <2>4
  <2>6. {t[3] : t \in AtN(x)} = {ext}
    <3>1. new[3] = ext
      OBVIOUS
    <3>2. {t[3] : t \in {new}} = {ext}
      BY <3>1
    <3>. QED
      BY <2>5, <3>2, Zenon
  <2>. QED
    BY <2>2, <2>3, <2>6
<1>11. ASSUME c.extentVersionId = x PROVE P(fe)
  <2>1. c.extentVersionId <= x /\ ~(c.extentVersionId < x)
    BY <1>1, <1>11
  <2>2. cache'[fe] = AppendExtent(c, x, ext)
    BY <2>1
  <2>3. AppendExtent(c, x, ext).extents = Append(c.extents, ext)
        /\ AppendExtent(c, x, ext).extentVersionId = x
    BY <1>1, <1>11, <2>1, AppendExtentFields
  <2>4. Range(Append(c.extents, ext)) = Range(c.extents) \cup {ext}
    BY <1>1, RangeAppend
  <2>5. ExtGen(fe)' = x /\ ExtSet(fe)' = Range(c.extents) \cup {ext}
    BY <1>3, <2>2, <2>3, <2>4 DEF ExtGen, ExtSet
  <2>6. \A t \in extAttached' : t[1] = fe => t[2] <= x
    BY <1>6, <1>11
  <2>7. AtN(x) = At(x) \cup {new}
    BY <1>8
  <2>8. {t[3] : t \in AtN(x)} = {t[3] : t \in At(x)} \cup {ext}
    <3>1. new[3] = ext
      OBVIOUS
    <3>2. {t[3] : t \in At(x) \cup {new}} = {t[3] : t \in At(x)} \cup {ext}
      BY <3>1
    <3>. QED
      BY <2>7, <3>2, Zenon
  <2>. QED
    BY <1>7, <1>11, <2>5, <2>6, <2>8
<1>12. ASSUME x < c.extentVersionId PROVE P(fe)
  <2>1. cache'[fe] = c
    BY <1>1, <1>12
  <2>2. ExtGen(fe)' = c.extentVersionId /\ ExtSet(fe)' = Range(c.extents)
    BY <1>3, <2>1 DEF ExtGen, ExtSet
  <2>3. \A t \in extAttached' : t[1] = fe => t[2] <= c.extentVersionId
    BY <1>1, <1>6, <1>12
  <2>4. AtN(c.extentVersionId) = At(c.extentVersionId)
    BY <1>1, <1>8, <1>12
  <2>. QED
    BY <1>7, <2>2, <2>3, <2>4
<1>13. P(fe)
  BY <1>1, <1>10, <1>11, <1>12
<1>. QED
  BY <1>4, <1>5, <1>13 DEF ExtentsAreNewestGeneration

\* A step that changes neither the map nor the attached records.
LEMMA QuietStep ==
    ASSUME TypeOK, EInv, ExtentsAreNewestGeneration,
           UNCHANGED <<cache, extAttached>>
    PROVE  EInv' /\ ExtentsAreNewestGeneration'
BY GenerationStable DEF ExtGen, ExtSet

\* The looked-up-or-new entry of inode i carries i's generation, or the
\* empty one when the map lacks i.
LEMMA LookupGeneration ==
    ASSUME TypeOK, SInv, NEW i \in Ids
    PROVE  LET found == FindByInode(i)
               e == IF found = NoEntry THEN NewEntry ELSE found
           IN  /\ cache[i] # NoEntry => /\ e.extents = cache[i].extents
                                        /\ e.extentVersionId = cache[i].extentVersionId
               /\ cache[i] = NoEntry => e.extents = <<>> /\ e.extentVersionId = 0
<1>1. CASE cache[i] = NoEntry
  BY <1>1, FindByInodeCache DEF NewEntry
<1>2. CASE cache[i] # NoEntry
  BY <1>2, FindByInodeCache
<1>. QED
  BY <1>1, <1>2

\* Every step keeps the extent-generation invariant.
LEMMA NextGeneration ==
    IInv /\ SInv /\ EInv /\ ExtentsAreNewestGeneration /\ [Next]_vars
    => EInv' /\ ExtentsAreNewestGeneration'
<1> SUFFICES ASSUME IInv, SInv, EInv, ExtentsAreNewestGeneration, [Next]_vars
             PROVE  EInv' /\ ExtentsAreNewestGeneration'
  OBVIOUS
<1>. USE DEF IInv
<1>1. CASE ScanInode
  <2>. DEFINE r == node.recs[idx]
              found == FindByInode(r.id)
              e == IF found = NoEntry THEN NewEntry ELSE found
  <2>1. r \in Rec /\ node.xid \in Nat
    BY <1>1, CurrentRecord DEF ScanInode, GroupRecord
  <2>2. r.id \in Ids
    BY <2>1, RecFields
  <2>3. e \in Entry
    BY <2>2, LookupOrNewType
  <2>4. /\ InodeUpdate(e, r, node.xid) \in Entry
        /\ InodeUpdate(e, r, node.xid).extents = e.extents
        /\ InodeUpdate(e, r, node.xid).extentVersionId = e.extentVersionId
    <3>1. InodeUpdate(e, r, node.xid) \in Entry
      BY <2>1, <2>3, InodeUpdateType
    <3>2. InodeUpdate(e, r, node.xid).extents = e.extents
      BY <2>3, UpdatesKeepExtents
    <3>3. InodeUpdate(e, r, node.xid).extentVersionId = e.extentVersionId
      BY <2>3, UpdatesKeepGeneration
    <3>. QED
      BY <3>1, <3>2, <3>3
  <2>5. /\ cache[r.id] # NoEntry => /\ e.extents = cache[r.id].extents
                                   /\ e.extentVersionId = cache[r.id].extentVersionId
        /\ cache[r.id] = NoEntry => e.extents = <<>> /\ e.extentVersionId = 0
    BY <2>2, LookupGeneration
  <2>6. UpdateEntry(r.id, InodeUpdate(e, r, node.xid), found = NoEntry, FALSE)
    BY <1>1 DEF ScanInode
  <2>. QED
    BY <1>1, <2>2, <2>4, <2>5, <2>6, UpdateKeepsGeneration, GenerationStable
       DEF ScanInode
<1>2. CASE ScanDirRec
  <2>. DEFINE r == node.recs[idx]
              found == FindByInode(r.target)
              c == IF found = NoEntry THEN NewEntry ELSE found
  <2>1. r \in Rec /\ node.xid \in Nat
    BY <1>2, CurrentRecord DEF ScanDirRec, GroupRecord
  <2>2. r.target \in Ids
    BY <2>1, RecFields
  <2>3. c \in Entry
    BY <2>2, LookupOrNewType
  <2>4. /\ DirRecUpdate(c, r, node.xid, fileEntry) \in Entry
        /\ DirRecUpdate(c, r, node.xid, fileEntry).extents = c.extents
        /\ DirRecUpdate(c, r, node.xid, fileEntry).extentVersionId = c.extentVersionId
    BY <2>1, <2>3, DirRecUpdateType, UpdatesKeepExtents, UpdatesKeepGeneration
       DEF TypeOK
  <2>5. /\ cache[r.target] # NoEntry => /\ c.extents = cache[r.target].extents
                                       /\ c.extentVersionId = cache[r.target].extentVersionId
        /\ cache[r.target] = NoEntry => c.extents = <<>> /\ c.extentVersionId = 0
    BY <2>2, LookupGeneration
  <2>6. UpdateEntry(r.target, DirRecUpdate(c, r, node.xid, fileEntry),
                    found = NoEntry, FALSE)
    BY <1>2 DEF ScanDirRec
  <2>. QED
    BY <1>2, <2>2, <2>4, <2>5, <2>6, UpdateKeepsGeneration, GenerationStable
       DEF ScanDirRec, histVars
<1>3. CASE EndGroup
  <2>1. CASE fileEntry # NoEntry
    <3>1. fileEntry \in Ids /\ cache[fileEntry] \in Entry
      BY <2>1 DEF TypeOK
    <3>2. UpdateEntry(fileEntry, cache[fileEntry], FALSE, FALSE)
      BY <1>3, <2>1 DEF EndGroup
    <3>. QED
      BY <1>3, <2>1, <3>1, <3>2, UpdateKeepsGeneration, GenerationStable
         DEF EndGroup, histVars
  <2>2. CASE fileEntry = NoEntry
    BY <1>3, <2>2, QuietStep DEF EndGroup, storeVars, histVars
  <2>. QED
    BY <2>1, <2>2
<1>4. CASE ScanFileExtent
  <2>. DEFINE r == node.recs[idx]
  <2>1. r \in Rec /\ node.xid \in Nat
    BY <1>4, CurrentRecord DEF ScanFileExtent, GroupRecord
  <2>2. r.ext \in Exts
    BY <2>1, RecFields
  <2>3. CASE fileEntry = NoEntry
    BY <1>4, <2>3, QuietStep DEF ScanFileExtent, storeVars
  <2>4. CASE fileEntry # NoEntry
    <3>1. fileEntry \in Ids /\ cache[fileEntry] \in Entry
      BY <2>4 DEF TypeOK
    <3>2. extAttached' = extAttached \cup {<<fileEntry, node.xid, r.ext>>}
      BY <1>4, <2>4 DEF ScanFileExtent
    <3>3. /\ \A j \in Ids \ {fileEntry} : cache'[j] = cache[j]
          /\ cache'[fileEntry] = IF cache[fileEntry].extentVersionId <= node.xid
                                 THEN AppendExtent(cache[fileEntry], node.xid, r.ext)
                                 ELSE cache[fileEntry]
      <4>1. CASE cache[fileEntry].extentVersionId <= node.xid
        <5>1. UpdateEntry(fileEntry, AppendExtent(cache[fileEntry], node.xid, r.ext),
                          FALSE, TRUE)
          BY <1>4, <2>4, <4>1 DEF ScanFileExtent
        <5>. QED
          BY <3>1, <4>1, <5>1 DEF UpdateEntry, TypeOK
      <4>2. CASE ~(cache[fileEntry].extentVersionId <= node.xid)
        <5>1. UNCHANGED storeVars
          BY <1>4, <4>2 DEF ScanFileExtent
        <5>. QED
          BY <4>2, <5>1 DEF storeVars
      <4>. QED
        BY <4>1, <4>2
    <3>. QED
      BY <2>1, <2>2, <2>4, <3>1, <3>2, <3>3, AttachStep
  <2>. QED
    BY <2>3, <2>4
<1>5. CASE UNCHANGED <<cache, extAttached>>
  BY <1>5, QuietStep
<1>. QED
  <2>1. CASE \E b \in Blocks : ScanIgnored(b) \/ ScanOverrun(b) \/ ScanSuperblock(b)
                                \/ ScanBTree(b)
    BY <2>1, <1>5 DEF ScanIgnored, ScanOverrun, ScanSuperblock, ScanBTree,
       storeVars, histVars
  <2>2. CASE TocEntry \/ NextGroup \/ SkipRecord \/ EndBlock \/ ReadEof
             \/ ReadError \/ Exit \/ Stop \/ Terminated \/ UNCHANGED vars
    BY <2>2, <1>5 DEF TocEntry, NextGroup, SkipRecord, EndBlock, ReadEof,
       ReadError, Exit, Stop, Terminated, vars, storeVars, histVars
  <2>. QED
    BY <1>1, <1>2, <1>3, <1>4, <2>1, <2>2 DEF Next, ScannerNext

(***************************************************************************)
(* scanFileExtent's extent generations, for every value of the constants:  *)
(* whatever order the copy-on-write node versions lie in on the disk,      *)
(* every inode's extents are exactly the extent records, read in a group   *)
(* with the inode's record, that carry the newest xid of any such record.  *)
(***************************************************************************)
THEOREM ExtentsAreNewestGenerationProved == Spec => []ExtentsAreNewestGeneration
<1>1. Init => IInv /\ SInv /\ EInv /\ ExtentsAreNewestGeneration
  <2> SUFFICES ASSUME Init PROVE IInv /\ SInv /\ EInv /\ ExtentsAreNewestGeneration
    OBVIOUS
  <2>1. IInv
    BY InitIInv
  <2>2. SInv
    BY DEF Init, SInv
  <2>3. \A i \in Ids : cache[i] = NoEntry /\ ExtGen(i) = 0 /\ ExtSet(i) = {}
    BY DEF Init, ExtGen, ExtSet
  <2>4. EInv /\ ExtentsAreNewestGeneration
    BY <2>3 DEF Init, EInv, ExtentsAreNewestGeneration
  <2>. QED
    BY <2>1, <2>2, <2>4
<1>2. IInv /\ SInv /\ EInv /\ ExtentsAreNewestGeneration /\ [Next]_vars
      => (IInv /\ SInv /\ EInv /\ ExtentsAreNewestGeneration)'
  BY NextIInv, NextSInv, NextGeneration
<1>. QED
  BY <1>1, <1>2, PTL DEF Spec
=============================================================================
