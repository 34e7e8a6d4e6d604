----------------------------- MODULE EntryStore -----------------------------
(***************************************************************************)
(* What the entry store promises its readers: the FileSystem interface     *)
(* (src/libsbb/filesystem.h) seen as one map from inode to Entry that only *)
(* ever changes by an upsert of one inode (FileSystem::updateEntry).  An   *)
(* upsert never takes an entry back to an older version, never moves its   *)
(* extents to an older generation, and within one generation only appends  *)
(* extents; an entry once stored is never removed.                         *)
(***************************************************************************)
EXTENDS Naturals, Sequences

CONSTANTS
    Inodes,     \* the inode numbers
    Records,    \* the Entry values
    NoEntry     \* no entry for the inode

VARIABLE entries

(* new may replace old: the version gates of scanInode, scanDirRec and     *)
(* scanFileExtent, seen from outside.                                      *)
Supersedes(new, old) ==
    /\ new.versionId >= old.versionId
    /\ new.extentVersionId >= old.extentVersionId
    /\ new.extentVersionId = old.extentVersionId =>
          /\ Len(old.extents) <= Len(new.extents)
          /\ SubSeq(new.extents, 1, Len(old.extents)) = old.extents

Init == entries = [i \in Inodes |-> NoEntry]

(* updateEntry of inode i: the entry is created, or superseded.            *)
Upsert(i) ==
    /\ entries' \in [Inodes -> Records \cup {NoEntry}]
    /\ \A j \in Inodes \ {i} : entries'[j] = entries[j]
    /\ entries'[i] \in Records
    /\ entries[i] # NoEntry => Supersedes(entries'[i], entries[i])

Next == \E i \in Inodes : Upsert(i)

Spec == Init /\ [][Next]_entries

=============================================================================
