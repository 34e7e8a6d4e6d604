---------------------------- MODULE MC_ApfsScan ----------------------------
(***************************************************************************)
(* Small disks for ApfsScan: inode 2 is the root directory, inode 5 a file *)
(* in it.  The B-tree nodes are the copies an APFS volume leaves on disk   *)
(* as it is rewritten copy-on-write: the same records at xid 1 and 2, a    *)
(* leaf of extents split from its inode, a directory node rewritten at a   *)
(* newer xid than its child's inode.  Any DiskBlocks of them, in any       *)
(* order and with repeats, make a disk.                                    *)
(***************************************************************************)
EXTENDS ApfsScan

CONSTANTS NoSizeV, NoNameV, NoEntryV, NoGroupV, NoNodeV

MCIds == {2, 5}
MCParents == {1, 2}
MCNames == {"f", "g"}
MCDTypes == {8}
MCSizes == {1, 2}
MCExts == {"e1", "e2", "e3"}
MCXids == {1, 2}
MCBlockSizes == {1, 2}

\* Record constructors; the fields a kind does not use keep fixed values.
R(k, i) == [kind |-> k, id |-> i, parent |-> 1, size |-> NoSizeV, ext |-> "e1",
            target |-> 5, name |-> "f", dtype |-> 8]
Inode(i, p, s) == [R("inode", i) EXCEPT !.parent = p, !.size = s]
Extent(i, e) == [R("extent", i) EXCEPT !.ext = e]
DirRec(d, t, n) == [R("drec", d) EXCEPT !.target = t, !.name = n]

\* The root directory at xid 1 with its entry "f" for inode 5.
NodeRoot == [xid |-> 1, recs |-> <<Inode(2, 1, NoSizeV), DirRec(2, 5, "f")>>]
\* Inode 5 at xid 1 with its first extent.
NodeFile1 == [xid |-> 1, recs |-> <<Inode(5, 2, 1), Extent(5, "e1")>>]
\* Inode 5 rewritten at xid 2, its extents split over two nodes.
NodeFile2a == [xid |-> 2, recs |-> <<Inode(5, 2, 2), Extent(5, "e2")>>]
NodeFile2b == [xid |-> 2, recs |-> <<Inode(5, 2, NoSizeV), Extent(5, "e3"), R("any", 5)>>]
\* A leaf holding extents of inode 5 without its inode record.
NodeExtOnly == [xid |-> 2, recs |-> <<Extent(5, "e3")>>]
\* The root's leaf rewritten at xid 2 (a sibling changed), renaming 5 to "g".
NodeDir2 == [xid |-> 2, recs |-> <<DirRec(2, 5, "g"), R("other", 2)>>]

BT(n, ok) == [type |-> "btree", cksumOk |-> ok, osize |-> 1, magicOk |-> FALSE,
              bsize |-> 1, node |-> n]
SB(bs) == [type |-> "nx", cksumOk |-> TRUE, osize |-> 1, magicOk |-> TRUE,
           bsize |-> bs, node |-> NodeRoot]
Misc(t, magic) == [type |-> t, cksumOk |-> TRUE, osize |-> 1, magicOk |-> magic,
                   bsize |-> 1, node |-> NodeRoot]

\* The blocks of the base run: nodes whose extent records all come with
\* their inode, superblocks of 4096 and 8192 bytes, a corrupt copy, an
\* unused object, a zero block, a superblock without its magic.
MCBlocks ==
    {BT(NodeRoot, TRUE), BT(NodeFile1, TRUE), BT(NodeFile2a, TRUE),
     BT(NodeFile2b, TRUE), BT(NodeDir2, TRUE), BT(NodeFile2a, FALSE),
     SB(1), SB(2), Misc("other", FALSE), Misc("zero", FALSE), Misc("nx", FALSE)}

\* The same with the leaf of orphan extents.
MCBlocksSplit == MCBlocks \cup {BT(NodeExtOnly, TRUE)}

\* Only 4096-byte superblocks.
MCBlocksSmall == MCBlocks \ {SB(2)}

MCDiskBlocks == 4
=============================================================================
