---------------------------- MODULE FuseFsProofs ----------------------------
(***************************************************************************)
(* Proofs, for every set of threads, tables and paths, of the invariants   *)
(* the fuse run checks on two threads.                                     *)
(***************************************************************************)
EXTENDS FuseFs, TLAPS

(* The facts TypeOK needs about the thread-local state: where a thread    *)
(* returns after an insert, and the key a thread inside the map holds.     *)
TInv ==
    /\ TypeOK
    /\ after \in [Threads -> {"idle", "walk", "list"}]
    /\ key \in [Threads -> Nat \cup {Null}]
    /\ \A t \in Threads : pc[t] = "find" => key[t] = RootInode
    /\ \A t \in Threads : pc[t] = "insert" => key[t] \in Inodes

(* A thread between findByPath's lock and its unlock.                      *)
Locked(t) ==
    \/ pc[t] \in {"root", "find", "walk"}
    \/ pc[t] = "insert" /\ after[t] = "walk"

(* Every thread in findByPath's critical section owns m_databaseMutex, and *)
(* an insert returns to the walk or to readdir's list.                     *)
LInv ==
    /\ \A t \in Threads : Locked(t) => mutex = t
    /\ \A t \in Threads : pc[t] = "insert" => after[t] \in {"walk", "list"}

(* partEntry is null with parts of the path left only when the table has  *)
(* no root row; an insert on the walk carries a found entry.              *)
CInv ==
    /\ \A t \in Threads :
          (pc[t] = "walk" /\ cur[t] = Null /\ i[t] <= Len(path[t]))
              => RootInode \notin Inodes
    /\ \A t \in Threads : (pc[t] = "insert" /\ after[t] = "walk") => cur[t] # Null
    /\ crashed => RootInode \notin Inodes


-----------------------------------------------------------------------------
(* Type correctness.                                                       *)

LEMMA InitTInv == Init => TInv
<1> SUFFICES ASSUME Init PROVE TInv
  OBVIOUS
<1>1. TypeOK
  <2>1. path \in [Threads -> Paths \cup {<<>>}]
    BY DEF Init
  <2>2. cur \in [Threads -> Inodes \cup {Null}] /\ i \in [Threads -> Nat \ {0}]
    BY DEF Init
  <2>3. pc \in [Threads -> PCs] /\ op \in [Threads -> Ops \cup {"getattr"}]
    BY DEF Init, PCs
  <2>. QED
    BY <2>1, <2>2, <2>3 DEF Init, TypeOK
<1>2. after \in [Threads -> {"idle", "walk", "list"}] /\ key \in [Threads -> Nat \cup {Null}]
  BY DEF Init
<1>. QED
  BY <1>1, <1>2 DEF Init, TInv

LEMMA NextTInv == TInv /\ [Next]_vars => TInv'
<1> SUFFICES ASSUME TInv, [Next]_vars PROVE TInv'
  OBVIOUS
<1>1. ASSUME NEW t \in Threads, NEW o \in Ops, NEW p \in Paths, Call(t, o, p)
      PROVE  TInv'
  BY <1>1, FuseAssumption DEF TInv, TypeOK, Call, PCs, Inodes, RootInode
<1>2. ASSUME NEW t \in Threads, Lock(t) PROVE TInv'
  BY <1>2 DEF TInv, TypeOK, Lock, PCs, Inodes, RootInode
<1>3. ASSUME NEW t \in Threads, FindRoot(t) PROVE TInv'
  BY <1>3 DEF TInv, TypeOK, FindRoot, PCs, Inodes, RootInode
<1>4. ASSUME NEW t \in Threads, FoundRoot(t) PROVE TInv'
  BY <1>4, FuseAssumption DEF TInv, TypeOK, FoundRoot, PCs, Inodes, RootInode
<1>5. ASSUME NEW t \in Threads, Inserted(t) PROVE TInv'
  BY <1>5 DEF TInv, TypeOK, Inserted, PCs, Inodes, RootInode
<1>6. ASSUME NEW t \in Threads, Walk(t) PROVE TInv'
  <2>1. CASE i[t] > Len(path[t]) /\ Unlocked(t)
              /\ UNCHANGED <<rows, cached, op, path, i, cur, key, after, crashed>>
    <3>1. CASE op[t] = "readdir" /\ cur[t] # Null
      <4>1. children' = [children EXCEPT ![t] = {r \in rows : r.parent = cur[t]}]
            /\ pc' = [pc EXCEPT ![t] = "list"] /\ mutex' = NoThread
        BY <2>1, <3>1 DEF Unlocked
      <4>. QED
        BY <2>1, <4>1 DEF TInv, TypeOK, PCs, Inodes, RootInode
    <3>2. CASE ~(op[t] = "readdir" /\ cur[t] # Null)
      <4>1. pc' = [pc EXCEPT ![t] = "idle"] /\ mutex' = NoThread /\ UNCHANGED children
        BY <2>1, <3>2 DEF Unlocked
      <4>. QED
        BY <2>1, <4>1 DEF TInv, TypeOK, PCs, Inodes, RootInode
    <3>. QED
      BY <3>1, <3>2
  <2>2. CASE /\ i[t] <= Len(path[t]) /\ cur[t] = Null
             /\ crashed' = TRUE /\ pc' = [pc EXCEPT ![t] = "crashed"]
             /\ UNCHANGED <<rows, mutex, cached, op, path, i, cur, key, after, children>>
    BY <2>2 DEF TInv, TypeOK, PCs, Inodes, RootInode
  <2>3. CASE /\ i[t] <= Len(path[t]) /\ cur[t] # Null
             /\ \E r \in NamedRows(cur[t], path[t][i[t]]) :
                  /\ pc' = [pc EXCEPT ![t] = "insert"]
                  /\ after' = [after EXCEPT ![t] = "walk"]
                  /\ key' = [key EXCEPT ![t] = r.inode]
                  /\ cur' = [cur EXCEPT ![t] = r.inode]
                  /\ i' = [i EXCEPT ![t] = i[t] + 1]
             /\ UNCHANGED <<rows, mutex, cached, op, path, children, crashed>>
    <3>1. PICK r \in NamedRows(cur[t], path[t][i[t]]) :
                  /\ pc' = [pc EXCEPT ![t] = "insert"]
                  /\ after' = [after EXCEPT ![t] = "walk"]
                  /\ key' = [key EXCEPT ![t] = r.inode]
                  /\ cur' = [cur EXCEPT ![t] = r.inode]
                  /\ i' = [i EXCEPT ![t] = i[t] + 1]
      BY <2>3
    <3>2. r \in rows /\ r.inode \in Inodes /\ r.inode \in Nat
      BY FuseAssumption DEF NamedRows, Inodes, TInv, TypeOK
    <3>. QED
      BY <2>3, <3>1, <3>2 DEF TInv, TypeOK, PCs, Inodes, RootInode
  <2>4. CASE /\ i[t] <= Len(path[t]) /\ cur[t] # Null
             /\ NamedRows(cur[t], path[t][i[t]]) = {}
             /\ cur' = [cur EXCEPT ![t] = Null]
             /\ i' = [i EXCEPT ![t] = Len(path[t]) + 1]
             /\ UNCHANGED <<rows, mutex, cached, pc, op, path, key, after, children, crashed>>
    <3>1. Len(path[t]) \in Nat
      BY FuseAssumption DEF TInv, TypeOK
    <3>. QED
      BY <2>4, <3>1 DEF TInv, TypeOK, PCs, Inodes, RootInode
  <2>. QED
    BY <1>6, <2>1, <2>2, <2>3, <2>4 DEF Walk
<1>7. ASSUME NEW t \in Threads, List(t) PROVE TInv'
  <2>1. CASE children[t] = {} /\ pc' = [pc EXCEPT ![t] = "idle"]
             /\ UNCHANGED <<key, after, children>>
    BY <1>7, <2>1 DEF TInv, TypeOK, List, PCs, Inodes, RootInode
  <2>2. CASE \E r \in children[t] :
               /\ pc' = [pc EXCEPT ![t] = "insert"]
               /\ after' = [after EXCEPT ![t] = "list"]
               /\ key' = [key EXCEPT ![t] = r.inode]
               /\ children' = [children EXCEPT ![t] = @ \ {r}]
    <3>1. PICK r \in children[t] :
               /\ pc' = [pc EXCEPT ![t] = "insert"]
               /\ after' = [after EXCEPT ![t] = "list"]
               /\ key' = [key EXCEPT ![t] = r.inode]
               /\ children' = [children EXCEPT ![t] = @ \ {r}]
      BY <2>2
    <3>2. r \in rows /\ r.inode \in Inodes /\ r.inode \in Nat
      BY FuseAssumption DEF Inodes, TInv, TypeOK
    <3>. QED
      BY <1>7, <3>1, <3>2 DEF TInv, TypeOK, List, PCs, Inodes, RootInode
  <2>. QED
    BY <1>7, <2>1, <2>2 DEF List
<1>8. CASE Dead \/ UNCHANGED vars
  BY <1>8 DEF Dead, vars, TInv, TypeOK, PCs, Inodes, RootInode
<1>. QED
  BY <1>1, <1>2, <1>3, <1>4, <1>5, <1>6, <1>7, <1>8 DEF Next, Thread

(***************************************************************************)
(* Every reachable state of sbbfuse's callbacks is well typed: the keys of *)
(* m_diskEntries are inodes of the entry table, and each thread's entry is *)
(* a row of it or null.                                                    *)
(***************************************************************************)
THEOREM TypeCorrect == Spec => []TypeOK
<1>1. TInv => TypeOK
  BY DEF TInv
<1>. QED
  BY <1>1, InitTInv, NextTInv, PTL DEF Spec


-----------------------------------------------------------------------------
(* m_databaseMutex and the map.                                            *)

LEMMA InitLInv == Init => LInv
  BY FuseAssumption DEF Init, LInv, Locked

LEMMA NextLInv == TInv /\ LInv /\ [Next]_vars => LInv'
<1> SUFFICES ASSUME TInv, LInv, [Next]_vars PROVE LInv'
  OBVIOUS
<1>1. ASSUME NEW t \in Threads, NEW o \in Ops, NEW p \in Paths, Call(t, o, p)
      PROVE  LInv'
  BY <1>1 DEF TInv, TypeOK, LInv, Locked, Call
<1>2. ASSUME NEW t \in Threads, Lock(t) PROVE LInv'
  <2>1. \A u \in Threads : ~Locked(u)
    BY <1>2, FuseAssumption DEF LInv, Lock
  <2>. QED
    BY <1>2, <2>1 DEF TInv, TypeOK, LInv, Locked, Lock
<1>3. ASSUME NEW t \in Threads, FindRoot(t) PROVE LInv'
  BY <1>3 DEF TInv, TypeOK, LInv, Locked, FindRoot
<1>4. ASSUME NEW t \in Threads, FoundRoot(t) PROVE LInv'
  BY <1>4 DEF TInv, TypeOK, LInv, Locked, FoundRoot
<1>5. ASSUME NEW t \in Threads, Inserted(t) PROVE LInv'
  BY <1>5 DEF TInv, TypeOK, LInv, Locked, Inserted
<1>6. ASSUME NEW t \in Threads, Walk(t) PROVE LInv'
  <2>1. CASE i[t] > Len(path[t]) /\ Unlocked(t)
              /\ UNCHANGED <<rows, cached, op, path, i, cur, key, after, crashed>>
    <3>1. mutex = t /\ \A u \in Threads \ {t} : ~Locked(u)
      BY <1>6 DEF LInv, Locked, Walk
    <3>2. mutex' = NoThread /\ pc'[t] \in {"list", "idle"}
          /\ \A u \in Threads \ {t} : pc'[u] = pc[u]
      BY <2>1 DEF Unlocked, TInv, TypeOK
    <3>. QED
      BY <2>1, <3>1, <3>2 DEF TInv, TypeOK, LInv, Locked
  <2>2. CASE pc' = [pc EXCEPT ![t] = "crashed"]
             /\ UNCHANGED <<rows, mutex, cached, op, path, i, cur, key, after, children>>
    BY <2>2 DEF TInv, TypeOK, LInv, Locked
  <2>3. CASE pc' = [pc EXCEPT ![t] = "insert"]
             /\ after' = [after EXCEPT ![t] = "walk"]
             /\ UNCHANGED mutex
    BY <1>6, <2>3 DEF TInv, TypeOK, LInv, Locked, Walk
  <2>4. CASE UNCHANGED <<mutex, pc, after>>
    BY <2>4 DEF LInv, Locked
  <2>. QED
    BY <1>6, <2>1, <2>2, <2>3, <2>4 DEF Walk
<1>7. ASSUME NEW t \in Threads, List(t) PROVE LInv'
  <2>1. pc[t] = "list" /\ UNCHANGED mutex
        /\ pc'[t] \in {"idle", "insert"} /\ (pc'[t] = "insert" => after'[t] = "list")
        /\ \A u \in Threads \ {t} : pc'[u] = pc[u] /\ after'[u] = after[u]
    BY <1>7 DEF List, TInv, TypeOK
  <2>. QED
    BY <2>1 DEF TInv, TypeOK, LInv, Locked
<1>8. CASE Dead \/ UNCHANGED vars
  BY <1>8 DEF Dead, vars, LInv, Locked
<1>. QED
  BY <1>1, <1>2, <1>3, <1>4, <1>5, <1>6, <1>7, <1>8 DEF Next, Thread

(***************************************************************************)
(* For every number of FUSE threads: two threads are inside m_diskEntries  *)
(* with one of them writing only when one is loading a child row for       *)
(* sbb_readdir outside m_databaseMutex (sbbfuse/main.cpp:54); every access *)
(* findByPath makes to the map is serialised by the mutex.                 *)
(***************************************************************************)
THEOREM OnlyListingRacesProved == Spec => []OnlyListingRaces
<1>1. TInv /\ LInv => OnlyListingRaces
  <2> SUFFICES ASSUME TInv, LInv, NEW t1 \in Threads, NEW t2 \in Threads,
                      t1 # t2, InMap(t1), InMap(t2), ~Listing(t1), ~Listing(t2)
               PROVE  FALSE
    BY DEF OnlyListingRaces
  <2>1. Locked(t1) /\ Locked(t2)
    BY DEF TInv, LInv, InMap, Listing, Locked
  <2>. QED
    BY <2>1 DEF LInv
<1>. QED
  BY <1>1, InitTInv, NextTInv, InitLInv, NextLInv, PTL DEF Spec

-----------------------------------------------------------------------------
(* The null partEntry.                                                     *)

LEMMA InitCInv == Init => CInv
  BY DEF Init, CInv

LEMMA NextCInv == TInv /\ CInv /\ [Next]_vars => CInv'
<1> SUFFICES ASSUME TInv, CInv, [Next]_vars PROVE CInv'
  OBVIOUS
<1>1. ASSUME NEW t \in Threads, NEW o \in Ops, NEW p \in Paths, Call(t, o, p)
      PROVE  CInv'
  BY <1>1 DEF TInv, TypeOK, CInv, Call, Inodes
<1>2. ASSUME NEW t \in Threads, Lock(t) PROVE CInv'
  BY <1>2 DEF TInv, TypeOK, CInv, Lock, Inodes
<1>3. ASSUME NEW t \in Threads, FindRoot(t) PROVE CInv'
  BY <1>3 DEF TInv, TypeOK, CInv, FindRoot, Inodes
<1>4. ASSUME NEW t \in Threads, FoundRoot(t) PROVE CInv'
  <2>1. RootInode # Null
    BY FuseAssumption DEF RootInode
  <2>2. CASE /\ pc' = [pc EXCEPT ![t] = "walk"] /\ cur' = [cur EXCEPT ![t] = RootInode]
             /\ UNCHANGED <<rows, i, path, after, crashed>>
    BY <2>1, <2>2 DEF TInv, TypeOK, CInv, Inodes
  <2>3. CASE /\ pc' = [pc EXCEPT ![t] = "insert"] /\ after' = [after EXCEPT ![t] = "walk"]
             /\ cur' = [cur EXCEPT ![t] = RootInode]
             /\ UNCHANGED <<rows, i, path, crashed>>
    BY <2>1, <2>3 DEF TInv, TypeOK, CInv, Inodes
  <2>4. CASE /\ RootInode \notin cached \cup Inodes
             /\ pc' = [pc EXCEPT ![t] = "walk"] /\ cur' = [cur EXCEPT ![t] = Null]
             /\ UNCHANGED <<rows, i, path, after, crashed>>
    BY <2>4 DEF TInv, TypeOK, CInv, Inodes
  <2>. QED
    BY <1>4, <2>2, <2>3, <2>4 DEF FoundRoot
<1>5. ASSUME NEW t \in Threads, Inserted(t) PROVE CInv'
  BY <1>5 DEF TInv, TypeOK, CInv, Inserted, Inodes
<1>6. ASSUME NEW t \in Threads, Walk(t) PROVE CInv'
  <2>1. CASE i[t] > Len(path[t]) /\ Unlocked(t)
              /\ UNCHANGED <<rows, cached, op, path, i, cur, key, after, crashed>>
    <3>1. pc'[t] \in {"list", "idle"} /\ \A u \in Threads \ {t} : pc'[u] = pc[u]
      BY <2>1 DEF Unlocked, TInv, TypeOK
    <3>. QED
      BY <2>1, <3>1 DEF TInv, TypeOK, CInv, Inodes
  <2>2. CASE /\ i[t] <= Len(path[t]) /\ cur[t] = Null
             /\ crashed' = TRUE /\ pc' = [pc EXCEPT ![t] = "crashed"]
             /\ UNCHANGED <<rows, mutex, cached, op, path, i, cur, key, after, children>>
    BY <1>6, <2>2 DEF TInv, TypeOK, CInv, Inodes, Walk
  <2>3. CASE /\ i[t] <= Len(path[t]) /\ cur[t] # Null
             /\ \E r \in NamedRows(cur[t], path[t][i[t]]) :
                  /\ pc' = [pc EXCEPT ![t] = "insert"]
                  /\ after' = [after EXCEPT ![t] = "walk"]
                  /\ cur' = [cur EXCEPT ![t] = r.inode]
                  /\ i' = [i EXCEPT ![t] = i[t] + 1]
             /\ UNCHANGED <<rows, path, crashed>>
    <3>1. PICK r \in NamedRows(cur[t], path[t][i[t]]) :
                  /\ pc' = [pc EXCEPT ![t] = "insert"]
                  /\ after' = [after EXCEPT ![t] = "walk"]
                  /\ cur' = [cur EXCEPT ![t] = r.inode]
                  /\ i' = [i EXCEPT ![t] = i[t] + 1]
      BY <2>3
    <3>2. r.inode # Null
      BY FuseAssumption DEF NamedRows, TInv, TypeOK
    <3>. QED
      BY <1>6, <2>3, <3>1, <3>2 DEF TInv, TypeOK, CInv, Inodes, Walk
  <2>4. CASE /\ cur' = [cur EXCEPT ![t] = Null]
             /\ i' = [i EXCEPT ![t] = Len(path[t]) + 1]
             /\ UNCHANGED <<rows, pc, path, after, crashed>>
    <3>1. Len(path[t]) \in Nat
      BY FuseAssumption DEF TInv, TypeOK
    <3>2. ~(i'[t] <= Len(path'[t]))
      BY <2>4, <3>1 DEF TInv, TypeOK
    <3>3. \A u \in Threads \ {t} : cur'[u] = cur[u] /\ i'[u] = i[u]
      BY <2>4 DEF TInv, TypeOK
    <3>4. Inodes' = Inodes
      BY <2>4 DEF Inodes
    <3>5. ASSUME NEW u \in Threads,
                 pc'[u] = "walk", cur'[u] = Null, i'[u] <= Len(path'[u])
          PROVE  RootInode \notin Inodes'
      <4>1. u # t
        BY <3>2, <3>5
      <4>. QED
        BY <2>4, <3>3, <3>4, <3>5, <4>1 DEF CInv
    <3>6. \A u \in Threads : (pc'[u] = "insert" /\ after'[u] = "walk") => cur'[u] # Null
      <4>1. pc'[t] = "walk"
        BY <1>6, <2>4 DEF Walk
      <4>. QED
        BY <2>4, <3>3, <4>1 DEF CInv
    <3>. QED
      BY <2>4, <3>4, <3>5, <3>6 DEF CInv
  <2>. QED
    BY <1>6, <2>1, <2>2, <2>3, <2>4 DEF Walk
<1>7. ASSUME NEW t \in Threads, List(t) PROVE CInv'
  <2>1. pc[t] = "list" /\ UNCHANGED <<rows, cur, i, path, crashed>>
        /\ pc'[t] \in {"idle", "insert"} /\ (pc'[t] = "insert" => after'[t] = "list")
        /\ \A u \in Threads \ {t} : pc'[u] = pc[u] /\ after'[u] = after[u]
    BY <1>7 DEF List, TInv, TypeOK
  <2>. QED
    BY <2>1 DEF TInv, TypeOK, CInv, Inodes
<1>8. CASE Dead \/ UNCHANGED vars
  BY <1>8 DEF Dead, vars, CInv, Inodes
<1>. QED
  BY <1>1, <1>2, <1>3, <1>4, <1>5, <1>6, <1>7, <1>8 DEF Next, Thread

(***************************************************************************)
(* For every table, thread count and path set: findByPath dereferences a   *)
(* null partEntry (filesystem.cpp:331) only when the entry table has no    *)
(* root row, because a name missing under a found entry breaks the loop.   *)
(***************************************************************************)
THEOREM CrashOnlyWithoutRootProved == Spec => []CrashOnlyWithoutRoot
<1>1. CInv => CrashOnlyWithoutRoot
  BY DEF CInv, CrashOnlyWithoutRoot
<1>. QED
  BY <1>1, InitTInv, NextTInv, InitCInv, NextCInv, PTL DEF Spec



=============================================================================
