------------------------------- MODULE FuseFs -------------------------------
(***************************************************************************)
(* sbbfuse (src/sbbfuse/main.cpp) serving the recovered tree.  libfuse     *)
(* runs the callbacks on several threads at once.  Every callback starts   *)
(* with FileSystem::findByPath, which holds m_databaseMutex while it walks *)
(* the path from inode 2; sbb_readdir then calls findByParentInode without *)
(* the mutex.  Each row either lookup loads goes through                   *)
(* getEntryFromQuery, which inserts into the shared std::map               *)
(* m_diskEntries.                                                          *)
(*                                                                         *)
(* The entry table is one of Tables, fixed for the run (the scan that      *)
(* wrote it has finished).  The state is the mutex, the set of inodes in   *)
(* m_diskEntries and each thread's place in its callback.  A std::map     *)
(* operation is not atomic: it is entered in one step and completed in    *)
(* another, and a thread between the two is inside the map.               *)
(***************************************************************************)
EXTENDS Naturals, Sequences

CONSTANTS
    Threads,    \* libfuse worker threads
    Tables,     \* entry tables: sets of [inode, parent, name] rows
    Paths,      \* the paths callbacks are asked for, as sequences of names
    Ops,        \* the callbacks the kernel sends
    NoThread,   \* the mutex is free
    Null        \* nullptr

RootInode == 2      \* findByInode(2): "XXX TODO: Specific to APFS!"

ASSUME FuseAssumption ==
    /\ Ops \subseteq {"getattr", "open", "read", "readdir"}
    /\ Paths \subseteq Seq(STRING)     \* splitString's vector<string>
    /\ NoThread \notin Threads
    /\ Null \notin Nat
    /\ \A rs \in Tables : \A r \in rs : r.inode \in Nat

VARIABLES
    rows,       \* the entry table
    mutex,      \* owner of m_databaseMutex
    cached,     \* the keys of m_diskEntries
    pc,         \* each thread's place in its callback
    op,         \* the callback each thread runs
    path,       \* its path
    i,          \* index of the path part findByPath is at
    cur,        \* partEntry, then the entry the callback uses
    key,        \* the inode a thread inside the map looks up or inserts
    after,      \* where a thread goes once its map insert completes
    children,   \* rows of findByParentInode not yet loaded
    crashed     \* the process dereferenced a null Entry

vars == <<rows, mutex, cached, pc, op, path, i, cur, key, after, children, crashed>>

PCs == {"idle", "lock", "root", "find", "insert", "walk", "list", "crashed"}

(* The row getEntryFromQuery builds an Entry from; rows of the same parent *)
(* and name come back in an order the model does not fix.                  *)
NamedRows(parent, name) ==
    {r \in rows : r.parent = parent /\ r.name = name}

Inodes == {r.inode : r \in rows}

Init ==
    /\ rows \in Tables
    /\ mutex = NoThread
    /\ cached = {}
    /\ pc = [t \in Threads |-> "idle"]
    /\ op = [t \in Threads |-> "getattr"]
    /\ path = [t \in Threads |-> <<>>]
    /\ i = [t \in Threads |-> 1]
    /\ cur = [t \in Threads |-> Null]
    /\ key = [t \in Threads |-> Null]
    /\ after = [t \in Threads |-> "idle"]
    /\ children = [t \in Threads |-> {}]
    /\ crashed = FALSE

(* The kernel hands thread t a callback; every one calls findByPath first. *)
Call(t, o, p) ==
    /\ pc[t] = "idle"
    /\ pc' = [pc EXCEPT ![t] = "lock"]
    /\ op' = [op EXCEPT ![t] = o]
    /\ path' = [path EXCEPT ![t] = p]
    /\ i' = [i EXCEPT ![t] = 1]
    /\ UNCHANGED <<rows, mutex, cached, cur, key, after, children, crashed>>

(* Mutant: findByPath goes on without waiting for the mutex.              *)
LockIgnored(t) ==
    /\ pc[t] = "lock"
    /\ mutex' = t
    /\ pc' = [pc EXCEPT ![t] = "root"]
    /\ UNCHANGED <<rows, cached, op, path, i, cur, key, after, children, crashed>>

(* findByPath: m_databaseMutex->lock().                                    *)
Lock(t) ==
    /\ pc[t] = "lock"
    /\ mutex = NoThread
    /\ mutex' = t
    /\ pc' = [pc EXCEPT ![t] = "root"]
    /\ UNCHANGED <<rows, cached, op, path, i, cur, key, after, children, crashed>>

(* findByInode(2) enters m_diskEntries.find.                               *)
FindRoot(t) ==
    /\ pc[t] = "root"
    /\ pc' = [pc EXCEPT ![t] = "find"]
    /\ key' = [key EXCEPT ![t] = RootInode]
    /\ UNCHANGED <<rows, mutex, cached, op, path, i, cur, after, children, crashed>>

(* Mutant: a miss builds the root Entry whether or not the query found a  *)
(* row.                                                                    *)
FoundRootNoRowCheck(t) ==
    /\ pc[t] = "find"
    /\ \/ /\ RootInode \in cached
          /\ pc' = [pc EXCEPT ![t] = "walk"]
          /\ cur' = [cur EXCEPT ![t] = RootInode]
          /\ UNCHANGED after
       \/ /\ RootInode \notin cached
          /\ pc' = [pc EXCEPT ![t] = "insert"]
          /\ after' = [after EXCEPT ![t] = "walk"]
          /\ cur' = [cur EXCEPT ![t] = RootInode]
    /\ UNCHANGED <<rows, mutex, cached, op, path, i, key, children, crashed>>

(* The find returns.  A hit is the root; a miss queries the table, and a   *)
(* row there is loaded by getEntryFromQuery, whose insert is entered; no   *)
(* row leaves partEntry null.                                              *)
FoundRoot(t) ==
    /\ pc[t] = "find"
    /\ \/ /\ RootInode \in cached
          /\ pc' = [pc EXCEPT ![t] = "walk"]
          /\ cur' = [cur EXCEPT ![t] = RootInode]
          /\ UNCHANGED after
       \/ /\ RootInode \in Inodes \ cached
          /\ pc' = [pc EXCEPT ![t] = "insert"]
          /\ after' = [after EXCEPT ![t] = "walk"]
          /\ cur' = [cur EXCEPT ![t] = RootInode]
       \/ /\ RootInode \notin cached \cup Inodes
          /\ pc' = [pc EXCEPT ![t] = "walk"]
          /\ cur' = [cur EXCEPT ![t] = Null]
          /\ UNCHANGED after
    /\ UNCHANGED <<rows, mutex, cached, op, path, i, key, children, crashed>>

(* getEntryFromQuery's m_diskEntries.insert completes; a key already there *)
(* is left as it is.                                                       *)
Inserted(t) ==
    /\ pc[t] = "insert"
    /\ cached' = cached \cup {key[t]}
    /\ pc' = [pc EXCEPT ![t] = after[t]]
    /\ UNCHANGED <<rows, mutex, op, path, i, cur, key, after, children, crashed>>

(* The end of findByPath: the mutex is released and the callback goes on.  *)
(* sbb_readdir lists the children of a found entry; every other callback,  *)
(* and readdir of a missing path, returns.                                 *)
Unlocked(t) ==
    /\ mutex' = NoThread
    /\ IF op[t] = "readdir" /\ cur[t] # Null
         THEN /\ pc' = [pc EXCEPT ![t] = "list"]
              /\ children' = [children EXCEPT ![t] =
                                {r \in rows : r.parent = cur[t]}]
         ELSE /\ pc' = [pc EXCEPT ![t] = "idle"]
              /\ UNCHANGED children

(* Mutant: a missing name does not break out of the loop.                 *)
WalkNoBreak(t) ==
    /\ pc[t] = "walk"
    /\ \/ /\ i[t] > Len(path[t])
          /\ Unlocked(t)
          /\ UNCHANGED <<rows, cached, op, path, i, cur, key, after, crashed>>
       \/ /\ i[t] <= Len(path[t])
          /\ cur[t] = Null
          /\ crashed' = TRUE
          /\ pc' = [pc EXCEPT ![t] = "crashed"]
          /\ UNCHANGED <<rows, mutex, cached, op, path, i, cur, key, after, children>>
       \/ /\ i[t] <= Len(path[t])
          /\ cur[t] # Null
          /\ \E r \in NamedRows(cur[t], path[t][i[t]]) :
                /\ pc' = [pc EXCEPT ![t] = "insert"]
                /\ after' = [after EXCEPT ![t] = "walk"]
                /\ key' = [key EXCEPT ![t] = r.inode]
                /\ cur' = [cur EXCEPT ![t] = r.inode]
                /\ i' = [i EXCEPT ![t] = i[t] + 1]
          /\ UNCHANGED <<rows, mutex, cached, op, path, children, crashed>>
       \/ /\ i[t] <= Len(path[t])
          /\ cur[t] # Null
          /\ NamedRows(cur[t], path[t][i[t]]) = {}
          /\ cur' = [cur EXCEPT ![t] = Null]
          /\ i' = [i EXCEPT ![t] = i[t] + 1]
          /\ UNCHANGED <<rows, mutex, cached, pc, op, path, key, after, children, crashed>>

(* One pass of the loop over the path's parts, holding the mutex:          *)
(* findByName(partEntry->inode, part) loads the first matching row; no row *)
(* breaks out with null; a null partEntry is dereferenced.                 *)
Walk(t) ==
    /\ pc[t] = "walk"
    /\ \/ /\ i[t] > Len(path[t])
          /\ Unlocked(t)
          /\ UNCHANGED <<rows, cached, op, path, i, cur, key, after, crashed>>
       \/ /\ i[t] <= Len(path[t])
          /\ cur[t] = Null
          /\ crashed' = TRUE
          /\ pc' = [pc EXCEPT ![t] = "crashed"]
          /\ UNCHANGED <<rows, mutex, cached, op, path, i, cur, key, after, children>>
       \/ /\ i[t] <= Len(path[t])
          /\ cur[t] # Null
          /\ \E r \in NamedRows(cur[t], path[t][i[t]]) :
                /\ pc' = [pc EXCEPT ![t] = "insert"]
                /\ after' = [after EXCEPT ![t] = "walk"]
                /\ key' = [key EXCEPT ![t] = r.inode]
                /\ cur' = [cur EXCEPT ![t] = r.inode]
                /\ i' = [i EXCEPT ![t] = i[t] + 1]
          /\ UNCHANGED <<rows, mutex, cached, op, path, children, crashed>>
       \/ /\ i[t] <= Len(path[t])
          /\ cur[t] # Null
          /\ NamedRows(cur[t], path[t][i[t]]) = {}
          /\ cur' = [cur EXCEPT ![t] = Null]
          /\ i' = [i EXCEPT ![t] = Len(path[t]) + 1]
          /\ UNCHANGED <<rows, mutex, cached, pc, op, path, key, after, children, crashed>>

(* sbb_readdir: findByParentInode loads each child row through             *)
(* getEntryFromQuery, without the mutex; the filler runs when none is left.*)
List(t) ==
    /\ pc[t] = "list"
    /\ \/ /\ children[t] = {}
          /\ pc' = [pc EXCEPT ![t] = "idle"]
          /\ UNCHANGED <<key, after, children>>
       \/ \E r \in children[t] :
             /\ pc' = [pc EXCEPT ![t] = "insert"]
             /\ after' = [after EXCEPT ![t] = "list"]
             /\ key' = [key EXCEPT ![t] = r.inode]
             /\ children' = [children EXCEPT ![t] = @ \ {r}]
    /\ UNCHANGED <<rows, mutex, cached, op, path, i, cur, crashed>>

Thread(t) ==
    /\ ~crashed
    /\ \/ \E o \in Ops, p \in Paths : Call(t, o, p)
       \/ Lock(t) \/ FindRoot(t) \/ FoundRoot(t) \/ Inserted(t)
       \/ Walk(t) \/ List(t)

(* A segfault ends the process: nothing runs after it.                   *)
Dead ==
    /\ crashed
    /\ UNCHANGED vars

Next == (\E t \in Threads : Thread(t)) \/ Dead

Spec == Init /\ [][Next]_vars

-----------------------------------------------------------------------------

TypeOK ==
    /\ rows \in Tables
    /\ mutex \in Threads \cup {NoThread}
    /\ cached \subseteq Inodes
    /\ pc \in [Threads -> PCs]
    /\ op \in [Threads -> Ops \cup {"getattr"}]
    /\ path \in [Threads -> Paths \cup {<<>>}]
    /\ i \in [Threads -> Nat \ {0}]
    /\ cur \in [Threads -> Inodes \cup {Null}]
    /\ children \in [Threads -> SUBSET rows]
    /\ crashed \in BOOLEAN

(* A thread is inside m_diskEntries between entering a find or an insert   *)
(* and its return; an insert writes the tree.                              *)
InMap(t) == pc[t] \in {"find", "insert"}
Writing(t) == pc[t] = "insert"
Listing(t) == pc[t] = "insert" /\ after[t] = "list"

(* std::map is not thread-safe: no thread writes m_diskEntries while       *)
(* another is inside it (filesystem.cpp:230 and :317).                     *)
MapAccessExclusive ==
    \A t1, t2 \in Threads :
        (t1 # t2 /\ InMap(t1) /\ InMap(t2)) => ~Writing(t1) /\ ~Writing(t2)

(* m_databaseMutex serialises every map access findByPath makes: two      *)
(* threads are inside m_diskEntries with one writing only when one of them *)
(* is loading a child row for sbb_readdir (main.cpp:53), outside the lock. *)
OnlyListingRaces ==
    \A t1, t2 \in Threads :
        (t1 # t2 /\ InMap(t1) /\ InMap(t2) /\ (Writing(t1) \/ Writing(t2)))
            => Listing(t1) \/ Listing(t2)

(* findByPath dereferences a null partEntry (filesystem.cpp:331) only when *)
(* the entry table has no root row: a missing name breaks out of the loop. *)
CrashOnlyWithoutRoot == crashed => RootInode \notin Inodes

=============================================================================
