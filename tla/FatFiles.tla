------------------------------- MODULE FatFiles -------------------------------
(***************************************************************************)
(* CFATFileSystem with CFAT, CFATInfo and CFATDirectory (lib/fs/fat): open *)
(* files, the root directory, the chains of clusters and the allocation of *)
(* clusters, on sectors that the cache keeps (FatCache).  A call is one    *)
(* step: it keeps m_FileTableLock, and on one core nothing runs during it. *)
(* A call that reads or writes several bytes is as many steps.  The names  *)
(* are valid, no file is read-only, and the disk is empty at first.        *)
(***************************************************************************)
EXTENDS Integers, FiniteSets, Sequences

CONSTANTS
  Titles,
  FAT_FILES,          \* how many files can be open
  m_nClusters,
  SectorSize,         \* FAT_SECTOR_SIZE
  RootEntries,        \* of the root directory; on FAT32, of one of its clusters
  Formats,            \* what m_FATInfo can be: FATType, SectorsPerCluster
  MaxSize             \* bound of the size of a file

ASSUME FilesAssumption ==
  /\ \A n \in {FAT_FILES, m_nClusters, SectorSize, RootEntries} : n \in Nat \ {0}
  /\ MaxSize \in Nat
  /\ Titles \cap {"free", "last", "none"} = {}
  /\ Formats # {}
  /\ Formats \subseteq [FATType : {"FAT16", "FAT32"}, SectorsPerCluster : Nat \ {0}]

Clusters == 2 .. m_nClusters + 1
EOC == 1                 \* the end of a chain (0xFFFF and others)
RootCluster == 2         \* on FAT32
FREE_COUNT_UNKNOWN == -1 \* on FAT16
Hs == 1 .. FAT_FILES

VARIABLES
  m_FATInfo, \* FATType, SectorsPerCluster
  alloc,     \* entry: the FAT; next, count: m_nNextFreeCluster and m_nFreeCount
  m_Root,    \* the entries of the root directory
  m_Files,   \* the table of open files
  data       \* the bytes of each cluster; NoByte in free ones, whose bytes nobody needs

ClusterSize == SectorSize * m_FATInfo.SectorsPerCluster

filesVars == <<m_FATInfo, alloc, m_Root, m_Files, data>>

\* A byte is known by its file and its place in the file.
Byte(title, n) == [title |-> title, place |-> n]
NoByte == Byte("none", 0)
Blank == [n \in 0 .. ClusterSize - 1 |-> NoByte]

NoFile == [nUseCount |-> 0, chTitle |-> "none", nSize |-> 0, nOffset |-> 0, nCluster |-> 0,
           nFirstCluster |-> 0, pBuffer |-> FALSE, bWrite |-> FALSE]
DirEntry(name, first, size) == [Name |-> name, nFirstCluster |-> first, nFileSize |-> size]
Unused == [i \in 1 .. RootEntries |-> DirEntry("last", 0, 0)]

FilesTypeOK ==
  /\ m_FATInfo \in Formats
  /\ alloc \in [entry : [Clusters -> Clusters \cup {0, EOC}], next : Clusters,
                count : 0 .. m_nClusters \cup {FREE_COUNT_UNKNOWN}]
  /\ \A i \in DOMAIN m_Root :
       m_Root[i] \in [Name : Titles \cup {"free", "last"}, nFirstCluster : Clusters \cup {0},
                      nFileSize : 0 .. MaxSize]
  /\ m_Files \in [Hs -> [nUseCount : {0, 1}, chTitle : Titles \cup {"none"},
                         nSize : 0 .. MaxSize, nOffset : 0 .. MaxSize,
                         nCluster : Clusters \cup {0, EOC}, nFirstCluster : Clusters \cup {0},
                         pBuffer : BOOLEAN, bWrite : BOOLEAN]]
  /\ data \in [Clusters -> [0 .. ClusterSize - 1 -> [title : Titles \cup {"none"}, place : 0 .. MaxSize]]]

FilesInit ==
  /\ m_FATInfo \in Formats
  /\ alloc = [entry |-> [c \in Clusters |-> IF m_FATInfo.FATType = "FAT32" /\ c = RootCluster
                                            THEN EOC ELSE 0],
              next |-> 2,
              count |-> IF m_FATInfo.FATType = "FAT32" THEN m_nClusters - 1 ELSE FREE_COUNT_UNKNOWN]
  /\ m_Root = Unused
  /\ m_Files = [h \in Hs |-> NoFile]
  /\ data = [c \in Clusters |-> Blank]

-----------------------------------------------------------------------------
(* CFAT and CFATInfo *)

\* AllocateCluster's result: the first free cluster, not looking before m_nNextFreeCluster.
FreeCluster(a) ==
  LET free == {c \in Clusters : c >= a.next /\ a.entry[c] = 0}
  IN  IF free = {} THEN 0 ELSE CHOOSE c \in free : \A d \in free : c <= d

\* After the last cluster, the next search begins at the first one.
Allocated(a, c) ==
  [entry |-> [a.entry EXCEPT ![c] = EOC],
   next |-> IF c <= m_nClusters THEN c + 1 ELSE 2,
   count |-> IF a.count > 0 THEN a.count - 1 ELSE a.count]

SetClusterEntry(a, c, next) == [a EXCEPT !.entry[c] = next]

\* The chain that begins with c: its n-th cluster, or EOC after its end.
Chain(a, c) ==
  LET at[n \in 0 .. m_nClusters] ==
        IF n = 0 THEN c ELSE IF at[n - 1] \in Clusters THEN a.entry[at[n - 1]] ELSE at[n - 1]
  IN  at
InChain(a, c) == {Chain(a, c)[n] : n \in 0 .. m_nClusters} \cap Clusters
Least(cs) == CHOOSE c \in cs : \A d \in cs : c <= d

Freed(count, n) == IF count = FREE_COUNT_UNKNOWN THEN count
                   ELSE IF count + n > m_nClusters THEN m_nClusters ELSE count + n

\* Mutant: ClusterFreed does not set the search back.
FreeClusterChain_Ahead(a, c) ==
  [entry |-> [d \in Clusters |-> IF d \in InChain(a, c) THEN 0 ELSE a.entry[d]],
   next |-> a.next,
   count |-> Freed(a.count, Cardinality(InChain(a, c)))]

FreeClusterChain(a, c) ==
  [entry |-> [d \in Clusters |-> IF d \in InChain(a, c) THEN 0 ELSE a.entry[d]],
   next |-> Least({a.next} \cup InChain(a, c)),
   count |-> Freed(a.count, Cardinality(InChain(a, c)))]

-----------------------------------------------------------------------------
(* CFATDirectory *)

\* The search for a title ends at the first entry that was never used.
Titled(title) ==
  {i \in DOMAIN m_Root : m_Root[i].Name = title
                         /\ \A j \in 1 .. i - 1 : m_Root[j].Name # "last" /\ m_Root[j].Name # title}

\* CreateEntry takes the first unused entry.  The root directory of FAT32 gets another cluster
\* if there is none; that of FAT16 is full then.
FirstFreeEntry(root) == {i \in DOMAIN root : /\ root[i].Name \in {"free", "last"}
                                             /\ \A j \in 1 .. i - 1 : root[j].Name \notin {"free", "last"}}
RootEnd(a) == CHOOSE c \in InChain(a, RootCluster) : a.entry[c] = EOC
\* Mutant: the new cluster is not linked to the others of the directory.
Grown_Unlinked(a) == Allocated(a, FreeCluster(a))

Grown(a) == SetClusterEntry(Allocated(a, FreeCluster(a)), RootEnd(a), FreeCluster(a))

-----------------------------------------------------------------------------
(* CFATFileSystem *)

FreeHandle(h) == m_Files[h].nUseCount = 0 /\ \A i \in 1 .. h - 1 : m_Files[i].nUseCount # 0

FileOpen(title) ==
  /\ \E h \in Hs, i \in Titled(title) :
       /\ FreeHandle(h)
       /\ m_Files' = [m_Files EXCEPT ![h] =
            [NoFile EXCEPT !.nUseCount = 1, !.chTitle = title,
                           !.nSize = m_Root[i].nFileSize, !.nCluster = m_Root[i].nFirstCluster]]
  /\ UNCHANGED <<m_FATInfo, alloc, m_Root, data>>

\* What FileDelete leaves.
RootWithout(title) ==
  [i \in DOMAIN m_Root |->
    IF i \in Titled(title) THEN [m_Root[i] EXCEPT !.Name = "free"] ELSE m_Root[i]]
AllocWithout(title) ==
  IF \E i \in Titled(title) : m_Root[i].nFirstCluster # 0
  THEN FreeClusterChain(alloc, m_Root[CHOOSE i \in Titled(title) : TRUE].nFirstCluster) ELSE alloc

\* A file that is deleted while it is open for reading is not followed any more: what is read
\* from it can be anything, or an assertion fails, and nothing else depends on it.
Orphan == [NoFile EXCEPT !.nUseCount = 1]
Orphaned(title) == [h \in Hs |-> IF m_Files[h].chTitle = title /\ ~m_Files[h].bWrite
                                 THEN Orphan ELSE m_Files[h]]

\* The bytes of clusters that get free.
DataIn(a) == [c \in Clusters |-> IF a.entry[c] = 0 THEN Blank ELSE data[c]]

FileDelete(title) ==
  /\ Titled(title) # {}
  /\ m_Root' = RootWithout(title)
  /\ alloc' = AllocWithout(title)
  /\ data' = DataIn(AllocWithout(title))
  /\ m_Files' = Orphaned(title)
  /\ UNCHANGED m_FATInfo

\* A file of this title is deleted before.
FileCreate(title) ==
  LET root == RootWithout(title)
      a == AllocWithout(title)
      full == FirstFreeEntry(root) = {}
      grows == full /\ m_FATInfo.FATType = "FAT32" /\ FreeCluster(a) # 0
      larger == IF grows THEN root \o Unused ELSE root
  IN
    /\ \E h \in Hs :
         /\ FreeHandle(h)
         /\ alloc' = IF grows THEN Grown(a) ELSE a
         /\ data' = DataIn(a)
         /\ IF full /\ ~grows
            THEN m_Root' = root /\ m_Files' = Orphaned(title)
            ELSE /\ m_Root' = [larger EXCEPT ![CHOOSE i \in FirstFreeEntry(larger) : TRUE] =
                                 DirEntry(title, 0, 0)]
                 /\ m_Files' = [Orphaned(title) EXCEPT ![h] =
                      [NoFile EXCEPT !.nUseCount = 1, !.chTitle = title, !.bWrite = TRUE]]
    /\ UNCHANGED m_FATInfo

\* Another file of this title may have been created, or none may exist any more.
FileClose(h) ==
  LET f == m_Files[h] IN
  /\ f.nUseCount = 1
  /\ m_Root' = [i \in DOMAIN m_Root |->
                 IF f.bWrite /\ i \in Titled(f.chTitle)
                 THEN DirEntry(f.chTitle, f.nFirstCluster, f.nSize) ELSE m_Root[i]]
  /\ m_Files' = [m_Files EXCEPT ![h] = NoFile]
  /\ UNCHANGED <<m_FATInfo, alloc, data>>

\* Whether the byte at this place is the first of a cluster, and its sector has to be found.
AtCluster(f) == ~f.pBuffer /\ (f.nOffset \div SectorSize) % m_FATInfo.SectorsPerCluster = 0

\* The sector is kept until its last byte.
Moved(f) == [f EXCEPT !.nOffset = f.nOffset + 1, !.pBuffer = (f.nOffset + 1) % SectorSize # 0]

\* Mutant: the chain is followed also when the sector is still in use.
ReadFrom_NoBuffer(f) ==
  IF (f.nOffset \div SectorSize) % m_FATInfo.SectorsPerCluster = 0 /\ f.nOffset > 0
  THEN alloc.entry[f.nCluster] ELSE f.nCluster

\* The cluster that is read from next.
ReadFrom(f) == IF AtCluster(f) /\ f.nOffset > 0 THEN alloc.entry[f.nCluster] ELSE f.nCluster

\* At the end of the file nothing is read; before the end of the chain the call does not fail
\* (ReadsTrue).
FileRead(h) ==
  LET f == m_Files[h] IN
  /\ f.nUseCount = 1 /\ ~f.bWrite /\ f.nOffset < f.nSize
  /\ m_Files' = [m_Files EXCEPT ![h] = Moved([f EXCEPT !.nCluster = ReadFrom(f)])]
  /\ UNCHANGED <<m_FATInfo, alloc, m_Root, data>>

\* A cluster is appended when the first byte of it is written.  Nothing is written when the
\* disk is full.
FileWrite(h) ==
  LET f == m_Files[h]
      c == IF AtCluster(f) THEN FreeCluster(alloc) ELSE f.nCluster
      first == IF f.nFirstCluster = 0 THEN c ELSE f.nFirstCluster
  IN
  /\ f.nUseCount = 1 /\ f.bWrite /\ f.nSize < MaxSize /\ c # 0
  /\ alloc' = IF ~AtCluster(f) THEN alloc
              ELSE IF f.nFirstCluster = 0 THEN Allocated(alloc, c)
              ELSE SetClusterEntry(Allocated(alloc, c), f.nCluster, c)
  /\ m_Files' = [m_Files EXCEPT ![h] = [Moved(f) EXCEPT !.nCluster = c, !.nFirstCluster = first,
                                                        !.nSize = f.nSize + 1]]
  /\ data' = [data EXCEPT ![c][f.nOffset % ClusterSize] = Byte(f.chTitle, f.nOffset)]
  /\ UNCHANGED <<m_FATInfo, m_Root>>

FilesNext ==
  \/ \E t \in Titles : FileOpen(t) \/ FileCreate(t) \/ FileDelete(t)
  \/ \E h \in Hs : FileClose(h) \/ FileRead(h) \/ FileWrite(h)

FilesSpec == FilesInit /\ [][FilesNext]_filesVars

-----------------------------------------------------------------------------
(* Properties *)

InClusters(n) == (n + ClusterSize - 1) \div ClusterSize
InUse == {i \in DOMAIN m_Root : m_Root[i].Name \in Titles}
Writers == {h \in Hs : m_Files[h].nUseCount = 1 /\ m_Files[h].bWrite}

\* The chains: of the files in the directory, of those that are being written, of the directory.
Chains == {<<"entry", i>> : i \in InUse} \cup {<<"writer", h>> : h \in Writers}
          \cup (IF m_FATInfo.FATType = "FAT32" THEN {<<"root", 0>>} ELSE {})
FirstOf(x) == CASE x[1] = "entry" -> m_Root[x[2]].nFirstCluster
              [] x[1] = "writer" -> m_Files[x[2]].nFirstCluster
              [] x[1] = "root" -> RootCluster
ClustersOf(x) == CASE x[1] = "entry" -> InClusters(m_Root[x[2]].nFileSize)
                   [] x[1] = "writer" -> InClusters(m_Files[x[2]].nSize)
                   [] x[1] = "root" -> Len(m_Root) \div RootEntries

\* No cluster belongs to two files, or to a file and the directory, and each chain is complete:
\* it ends after as many clusters as its size asks for, whatever has been created, deleted and
\* written under the same or other titles, and also when the disk has been full.
ChainsDisjoint ==
  /\ \A x \in Chains :
       /\ Cardinality(InChain(alloc, FirstOf(x))) = ClustersOf(x)
       /\ ClustersOf(x) > 0 => Chain(alloc, FirstOf(x))[ClustersOf(x)] = EOC
  /\ \A x, y \in Chains : x # y => InChain(alloc, FirstOf(x)) \cap InChain(alloc, FirstOf(y)) = {}

\* A cluster is found as long as one is free, since no free one lies before the place where the
\* search begins, and on FAT32 the count of free clusters for the FSInfo sector is right.
FreeClustersTrue ==
  /\ \A c \in Clusters : c < alloc.next => alloc.entry[c] # 0
  /\ m_FATInfo.FATType = "FAT32" => alloc.count = Cardinality({c \in Clusters : alloc.entry[c] = 0})

\* A file that is not deleted while it is open is read as it was written: the next byte is
\* where FileRead looks for it, although the chain is followed cluster by cluster, sectors are
\* kept between the calls, and other files are written at the same time.
ReadsTrue ==
  \A h \in Hs : LET f == m_Files[h] IN
    (f.nUseCount = 1 /\ ~f.bWrite /\ f.nOffset < f.nSize) =>
      /\ ReadFrom(f) \in Clusters
      /\ data[ReadFrom(f)][f.nOffset % ClusterSize] = Byte(f.chTitle, f.nOffset)
=============================================================================
