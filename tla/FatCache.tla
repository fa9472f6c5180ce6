------------------------------- MODULE FatCache -------------------------------
(***************************************************************************)
(* CFATCache (lib/fs/fat/fatcache.cpp): buffers of sectors in a doubly     *)
(* linked list, the one used last in front.  A user gets the buffer of a   *)
(* sector, may change its data and then mark it dirty, and frees it.       *)
(* Dirty buffers are written by Flush, or when another sector needs the    *)
(* buffer.  What a sector holds is abstracted to whether it is the latest  *)
(* that a user has stored.                                                 *)
(*                                                                         *)
(* The list's lock keeps GetSector and Flush apart, not the user who has   *)
(* got a buffer before from Flush on another core.  Two users on different *)
(* cores never use the same buffer at once: the locks of the FAT, the      *)
(* directory and the file table see to that.                               *)
(***************************************************************************)
EXTENDS Integers, FiniteSets

CONSTANTS
  FAT_BUFFERS,
  Sectors,
  NoSector,     \* BUFFER_NOSECTOR
  CacheUsers,   \* the FAT, the directory, the open files
  CacheWriters, \* those of them that change sectors
  SeveralCores  \* whether a user runs while Flush waits for the disk: {FALSE}, {TRUE}

ASSUME CacheAssumption ==
  /\ FAT_BUFFERS \in Nat \ {0}
  /\ NoSector \notin Sectors
  /\ IsFiniteSet(CacheUsers) /\ CacheWriters \subseteq CacheUsers
  /\ SeveralCores # {} /\ SeveralCores \subseteq BOOLEAN

Buffers == 1 .. FAT_BUFFERS

VARIABLES
  buffer,        \* nSector, nUseCount, bDirty of each buffer; latest: whether its data is
  m_BufferList,  \* pFirst, pLast, and pNext, pPrev of each buffer; 0 is the null pointer
  disk,          \* whether the sector on the disk is the latest
  user,          \* the buffer a user has got, and what it does with it
  flush,         \* the buffer Flush has come to, and whether that is written
  cache          \* "open", "closing" (Flush in Close), "closed", "fault"; several cores

cacheVars == <<buffer, m_BufferList, disk, user, flush, cache>>

CacheTypeOK ==
  /\ buffer \in [Buffers -> [nSector : Sectors \cup {NoSector}, nUseCount : Nat,
                             bDirty : BOOLEAN, latest : BOOLEAN]]
  /\ m_BufferList \in [pFirst : Buffers, pLast : Buffers,
                       pNext : [Buffers -> Buffers \cup {0}], pPrev : [Buffers -> Buffers \cup {0}]]
  /\ disk \in [Sectors -> BOOLEAN]
  /\ user \in [CacheUsers -> [b : Buffers \cup {0},
                              does : {"nothing", "reads", "overwrites", "has stored"}]]
  /\ flush \in [b : Buffers \cup {0}, written : BOOLEAN]
  /\ cache \in [state : {"open", "closing", "closed", "fault"}, cores : BOOLEAN]

\* Open.
CacheInit ==
  /\ buffer = [b \in Buffers |-> [nSector |-> NoSector, nUseCount |-> 0,
                                  bDirty |-> FALSE, latest |-> FALSE]]
  /\ m_BufferList = [pFirst |-> 1, pLast |-> FAT_BUFFERS,
                     pNext |-> [b \in Buffers |-> IF b = FAT_BUFFERS THEN 0 ELSE b + 1],
                     pPrev |-> [b \in Buffers |-> b - 1]]
  /\ disk = [s \in Sectors |-> TRUE]
  /\ user = [u \in CacheUsers |-> [b |-> 0, does |-> "nothing"]]
  /\ flush = [b |-> 0, written |-> FALSE]
  /\ cache \in [state : {"open"}, cores : SeveralCores]

-----------------------------------------------------------------------------
(* The list *)

MoveBufferFirst(l, b) ==
  IF l.pFirst = b THEN l
  ELSE LET next == l.pNext[b]
           prev == l.pPrev[b]
       IN  [pFirst |-> b,
            pLast  |-> IF next = 0 THEN prev ELSE l.pLast,
            pNext  |-> [l.pNext EXCEPT ![prev] = next, ![b] = l.pFirst],
            pPrev  |-> [x \in Buffers |-> IF x = b THEN 0
                                          ELSE IF x = l.pFirst THEN b
                                          ELSE IF x = next THEN prev ELSE l.pPrev[x]]]

\* Mutant: the first buffer of the list is not told from the others.
MoveBufferLast_First(l, b) ==
  IF l.pLast = b THEN l
  ELSE LET next == l.pNext[b]
           prev == l.pPrev[b]
       IN  [pFirst |-> l.pFirst,
            pLast  |-> b,
            pPrev  |-> [l.pPrev EXCEPT ![next] = prev, ![b] = l.pLast],
            pNext  |-> [x \in Buffers |-> IF x = b THEN 0
                                          ELSE IF x = l.pLast THEN b
                                          ELSE IF x = prev THEN next ELSE l.pNext[x]]]

MoveBufferLast(l, b) ==
  IF l.pLast = b THEN l
  ELSE LET next == l.pNext[b]
           prev == l.pPrev[b]
       IN  [pFirst |-> IF prev = 0 THEN next ELSE l.pFirst,
            pLast  |-> b,
            pPrev  |-> [l.pPrev EXCEPT ![next] = prev, ![b] = l.pLast],
            pNext  |-> [x \in Buffers |-> IF x = b THEN 0
                                          ELSE IF x = l.pLast THEN b
                                          ELSE IF x = prev THEN next ELSE l.pNext[x]]]

\* The n-th buffer from the end.
FromLast == LET at[n \in Buffers] == IF n = 1 THEN m_BufferList.pLast
                                     ELSE m_BufferList.pPrev[at[n - 1]]
            IN  at

\* Of a set of buffers, the one nearest to the end of the list.
Nearest(bs) == FromLast[CHOOSE n \in Buffers :
                          FromLast[n] \in bs /\ \A k \in 1 .. n - 1 : FromLast[k] \notin bs]

-----------------------------------------------------------------------------
(* The calls of the users *)

\* Flush keeps the list's lock.
ListFree == flush.b = 0

\* On one core a user runs when Flush is over.
MayRun == cache.state = "open" /\ (cache.cores \/ ListFree)

Holding(s) == {b \in Buffers : buffer[b].nSector = s}
Got(u, b, writeOnly) == user' = [user EXCEPT ![u] =
                                  [b |-> b, does |-> IF writeOnly THEN "overwrites" ELSE "reads"]]

\* The sector has a buffer.
Hit(u, s, writeOnly) ==
  \E b \in Holding(s) :
    /\ m_BufferList' = MoveBufferFirst(m_BufferList, b)
    /\ buffer' = [buffer EXCEPT ![b].nUseCount = @ + 1]
    /\ Got(u, b, writeOnly)
    /\ UNCHANGED <<disk, flush, cache>>

\* The buffers to take for another sector.
Victims == IF Holding(NoSector) # {} THEN Holding(NoSector)
           ELSE {b \in Buffers : buffer[b].nUseCount = 0}

\* Mutant: a dirty buffer is not written before it is used for another sector.
Evicted_Dropped(b) == disk

\* What is on the disk when buffer b has got free.
Evicted(b) == IF buffer[b].nSector # NoSector /\ buffer[b].bDirty
              THEN [disk EXCEPT ![buffer[b].nSector] = buffer[b].latest] ELSE disk

\* The sector gets a buffer; its data is read if it is not to be overwritten.
Miss(u, s, writeOnly) ==
  /\ Holding(s) = {}
  /\ IF Victims = {}
     THEN cache' = [cache EXCEPT !.state = "fault"] /\ UNCHANGED <<buffer, m_BufferList, disk, user>>
     ELSE LET b == Nearest(Victims)
          IN  /\ disk' = Evicted(b)
              /\ buffer' = [buffer EXCEPT ![b] =
                             [nSector |-> s, nUseCount |-> 1, bDirty |-> FALSE,
                              latest |-> ~writeOnly /\ disk[s]]]
              /\ m_BufferList' = MoveBufferFirst(m_BufferList, b)
              /\ Got(u, b, writeOnly)
              /\ UNCHANGED cache
  /\ UNCHANGED flush

GetSector(u) ==
  /\ MayRun /\ ListFree /\ user[u].b = 0
  /\ \E s \in Sectors, writeOnly \in (IF u \in CacheWriters THEN BOOLEAN ELSE {FALSE}) :
       Hit(u, s, writeOnly) \/ Miss(u, s, writeOnly)

\* The user changes the data.
Store(u) ==
  /\ MayRun /\ u \in CacheWriters /\ user[u].b # 0 /\ user[u].does # "has stored"
  /\ buffer' = [buffer EXCEPT ![user[u].b].latest = TRUE]
  /\ disk' = [disk EXCEPT ![buffer[user[u].b].nSector] = FALSE]
  /\ user' = [user EXCEPT ![u].does = "has stored"]
  /\ UNCHANGED <<m_BufferList, flush, cache>>

MarkDirty(u) ==
  /\ MayRun /\ user[u].does = "has stored"
  /\ buffer' = [buffer EXCEPT ![user[u].b].bDirty = TRUE]
  /\ user' = [user EXCEPT ![u].does = "reads"]
  /\ UNCHANGED <<m_BufferList, disk, flush, cache>>

\* A buffer that will not be used again soon (bCritical = 0) goes to the end of the list.
FreeSector(u) ==
  /\ MayRun /\ user[u].does = "reads"
  /\ LET b == user[u].b
     IN  /\ buffer' = [buffer EXCEPT ![b].nUseCount = @ - 1]
         /\ \E bCritical \in BOOLEAN :
              IF bCritical \/ buffer[b].nUseCount > 1 THEN UNCHANGED m_BufferList
              ELSE ListFree /\ m_BufferList' = MoveBufferLast(m_BufferList, b)
  /\ user' = [user EXCEPT ![u] = [b |-> 0, does |-> "nothing"]]
  /\ UNCHANGED <<disk, flush, cache>>

-----------------------------------------------------------------------------
(* Flush, of Synchronize and of Close *)

Dirty(b) == buffer[b].nSector # NoSector /\ buffer[b].bDirty

\* The first dirty buffer of the list from b on: clean ones are passed over.
DirtyFrom(b) ==
  LET place == CHOOSE n \in Buffers : FromLast[n] = b
      dirty == {n \in 1 .. place : Dirty(FromLast[n])}
  IN  IF dirty = {} THEN 0 ELSE FromLast[CHOOSE n \in dirty : \A k \in dirty : k <= n]

Comes(b) == [b |-> IF b = 0 THEN 0 ELSE DirtyFrom(b), written |-> FALSE]

Begins(state) ==
  /\ cache.state = "open" /\ ListFree
  /\ flush' = Comes(m_BufferList.pFirst)
  /\ cache' = [cache EXCEPT !.state = state]
  /\ UNCHANGED <<buffer, m_BufferList, disk, user>>

Synchronize == Begins("open")

\* When the file system is unmounted no file is open.
Close == (\A u \in CacheUsers : user[u].b = 0) /\ Begins("closing")

FlushWrite ==
  /\ flush.b # 0 /\ ~flush.written
  /\ disk' = [disk EXCEPT ![buffer[flush.b].nSector] = buffer[flush.b].latest]
  /\ flush' = [flush EXCEPT !.written = TRUE]
  /\ UNCHANGED <<buffer, m_BufferList, user, cache>>

FlushClear ==
  /\ flush.b # 0 /\ flush.written
  /\ buffer' = [buffer EXCEPT ![flush.b].bDirty = FALSE]
  /\ flush' = Comes(m_BufferList.pNext[flush.b])
  /\ UNCHANGED <<m_BufferList, disk, user, cache>>

Closed ==
  /\ cache.state = "closing" /\ ListFree
  /\ cache' = [cache EXCEPT !.state = "closed"]
  /\ buffer' = [b \in Buffers |-> [buffer[b] EXCEPT !.nSector = NoSector]]
  /\ UNCHANGED <<m_BufferList, disk, user, flush>>

CacheNext ==
  \/ \E u \in CacheUsers : GetSector(u) \/ Store(u) \/ MarkDirty(u) \/ FreeSector(u)
  \/ Synchronize \/ Close \/ FlushWrite \/ FlushClear \/ Closed

CacheSpec == CacheInit /\ [][CacheNext]_cacheVars

-----------------------------------------------------------------------------
(* Properties *)

\* No store is lost: a buffer holds the latest data of its sector, unless a user is about to
\* overwrite it, and a sector without a buffer has its latest data on the disk, whatever has
\* been evicted, flushed and stored meanwhile (GetSector, Flush).
NothingLost ==
  \A s \in Sectors :
    /\ Holding(s) = {} => disk[s]
    /\ \A b \in Holding(s) :
         buffer[b].latest \/ \E u \in CacheUsers : user[u] = [b |-> b, does |-> "overwrites"]

\* A sector has one buffer at most, a buffer's use count is the number of its users, so that
\* none is taken from them, and each buffer is once in the list, which leads the same way in
\* both directions (MoveBufferFirst, MoveBufferLast).
BuffersExact ==
  /\ \A s \in Sectors : Cardinality(Holding(s)) <= 1
  /\ \A b \in Buffers : buffer[b].nUseCount = Cardinality({u \in CacheUsers : user[u].b = b})
  /\ {FromLast[n] : n \in Buffers} = Buffers
  /\ m_BufferList.pPrev[m_BufferList.pFirst] = 0 /\ m_BufferList.pNext[m_BufferList.pLast] = 0
  /\ \A b \in Buffers \ {m_BufferList.pLast} : m_BufferList.pPrev[m_BufferList.pNext[b]] = b

\* On one core the cache keeps every store and every buffer to its sector and users.
CacheKept == NothingLost /\ BuffersExact
=============================================================================
