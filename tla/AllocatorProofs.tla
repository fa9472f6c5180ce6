---------------------------- MODULE AllocatorProofs ----------------------------
(***************************************************************************)
(* Proofs about Allocator, for a heap, buckets, pages and requests of any  *)
(* sizes.                                                                  *)
(***************************************************************************)
EXTENDS Allocator, TLAPS

\* The heap up to s_pNextBlock consists of blocks in use, free blocks and lost ones.
Placed(b, top) == b.at % BLOCK_ALIGN = 0 /\ HeapBase <= b.at /\ End(b) <= top

BlockTypes ==
  /\ s_pNextBlock \in Nat /\ s_nBlockReserve \in Nat
  /\ pFreeList \in [BucketSizes -> Seq(Block)]
  /\ DOMAIN asked \subseteq Block /\ asked \in [DOMAIN asked -> Sizes]

BlockInv ==
  /\ BlockTypes
  /\ s_pNextBlock % BLOCK_ALIGN = 0 /\ HeapBase <= s_pNextBlock /\ s_pNextBlock <= s_pBlockLimit
  /\ \A b \in DOMAIN asked : asked[b] <= b.nSize /\ Placed(b, s_pNextBlock)
  /\ \A s \in BucketSizes : \A i \in DOMAIN pFreeList[s] :
       Placed(pFreeList[s][i], s_pNextBlock) /\ pFreeList[s][i].nSize = s
  /\ \A b, d \in DOMAIN asked : b # d => Apart(b, d)
  /\ \A b \in DOMAIN asked : \A s \in BucketSizes : \A i \in DOMAIN pFreeList[s] :
       Apart(b, pFreeList[s][i])
  /\ \A s, t \in BucketSizes : \A i \in DOMAIN pFreeList[s] : \A j \in DOMAIN pFreeList[t] :
       s # t \/ i # j => Apart(pFreeList[s][i], pFreeList[t][j])

PageTypes == s_pNextPage \in Nat /\ freePages \in Seq(Nat) /\ pages \in SUBSET Nat

PagePlaced(p) == PageBase <= p /\ p + PAGE_SIZE <= s_pPageLimit /\ p + PAGE_SIZE <= s_pNextPage
PagesApart(p, q) == p + PAGE_SIZE <= q \/ q + PAGE_SIZE <= p

PageInv ==
  /\ PageTypes
  /\ PageBase <= s_pNextPage
  /\ \A p \in pages : PagePlaced(p)
  /\ \A i \in DOMAIN freePages : PagePlaced(freePages[i])
  /\ \A p, q \in pages : p # q => PagesApart(p, q)
  /\ \A p \in pages : \A i \in DOMAIN freePages : PagesApart(p, freePages[i])
  /\ \A i, j \in DOMAIN freePages : i # j => PagesApart(freePages[i], freePages[j])

-----------------------------------------------------------------------------
(* The first element of a list is taken, or put there. *)

LEMMA Taken ==
  ASSUME NEW S, NEW s \in Seq(S), s # <<>>
  PROVE  /\ 1 \in DOMAIN s /\ Head(s) = s[1] /\ Head(s) \in S
         /\ Tail(s) \in Seq(S)
         /\ \A i \in DOMAIN Tail(s) : i + 1 \in DOMAIN s /\ i + 1 # 1 /\ Tail(s)[i] = s[i + 1]
OBVIOUS

LEMMA PutFirst ==
  ASSUME NEW S, NEW s \in Seq(S), NEW e \in S
  PROVE  /\ <<e>> \o s \in Seq(S)
         /\ \A i \in DOMAIN (<<e>> \o s) :
              \/ i = 1 /\ (<<e>> \o s)[i] = e
              \/ i # 1 /\ i - 1 \in DOMAIN s /\ (<<e>> \o s)[i] = s[i - 1]
OBVIOUS

-----------------------------------------------------------------------------
(* Blocks *)

LEMMA LengthFits ==
  ASSUME NEW size \in Nat
  PROVE  /\ Length(size) \in Nat /\ Length(size) % BLOCK_ALIGN = 0
         /\ HeaderSize + size <= Length(size) /\ Length(size) < HeaderSize + size + BLOCK_ALIGN
BY DEF Length, HeaderSize, BLOCK_ALIGN

\* The block that is cut off begins where the others end, and an overflow is found out.
LEMMA NewBlock ==
  ASSUME BlockInv, NEW size \in BucketSizes \cup Sizes,
         s_pNextBlock < Wrapped(s_pNextBlock + Length(size)),
         Wrapped(s_pNextBlock + Length(size)) <= s_pBlockLimit - s_nBlockReserve,
         s_pNextBlock' = Wrapped(s_pNextBlock + Length(size))
  PROVE  /\ s_pNextBlock' \in Nat /\ s_pNextBlock' % BLOCK_ALIGN = 0
         /\ s_pNextBlock + HeaderSize + size <= s_pNextBlock'
         /\ s_pNextBlock <= s_pNextBlock' /\ s_pNextBlock' <= s_pBlockLimit
<1>1. /\ size \in Nat /\ size + HeaderSize + BLOCK_ALIGN <= AddressSpace /\ AddressSpace \in Nat
      /\ s_pNextBlock \in Nat /\ s_nBlockReserve \in Nat /\ s_pBlockLimit \in Nat
      /\ s_pNextBlock % BLOCK_ALIGN = 0
  BY AllocatorAssumption DEF BlockInv, BlockTypes
<1>2. /\ Length(size) \in Nat /\ Length(size) % BLOCK_ALIGN = 0
      /\ HeaderSize + size <= Length(size) /\ Length(size) < HeaderSize + size + BLOCK_ALIGN
  BY <1>1, LengthFits
<1>3. s_pNextBlock' = s_pNextBlock + Length(size)
  <2>1. s_pNextBlock + Length(size) - AddressSpace <= s_pNextBlock
    BY <1>1, <1>2 DEF HeaderSize, BLOCK_ALIGN
  <2>2. CASE s_pNextBlock + Length(size) < AddressSpace
    BY <2>2 DEF Wrapped
  <2>3. CASE ~(s_pNextBlock + Length(size) < AddressSpace)
    <3>1. s_pNextBlock < s_pNextBlock + Length(size) - AddressSpace
      <4>1. Wrapped(s_pNextBlock + Length(size)) = s_pNextBlock + Length(size) - AddressSpace
        BY <1>1, <1>2, <2>3 DEF Wrapped
      <4> QED
        BY <4>1
    <3> QED
      BY <1>1, <1>2, <2>1, <3>1
  <2> QED
    BY <2>2, <2>3
<1> QED
  BY <1>1, <1>2, <1>3 DEF HeaderSize, BLOCK_ALIGN

LEMMA InitBlocks == MemoryInit => BlockInv
<1> SUFFICES ASSUME MemoryInit PROVE BlockInv
  OBVIOUS
<1>1. DOMAIN asked = {} /\ asked \in [DOMAIN asked -> Sizes]
  BY DEF MemoryInit
<1>2. \A s \in BucketSizes : DOMAIN pFreeList[s] = {}
  BY DEF MemoryInit
<1>3. BlockTypes
  BY <1>1, AllocatorAssumption DEF MemoryInit, BlockTypes
<1> QED
  BY <1>1, <1>2, <1>3, AllocatorAssumption DEF MemoryInit, BlockInv

\* The blocks in use after malloc and after realloc.
LEMMA OwnedBy ==
  ASSUME BlockTypes, NEW b \in Block, NEW n \in Sizes, asked' = Owned(b, n)
  PROVE  /\ DOMAIN asked' = DOMAIN asked \cup {b}
         /\ asked'[b] = n
         /\ \A d \in DOMAIN asked : d # b => asked'[d] = asked[d]
         /\ DOMAIN asked' \subseteq Block /\ asked' \in [DOMAIN asked' -> Sizes]
BY DEF BlockTypes, Owned

LEMMA mallocFreeKeeps ==
  ASSUME BlockInv, NEW n \in Sizes, mallocFree(n)
  PROVE  BlockInv'
<1>1. PICK size \in BucketSizes :
        /\ IsSizeFor(size, n) /\ pFreeList[size] # <<>>
        /\ pFreeList' = [pFreeList EXCEPT ![size] = Tail(pFreeList[size])]
        /\ asked' = Owned(Head(pFreeList[size]), n)
        /\ s_pNextBlock' = s_pNextBlock /\ s_nBlockReserve' = s_nBlockReserve
  BY DEF mallocFree
<1> DEFINE b == pFreeList[size][1]
           At(s, i) == IF s = size THEN i + 1 ELSE i
<1>2. BlockTypes /\ pFreeList[size] \in Seq(Block) /\ Sizes \subseteq Nat
  BY AllocatorAssumption DEF BlockInv, BlockTypes
<1>3. /\ 1 \in DOMAIN pFreeList[size] /\ Head(pFreeList[size]) = b /\ b \in Block
      /\ Tail(pFreeList[size]) \in Seq(Block)
      /\ \A i \in DOMAIN Tail(pFreeList[size]) :
           /\ i + 1 \in DOMAIN pFreeList[size] /\ i + 1 # 1
           /\ Tail(pFreeList[size])[i] = pFreeList[size][i + 1]
  BY <1>1, <1>2, Taken
<1>4. /\ pFreeList' \in [BucketSizes -> Seq(Block)]
      /\ \A s \in BucketSizes : \A i \in DOMAIN pFreeList'[s] :
           /\ At(s, i) \in DOMAIN pFreeList[s] /\ pFreeList'[s][i] = pFreeList[s][At(s, i)]
           /\ ~(s = size /\ At(s, i) = 1)
  BY <1>1, <1>2, <1>3 DEF BlockTypes
<1>5. Placed(b, s_pNextBlock) /\ b.nSize = size /\ n <= size
  BY <1>1, <1>2, <1>3 DEF BlockInv, IsSizeFor
<1> HIDE DEF b
<1>6. /\ DOMAIN asked' = DOMAIN asked \cup {b} /\ asked'[b] = n
      /\ \A d \in DOMAIN asked : d # b => asked'[d] = asked[d]
      /\ DOMAIN asked' \subseteq Block /\ asked' \in [DOMAIN asked' -> Sizes]
  BY <1>1, <1>2, <1>3, OwnedBy
<1>7. s_pNextBlock' = s_pNextBlock
  BY <1>1
<1>8. \A d \in DOMAIN asked' : asked'[d] <= d.nSize /\ Placed(d, s_pNextBlock')
  BY <1>5, <1>6, <1>7 DEF BlockInv
<1>9. \A s \in BucketSizes : \A i \in DOMAIN pFreeList'[s] :
        Placed(pFreeList'[s][i], s_pNextBlock') /\ pFreeList'[s][i].nSize = s
  BY <1>4, <1>7 DEF BlockInv
\* What is left in the lists is apart from what has been taken.
<1>10. \A s \in BucketSizes : \A i \in DOMAIN pFreeList'[s] : Apart(b, pFreeList'[s][i])
  <2> SUFFICES ASSUME NEW s \in BucketSizes, NEW i \in DOMAIN pFreeList'[s]
               PROVE  Apart(b, pFreeList'[s][i])
    OBVIOUS
  <2>1. At(s, i) \in DOMAIN pFreeList[s] /\ (s # size \/ At(s, i) # 1)
    BY <1>4
  <2> HIDE DEF At
  <2> QED
    BY <1>3, <1>4, <2>1 DEF BlockInv, b
<1>11. \A d, e \in DOMAIN asked' : d # e => Apart(d, e)
  BY <1>3, <1>6 DEF BlockInv, b, Apart
<1>12. \A d \in DOMAIN asked' : \A s \in BucketSizes : \A i \in DOMAIN pFreeList'[s] :
         Apart(d, pFreeList'[s][i])
  BY <1>4, <1>6, <1>10 DEF BlockInv
<1>13. \A s, t \in BucketSizes : \A i \in DOMAIN pFreeList'[s] : \A j \in DOMAIN pFreeList'[t] :
         s # t \/ i # j => Apart(pFreeList'[s][i], pFreeList'[t][j])
  <2> SUFFICES ASSUME NEW s \in BucketSizes, NEW t \in BucketSizes,
                      NEW i \in DOMAIN pFreeList'[s], NEW j \in DOMAIN pFreeList'[t],
                      s # t \/ i # j
               PROVE  Apart(pFreeList'[s][i], pFreeList'[t][j])
    OBVIOUS
  <2>1. At(s, i) \in DOMAIN pFreeList[s] /\ At(t, j) \in DOMAIN pFreeList[t]
    BY <1>4
  <2>2. s # t \/ At(s, i) # At(t, j)
    <3>1. i \in Nat /\ j \in Nat
      BY <1>4
    <3> QED
      BY <3>1
  <2> HIDE DEF At
  <2> QED
    BY <1>4, <2>1, <2>2 DEF BlockInv
<1>14. BlockTypes'
  BY <1>1, <1>2, <1>4, <1>6 DEF BlockTypes
<1> QED
  BY <1>1, <1>8, <1>9, <1>11, <1>12, <1>13, <1>14 DEF BlockInv

LEMMA mallocNewKeeps ==
  ASSUME BlockInv, NEW n \in Sizes, mallocNew(n)
  PROVE  BlockInv'
<1>1. PICK size \in BucketSizes \cup {n} :
        /\ IsSizeFor(size, n)
        /\ s_pNextBlock < Wrapped(s_pNextBlock + Length(size))
        /\ Wrapped(s_pNextBlock + Length(size)) <= s_pBlockLimit - s_nBlockReserve
        /\ s_pNextBlock' = Wrapped(s_pNextBlock + Length(size))
        /\ asked' = Owned([at |-> s_pNextBlock, nSize |-> size], n)
        /\ s_nBlockReserve' = s_nBlockReserve /\ pFreeList' = pFreeList
  BY DEF mallocNew
<1> DEFINE b == [at |-> s_pNextBlock, nSize |-> size]
<1>2. /\ BlockTypes /\ size \in Nat /\ n \in Nat /\ n <= size /\ size \in BucketSizes \cup Sizes
      /\ HeapBase \in Nat
  <2>1. BucketSizes \subseteq Nat /\ Sizes \subseteq Nat /\ HeapBase \in Nat /\ BlockTypes
    BY AllocatorAssumption DEF BlockInv
  <2>2. size \in Nat /\ n \in Nat /\ size \in BucketSizes \cup Sizes
    BY <1>1, <2>1
  <2>3. n <= size
    BY <1>1, <2>2 DEF IsSizeFor
  <2> QED
    BY <2>1, <2>2, <2>3
<1>3. b \in Block
  BY <1>2 DEF Block, BlockTypes
<1>4. /\ s_pNextBlock' \in Nat /\ s_pNextBlock' % BLOCK_ALIGN = 0
      /\ s_pNextBlock + HeaderSize + size <= s_pNextBlock'
      /\ s_pNextBlock <= s_pNextBlock' /\ s_pNextBlock' <= s_pBlockLimit
  BY <1>1, <1>2, NewBlock
<1>5. /\ DOMAIN asked' = DOMAIN asked \cup {b} /\ asked'[b] = n
      /\ \A d \in DOMAIN asked : d # b => asked'[d] = asked[d]
      /\ DOMAIN asked' \subseteq Block /\ asked' \in [DOMAIN asked' -> Sizes]
  BY <1>1, <1>2, <1>3, OwnedBy
<1>6. Placed(b, s_pNextBlock') /\ n <= b.nSize
  BY <1>2, <1>4 DEF Placed, End, BlockInv
<1>7. \A d \in Block : Placed(d, s_pNextBlock) => Placed(d, s_pNextBlock') /\ Apart(d, b) /\ Apart(b, d)
  BY <1>2, <1>4 DEF Placed, Apart, End, Block, BlockTypes, HeaderSize
<1>8. /\ \A d \in DOMAIN asked : d \in Block
      /\ \A s \in BucketSizes : \A i \in DOMAIN pFreeList[s] : pFreeList[s][i] \in Block
  BY <1>2 DEF BlockTypes
<1> HIDE DEF b
<1>9. \A d \in DOMAIN asked' : asked'[d] <= d.nSize /\ Placed(d, s_pNextBlock')
  BY <1>5, <1>6, <1>7, <1>8 DEF BlockInv
<1>10. \A s \in BucketSizes : \A i \in DOMAIN pFreeList'[s] :
         Placed(pFreeList'[s][i], s_pNextBlock') /\ pFreeList'[s][i].nSize = s
  BY <1>1, <1>7, <1>8 DEF BlockInv
<1>11. \A d, e \in DOMAIN asked' : d # e => Apart(d, e)
  BY <1>5, <1>7, <1>8 DEF BlockInv
<1>12. \A d \in DOMAIN asked' : \A s \in BucketSizes : \A i \in DOMAIN pFreeList'[s] :
         Apart(d, pFreeList'[s][i])
  BY <1>1, <1>5, <1>7, <1>8 DEF BlockInv
<1>13. BlockTypes'
  BY <1>1, <1>2, <1>4, <1>5 DEF BlockTypes
<1>14. HeapBase <= s_pNextBlock'
  BY <1>2, <1>4 DEF BlockInv, BlockTypes
<1> QED
  BY <1>1, <1>4, <1>9, <1>10, <1>11, <1>12, <1>13, <1>14 DEF BlockInv

LEMMA mallocFailsKeeps ==
  ASSUME BlockInv, NEW n \in Sizes, mallocFails(n)
  PROVE  BlockInv'
<1>1. /\ s_nBlockReserve' = 0 /\ s_pNextBlock' = s_pNextBlock /\ pFreeList' = pFreeList
      /\ asked' = asked
  BY DEF mallocFails
<1> QED
  BY <1>1 DEF BlockInv, BlockTypes, Placed

LEMMA freeKeeps ==
  ASSUME BlockInv, NEW b \in DOMAIN asked, free(b)
  PROVE  BlockInv'
<1> DEFINE At(s, i) == IF s = b.nSize THEN i - 1 ELSE i
           IsFreed(s, i) == s = b.nSize /\ i = 1
<1>1. /\ asked' = [d \in DOMAIN asked \ {b} |-> asked[d]]
      /\ pFreeList' = [s \in BucketSizes |->
           IF s = b.nSize THEN <<b>> \o pFreeList[s] ELSE pFreeList[s]]
      /\ s_pNextBlock' = s_pNextBlock /\ s_nBlockReserve' = s_nBlockReserve
  BY DEF free
<1>2. BlockTypes /\ b \in Block /\ \A s \in BucketSizes : pFreeList[s] \in Seq(Block)
  BY DEF BlockInv, BlockTypes
<1>3. \A s \in BucketSizes :
        /\ <<b>> \o pFreeList[s] \in Seq(Block)
        /\ \A i \in DOMAIN (<<b>> \o pFreeList[s]) :
             \/ i = 1 /\ (<<b>> \o pFreeList[s])[i] = b
             \/ /\ i # 1 /\ i - 1 \in DOMAIN pFreeList[s]
                /\ (<<b>> \o pFreeList[s])[i] = pFreeList[s][i - 1]
  BY <1>2, PutFirst
<1>4. pFreeList' \in [BucketSizes -> Seq(Block)]
  BY <1>1, <1>2, <1>3
<1>5. ASSUME NEW s \in BucketSizes, NEW i \in DOMAIN pFreeList'[s]
      PROVE  \/ IsFreed(s, i) /\ pFreeList'[s][i] = b
             \/ /\ ~IsFreed(s, i) /\ At(s, i) \in DOMAIN pFreeList[s]
                /\ pFreeList'[s][i] = pFreeList[s][At(s, i)]
  BY <1>1, <1>3
<1>6. /\ DOMAIN asked' = DOMAIN asked \ {b} /\ DOMAIN asked' \subseteq Block
      /\ asked' \in [DOMAIN asked' -> Sizes]
      /\ \A d \in DOMAIN asked' : asked'[d] = asked[d]
  BY <1>1, <1>2 DEF BlockTypes
<1>7. s_pNextBlock' = s_pNextBlock
  BY <1>1
<1>8. BlockTypes'
  BY <1>1, <1>2, <1>4, <1>6 DEF BlockTypes
<1>9. ASSUME NEW s \in BucketSizes, NEW t \in BucketSizes, NEW i \in DOMAIN pFreeList'[s],
             NEW j \in DOMAIN pFreeList'[t], s # t \/ i # j, ~IsFreed(s, i), ~IsFreed(t, j)
      PROVE  s # t \/ At(s, i) # At(t, j)
  <2>1. i \in Nat /\ j \in Nat
    BY <1>4
  <2> QED
    BY <1>9, <2>1
<1> HIDE DEF At
<1>10. \A s \in BucketSizes : \A i \in DOMAIN pFreeList'[s] :
         Placed(pFreeList'[s][i], s_pNextBlock') /\ pFreeList'[s][i].nSize = s
  <2> SUFFICES ASSUME NEW s \in BucketSizes, NEW i \in DOMAIN pFreeList'[s]
               PROVE  Placed(pFreeList'[s][i], s_pNextBlock) /\ pFreeList'[s][i].nSize = s
    BY <1>7
  <2>1. CASE IsFreed(s, i)
    BY <1>5, <2>1 DEF BlockInv
  <2>2. CASE ~IsFreed(s, i)
    BY <1>5, <2>2 DEF BlockInv
  <2> QED
    BY <2>1, <2>2
<1>11. \A d \in DOMAIN asked' : \A s \in BucketSizes : \A i \in DOMAIN pFreeList'[s] :
         Apart(d, pFreeList'[s][i])
  <2> SUFFICES ASSUME NEW d \in DOMAIN asked \ {b},
                      NEW s \in BucketSizes, NEW i \in DOMAIN pFreeList'[s]
               PROVE  Apart(d, pFreeList'[s][i])
    BY <1>6
  <2>1. CASE IsFreed(s, i)
    BY <1>5, <2>1 DEF BlockInv
  <2>2. CASE ~IsFreed(s, i)
    BY <1>5, <2>2 DEF BlockInv
  <2> QED
    BY <2>1, <2>2
<1>12. \A s, t \in BucketSizes : \A i \in DOMAIN pFreeList'[s] : \A j \in DOMAIN pFreeList'[t] :
         s # t \/ i # j => Apart(pFreeList'[s][i], pFreeList'[t][j])
  <2> SUFFICES ASSUME NEW s \in BucketSizes, NEW t \in BucketSizes,
                      NEW i \in DOMAIN pFreeList'[s], NEW j \in DOMAIN pFreeList'[t],
                      s # t \/ i # j
               PROVE  Apart(pFreeList'[s][i], pFreeList'[t][j])
    OBVIOUS
  <2>1. CASE IsFreed(s, i) /\ IsFreed(t, j)
    BY <2>1
  <2>2. CASE IsFreed(s, i) /\ ~IsFreed(t, j)
    <3>1. Apart(b, pFreeList[t][At(t, j)])
      BY <1>5, <2>2 DEF BlockInv
    <3> QED
      BY <1>5, <2>2, <3>1
  <2>3. CASE ~IsFreed(s, i) /\ IsFreed(t, j)
    <3>1. Apart(b, pFreeList[s][At(s, i)])
      BY <1>5, <2>3 DEF BlockInv
    <3>2. pFreeList'[s][i] = pFreeList[s][At(s, i)] /\ pFreeList'[t][j] = b
      BY <1>5, <2>3
    <3> QED
      BY <3>1, <3>2 DEF Apart
  <2>4. CASE ~IsFreed(s, i) /\ ~IsFreed(t, j)
    <3>1. s # t \/ At(s, i) # At(t, j)
      BY <1>9, <2>4
    <3>2. /\ At(s, i) \in DOMAIN pFreeList[s] /\ pFreeList'[s][i] = pFreeList[s][At(s, i)]
          /\ At(t, j) \in DOMAIN pFreeList[t] /\ pFreeList'[t][j] = pFreeList[t][At(t, j)]
      BY <1>5, <2>4
    <3> QED
      BY <3>1, <3>2 DEF BlockInv
  <2> QED
    BY <2>1, <2>2, <2>3, <2>4
<1>13. \A d \in DOMAIN asked' : asked'[d] <= d.nSize /\ Placed(d, s_pNextBlock')
  BY <1>6, <1>7 DEF BlockInv
<1>14. \A d, e \in DOMAIN asked' : d # e => Apart(d, e)
  BY <1>6 DEF BlockInv
<1> QED
  BY <1>7, <1>8, <1>10, <1>11, <1>12, <1>13, <1>14 DEF BlockInv

LEMMA reallocKeeps ==
  ASSUME BlockInv, NEW b \in DOMAIN asked, NEW n \in Sizes, realloc(b, n)
  PROVE  BlockInv'
<1>1. /\ n <= b.nSize /\ asked' = [asked EXCEPT ![b] = n]
      /\ s_pNextBlock' = s_pNextBlock /\ s_nBlockReserve' = s_nBlockReserve
      /\ pFreeList' = pFreeList
  <2>1. n \in Nat /\ b.nSize \in Nat /\ b.nSize >= n
    BY AllocatorAssumption DEF realloc, BlockInv, BlockTypes, Block
  <2> QED
    BY <2>1 DEF realloc
<1>2. /\ DOMAIN asked' = DOMAIN asked /\ asked' \in [DOMAIN asked' -> Sizes]
      /\ asked'[b] = n /\ \A d \in DOMAIN asked : d # b => asked'[d] = asked[d]
  BY <1>1 DEF BlockInv, BlockTypes
<1>3. BlockTypes'
  BY <1>1, <1>2 DEF BlockInv, BlockTypes
<1>4. \A d \in DOMAIN asked' : asked'[d] <= d.nSize /\ Placed(d, s_pNextBlock')
  BY <1>1, <1>2 DEF BlockInv
<1>5. \A d, e \in DOMAIN asked' : d # e => Apart(d, e)
  BY <1>2 DEF BlockInv
<1>6. \A d \in DOMAIN asked' : \A s \in BucketSizes : \A i \in DOMAIN pFreeList'[s] :
        Apart(d, pFreeList'[s][i])
  BY <1>1, <1>2 DEF BlockInv
<1> QED
  BY <1>1, <1>3, <1>4, <1>5, <1>6 DEF BlockInv

-----------------------------------------------------------------------------
(* Pages *)

LEMMA InitPages == MemoryInit => PageInv
<1> SUFFICES ASSUME MemoryInit PROVE PageInv
  OBVIOUS
<1>1. DOMAIN freePages = {} /\ pages = {} /\ freePages \in Seq(Nat) /\ s_pNextPage = PageBase
  BY DEF MemoryInit
<1> QED
  BY <1>1, AllocatorAssumption DEF PageInv, PageTypes

LEMMA pallocFreeKeeps ==
  ASSUME PageInv, pallocFree
  PROVE  PageInv'
<1> DEFINE p == freePages[1]
<1>1. /\ freePages # <<>> /\ freePages' = Tail(freePages) /\ pages' = pages \cup {Head(freePages)}
      /\ s_pNextPage' = s_pNextPage
  BY DEF pallocFree
<1>2. /\ 1 \in DOMAIN freePages /\ Head(freePages) = p /\ p \in Nat
      /\ freePages' \in Seq(Nat)
      /\ \A i \in DOMAIN freePages' :
           /\ i + 1 \in DOMAIN freePages /\ i + 1 # 1
           /\ freePages'[i] = freePages[i + 1]
  BY <1>1, Taken DEF PageInv, PageTypes
<1>3. PagePlaced(p)
  BY <1>2 DEF PageInv
<1>4. /\ \A i \in DOMAIN freePages' : PagesApart(p, freePages'[i])
      /\ \A q \in pages : PagesApart(p, q) /\ PagesApart(q, p)
  BY <1>2 DEF PageInv, PagesApart
<1>5. \A i, j \in DOMAIN freePages' : i # j => PagesApart(freePages'[i], freePages'[j])
  <2> SUFFICES ASSUME NEW i \in DOMAIN freePages', NEW j \in DOMAIN freePages', i # j
               PROVE  PagesApart(freePages'[i], freePages'[j])
    OBVIOUS
  <2>1. i \in Nat /\ j \in Nat
    BY <1>2
  <2>2. i + 1 # j + 1
    BY <2>1
  <2> QED
    BY <1>2, <2>2 DEF PageInv
<1> HIDE DEF p
<1>6. \A q \in pages' : q = p \/ q \in pages
  BY <1>1, <1>2
<1>7. \A q, r \in pages' : q # r => PagesApart(q, r)
  BY <1>4, <1>6 DEF PageInv
<1>8. \A q \in pages' : \A i \in DOMAIN freePages' : PagesApart(q, freePages'[i])
  BY <1>2, <1>4, <1>6 DEF PageInv
<1>9. PageTypes'
  BY <1>1, <1>2 DEF PageInv, PageTypes
<1> QED
  BY <1>1, <1>2, <1>3, <1>5, <1>6, <1>7, <1>8, <1>9 DEF PageInv, PagePlaced

LEMMA pallocNewKeeps ==
  ASSUME PageInv, pallocNew
  PROVE  PageInv'
<1> DEFINE p == s_pNextPage
<1>1. /\ freePages = <<>> /\ freePages' = freePages /\ s_pNextPage' = p + PAGE_SIZE
      /\ pages' = IF p + PAGE_SIZE > s_pPageLimit THEN pages ELSE pages \cup {p}
  BY DEF pallocNew
<1>2. /\ p \in Nat /\ PAGE_SIZE \in Nat /\ PageBase \in Nat /\ s_pPageLimit \in Nat /\ PageBase <= p
      /\ pages \subseteq Nat
  BY AllocatorAssumption DEF PageInv, PageTypes
<1> HIDE DEF p
<1>3. p = s_pNextPage
  BY DEF p
<1>4. \A q \in pages : PagePlaced(q)' /\ PagesApart(p, q) /\ PagesApart(q, p)
  <2> SUFFICES ASSUME NEW q \in pages
               PROVE  PagePlaced(q)' /\ PagesApart(p, q) /\ PagesApart(q, p)
    OBVIOUS
  <2>1. PagePlaced(q) /\ q \in Nat
    BY <1>2 DEF PageInv
  <2> QED
    BY <1>1, <1>2, <1>3, <2>1 DEF PagePlaced, PagesApart
<1>5. ASSUME NEW q \in pages', q \notin pages PROVE q = p /\ PagePlaced(q)'
  <2>1. q = p /\ ~(p + PAGE_SIZE > s_pPageLimit)
    BY <1>1, <1>5
  <2> QED
    BY <1>1, <1>2, <2>1 DEF PagePlaced
<1>6. DOMAIN freePages' = {}
  BY <1>1
<1>7. \A q, r \in pages' : q # r => PagesApart(q, r)
  BY <1>4, <1>5 DEF PageInv
<1>8. PageTypes'
  BY <1>1, <1>2 DEF PageInv, PageTypes
<1>9. PageBase <= s_pNextPage'
  BY <1>1, <1>2
<1> QED
  BY <1>4, <1>5, <1>6, <1>7, <1>8, <1>9 DEF PageInv

LEMMA pfreeKeeps ==
  ASSUME PageInv, NEW p \in pages, pfree(p)
  PROVE  PageInv'
<1>1. pages' = pages \ {p} /\ freePages' = <<p>> \o freePages /\ s_pNextPage' = s_pNextPage
  BY DEF pfree
<1>2. p \in Nat /\ freePages \in Seq(Nat)
  BY DEF PageInv, PageTypes
<1>3. /\ freePages' \in Seq(Nat)
      /\ \A i \in DOMAIN freePages' :
           \/ i = 1 /\ freePages'[i] = p
           \/ i # 1 /\ i - 1 \in DOMAIN freePages /\ freePages'[i] = freePages[i - 1]
  BY <1>1, <1>2, PutFirst
<1>4. /\ \A q \in pages' : q \in pages /\ q # p
      /\ \A i \in DOMAIN freePages' : PagePlaced(freePages'[i])
  BY <1>1, <1>3 DEF PageInv
<1>5. \A q \in pages' : \A i \in DOMAIN freePages' : PagesApart(q, freePages'[i])
  BY <1>3, <1>4 DEF PageInv
<1>6. \A i, j \in DOMAIN freePages' : i # j => PagesApart(freePages'[i], freePages'[j])
  <2> SUFFICES ASSUME NEW i \in DOMAIN freePages', NEW j \in DOMAIN freePages', i # j
               PROVE  PagesApart(freePages'[i], freePages'[j])
    OBVIOUS
  <2>1. i \in Nat /\ j \in Nat
    BY <1>3
  <2>2. \A k \in DOMAIN freePages : PagesApart(p, freePages[k]) /\ PagesApart(freePages[k], p)
    BY DEF PageInv, PagesApart
  <2>3. CASE i = 1
    BY <1>3, <2>2, <2>3
  <2>4. CASE j = 1
    BY <1>3, <2>2, <2>4
  <2>5. CASE i # 1 /\ j # 1
    <3>1. i - 1 # j - 1
      BY <2>1
    <3> QED
      BY <1>3, <2>5, <3>1 DEF PageInv
  <2> QED
    BY <2>3, <2>4, <2>5
<1>7. PageTypes'
  BY <1>1, <1>3 DEF PageInv, PageTypes
<1> QED
  BY <1>1, <1>4, <1>5, <1>6, <1>7 DEF PageInv, PagePlaced

-----------------------------------------------------------------------------
(* Both *)

LEMMA MemoryStep == BlockInv /\ PageInv /\ [MemoryNext]_memoryVars => BlockInv' /\ PageInv'
<1> SUFFICES ASSUME BlockInv, PageInv, [MemoryNext]_memoryVars PROVE BlockInv' /\ PageInv'
  OBVIOUS
<1>1. ASSUME UNCHANGED blockVars PROVE BlockInv'
  BY <1>1 DEF blockVars, BlockInv, BlockTypes
<1>2. ASSUME UNCHANGED pageVars PROVE PageInv'
  BY <1>2 DEF pageVars, PageInv, PageTypes, PagePlaced
<1>3. CASE UNCHANGED memoryVars
  BY <1>1, <1>2, <1>3 DEF memoryVars, blockVars, pageVars
<1>4. ASSUME NEW n \in Sizes, mallocFree(n) \/ mallocNew(n) \/ mallocFails(n)
      PROVE  BlockInv' /\ PageInv'
  <2>1. BlockInv'
    BY <1>4, mallocFreeKeeps, mallocNewKeeps, mallocFailsKeeps
  <2>2. UNCHANGED pageVars
    BY <1>4 DEF mallocFree, mallocNew, mallocFails
  <2> QED
    BY <1>2, <2>1, <2>2
<1>5. ASSUME NEW b \in DOMAIN asked, free(b) \/ \E n \in Sizes : realloc(b, n)
      PROVE  BlockInv' /\ PageInv'
  <2>1. BlockInv'
    BY <1>5, freeKeeps, reallocKeeps
  <2>2. UNCHANGED pageVars
    BY <1>5 DEF free, realloc
  <2> QED
    BY <1>2, <2>1, <2>2
<1>6. CASE pallocFree \/ pallocNew
  <2>1. PageInv'
    BY <1>6, pallocFreeKeeps, pallocNewKeeps
  <2>2. UNCHANGED blockVars
    BY <1>6 DEF pallocFree, pallocNew
  <2> QED
    BY <1>1, <2>1, <2>2
<1>7. ASSUME NEW p \in pages, pfree(p) PROVE BlockInv' /\ PageInv'
  <2>1. PageInv'
    BY <1>7, pfreeKeeps
  <2>2. UNCHANGED blockVars
    BY <1>7 DEF pfree
  <2> QED
    BY <1>1, <2>1, <2>2
<1> QED
  BY <1>3, <1>4, <1>5, <1>6, <1>7 DEF MemoryNext, BlockNext, PageNext

LEMMA MemoryInvIsSafe == BlockInv /\ PageInv => MemorySafe
<1> SUFFICES ASSUME BlockInv, PageInv PROVE MemorySafe
  OBVIOUS
<1>1. ASSUME NEW b \in DOMAIN asked PROVE End(b) <= s_pBlockLimit
  <2>1. /\ End(b) <= s_pNextBlock /\ s_pNextBlock <= s_pBlockLimit
        /\ b.at \in Nat /\ b.nSize \in Nat /\ s_pNextBlock \in Nat /\ s_pBlockLimit \in Nat
    BY AllocatorAssumption DEF BlockInv, BlockTypes, Placed, Block
  <2> QED
    BY <2>1 DEF End, HeaderSize
<1>2. BlocksSafe
  BY <1>1 DEF BlocksSafe, BlockInv, Placed
<1>3. PagesSafe
  BY DEF PagesSafe, PageInv, PagePlaced, PagesApart
<1> QED
  BY <1>2, <1>3 DEF MemorySafe

\* The allocators' variables keep their types.
THEOREM MemoryTypeCorrect == MemorySpec => []MemoryTypeOK
<1>1. BlockInv /\ PageInv => MemoryTypeOK
  BY DEF BlockInv, BlockTypes, PageInv, PageTypes, MemoryTypeOK
<1> QED
  BY <1>1, InitBlocks, InitPages, MemoryStep, PTL DEF MemorySpec

\* For a heap and requests of any sizes: what malloc and palloc return is large enough, lies in
\* its heap and shares no byte with anything else in use or in a free list.
THEOREM AllocationsAreApart == MemorySpec => []MemorySafe
  BY MemoryInvIsSafe, InitBlocks, InitPages, MemoryStep, PTL DEF MemorySpec
=============================================================================
