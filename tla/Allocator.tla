------------------------------- MODULE Allocator -------------------------------
(***************************************************************************)
(* malloc, free, realloc, palloc and pfree (lib/alloc.cpp).  Blocks are    *)
(* cut off the heap with their header and are never joined again: what is  *)
(* freed goes to the free list of its size.  calloc is malloc of the       *)
(* product; new and delete are malloc and free.                            *)
(***************************************************************************)
EXTENDS Integers, Sequences

CONSTANTS
  AddressSpace,     \* one more than the largest address
  BucketSizes,      \* of s_BlockBucket
  Sizes,            \* that are asked for
  HeapBase,         \* where the blocks begin
  s_pBlockLimit,
  BlockReserve,     \* s_nBlockReserve, until the memory is used up
  PageBase,         \* where the pages begin
  s_pPageLimit,
  PAGE_SIZE

HeaderSize == 16    \* sizeof (TBlockHeader)
BLOCK_ALIGN == 16

\* A block of any size fits once into the address space, so that one overflow is all.
ASSUME AllocatorAssumption ==
  /\ AddressSpace \in Nat
  /\ BucketSizes \subseteq Nat /\ Sizes \subseteq Nat
  /\ \A n \in BucketSizes \cup Sizes : n + HeaderSize + BLOCK_ALIGN <= AddressSpace
  /\ HeapBase \in Nat /\ HeapBase % BLOCK_ALIGN = 0
  /\ s_pBlockLimit \in Nat /\ HeapBase <= s_pBlockLimit /\ s_pBlockLimit < AddressSpace
  /\ BlockReserve \in Nat
  /\ PageBase \in Nat /\ s_pPageLimit \in Nat
  /\ PAGE_SIZE \in Nat \ {0}

VARIABLES
  s_pNextBlock, s_nBlockReserve,
  pFreeList,    \* of each bucket: its free blocks, the last freed first
  asked,        \* the blocks in use, with the size that was asked for last
  s_pNextPage,
  freePages,    \* s_PageBucket.pFreeList
  pages         \* the pages in use

memoryVars == <<s_pNextBlock, s_nBlockReserve, pFreeList, asked, s_pNextPage, freePages, pages>>
pageVars == <<s_pNextPage, freePages, pages>>
blockVars == <<s_pNextBlock, s_nBlockReserve, pFreeList, asked>>

\* A block: the address and the size in its header.
Block == [at : Nat, nSize : Nat]

MemoryTypeOK ==
  /\ s_pNextBlock \in Nat /\ s_nBlockReserve \in Nat
  /\ pFreeList \in [BucketSizes -> Seq(Block)]
  /\ DOMAIN asked \subseteq Block /\ asked \in [DOMAIN asked -> Sizes]
  /\ s_pNextPage \in Nat
  /\ freePages \in Seq(Nat)
  /\ pages \in SUBSET Nat

MemoryInit ==
  /\ s_pNextBlock = HeapBase /\ s_nBlockReserve = BlockReserve
  /\ pFreeList = [size \in BucketSizes |-> <<>>]
  /\ asked = [b \in {} |-> 0]
  /\ s_pNextPage = PageBase /\ freePages = <<>> /\ pages = {}

-----------------------------------------------------------------------------
(* Blocks.  All but the search for the bucket in free is one section under *)
(* s_BlockSpinLock.                                                        *)

\* The sum of two addresses.
Wrapped(sum) == IF sum < AddressSpace THEN sum ELSE sum - AddressSpace
\* The length of a block with its header, aligned.
Length(size) == ((HeaderSize + size + BLOCK_ALIGN - 1) \div BLOCK_ALIGN) * BLOCK_ALIGN

\* The size that a block gets: the least of a bucket that is enough, or what is asked for.
IsSizeFor(size, n) ==
  \/ size \in BucketSizes /\ n <= size /\ \A s \in BucketSizes : n <= s => size <= s
  \/ size = n /\ \A s \in BucketSizes : n > s

Owned(b, n) == [d \in DOMAIN asked \cup {b} |-> IF d = b THEN n ELSE asked[d]]

\* malloc with a free block of the bucket
mallocFree(n) ==
  \E size \in BucketSizes :
    /\ IsSizeFor(size, n) /\ pFreeList[size] # <<>>
    /\ pFreeList' = [pFreeList EXCEPT ![size] = Tail(pFreeList[size])]
    /\ asked' = Owned(Head(pFreeList[size]), n)
    /\ UNCHANGED <<s_pNextBlock, s_nBlockReserve, pageVars>>

\* Mutant: a block is given the length that was asked for.
mallocNew_Asked(n) ==
  \E size \in BucketSizes \cup {n} :
    LET pNextBlock == Wrapped(s_pNextBlock + Length(n)) IN
    /\ IsSizeFor(size, n) /\ (size \in BucketSizes => pFreeList[size] = <<>>)
    /\ s_pNextBlock < pNextBlock /\ pNextBlock <= s_pBlockLimit - s_nBlockReserve
    /\ s_pNextBlock' = pNextBlock
    /\ asked' = Owned([at |-> s_pNextBlock, nSize |-> size], n)
    /\ UNCHANGED <<s_nBlockReserve, pFreeList, pageVars>>

\* malloc with a new block
mallocNew(n) ==
  \E size \in BucketSizes \cup {n} :
    LET pNextBlock == Wrapped(s_pNextBlock + Length(size)) IN
    /\ IsSizeFor(size, n) /\ (size \in BucketSizes => pFreeList[size] = <<>>)
    /\ s_pNextBlock < pNextBlock /\ pNextBlock <= s_pBlockLimit - s_nBlockReserve
    /\ s_pNextBlock' = pNextBlock
    /\ asked' = Owned([at |-> s_pNextBlock, nSize |-> size], n)
    /\ UNCHANGED <<s_nBlockReserve, pFreeList, pageVars>>

\* malloc without memory: the reserve is left to what comes next, the message that says so first.
mallocFails(n) ==
  \E size \in BucketSizes \cup {n} :
    LET pNextBlock == Wrapped(s_pNextBlock + Length(size)) IN
    /\ IsSizeFor(size, n) /\ (size \in BucketSizes => pFreeList[size] = <<>>)
    /\ pNextBlock <= s_pNextBlock \/ pNextBlock > s_pBlockLimit - s_nBlockReserve
    /\ s_nBlockReserve' = 0
    /\ UNCHANGED <<s_pNextBlock, pFreeList, asked, pageVars>>

\* A block of no bucket is not used again.
free(b) ==
  /\ asked' = [d \in DOMAIN asked \ {b} |-> asked[d]]
  /\ pFreeList' = [size \in BucketSizes |->
       IF size = b.nSize THEN <<b>> \o pFreeList[size] ELSE pFreeList[size]]
  /\ UNCHANGED <<s_pNextBlock, s_nBlockReserve, pageVars>>

\* realloc of a block that is large enough.  Otherwise it is malloc and then free, with the lock
\* released in between.
realloc(b, n) ==
  /\ n # 0 /\ b.nSize >= n
  /\ asked' = [asked EXCEPT ![b] = n]
  /\ UNCHANGED <<s_pNextBlock, s_nBlockReserve, pFreeList, pageVars>>

BlockNext ==
  \/ \E n \in Sizes : mallocFree(n) \/ mallocNew(n) \/ mallocFails(n)
  \/ \E b \in DOMAIN asked : free(b) \/ \E n \in Sizes : realloc(b, n)

-----------------------------------------------------------------------------
(* Pages *)

pallocFree ==
  /\ freePages # <<>>
  /\ freePages' = Tail(freePages) /\ pages' = pages \cup {Head(freePages)}
  /\ UNCHANGED <<s_pNextPage, blockVars>>

\* When there is no page left s_pNextPage is beyond the limit.
\* Bound: no page is asked for again that could not be given (the callers halt).
pallocNew ==
  /\ freePages = <<>>
  /\ s_pNextPage <= s_pPageLimit
  /\ s_pNextPage' = s_pNextPage + PAGE_SIZE
  /\ pages' = IF s_pNextPage' > s_pPageLimit THEN pages ELSE pages \cup {s_pNextPage}
  /\ UNCHANGED <<freePages, blockVars>>

pfree(p) ==
  /\ pages' = pages \ {p} /\ freePages' = <<p>> \o freePages
  /\ UNCHANGED <<s_pNextPage, blockVars>>

PageNext == pallocFree \/ pallocNew \/ \E p \in pages : pfree(p)

MemoryNext == BlockNext \/ PageNext

MemorySpec == MemoryInit /\ [][MemoryNext]_memoryVars

-----------------------------------------------------------------------------
(* Properties *)

End(b) == b.at + HeaderSize + b.nSize
Apart(b, d) == End(b) <= d.at \/ End(d) <= b.at
\* A block that malloc has returned is as long as it was asked for, aligned, inside of the heap,
\* and shares no byte, also of its header, with another one in use or with a free one, which
\* holds a link of its list: whatever has been allocated, resized and freed before.
BlocksSafe ==
  \A b \in DOMAIN asked :
    /\ asked[b] <= b.nSize /\ b.at % BLOCK_ALIGN = 0
    /\ HeapBase <= b.at /\ End(b) <= s_pBlockLimit
    /\ \A d \in DOMAIN asked : b # d => Apart(b, d)
    /\ \A size \in BucketSizes : \A i \in DOMAIN pFreeList[size] : Apart(b, pFreeList[size][i])

\* The same of pages.
PagesSafe ==
  \A p \in pages :
    /\ PageBase <= p /\ p + PAGE_SIZE <= s_pPageLimit
    /\ \A q \in pages : p # q => p + PAGE_SIZE <= q \/ q + PAGE_SIZE <= p
    /\ \A i \in DOMAIN freePages :
         p + PAGE_SIZE <= freePages[i] \/ freePages[i] + PAGE_SIZE <= p

MemorySafe == BlocksSafe /\ PagesSafe
=============================================================================
