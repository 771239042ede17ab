------------------------------- MODULE Layout -------------------------------
(***************************************************************************)
(* The size arithmetic of the allocator in mm.c.                           *)
(*                                                                         *)
(* Addresses and block sizes are counted in GRANULES of ALIGNMENT bytes:   *)
(* the page size, HDRSIZE, FDRSIZE and PAGEHDRSIZE are multiples of 16     *)
(* bytes and ALIGN rounds every request up to one, so every address the    *)
(* allocator forms is a multiple of 16.  Request sizes stay in bytes.      *)
(* Two pointer-sized words fit in a granule.                               *)
(***************************************************************************)
EXTENDS Intervals

CONSTANTS
  PAGE,     \* granules per page: APAGE_SIZE / ALIGNMENT (256 in the build)
  WORD,     \* granules a size_t can count: 2^64 / ALIGNMENT in the build
  MaxPage,  \* bound of the model: mmap hands out pages 1 .. MaxPage
  Sizes     \* bound of the model: the byte counts a client asks for

ALIGNMENT == 16

(* No request is so large that adding the tags, the page header and the    *)
(* rounding to it leaves the range of size_t: mm_malloc does not test it,  *)
(* and the driver's requests are ints.                                     *)
ASSUME LayoutAssumption ==
  /\ PAGE \in Nat \ {0}
  /\ WORD \in Nat
  /\ MaxPage \in Nat
  /\ Sizes \subseteq Nat
  /\ \A sz \in Sizes :
       sz + ALIGNMENT * (HDRSIZE + FDRSIZE + PAGEHDRSIZE + PAGE) <= ALIGNMENT * WORD

(* Payload granules reserved for a request of sz bytes. *)
ALIGN(sz) == ((sz + (ALIGNMENT - 1)) % (ALIGNMENT * WORD)) \div ALIGNMENT

(* Header, payload of asize granules and footer. *)
Tagged(asize) == (HDRSIZE + asize + FDRSIZE) % WORD

TotalSize(sz) == Tagged(ALIGN(sz))

(* Granules mapped when no free block fits: the page header and the block, *)
(* rounded up to whole pages.                                              *)
MapSize(sz) == (((TotalSize(sz) + PAGEHDRSIZE + PAGE - 1) % WORD) \div PAGE) * PAGE

(* Granule addresses of the modelled address space; granule 0 is NULL and  *)
(* page 0 is never mapped.                                                 *)
Granule == PAGE .. (MaxPage + 1) * PAGE - 1

PageStart(k) == k * PAGE

(* The end of the address space, and the intervals in it. *)
End == PageStart(MaxPage + 1)

Interval == {i \in Granule \X (Granule \cup {End}) : i[1] < i[2]}
=============================================================================
