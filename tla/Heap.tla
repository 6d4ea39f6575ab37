--------------------------------- MODULE Heap ---------------------------------
(***************************************************************************)
(* danHeap of network/dan_heap.hpp, the memory of coroutines' stacks: a    *)
(* private mapping, with a page nobody may touch on either side when       *)
(* protection is asked for.  Memory is a table of pages, numbered from 0;  *)
(* mmap, mprotect and munmap are modelled as far as danHeap uses them.     *)
(***************************************************************************)
EXTENDS Integers, FiniteSets

CONSTANTS PageSize,     \* getpagesize()
          Pages,        \* bound: pages of the address space
          HeapSizes,    \* sizes asked for, in bytes
          Heaps         \* danHeap objects

ASSUME HeapAssumption ==
  /\ PageSize \in Nat \ {0} /\ Pages \in Nat
  /\ HeapSizes \subseteq Nat \ {0}

VARIABLES page,      \* what may be done with each page
          heaps,     \* the objects built and not destroyed, and their fields
          aborted    \* the size asked for when an assertion failed, or 0

heapVars == <<page, heaps, aborted>>

HeapInit ==
  /\ page = [n \in 0 .. Pages - 1 |-> "unmapped"]
  /\ heaps = [h \in {} |-> 0]
  /\ aborted = 0

(* mmap and munmap work on whole pages. *)
PagesOf(first, bytes) == first .. first + (bytes + PageSize - 1) \div PageSize - 1

Unmapped(pages) == \A n \in pages : n \in DOMAIN page /\ page[n] = "unmapped"

(* The rounding of danHeapAlloc looks at the member it is about to set,    *)
(* which the constructor has made zero. *)
Rounded(old, heapSize) ==
  IF old % PageSize # 0 THEN (heapSize \div PageSize + 1) * PageSize ELSE heapSize

(* Mutant of Mapped: the two pages of protection are one. *)
MappedOnce(size, needProtect) == IF needProtect THEN size + PageSize ELSE size

(* The length given to mmap, and to munmap. *)
Mapped(size, needProtect) == IF needProtect THEN size + PageSize * 2 ELSE size

(* The pages danHeapAlloc protects: the first, and the one behind the      *)
(* usable ones.  mprotect fails on an address that is not a page's, and on *)
(* an unmapped page; that it does not is asserted. *)
Guards(raw, size) == {raw, raw + 1 + size \div PageSize}

CanProtect(raw, size, mapped) ==
  /\ size % PageSize = 0
  /\ \A n \in Guards(raw, size) :
       n \in mapped \/ (n \in DOMAIN page /\ page[n] # "unmapped")

(* The constructor, and danHeapAlloc. *)
Build(h, heapSize, needProtect) ==
  \E raw \in DOMAIN page, size \in {Rounded(0, heapSize)} :
    LET mapped == PagesOf(raw, Mapped(size, needProtect))
    IN  /\ Unmapped(mapped)
        /\ IF needProtect /\ ~ CanProtect(raw, size, mapped)
             THEN aborted' = heapSize /\ UNCHANGED <<page, heaps>>
             ELSE /\ page' = [n \in DOMAIN page |->
                       IF needProtect /\ n \in Guards(raw, size) THEN "none"
                       ELSE IF n \in mapped THEN "rw" ELSE page[n]]
                  /\ heaps' = [g \in DOMAIN heaps \cup {h} |->
                       IF g # h THEN heaps[g]
                       ELSE [raw |-> raw, asked |-> heapSize, heapSize_ |-> size,
                             ptr |-> IF needProtect THEN raw + 1 ELSE raw,
                             needProtect_ |-> needProtect]]
                  /\ UNCHANGED aborted

(* The destructor, and danHeapFree. *)
Destroy(h) ==
  LET freed == PagesOf(heaps[h].raw, Mapped(heaps[h].heapSize_, heaps[h].needProtect_))
  IN  /\ page' = [n \in DOMAIN page |-> IF n \in freed THEN "unmapped" ELSE page[n]]
      /\ heaps' = [g \in DOMAIN heaps \ {h} |-> heaps[g]]
      /\ UNCHANGED aborted

HeapNext ==
  /\ aborted = 0
  /\ \/ \E h \in Heaps \ DOMAIN heaps, heapSize \in HeapSizes, needProtect \in BOOLEAN :
          Build(h, heapSize, needProtect)
     \/ \E h \in DOMAIN heaps : Destroy(h)

-----------------------------------------------------------------------------

Usable(h) == PagesOf(heaps[h].ptr, heaps[h].asked)

(* Every object that exists has the bytes it was asked for, to itself; a   *)
(* protected one has a forbidden page right before them and right behind   *)
(* its last byte; and what is mapped belongs to an object that exists, so  *)
(* that building and destroying coroutines leaks no page.                  *)
StackGuarded ==
  /\ \A h \in DOMAIN heaps :
       /\ \A n \in Usable(h) : page[n] = "rw"
       /\ \A g \in DOMAIN heaps \ {h} : Usable(g) \cap Usable(h) = {}
       /\ heaps[h].needProtect_ =>
            /\ page[heaps[h].ptr - 1] = "none"
            /\ heaps[h].asked % PageSize = 0
            /\ page[heaps[h].ptr + heaps[h].asked \div PageSize] = "none"
  /\ Cardinality({n \in DOMAIN page : page[n] # "unmapped"}) =
       Cardinality(UNION {Usable(h) : h \in DOMAIN heaps})
         + 2 * Cardinality({h \in DOMAIN heaps : heaps[h].needProtect_})

(* No assertion of danHeapAlloc fails.  Were sizes that are not of whole   *)
(* pages rounded up, as the comments at dan_heap.hpp:41 and :43 say, it    *)
(* would hold; SupportProofs has it for whole pages only.                  *)
SizesRounded == aborted = 0

=============================================================================
