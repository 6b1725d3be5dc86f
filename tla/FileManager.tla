---------------------------- MODULE FileManager ----------------------------
(***************************************************************************)
(* src/fileManager/FileManager.cpp for one open file: pages addressed by   *)
(* number, read and written whole.  What the engine uses is modelled:      *)
(* readPage, writePage, getPageCount and allocatePage on a file that stays *)
(* open; closeFile and deallocatePage have no caller, so the free list is  *)
(* always empty and allocatePage always appends.                           *)
(***************************************************************************)
EXTENDS Integers

CONSTANTS MaxPages,  \* bound: page numbers that occur are 0 .. MaxPages-1
          Content,   \* what a page can hold
          Zero       \* the zeroed page

ASSUME FileAssumption == MaxPages \in Nat /\ Zero \in Content

VARIABLES disk,      \* disk[p]: the bytes of page p
          pageCount  \* fileSize / PAGE_SIZE

Page == 0 .. MaxPages - 1

FileTypeOK ==
  /\ disk \in [Page -> Content]
  /\ pageCount \in 0 .. MaxPages

FileInit ==
  /\ disk = [p \in Page |-> Zero]
  /\ pageCount = 0

\* A page past the end of the file reads as zeros.
ReadPage(p) == IF p < pageCount THEN disk[p] ELSE Zero

\* The pages in P get the contents d.  Writing past the end extends the file;
\* the pages skipped read as zeros, as they did before.
WritePages(P, d) ==
  /\ disk' = [p \in Page |-> IF p \in P THEN d[p] ELSE ReadPage(p)]
  /\ pageCount' \in pageCount .. MaxPages
  /\ \A p \in P : p < pageCount'
  /\ pageCount' = pageCount \/ pageCount' - 1 \in P

AllocatePage ==
  /\ pageCount < MaxPages
  /\ WritePages({pageCount}, [p \in {pageCount} |-> Zero])
=============================================================================
