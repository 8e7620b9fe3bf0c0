------------------------------- MODULE MCHeap -------------------------------
\* A heap of four pages of eight bytes, taken two at a time, with one-byte tags.
EXTENDS Heap
=============================================================================
