------------------------------- MODULE MCHeap -------------------------------
\* Instances of Heap: one OS channel; uses of the heap are chosen by each run.
EXTENDS Heap
OneChannel == {0}
AllUses == Instructions \ {"find-none"}
=============================================================================
