------------------------------- MODULE Vring -------------------------------
(***************************************************************************)
(* The driver's half of a VirtIO 1.0 split virtqueue, as both queues of    *)
(* FB/VMVirtIOGPU.cpp use it: a table of descriptors, the list of the free *)
(* ones kept in a separate array (m_vq_free_next), and ring indices that   *)
(* count modulo 2^16 and are reduced modulo the queue size to address a    *)
(* ring slot.                                                              *)
(***************************************************************************)
EXTENDS Integers

CONSTANTS
    Size,     \* m_vq_size: number of descriptors (a power of two in the code)
    IdxMod    \* the width of a ring index: 2^16 in the code

\* A queue exists only when the device offers at least one descriptor
\* (qsize == 0 fails the set-up); the index space is never smaller.
ASSUME VringAssumption == /\ Size \in Nat \ {0}
                          /\ IdxMod \in Nat \ {0}
                          /\ Size <= IdxMod

Descs == 0 .. Size - 1
Idx == 0 .. IdxMod - 1

\* (uint16_t)-1, the end of the free list.
EndOfList == -1

FreeLists == [head : Descs \cup {EndOfList}, next : [Descs -> Descs \cup {EndOfList}]]

\* The free list the set-up loop builds: 0 -> 1 -> ... -> Size-1 -> end.
FreshFreeList ==
    [head |-> 0,
     next |-> [i \in Descs |-> IF i + 1 < Size THEN i + 1 ELSE EndOfList]]

\* head = next[head]
PopFree(fl) == [head |-> fl.next[fl.head], next |-> fl.next]

\* next[d] = head; head = d
PushFree(fl, d) == [head |-> d, next |-> [fl.next EXCEPT ![d] = fl.head]]

\* Mutant: the command descriptor is given back first.
ReturnChainSwapped(fl, c, r) == PushFree(PushFree(fl, c), r)

\* The order in which every exit path gives a chain back: the response
\* descriptor first, then the command descriptor.
ReturnChain(fl, c, r) == PushFree(PushFree(fl, r), c)

\* ++idx on a uint16_t
Inc(i) == IF i = IdxMod - 1 THEN 0 ELSE i + 1

\* idx % m_vq_size
Slot(i) == i % Size

\* (uint16_t)(a - b)
Dist(a, b) == IF a >= b THEN a - b ELSE a - b + IdxMod
=============================================================================
