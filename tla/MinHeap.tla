------------------------------ MODULE MinHeap ------------------------------
(***************************************************************************)
(* The binary heap of minheap.h: a sequence h of which h[1] is the root    *)
(* and h[id \div 2] the parent of h[id].  key[x], which the comparison     *)
(* function reads off x, is an argument: nothing in the heap keeps it, and *)
(* the caller may change it while x is inside.  The loops of shift_up and  *)
(* shift_down are steps of the module that has the heap.                   *)
(***************************************************************************)
EXTENDS Integers, Sequences

SwapNodes(h, i, j) == [h EXCEPT ![i] = h[j], ![j] = h[i]]
Parent(id) == id \div 2

(* shift_up goes on while the key is smaller than the parent's.            *)
Rises(h, id, key) == id > 1 /\ key[h[id]] < key[h[Parent(id)]]

SmallerChild(h, id, key) ==
    LET left == 2 * id
    IN IF left < Len(h) /\ key[h[left]] > key[h[left + 1]] THEN left + 1 ELSE left

(* shift_down goes on while the smaller child's key is smaller.            *)
Sinks(h, id, key) ==
    2 * id <= Len(h) /\ key[h[SmallerChild(h, id, key)]] < key[h[id]]

(* minheap_pop: the last node takes the root's place, before it sinks.     *)
WithoutRoot(h) == SubSeq([h EXCEPT ![1] = h[Len(h)]], 1, Len(h) - 1)
=============================================================================
