----------------------------- MODULE BoundedBuffer -----------------------------
(***************************************************************************)
(* What buffer.h promises its callers: a first-in first-out queue of at    *)
(* most Capacity items.  A producer prepares an item and hands it over     *)
(* exactly once (or is cancelled first and the item is dropped); a         *)
(* consumer receives the oldest item.  Every operation is atomic.          *)
(***************************************************************************)
EXTENDS Naturals, Sequences

CONSTANTS Capacity,    \* the number of slots
          Producers,   \* the threads that insert
          Consumers,   \* the threads that remove
          Items,       \* the values that can be inserted
          NoItem       \* the absence of a value

VARIABLES queue,       \* the items in the buffer, oldest first
          offered,     \* offered[p]: the item p is about to insert, or NoItem
          taken        \* taken[c]: the last item c removed, or NoItem

vars == <<queue, offered, taken>>

Init == /\ queue = <<>>
        /\ offered = [p \in Producers |-> NoItem]
        /\ taken = [c \in Consumers |-> NoItem]

Offer(p) == /\ offered[p] = NoItem
            /\ \E x \in Items : offered' = [offered EXCEPT ![p] = x]
            /\ UNCHANGED <<queue, taken>>

Abandon(p) == /\ offered[p] # NoItem
              /\ offered' = [offered EXCEPT ![p] = NoItem]
              /\ UNCHANGED <<queue, taken>>

Insert(p) == /\ offered[p] # NoItem
             /\ Len(queue) < Capacity
             /\ queue' = Append(queue, offered[p])
             /\ offered' = [offered EXCEPT ![p] = NoItem]
             /\ UNCHANGED taken

Remove(c) == /\ queue # <<>>
             /\ taken' = [taken EXCEPT ![c] = Head(queue)]
             /\ queue' = Tail(queue)
             /\ UNCHANGED offered

Next == \/ \E p \in Producers : Offer(p) \/ Abandon(p) \/ Insert(p)
        \/ \E c \in Consumers : Remove(c)

Spec == Init /\ [][Next]_vars
=============================================================================
