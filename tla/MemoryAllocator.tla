---------------------------- MODULE MemoryAllocator ----------------------------
(***************************************************************************)
(* Project 7/memory_allocation: contiguous allocation with first, best and *)
(* worst fit (memory.c) behind the command loop of allocator.c.            *)
(*                                                                         *)
(* The linked list behind head is the sequence blocks; a pointer b to the  *)
(* block before the one an operation works on is a number, and 0 is head.  *)
(* STAT and unknown commands change nothing and are left out.              *)
(***************************************************************************)
EXTENDS Integers, Sequences, SequencesExt, FiniteSets

CONSTANTS capacity,   \* argv[1]
          Names,      \* what may follow RQ and RL
          Unused,     \* the info of a hole
          None        \* a null pointer to a block

ASSUME AllocatorAssumption ==
    /\ capacity \in Nat \ {0}
    /\ Unused \notin Names
    /\ None \notin Nat

Lengths == 1 .. capacity + 1    \* the lengths requested

VARIABLES blocks, status

allocatorVars == <<blocks, status>>

Length(block) == block.end - block.begin + 1

(* The pointers p for which p->next is a hole of at least this length. *)
Holds(b, length) == blocks[b].info = Unused /\ Length(blocks[b]) >= length

-----------------------------------------------------------------------------
(* The list operations *)

(* Mutant: an exhausted hole stays in the list. *)
HoleKept(name, b, length) ==
    LET hole  == blocks[b + 1]
        block == [info |-> name, begin |-> hole.begin, end |-> hole.begin + length - 1]
        rest  == [hole EXCEPT !.begin = block.end + 1]
    IN  SubSeq(blocks, 1, b) \o <<block, rest>> \o SubSeq(blocks, b + 2, Len(blocks))

(* The hole behind b is split; what remains of it is dropped from the list *)
(* when its begin has reached its end.                                     *)
insert_block(name, b, length) ==
    LET hole  == blocks[b + 1]
        block == [info |-> name, begin |-> hole.begin, end |-> hole.begin + length - 1]
        rest  == [hole EXCEPT !.begin = block.end + 1]
    IN  SubSeq(blocks, 1, b) \o <<block>> \o (IF rest.begin >= rest.end THEN <<>> ELSE <<rest>>)
            \o SubSeq(blocks, b + 2, Len(blocks))

(* Mutant: the block before is not merged. *)
ForwardOnly(b) ==
    LET last == IF b + 2 <= Len(blocks) /\ blocks[b + 2].info = Unused THEN b + 2 ELSE b + 1
    IN  SubSeq(blocks, 1, b)
            \o <<[info |-> Unused, begin |-> blocks[b + 1].begin, end |-> blocks[last].end]>>
            \o SubSeq(blocks, last + 1, Len(blocks))

(* Mutant: the merged hole keeps the end of its first block. *)
EndNotExtended(b) ==
    LET first == IF b > 0 /\ blocks[b].info = Unused THEN b ELSE b + 1
        last  == IF b + 2 <= Len(blocks) /\ blocks[b + 2].info = Unused THEN b + 2 ELSE b + 1
    IN  SubSeq(blocks, 1, first - 1)
            \o <<[info |-> Unused, begin |-> blocks[first].begin, end |-> blocks[first].end]>>
            \o SubSeq(blocks, last + 1, Len(blocks))

(* remove_block and merge: the block behind b becomes a hole and is merged *)
(* with the holes beside it in the list.                                   *)
remove_block(b) ==
    LET first == IF b > 0 /\ blocks[b].info = Unused THEN b ELSE b + 1
        last  == IF b + 2 <= Len(blocks) /\ blocks[b + 2].info = Unused THEN b + 2 ELSE b + 1
    IN  SubSeq(blocks, 1, first - 1)
            \o <<[info |-> Unused, begin |-> blocks[first].begin, end |-> blocks[last].end]>>
            \o SubSeq(blocks, last + 1, Len(blocks))

-----------------------------------------------------------------------------
(* The three searches: the pointer to the block before the hole, or None *)

first_fit(length) ==
    LET fits == {b \in DOMAIN blocks : Holds(b, length)}
    IN  IF fits = {} THEN None ELSE (CHOOSE b \in fits : \A c \in fits : b <= c) - 1

(* Mutant: a hole as small as the smallest so far replaces it. *)
LastOfTheSmallest(length) ==
    LET scan[b \in 0 .. Len(blocks)] ==
          IF b = 0 THEN [block |-> None, length |-> capacity + 1]
          ELSE LET min == scan[b - 1]
               IN  IF Holds(b, length) /\ Length(blocks[b]) <= min.length
                   THEN [block |-> b - 1, length |-> Length(blocks[b])] ELSE min
    IN  scan[Len(blocks)].block

(* scan[b] is min_block and min_length after the first b blocks. *)
best_fit(length) ==
    LET scan[b \in 0 .. Len(blocks)] ==
          IF b = 0 THEN [block |-> None, length |-> capacity + 1]
          ELSE LET min == scan[b - 1]
               IN  IF Holds(b, length) /\ Length(blocks[b]) < min.length
                   THEN [block |-> b - 1, length |-> Length(blocks[b])] ELSE min
    IN  scan[Len(blocks)].block

worst_fit(length) ==
    LET scan[b \in 0 .. Len(blocks)] ==
          IF b = 0 THEN [block |-> None, length |-> 0]
          ELSE LET max == scan[b - 1]
               IN  IF Holds(b, length) /\ Length(blocks[b]) > max.length
                   THEN [block |-> b - 1, length |-> Length(blocks[b])] ELSE max
    IN  scan[Len(blocks)].block

-----------------------------------------------------------------------------
(* The commands *)

(* "RQ name length method": main ignores whether the request succeeded. *)
Request(name, length, b) ==
    /\ status = "running"
    /\ blocks' = IF b = None THEN blocks ELSE insert_block(name, b, length)
    /\ UNCHANGED status

FirstFit(name, length) == Request(name, length, first_fit(length))
BestFit(name, length)  == Request(name, length, best_fit(length))
WorstFit(name, length) == Request(name, length, worst_fit(length))

(* "RL name": the search runs off the end of the list, and the program     *)
(* dereferences NULL, when no block has the name.                          *)
Release(name) ==
    LET owned == {b \in DOMAIN blocks : blocks[b].info = name}
    IN  /\ status = "running"
        /\ IF owned = {}
           THEN status' = "crashed" /\ UNCHANGED blocks
           ELSE /\ blocks' = remove_block((CHOOSE b \in owned : \A c \in owned : b <= c) - 1)
                /\ UNCHANGED status

(* Mutant: next_begin is the end of the block moved last. *)
OverlapByOne(moved) == IF moved = <<>> THEN 0 ELSE Last(moved).end

next_begin(moved) == IF moved = <<>> THEN 0 ELSE Last(moved).end + 1

(* The processes' blocks moved down to the bottom of memory; moved[b] are *)
(* those among the first b.                                               *)
Gathered ==
    LET moved[b \in 0 .. Len(blocks)] ==
          IF b = 0 THEN <<>>
          ELSE IF blocks[b].info = Unused THEN moved[b - 1]
          ELSE LET m == moved[b - 1]
               IN  Append(m, [info |-> blocks[b].info, begin |-> next_begin(m),
                              end |-> blocks[b].end - blocks[b].begin + next_begin(m)])
    IN  moved[Len(blocks)]

(* "C": the remaining hole is appended even when it is empty. *)
Compact ==
    /\ status = "running"
    /\ blocks' = Append(Gathered, [info |-> Unused, begin |-> next_begin(Gathered),
                                   end |-> capacity - 1])
    /\ UNCHANGED status

(* "X" *)
Quit == /\ status = "running"
        /\ status' = "exited"
        /\ UNCHANGED blocks

AllocatorTerminated == status # "running" /\ UNCHANGED allocatorVars

AllocatorInit ==
    /\ blocks = <<[info |-> Unused, begin |-> 0, end |-> capacity - 1]>>
    /\ status = "running"

AllocatorNext ==
    \/ \E name \in Names, length \in Lengths :
           FirstFit(name, length) \/ BestFit(name, length) \/ WorstFit(name, length)
    \/ \E name \in Names : Release(name)
    \/ Compact
    \/ Quit
    \/ AllocatorTerminated

AllocatorSpec == AllocatorInit /\ [][AllocatorNext]_allocatorVars

-----------------------------------------------------------------------------
(* Properties *)

AllocatorTypeOK ==
    /\ blocks \in Seq([info : Names \cup {Unused}, begin : 0 .. capacity, end : 0 .. capacity - 1])
    /\ Len(blocks) \in 1 .. capacity + 1
    /\ status \in {"running", "crashed", "exited"}

(* The blocks are in the order of their addresses, none overlaps the next  *)
(* and none is empty, but for the hole that compact appends to a full      *)
(* memory (memory.c:38-56, 95-123, 229-235).                               *)
BlocksInOrder ==
    /\ AllocatorTypeOK
    /\ \A i \in 1 .. Len(blocks) - 1 : blocks[i].end < blocks[i + 1].begin
    /\ \A i \in DOMAIN blocks :
          \/ Length(blocks[i]) > 0
          \/ i = Len(blocks) /\ Length(blocks[i]) = 0 /\ blocks[i].info = Unused

(* merge leaves no two holes beside each other in the list, whichever      *)
(* order the processes around them are released in (memory.c:58-124).      *)
HolesAreMerged ==
    \A i \in 1 .. Len(blocks) - 1 : ~(blocks[i].info = Unused /\ blocks[i + 1].info = Unused)

(* The three searches succeed on the same requests, and each finds its     *)
(* hole: the lowest, the lowest of the smallest, the lowest of the largest *)
(* (memory.c:151-209).                                                     *)
SearchesFindTheirHoles ==
    \A length \in Lengths :
        LET holes == {b \in DOMAIN blocks : Holds(b, length)}
            Best(preferred(_, _)) ==
                CHOOSE b \in holes : \A c \in holes \ {b} :
                    \/ preferred(Length(blocks[b]), Length(blocks[c]))
                    \/ Length(blocks[b]) = Length(blocks[c]) /\ b < c
        IN  IF holes = {}
            THEN None = first_fit(length) /\ None = best_fit(length) /\ None = worst_fit(length)
            ELSE /\ first_fit(length) + 1 \in holes /\ \A b \in holes : first_fit(length) < b
                 /\ best_fit(length) = Best(LAMBDA m, n : m < n) - 1
                 /\ worst_fit(length) = Best(LAMBDA m, n : m > n) - 1

(* The positions of the blocks that processes own. *)
Owned == {b \in DOMAIN blocks : blocks[b].info # Unused}

Covered == UNION {blocks[i].begin .. blocks[i].end : i \in DOMAIN blocks}

(* Memory that drops out of the list is lost one unit at a time, and only  *)
(* by an allocation: a release or a compaction loses none, and a           *)
(* compaction finds all that was lost before (memory.c:51-55, 58-124,      *)
(* 211-241).                                                               *)
LossIsBounded ==
    [][LET lost == Covered \ Covered'
       IN  /\ Cardinality(lost) <= 1
           /\ lost # {} => Cardinality(Owned') = Cardinality(Owned) + 1
           /\ Compact => Covered' = 0 .. capacity - 1]_allocatorVars

Abstract == INSTANCE MemoryMap WITH
              Capacity <- capacity, Owners <- Names,
              regions <- {[owner |-> blocks[b].info, begin |-> blocks[b].begin,
                           end |-> blocks[b].end] : b \in Owned}

(* Every command keeps the other processes' memory as MemoryMap says. *)
ImplementsMemoryMap == Abstract!Spec
=============================================================================
