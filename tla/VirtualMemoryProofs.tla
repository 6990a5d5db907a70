------------------------- MODULE VirtualMemoryProofs -------------------------
(***************************************************************************)
(* What is true of fifo_none and fifo_fifo for every backing store, every  *)
(* size of the tables, the memory and a page, and every input: first each  *)
(* program by itself, then the two side by side.                           *)
(***************************************************************************)
EXTENDS VirtualMemory, Arithmetic, FiniteSetTheorems, SequenceTheorems, TLAPS

-----------------------------------------------------------------------------
(* Addresses *)

(* The constants, one by one. *)
LEMMA ConstantTypes ==
    /\ N_TLB_ENTRY \in Nat \ {0} /\ N_PAGE_TABLE_ENTRY \in Nat \ {0}
    /\ N_FRAME \in 1 .. N_PAGE_TABLE_ENTRY /\ N_FRAME \in Nat \ {0}
    /\ PAGE_FRAME_SIZE \in Nat \ {0}
    /\ VM_SIZE = N_PAGE_TABLE_ENTRY * PAGE_FRAME_SIZE /\ VM_SIZE \in Nat
    /\ MEM_SIZE = N_FRAME * PAGE_FRAME_SIZE /\ MEM_SIZE \in Nat
    /\ LOGIC_MEMORY \in [Virtual -> Int]
    /\ MaxInstructions \in Nat
BY ConstantsAssumption DEF VM_SIZE, MEM_SIZE

(* An address is a page number and an offset (fifo_fifo.c:104-113).        *)
LEMMA SplitAddress ==
    ASSUME NEW n \in Nat, NEW a \in 0 .. n * PAGE_FRAME_SIZE - 1
    PROVE  /\ get_page_number(a) \in 0 .. n - 1
           /\ get_offset(a) \in 0 .. PAGE_FRAME_SIZE - 1
           /\ a = get_page_number(a) * PAGE_FRAME_SIZE + get_offset(a)
<1>1. PAGE_FRAME_SIZE \in Nat \ {0} /\ a \in Nat /\ n * PAGE_FRAME_SIZE \in Nat
  BY ConstantTypes
<1>2. /\ a \div PAGE_FRAME_SIZE \in Nat /\ a % PAGE_FRAME_SIZE \in 0 .. PAGE_FRAME_SIZE - 1
      /\ a = (a \div PAGE_FRAME_SIZE) * PAGE_FRAME_SIZE + (a % PAGE_FRAME_SIZE)
  BY <1>1, QuotientAndRemainder
<1>3. a \div PAGE_FRAME_SIZE < n
  BY <1>1, QuotientIsBelow
<1> QED BY <1>2, <1>3 DEF get_page_number, get_offset

(* A page number and an offset are an address, whose parts they are.       *)
LEMMA JoinAddress ==
    ASSUME NEW n \in Nat, NEW f \in 0 .. n - 1, NEW o \in 0 .. PAGE_FRAME_SIZE - 1
    PROVE  /\ f * PAGE_FRAME_SIZE + o \in 0 .. n * PAGE_FRAME_SIZE - 1
           /\ get_page_number(f * PAGE_FRAME_SIZE + o) = f
           /\ get_offset(f * PAGE_FRAME_SIZE + o) = o
BY ConstantTypes, PartsOfSum, SumIsBelow DEF get_page_number, get_offset

-----------------------------------------------------------------------------
(* fifo_none *)

(* What FifoNone has in common with FifoFifo. *)
LEMMA SameSets ==
    /\ None!Pages = Pages /\ None!Frames = Pages /\ None!Entries = Entries
    /\ None!Addresses = Virtual /\ None!MEM_SIZE = VM_SIZE
    /\ \A a : None!get_page_number(a) = get_page_number(a) /\ None!get_offset(a) = get_offset(a)
BY DEF None!Pages, Pages, None!Frames, None!Entries, Entries, None!Addresses, Virtual,
       None!MEM_SIZE, VM_SIZE, None!get_page_number, get_page_number,
       None!get_offset, get_offset

(* And the cardinality that it takes from its own instance of FiniteSets.  *)
LEMMA SameCardinality == \A S : None!Cardinality(S) = Cardinality(S)
BY DEF None!Cardinality, Cardinality

(* Entries are used in their order. *)
NoneEntriesInUse ==
    \A i \in Entries : /\ i < none_tlb_item_count <=> none_TLB[i].page # -1
                       /\ i < none_tlb_item_count => none_TLB[i].frame \in Pages

(* The frame of each page that was loaded holds its bytes. *)
NoneFramesHold ==
    \A p \in Pages, o \in 0 .. PAGE_FRAME_SIZE - 1 :
        none_PAGE_TABLE[p] # -1 =>
            none_MEMORY[none_PAGE_TABLE[p] * PAGE_FRAME_SIZE + o] =
                LOGIC_MEMORY[p * PAGE_FRAME_SIZE + o]

(* What was printed was read from the frame of the page: PrintsBackingStore *)
(* by itself is not kept by a step, since it does not say what memory      *)
(* holds.                                                                  *)
NoneInvariant ==
    /\ None!TypeOK /\ NoneEntriesInUse /\ None!TlbAgrees
    /\ None!FramesAreDistinct /\ NoneFramesHold
    /\ None!PrintsBackingStore

(* consult_tlb finds the page's frame in the one entry of the page, and -1 *)
(* when there is none (fifo_none.c:143-150).                               *)
LEMMA NoneConsult ==
    ASSUME NoneInvariant, NEW p \in Pages
    PROVE  /\ None!consult_tlb(p) # -1 =>
                  /\ \E i \in Entries : none_TLB[i].page = p
                  /\ None!consult_tlb(p) = none_PAGE_TABLE[p]
                  /\ none_PAGE_TABLE[p] \in Pages
           /\ None!consult_tlb(p) = -1 => \A i \in Entries : none_TLB[i].page # p
<1> USE SameSets
<1>1. CASE None!Matching(p) = {}
  BY <1>1 DEF None!consult_tlb, None!Matching
<1>2. CASE None!Matching(p) # {}
  <2>1. PICK i \in Entries : none_TLB[i].page = p
    BY <1>2 DEF None!Matching
  <2>2. p # -1
    BY ConstantTypes DEF Pages
  <2>3. None!Matching(p) = {i}
    BY <2>1, <2>2 DEF None!Matching, NoneInvariant, None!TlbAgrees
  <2>4. i <= i
    BY ConstantTypes DEF Entries
  <2>5. None!consult_tlb(p) = none_TLB[i].frame
    BY <1>2, <2>3, <2>4 DEF None!consult_tlb
  <2>6. i < none_tlb_item_count /\ none_TLB[i].frame \in Pages
    BY <2>1, <2>2 DEF NoneInvariant, NoneEntriesInUse
  <2>7. none_PAGE_TABLE[p] = none_TLB[i].frame
    BY <2>1, <2>6 DEF NoneInvariant, None!TlbAgrees
  <2>8. none_TLB[i].frame # -1
    BY <2>6, ConstantTypes DEF Pages
  <2> QED BY <2>1, <2>5, <2>6, <2>7, <2>8
<1> QED BY <1>1, <1>2

(* The entry that a miss replaces.                                         *)
NoneVictim == IF none_tlb_item_count < N_TLB_ENTRY THEN none_tlb_item_count
              ELSE none_next_tlb_victim

(* update_tlb replaces one entry, which is in use then (fifo_none.c:152-164). *)
LEMMA NoneUpdate ==
    ASSUME NoneInvariant, NEW p \in Pages, NEW f \in Pages, None!update_tlb(p, f)
    PROVE  \E v \in Entries :
              /\ v = NoneVictim
              /\ none_TLB' = [none_TLB EXCEPT ![v] = [page |-> p, frame |-> f]]
              /\ \A i \in Entries : i < none_tlb_item_count' <=> (i < none_tlb_item_count \/ i = v)
              /\ none_tlb_item_count' \in 0 .. N_TLB_ENTRY
              /\ none_next_tlb_victim' \in Entries
<1> USE ConstantTypes
<1>1. none_tlb_item_count \in 0 .. N_TLB_ENTRY /\ none_next_tlb_victim \in Entries
  BY SameSets DEF NoneInvariant, None!TypeOK
<1>2. CASE none_tlb_item_count < N_TLB_ENTRY
  <2>1. /\ none_TLB' = [none_TLB EXCEPT ![none_tlb_item_count] = [page |-> p, frame |-> f]]
        /\ none_tlb_item_count' = none_tlb_item_count + 1
        /\ none_next_tlb_victim' = none_next_tlb_victim
    BY <1>2 DEF None!update_tlb
  <2>2. none_tlb_item_count \in Entries
    BY <1>1, <1>2 DEF Entries
  <2>3. \A i \in Entries : i < none_tlb_item_count' <=>
                               (i < none_tlb_item_count \/ i = none_tlb_item_count)
    BY <1>1, <2>1 DEF Entries
  <2>4. none_tlb_item_count' \in 0 .. N_TLB_ENTRY
    BY <1>1, <1>2, <2>1
  <2> QED BY <1>1, <1>2, <2>1, <2>2, <2>3, <2>4 DEF NoneVictim
<1>3. CASE none_tlb_item_count = N_TLB_ENTRY
  <2>1. /\ none_TLB' = [none_TLB EXCEPT ![none_next_tlb_victim] = [page |-> p, frame |-> f]]
        /\ none_next_tlb_victim' = (none_next_tlb_victim + 1) % N_TLB_ENTRY
        /\ none_tlb_item_count' = none_tlb_item_count
    BY <1>3 DEF None!update_tlb
  <2>2. \A i \in Entries : i < none_tlb_item_count
    BY <1>3 DEF Entries
  <2>3. none_next_tlb_victim' \in Entries
    BY <1>1, <2>1 DEF Entries
  <2>4. none_next_tlb_victim = NoneVictim
    BY <1>3 DEF NoneVictim
  <2> QED BY <1>1, <2>1, <2>2, <2>3, <2>4
<1> QED BY <1>1, <1>2, <1>3

(* A new entry for a page that had none, with the frame the page has now,  *)
(* keeps the TLB in agreement with the page table.                         *)
LEMMA NoneTlbKept ==
    ASSUME NoneInvariant, NEW p \in Pages, NEW f \in Pages, None!update_tlb(p, f),
           \A i \in Entries : none_TLB[i].page # p,
           none_PAGE_TABLE'[p] = f,
           \A q \in Pages \ {p} : none_PAGE_TABLE'[q] = none_PAGE_TABLE[q]
    PROVE  /\ none_TLB' \in [Entries -> [page : Pages \cup {-1}, frame : Pages \cup {-1}]]
           /\ none_tlb_item_count' \in 0 .. N_TLB_ENTRY
           /\ none_next_tlb_victim' \in Entries
           /\ NoneEntriesInUse' /\ None!TlbAgrees'
<1>1. PICK v \in Entries :
              /\ v = NoneVictim
              /\ none_TLB' = [none_TLB EXCEPT ![v] = [page |-> p, frame |-> f]]
              /\ \A i \in Entries : i < none_tlb_item_count' <=> (i < none_tlb_item_count \/ i = v)
              /\ none_tlb_item_count' \in 0 .. N_TLB_ENTRY
              /\ none_next_tlb_victim' \in Entries
  BY NoneUpdate
<1>2. none_TLB \in [Entries -> [page : Pages \cup {-1}, frame : Pages \cup {-1}]]
  BY SameSets DEF NoneInvariant, None!TypeOK
<1>3. none_TLB' \in [Entries -> [page : Pages \cup {-1}, frame : Pages \cup {-1}]]
  BY <1>1, <1>2
<1>4. /\ none_TLB'[v].page = p /\ none_TLB'[v].frame = f
      /\ \A i \in Entries \ {v} : none_TLB'[i] = none_TLB[i]
  BY <1>1, <1>2
<1>5. p # -1 /\ f # -1
  BY ConstantTypes DEF Pages
<1>6. NoneEntriesInUse'
  BY <1>1, <1>4, <1>5 DEF NoneEntriesInUse, NoneInvariant
<1>7. ASSUME NEW i \in Entries, i < none_tlb_item_count'
      PROVE  none_TLB'[i].page \in Pages /\ none_PAGE_TABLE'[none_TLB'[i].page] = none_TLB'[i].frame
  <2>1. CASE i = v
    BY <1>4, <2>1
  <2>2. CASE i # v
    <3>1. i < none_tlb_item_count /\ none_TLB'[i] = none_TLB[i]
      BY <1>1, <1>4, <1>7, <2>2
    <3>2. none_TLB[i].page \in Pages /\ none_PAGE_TABLE[none_TLB[i].page] = none_TLB[i].frame
      BY <3>1, SameSets DEF NoneInvariant, None!TlbAgrees
    <3> QED BY <3>1, <3>2
  <2> QED BY <2>1, <2>2
<1>8. ASSUME NEW i \in Entries, NEW j \in Entries,
             none_TLB'[i].page = none_TLB'[j].page, none_TLB'[i].page # -1
      PROVE  i = j
  BY <1>4, <1>8, SameSets DEF NoneInvariant, None!TlbAgrees
<1>9. None!TlbAgrees'
  BY <1>7, <1>8, SameSets DEF None!TlbAgrees
<1> QED BY <1>1, <1>3, <1>6, <1>9

(* The line printed shows the byte of the backing store, if the frame that *)
(* was found is the page's and holds it.                                   *)
LEMMA NonePrints ==
    ASSUME NEW a \in Virtual, NEW f \in Pages, None!PrintLine(a, f),
           none_MEMORY' \in [Virtual -> Int], NoneFramesHold',
           none_PAGE_TABLE'[get_page_number(a)] = f
    PROVE  /\ None!PrintsBackingStore'
           /\ Len(none_output') = 1
           /\ none_output'[1] \in [virtual : Virtual, physical : Virtual, value : Int]
           /\ none_output'[1].virtual = a /\ none_output'[1].value = LOGIC_MEMORY[a]
<1> USE ConstantTypes
<1> DEFINE p == get_page_number(a)
           o == get_offset(a)
           physical == f * PAGE_FRAME_SIZE + o
<1>1. p \in Pages /\ o \in 0 .. PAGE_FRAME_SIZE - 1 /\ a = p * PAGE_FRAME_SIZE + o
  BY SplitAddress DEF Virtual, Pages
<1>2. physical \in Virtual
  BY <1>1, JoinAddress DEF Virtual, Pages
<1>3. f # -1
  BY DEF Pages
<1>4. none_MEMORY'[physical] = LOGIC_MEMORY[a]
  BY <1>1, <1>3 DEF NoneFramesHold
<1>5. none_output' = <<[virtual |-> a, physical |-> physical, value |-> none_MEMORY'[physical]]>>
  BY <1>2, SameSets DEF None!PrintLine
<1>6. none_MEMORY'[physical] \in Int
  BY <1>2
<1> HIDE DEF physical
<1>7. /\ none_output'[1].virtual = a /\ none_output'[1].value = LOGIC_MEMORY[a]
      /\ Len(none_output') = 1 /\ DOMAIN none_output' = {1}
  BY <1>4, <1>5
<1>8. none_output'[1] \in [virtual : Virtual, physical : Virtual, value : Int]
  BY <1>2, <1>5, <1>6
<1> QED BY <1>7, <1>8 DEF None!PrintsBackingStore

(* load_to_memory finds a free frame, gives it to the page and leaves the  *)
(* frames of the other pages alone (fifo_none.c:137-141).                  *)
LEMMA NoneLoad ==
    ASSUME NoneInvariant, NEW p \in Pages, none_PAGE_TABLE[p] = -1, None!load_to_memory(p)
    PROVE  /\ none_next_frame_ptr \in Pages /\ none_next_frame_ptr' = none_next_frame_ptr + 1
           /\ none_next_frame_ptr' \in 0 .. N_PAGE_TABLE_ENTRY
           /\ none_PAGE_TABLE' \in [Pages -> Pages \cup {-1}]
           /\ none_PAGE_TABLE'[p] = none_next_frame_ptr
           /\ \A q \in Pages \ {p} : none_PAGE_TABLE'[q] = none_PAGE_TABLE[q]
           /\ none_MEMORY' \in [Virtual -> Int]
           /\ None!FramesAreDistinct' /\ NoneFramesHold'
<1> USE ConstantTypes
<1> DEFINE f == none_next_frame_ptr
           S == PAGE_FRAME_SIZE
<1>1. /\ none_PAGE_TABLE \in [Pages -> Pages \cup {-1}]
      /\ none_MEMORY \in [Virtual -> Int]
  BY SameSets DEF NoneInvariant, None!TypeOK
<1>2. /\ none_PAGE_TABLE' = [none_PAGE_TABLE EXCEPT ![p] = f]
      /\ none_MEMORY' = [a \in Virtual |-> IF get_page_number(a) = f
                                           THEN LOGIC_MEMORY[p * S + get_offset(a)]
                                           ELSE none_MEMORY[a]]
      /\ none_next_frame_ptr' = f + 1
  BY SameSets DEF None!load_to_memory, None!Loaded
<1>3. /\ \A q, r \in None!InMemory : none_PAGE_TABLE[q] = none_PAGE_TABLE[r] => q = r
      /\ \A q \in None!InMemory : none_PAGE_TABLE[q] \in 0 .. f - 1
      /\ f = Cardinality(None!InMemory)
  BY SameCardinality DEF NoneInvariant, None!FramesAreDistinct
<1>4. None!InMemory \subseteq Pages \ {p}
  BY SameSets DEF None!InMemory
<1>5. /\ IsFiniteSet(Pages) /\ Cardinality(Pages) = N_PAGE_TABLE_ENTRY
      /\ IsFiniteSet(Pages \ {p}) /\ Cardinality(Pages \ {p}) = N_PAGE_TABLE_ENTRY - 1
  <2>1. IsFiniteSet(Pages) /\ Cardinality(Pages) = N_PAGE_TABLE_ENTRY
    <3>1. /\ N_PAGE_TABLE_ENTRY - 1 \in Int /\ ~(0 > N_PAGE_TABLE_ENTRY - 1)
          /\ N_PAGE_TABLE_ENTRY - 1 - 0 + 1 = N_PAGE_TABLE_ENTRY
      OBVIOUS
    <3>2. /\ IsFiniteSet(0 .. N_PAGE_TABLE_ENTRY - 1)
          /\ Cardinality(0 .. N_PAGE_TABLE_ENTRY - 1) =
                 IF 0 > N_PAGE_TABLE_ENTRY - 1 THEN 0 ELSE N_PAGE_TABLE_ENTRY - 1 - 0 + 1
      BY <3>1, FS_Interval
    <3> QED BY <3>1, <3>2 DEF Pages
  <2> QED BY <2>1, FS_RemoveElement
<1>6. /\ IsFiniteSet(None!InMemory) /\ f \in Nat /\ f <= N_PAGE_TABLE_ENTRY - 1
  BY <1>3, <1>4, <1>5, FS_Subset, FS_CardinalityType
<1>7. f \in Pages /\ f + 1 \in 0 .. N_PAGE_TABLE_ENTRY /\ f # -1
  BY <1>6 DEF Pages
<1>8. /\ none_PAGE_TABLE' \in [Pages -> Pages \cup {-1}]
      /\ none_PAGE_TABLE'[p] = f
      /\ \A q \in Pages \ {p} : none_PAGE_TABLE'[q] = none_PAGE_TABLE[q]
  BY <1>1, <1>2, <1>7
<1>9. none_MEMORY' \in [Virtual -> Int]
  <2>1. ASSUME NEW a \in Virtual
        PROVE  LOGIC_MEMORY[p * S + get_offset(a)] \in Int
    BY SplitAddress, JoinAddress DEF Virtual, Pages
  <2> QED BY <1>1, <1>2, <2>1
<1>10. None!FramesAreDistinct'
  <2>1. None!InMemory' = None!InMemory \cup {p}
    BY <1>7, <1>8, SameSets DEF None!InMemory
  <2>2. Cardinality(None!InMemory') = f + 1
    BY <1>3, <1>4, <1>6, <2>1, FS_AddElement
  <2>3. \A q \in None!InMemory' : none_PAGE_TABLE'[q] \in 0 .. f
    BY <1>3, <1>4, <1>6, <1>8, <2>1
  <2>4. \A q, r \in None!InMemory' : none_PAGE_TABLE'[q] = none_PAGE_TABLE'[r] => q = r
    <3>1. \A q \in None!InMemory : none_PAGE_TABLE'[q] = none_PAGE_TABLE[q]
                                   /\ none_PAGE_TABLE[q] # f
      BY <1>3, <1>4, <1>6, <1>8
    <3> QED BY <1>3, <1>8, <2>1, <3>1
  <2>5. (f + 1) - 1 = f
    BY <1>6
  <2> QED BY <1>2, <2>2, <2>3, <2>4, <2>5, SameCardinality DEF None!FramesAreDistinct
<1>11. NoneFramesHold'
  <2> SUFFICES ASSUME NEW q \in Pages, NEW o \in 0 .. S - 1, none_PAGE_TABLE'[q] # -1
               PROVE  none_MEMORY'[none_PAGE_TABLE'[q] * S + o] = LOGIC_MEMORY[q * S + o]
    BY DEF NoneFramesHold
  <2> DEFINE g == none_PAGE_TABLE'[q]
             a == g * S + o
  <2>1. g \in Pages
    BY <1>8
  <2>2. a \in Virtual /\ get_page_number(a) = g /\ get_offset(a) = o
    BY <2>1, JoinAddress DEF Virtual, Pages
  <2>3. none_MEMORY'[a] = IF g = f THEN LOGIC_MEMORY[p * S + o] ELSE none_MEMORY[a]
    <3> HIDE DEF a
    <3> QED BY <1>2, <2>2
  <2>4. CASE q = p
    BY <1>8, <2>3, <2>4
  <2>5. CASE q # p
    <3>1. g = none_PAGE_TABLE[q] /\ q \in None!InMemory
      BY <1>8, <2>5, SameSets DEF None!InMemory
    <3>2. g # f
      BY <1>3, <1>6, <3>1
    <3> QED BY <2>3, <3>1, <3>2 DEF NoneInvariant, NoneFramesHold
  <2> QED BY <2>4, <2>5
<1> QED BY <1>2, <1>7, <1>8, <1>9, <1>10, <1>11

(* The three paths of a line, with what the calls of each are then known   *)
(* to return: the TLB counts a hit exactly when it answers, and the second *)
(* consult_page_table finds the page that was loaded (fifo_none.c:81-91).  *)
NoneHit(a) ==
    LET p == get_page_number(a)
    IN  /\ None!ReadLine /\ None!consult_tlb(p) # -1
        /\ none_tlb_hit_count' = none_tlb_hit_count + 1
        /\ UNCHANGED <<None!tlb, None!memory, none_page_fault_count>>
        /\ None!PrintLine(a, None!consult_tlb(p))

NoneFound(a) ==
    LET p == get_page_number(a)
    IN  /\ None!ReadLine /\ None!consult_tlb(p) = -1 /\ none_PAGE_TABLE[p] # -1
        /\ None!update_tlb(p, none_PAGE_TABLE[p])
        /\ UNCHANGED <<None!memory, none_page_fault_count, none_tlb_hit_count>>
        /\ None!PrintLine(a, none_PAGE_TABLE[p])

NoneFaulted(a) ==
    LET p == get_page_number(a)
    IN  /\ None!ReadLine /\ None!consult_tlb(p) = -1 /\ none_PAGE_TABLE[p] = -1
        /\ None!load_to_memory(p)
        /\ none_page_fault_count' = none_page_fault_count + 1
        /\ None!update_tlb(p, none_PAGE_TABLE'[p])
        /\ UNCHANGED none_tlb_hit_count
        /\ None!PrintLine(a, none_PAGE_TABLE'[p])

LEMMA NonePaths ==
    ASSUME NoneInvariant, NEW a \in Virtual
    PROVE  /\ None!TlbHit(a) => NoneHit(a)
           /\ None!PageTableHit(a) => NoneFound(a)
           /\ None!PageFault(a) => NoneFaulted(a)
<1> DEFINE p == get_page_number(a)
<1>1. p \in Pages /\ None!get_page_number(a) = p
  BY SplitAddress, SameSets, ConstantTypes DEF Virtual, Pages
<1>2. none_tlb_hit_count \in Nat /\ none_page_fault_count \in Nat
  BY DEF NoneInvariant, None!TypeOK
<1> HIDE DEF p
<1>3. /\ None!consult_tlb(p) # -1 => None!Hits(p) = 1
      /\ None!consult_tlb(p) = -1 => None!Hits(p) = 0
  <2>1. CASE None!consult_tlb(p) # -1
    BY <2>1 DEF None!consult_tlb, None!Hits
  <2>2. CASE None!consult_tlb(p) = -1
    <3>1. None!Matching(p) = {}
      BY <1>1, <2>2, NoneConsult, SameSets DEF None!Matching
    <3> QED BY <2>2, <3>1 DEF None!Hits
  <2> QED BY <2>1, <2>2
<1>4. ASSUME None!TlbHit(a)
      PROVE  NoneHit(a)
  BY <1>1, <1>3, <1>4 DEF None!TlbHit, NoneHit, p
<1>5. ASSUME None!PageTableHit(a)
      PROVE  NoneFound(a)
  BY <1>1, <1>2, <1>3, <1>5 DEF None!PageTableHit, None!consult_page_table, NoneFound, p
<1>6. ASSUME None!PageFault(a)
      PROVE  NoneFaulted(a)
  <2>1. /\ None!ReadLine /\ None!consult_tlb(p) = -1 /\ none_PAGE_TABLE[p] = -1
        /\ None!load_to_memory(p)
        /\ none_page_fault_count' = none_page_fault_count + None!Faults(none_PAGE_TABLE[p])
                                                         + None!Faults(none_PAGE_TABLE'[p])
        /\ None!update_tlb(p, none_PAGE_TABLE'[p])
        /\ none_tlb_hit_count' = none_tlb_hit_count + None!Hits(p)
        /\ None!PrintLine(a, none_PAGE_TABLE'[p])
    BY <1>1, <1>6 DEF None!PageFault, None!consult_page_table
  <2>2. none_PAGE_TABLE'[p] \in Pages
    BY <1>1, <2>1, NoneLoad
  <2>3. None!Faults(none_PAGE_TABLE[p]) = 1 /\ None!Faults(none_PAGE_TABLE'[p]) = 0
    BY <2>1, <2>2 DEF None!Faults, Pages
  <2>4. /\ none_page_fault_count' = none_page_fault_count + 1
        /\ none_tlb_hit_count' = none_tlb_hit_count
    BY <1>2, <1>3, <2>1, <2>3
  <2> QED BY <2>1, <2>4 DEF NoneFaulted, p
<1> QED BY <1>4, <1>5, <1>6

(* A hit in the TLB, a hit in the page table and a page fault all print    *)
(* the byte that was asked for, and keep the invariant.                    *)
LEMMA NoneTranslates ==
    ASSUME NoneInvariant, NEW a \in Virtual, None!Translate(a)
    PROVE  /\ NoneInvariant'
           /\ none_output'[1].virtual = a /\ none_output'[1].value = LOGIC_MEMORY[a]
<1> USE ConstantTypes
<1> DEFINE p == get_page_number(a)
<1>1. p \in Pages /\ None!get_page_number(a) = p
  BY SplitAddress, SameSets DEF Virtual, Pages
<1>0. NoneHit(a) \/ NoneFound(a) \/ NoneFaulted(a)
  BY NonePaths DEF None!Translate
<1>2. closed' = closed /\ closed \in BOOLEAN /\ instruction_count' \in Nat
  BY <1>0, SameSets DEF NoneHit, NoneFound, NoneFaulted, None!ReadLine, NoneInvariant, None!TypeOK
<1>3. none_page_fault_count' \in Nat /\ none_tlb_hit_count' \in Nat
  BY <1>0 DEF NoneHit, NoneFound, NoneFaulted, NoneInvariant, None!TypeOK
<1>4. /\ none_PAGE_TABLE \in [Pages -> Pages \cup {-1}] /\ none_MEMORY \in [Virtual -> Int]
      /\ none_next_frame_ptr \in 0 .. N_PAGE_TABLE_ENTRY
  BY SameSets DEF NoneInvariant, None!TypeOK
<1> HIDE DEF p
<1>5. CASE NoneHit(a)
  <2>1. /\ None!consult_tlb(p) # -1 /\ None!PrintLine(a, None!consult_tlb(p))
        /\ UNCHANGED <<None!tlb, None!memory>>
    BY <1>5 DEF NoneHit, p
  <2>2. UNCHANGED <<none_TLB, none_tlb_item_count, none_next_tlb_victim, none_PAGE_TABLE,
                    none_MEMORY, none_next_frame_ptr>>
    BY <2>1 DEF None!tlb, None!memory
  <2>3. None!consult_tlb(p) = none_PAGE_TABLE'[p] /\ none_PAGE_TABLE'[p] \in Pages
    BY <1>1, <2>1, <2>2, NoneConsult
  <2>4. NoneEntriesInUse' /\ None!TlbAgrees' /\ None!FramesAreDistinct' /\ NoneFramesHold'
    BY <2>2 DEF NoneInvariant, NoneEntriesInUse, None!TlbAgrees, None!FramesAreDistinct,
                None!InMemory, NoneFramesHold
  <2>5. /\ None!PrintsBackingStore' /\ Len(none_output') = 1
        /\ none_output'[1] \in [virtual : Virtual, physical : Virtual, value : Int]
        /\ none_output'[1].virtual = a /\ none_output'[1].value = LOGIC_MEMORY[a]
    BY <1>4, <2>1, <2>2, <2>3, <2>4, NonePrints DEF p
  <2>6. None!TypeOK'
    BY <1>2, <1>3, <2>2, <2>5, SameSets DEF NoneInvariant, None!TypeOK
  <2> QED BY <2>4, <2>5, <2>6 DEF NoneInvariant
<1>6. CASE NoneFound(a)
  <2>1. /\ None!consult_tlb(p) = -1 /\ none_PAGE_TABLE[p] # -1
        /\ None!update_tlb(p, none_PAGE_TABLE[p])
        /\ UNCHANGED None!memory /\ None!PrintLine(a, none_PAGE_TABLE[p])
    BY <1>6 DEF NoneFound, p
  <2>2. UNCHANGED <<none_PAGE_TABLE, none_MEMORY, none_next_frame_ptr>>
    BY <2>1 DEF None!memory
  <2>3. none_PAGE_TABLE[p] \in Pages
    BY <1>1, <1>4, <2>1
  <2>4. /\ none_TLB' \in [Entries -> [page : Pages \cup {-1}, frame : Pages \cup {-1}]]
        /\ none_tlb_item_count' \in 0 .. N_TLB_ENTRY
        /\ none_next_tlb_victim' \in Entries
        /\ NoneEntriesInUse' /\ None!TlbAgrees'
    BY <1>1, <2>1, <2>2, <2>3, NoneConsult, NoneTlbKept
  <2>5. None!FramesAreDistinct' /\ NoneFramesHold'
    BY <2>2 DEF NoneInvariant, None!FramesAreDistinct, None!InMemory, NoneFramesHold
  <2>6. /\ None!PrintsBackingStore' /\ Len(none_output') = 1
        /\ none_output'[1] \in [virtual : Virtual, physical : Virtual, value : Int]
        /\ none_output'[1].virtual = a /\ none_output'[1].value = LOGIC_MEMORY[a]
    BY <1>4, <2>1, <2>2, <2>3, <2>5, NonePrints DEF p
  <2>7. None!TypeOK'
    BY <1>2, <1>3, <1>4, <2>2, <2>4, <2>6, SameSets DEF None!TypeOK
  <2> QED BY <2>4, <2>5, <2>6, <2>7 DEF NoneInvariant
<1>7. CASE NoneFaulted(a)
  <2>1. /\ None!consult_tlb(p) = -1 /\ none_PAGE_TABLE[p] = -1
        /\ None!load_to_memory(p)
        /\ None!update_tlb(p, none_PAGE_TABLE'[p])
        /\ None!PrintLine(a, none_PAGE_TABLE'[p])
    BY <1>7 DEF NoneFaulted, p
  <2>2. /\ none_next_frame_ptr \in Pages
        /\ none_next_frame_ptr' \in 0 .. N_PAGE_TABLE_ENTRY
        /\ none_PAGE_TABLE' \in [Pages -> Pages \cup {-1}]
        /\ none_PAGE_TABLE'[p] = none_next_frame_ptr
        /\ \A q \in Pages \ {p} : none_PAGE_TABLE'[q] = none_PAGE_TABLE[q]
        /\ none_MEMORY' \in [Virtual -> Int]
        /\ None!FramesAreDistinct' /\ NoneFramesHold'
    BY <1>1, <2>1, NoneLoad
  <2>3. /\ none_TLB' \in [Entries -> [page : Pages \cup {-1}, frame : Pages \cup {-1}]]
        /\ none_tlb_item_count' \in 0 .. N_TLB_ENTRY
        /\ none_next_tlb_victim' \in Entries
        /\ NoneEntriesInUse' /\ None!TlbAgrees'
    BY <1>1, <2>1, <2>2, NoneConsult, NoneTlbKept
  <2>4. /\ None!PrintsBackingStore' /\ Len(none_output') = 1
        /\ none_output'[1] \in [virtual : Virtual, physical : Virtual, value : Int]
        /\ none_output'[1].virtual = a /\ none_output'[1].value = LOGIC_MEMORY[a]
    BY <2>1, <2>2, NonePrints DEF p
  <2>5. None!TypeOK'
    BY <1>2, <1>3, <2>2, <2>3, <2>4, SameSets DEF None!TypeOK
  <2> QED BY <2>2, <2>3, <2>4, <2>5 DEF NoneInvariant
<1> QED BY <1>0, <1>5, <1>6, <1>7

(* Every step of fifo_none keeps the invariant.                            *)
LEMMA NoneStep ==
    ASSUME NoneInvariant, [None!Next]_(None!vars)
    PROVE  NoneInvariant'
<1>1. ASSUME NEW a \in None!Addresses, None!Translate(a)
      PROVE  NoneInvariant'
  BY <1>1, SameSets, NoneTranslates
<1>2. CASE None!EndOfFile \/ None!Terminated \/ UNCHANGED None!vars
  <2>1. /\ UNCHANGED <<none_TLB, none_tlb_item_count, none_next_tlb_victim, none_PAGE_TABLE,
                       none_MEMORY, none_next_frame_ptr, none_page_fault_count,
                       none_tlb_hit_count, instruction_count, none_output>>
        /\ closed' \in {TRUE, closed}
    BY <1>2 DEF None!EndOfFile, None!Terminated, None!vars, None!tlb, None!memory
  <2>2. NoneEntriesInUse' /\ None!TlbAgrees' /\ None!FramesAreDistinct' /\ NoneFramesHold'
    BY <2>1 DEF NoneInvariant, NoneEntriesInUse, None!TlbAgrees, None!FramesAreDistinct,
                None!InMemory, NoneFramesHold
  <2>3. None!TypeOK' /\ None!PrintsBackingStore'
    BY <2>1 DEF NoneInvariant, None!TypeOK, None!PrintsBackingStore
  <2> QED BY <2>2, <2>3 DEF NoneInvariant
<1> QED BY <1>1, <1>2 DEF None!Next

(* It holds when fifo_none starts.                                         *)
LEMMA NoneStart ==
    ASSUME None!Init
    PROVE  NoneInvariant
<1> USE ConstantTypes, SameSets DEF None!Init
<1>1. \A p \in Pages : none_PAGE_TABLE[p] = -1
  OBVIOUS
<1>2. None!InMemory = {}
  BY <1>1 DEF None!InMemory
<1>3. None!FramesAreDistinct /\ NoneFramesHold
  BY <1>1, <1>2, FS_EmptySet, SameCardinality DEF None!FramesAreDistinct, NoneFramesHold
<1>4. NoneEntriesInUse /\ None!TlbAgrees
  BY DEF NoneEntriesInUse, None!TlbAgrees, Entries
<1>5. None!PrintsBackingStore
  BY DEF None!PrintsBackingStore
<1>6. 0 \in Entries /\ 0 \in 0 .. N_PAGE_TABLE_ENTRY /\ 0 \in 0 .. N_TLB_ENTRY
  BY DEF Entries
<1>7. None!TypeOK
  BY <1>6 DEF None!TypeOK
<1> QED BY <1>3, <1>4, <1>5, <1>7 DEF NoneInvariant

-----------------------------------------------------------------------------
(* fifo_fifo *)

(* What TlbAgrees and FramesHoldTheirPages leave open: an entry in use has *)
(* a frame, the victims wait for the tables to be full, and nothing has    *)
(* been evicted while there are free frames.                               *)
FifoInUse ==
    /\ \A i \in Entries : TLB[i].valid => TLB[i].frame \in Frames
    /\ tlb_item_count < N_TLB_ENTRY => next_tlb_victim = 0
    /\ next_frame_ptr < N_FRAME => next_memory_victim = 0
    /\ next_frame_ptr < N_FRAME =>
           \A p \in Pages : PAGE_TABLE[p] # -1 => FRAME_TO_PAGE[PAGE_TABLE[p]] = p

FifoInvariant == TypeOK /\ TlbAgrees /\ FramesHoldTheirPages /\ FifoInUse

(* consult_tlb finds the frame that the page table has for the page, which *)
(* may be another page's by now, in the one entry of the page              *)
(* (fifo_fifo.c:173-181).                                                  *)
LEMMA FifoConsult ==
    ASSUME FifoInvariant, NEW p \in Pages
    PROVE  /\ consult_tlb(p) # -1 =>
                  /\ \E i \in Entries : TLB[i].valid /\ TLB[i].page = p
                  /\ consult_tlb(p) = PAGE_TABLE[p]
                  /\ PAGE_TABLE[p] \in Frames
           /\ consult_tlb(p) = -1 => \A i \in Entries : ~(TLB[i].valid /\ TLB[i].page = p)
<1>1. CASE Matching(p) = {}
  BY <1>1 DEF consult_tlb, Matching
<1>2. CASE Matching(p) # {}
  <2>1. PICK i \in Entries : TLB[i].valid /\ TLB[i].page = p
    BY <1>2 DEF Matching
  <2>2. Matching(p) = {i}
    BY <2>1 DEF Matching, FifoInvariant, TlbAgrees
  <2>3. i <= i
    BY ConstantTypes DEF Entries
  <2>4. consult_tlb(p) = TLB[i].frame
    BY <1>2, <2>2, <2>3 DEF consult_tlb
  <2>5. TLB[i].frame \in Frames /\ PAGE_TABLE[p] = TLB[i].frame
    BY <2>1 DEF FifoInvariant, FifoInUse, TlbAgrees
  <2>6. TLB[i].frame # -1
    BY <2>5, ConstantTypes DEF Frames
  <2> QED BY <2>1, <2>4, <2>5, <2>6
<1> QED BY <1>1, <1>2

(* The entry that a miss replaces.                                         *)
TlbVictim == IF tlb_item_count < N_TLB_ENTRY THEN tlb_item_count ELSE next_tlb_victim

Entry == [page : Pages \cup {-1}, frame : Frames \cup {-1}, valid : BOOLEAN]

(* For a page without a valid entry update_tlb replaces one entry and      *)
(* invalidates none (fifo_fifo.c:173-201).                                 *)
LEMMA FifoUpdate ==
    ASSUME FifoInvariant, NEW p \in Pages, NEW f \in Frames, update_tlb(p, f),
           \A i \in Entries : ~(TLB[i].valid /\ TLB[i].page = p)
    PROVE  \E v \in Entries :
              /\ v = TlbVictim
              /\ TLB' \in [Entries -> Entry]
              /\ TLB'[v] = [page |-> p, frame |-> f, valid |-> TRUE]
              /\ \A i \in Entries \ {v} : TLB'[i] = TLB[i]
              /\ \A i \in Entries : i < tlb_item_count' <=> (i < tlb_item_count \/ i = v)
              /\ tlb_item_count' \in 0 .. N_TLB_ENTRY
              /\ next_tlb_victim' \in Entries
              /\ tlb_item_count' < N_TLB_ENTRY => next_tlb_victim' = 0
<1> USE ConstantTypes
<1> DEFINE entry == [page |-> p, frame |-> f, valid |-> TRUE]
<1>1. /\ tlb_item_count \in 0 .. N_TLB_ENTRY /\ next_tlb_victim \in Entries
      /\ TLB \in [Entries -> Entry]
      /\ tlb_item_count < N_TLB_ENTRY => next_tlb_victim = 0
  BY DEF FifoInvariant, TypeOK, FifoInUse, Entry
<1>2. entry \in Entry
  BY DEF Entry
<1> HIDE DEF entry
<1>3. CASE tlb_item_count < N_TLB_ENTRY
  <2>1. /\ TLB' = [TLB EXCEPT ![tlb_item_count] = entry]
        /\ tlb_item_count' = tlb_item_count + 1
        /\ next_tlb_victim' = next_tlb_victim
    BY <1>3 DEF update_tlb, entry
  <2>2. tlb_item_count \in Entries
    BY <1>1, <1>3 DEF Entries
  <2>3. \A i \in Entries : i < tlb_item_count' <=> (i < tlb_item_count \/ i = tlb_item_count)
    BY <1>1, <2>1 DEF Entries
  <2>4. tlb_item_count' \in 0 .. N_TLB_ENTRY /\ next_tlb_victim' = 0
    BY <1>1, <1>3, <2>1
  <2>5. /\ TLB' \in [Entries -> Entry] /\ TLB'[tlb_item_count] = entry
        /\ \A i \in Entries \ {tlb_item_count} : TLB'[i] = TLB[i]
    BY <1>1, <1>2, <2>1, <2>2
  <2> QED BY <1>1, <1>3, <2>1, <2>2, <2>3, <2>4, <2>5 DEF TlbVictim, entry
<1>4. CASE tlb_item_count = N_TLB_ENTRY
  <2>1. /\ TLB' = [i \in Entries |-> IF i = next_tlb_victim THEN entry
                                     ELSE [TLB[i] EXCEPT !.valid = TLB[i].valid
                                                                   /\ TLB[i].page # p]]
        /\ next_tlb_victim' = (next_tlb_victim + 1) % N_TLB_ENTRY
        /\ tlb_item_count' = tlb_item_count
    BY <1>4 DEF update_tlb, entry
  <2>2. ASSUME NEW i \in Entries
        PROVE  [TLB[i] EXCEPT !.valid = TLB[i].valid /\ TLB[i].page # p] = TLB[i]
    <3>1. TLB[i] \in Entry
      BY <1>1
    <3>2. (TLB[i].valid /\ TLB[i].page # p) = TLB[i].valid
      BY <3>1 DEF Entry
    <3> QED BY <3>1, <3>2 DEF Entry
  <2>3. TLB' = [i \in Entries |-> IF i = next_tlb_victim THEN entry ELSE TLB[i]]
    BY <2>1, <2>2
  <2>4. \A i \in Entries : i < tlb_item_count
    BY <1>4 DEF Entries
  <2>5. next_tlb_victim' \in Entries
    BY <1>1, <2>1 DEF Entries
  <2>6. /\ TLB' \in [Entries -> Entry] /\ TLB'[next_tlb_victim] = entry
        /\ \A i \in Entries \ {next_tlb_victim} : TLB'[i] = TLB[i]
    BY <1>1, <1>2, <2>3
  <2>7. next_tlb_victim = TlbVictim /\ ~(tlb_item_count' < N_TLB_ENTRY)
    BY <1>4, <2>1 DEF TlbVictim
  <2>8. tlb_item_count' \in 0 .. N_TLB_ENTRY
    BY <1>1, <2>1
  <2>9. \A i \in Entries : i < tlb_item_count' <=>
                               (i < tlb_item_count \/ i = next_tlb_victim)
    BY <2>1, <2>4
  <2> QED BY <1>1, <2>5, <2>6, <2>7, <2>8, <2>9 DEF entry
<1>5. tlb_item_count < N_TLB_ENTRY \/ tlb_item_count = N_TLB_ENTRY
  BY <1>1
<1> QED BY <1>3, <1>4, <1>5

(* A new entry for a page that had none, with the frame the page has now,  *)
(* keeps the TLB in agreement with the page table, also when that frame    *)
(* was taken from a page with an entry: the page table keeps that page's   *)
(* old frame just as the entry does.                                       *)
LEMMA FifoTlbKept ==
    ASSUME FifoInvariant, NEW p \in Pages, NEW f \in Frames, update_tlb(p, f),
           \A i \in Entries : ~(TLB[i].valid /\ TLB[i].page = p),
           PAGE_TABLE'[p] = f,
           \A q \in Pages \ {p} : PAGE_TABLE'[q] = PAGE_TABLE[q]
    PROVE  /\ TLB' \in [Entries -> Entry]
           /\ tlb_item_count' \in 0 .. N_TLB_ENTRY
           /\ next_tlb_victim' \in Entries
           /\ tlb_item_count' < N_TLB_ENTRY => next_tlb_victim' = 0
           /\ \A i \in Entries : TLB'[i].valid => TLB'[i].frame \in Frames
           /\ TlbAgrees'
<1>1. PICK v \in Entries :
              /\ v = TlbVictim
              /\ TLB' \in [Entries -> Entry]
              /\ TLB'[v] = [page |-> p, frame |-> f, valid |-> TRUE]
              /\ \A i \in Entries \ {v} : TLB'[i] = TLB[i]
              /\ \A i \in Entries : i < tlb_item_count' <=> (i < tlb_item_count \/ i = v)
              /\ tlb_item_count' \in 0 .. N_TLB_ENTRY
              /\ next_tlb_victim' \in Entries
              /\ tlb_item_count' < N_TLB_ENTRY => next_tlb_victim' = 0
  BY FifoUpdate
<1>2. /\ TLB'[v].page = p /\ TLB'[v].frame = f /\ TLB'[v].valid
      /\ \A i \in Entries \ {v} : TLB'[i] = TLB[i]
  BY <1>1
<1>3. \A i \in Entries : TLB'[i].valid => TLB'[i].frame \in Frames
  BY <1>2 DEF FifoInvariant, FifoInUse
<1>4. \A i \in Entries : TLB'[i].valid <=> i < tlb_item_count'
  BY <1>1, <1>2 DEF FifoInvariant, TlbAgrees
<1>5. \A i \in Entries : TLB'[i].valid => /\ TLB'[i].page \in Pages
                                          /\ PAGE_TABLE'[TLB'[i].page] = TLB'[i].frame
  BY <1>2 DEF FifoInvariant, TlbAgrees
<1>6. \A i, j \in Entries : TLB'[i].valid /\ TLB'[j].valid /\ TLB'[i].page = TLB'[j].page => i = j
  BY <1>2 DEF FifoInvariant, TlbAgrees
<1>7. TlbAgrees'
  BY <1>4, <1>5, <1>6 DEF TlbAgrees
<1> QED BY <1>1, <1>3, <1>7

(* The frame that a page fault fills. *)
FrameVictim == IF next_frame_ptr < N_FRAME THEN next_frame_ptr ELSE next_memory_victim

(* load_to_memory fills a free frame, or the victim, with a page that is   *)
(* in no frame, and keeps the page table, its inverse and memory in        *)
(* agreement for all the others (fifo_fifo.c:158-171).                     *)
LEMMA FifoLoad ==
    ASSUME FifoInvariant, NEW p \in Pages, ~Resident(p), load_to_memory(p)
    PROVE  \E f \in Frames :
              /\ f = FrameVictim /\ f < next_frame_ptr'
              /\ next_frame_ptr' \in 0 .. N_FRAME /\ next_memory_victim' \in Frames
              /\ PAGE_TABLE' \in [Pages -> Frames \cup {-1}] /\ PAGE_TABLE'[p] = f
              /\ \A q \in Pages \ {p} : PAGE_TABLE'[q] = PAGE_TABLE[q]
              /\ FRAME_TO_PAGE' \in [Frames -> Pages] /\ FRAME_TO_PAGE'[f] = p
              /\ \A g \in Frames \ {f} : FRAME_TO_PAGE'[g] = FRAME_TO_PAGE[g]
              /\ MEMORY' \in [Physical -> Int]
              /\ FramesHoldTheirPages'
              /\ next_frame_ptr' < N_FRAME => next_memory_victim' = 0
              /\ next_frame_ptr' < N_FRAME =>
                     \A q \in Pages : PAGE_TABLE'[q] # -1 => FRAME_TO_PAGE'[PAGE_TABLE'[q]] = q
<1> USE ConstantTypes
<1> DEFINE f == FrameVictim
           S == PAGE_FRAME_SIZE
<1>1. /\ PAGE_TABLE \in [Pages -> Frames \cup {-1}] /\ FRAME_TO_PAGE \in [Frames -> Pages]
      /\ MEMORY \in [Physical -> Int]
      /\ next_frame_ptr \in 0 .. N_FRAME /\ next_memory_victim \in Frames
  BY DEF FifoInvariant, TypeOK
<1>2. /\ PAGE_TABLE' = [PAGE_TABLE EXCEPT ![p] = f]
      /\ FRAME_TO_PAGE' = [FRAME_TO_PAGE EXCEPT ![f] = p]
      /\ MEMORY' = [a \in Physical |-> IF get_page_number(a) = f
                                       THEN LOGIC_MEMORY[p * S + get_offset(a)]
                                       ELSE MEMORY[a]]
  BY DEF load_to_memory, Loaded, FrameVictim
<1>3. /\ f \in Frames /\ f < next_frame_ptr'
      /\ next_frame_ptr' \in 0 .. N_FRAME /\ next_memory_victim' \in Frames
      /\ \A g \in Frames : g < next_frame_ptr' => g = f \/ g < next_frame_ptr
      /\ next_frame_ptr <= next_frame_ptr'
      /\ next_frame_ptr' < N_FRAME => f = next_frame_ptr /\ next_frame_ptr < N_FRAME
                                      /\ next_memory_victim' = next_memory_victim
  <2>1. CASE next_frame_ptr < N_FRAME
    <3>1. /\ f = next_frame_ptr /\ next_frame_ptr' = next_frame_ptr + 1
          /\ next_memory_victim' = next_memory_victim
      BY <2>1 DEF load_to_memory, FrameVictim
    <3> QED BY <1>1, <2>1, <3>1 DEF Frames
  <2>2. CASE next_frame_ptr = N_FRAME
    <3>1. /\ f = next_memory_victim /\ next_frame_ptr' = next_frame_ptr
          /\ next_memory_victim' = (next_memory_victim + 1) % N_FRAME
      BY <2>2 DEF load_to_memory, FrameVictim
    <3>2. next_memory_victim' \in Frames
      BY <1>1, <3>1 DEF Frames
    <3>3. \A g \in Frames : g < next_frame_ptr
      BY <2>2 DEF Frames
    <3> QED BY <1>1, <2>2, <3>1, <3>2, <3>3
  <2> QED BY <1>1, <2>1, <2>2
<1> HIDE DEF f
<1>4. /\ PAGE_TABLE' \in [Pages -> Frames \cup {-1}] /\ PAGE_TABLE'[p] = f
      /\ \A q \in Pages \ {p} : PAGE_TABLE'[q] = PAGE_TABLE[q]
      /\ FRAME_TO_PAGE' \in [Frames -> Pages] /\ FRAME_TO_PAGE'[f] = p
      /\ \A g \in Frames \ {f} : FRAME_TO_PAGE'[g] = FRAME_TO_PAGE[g]
  BY <1>1, <1>2, <1>3
<1>5. ASSUME NEW a \in Physical
      PROVE  get_page_number(a) \in Frames /\ get_offset(a) \in 0 .. S - 1
  BY SplitAddress DEF Physical, Frames
<1>6. MEMORY' \in [Physical -> Int]
  <2>1. ASSUME NEW a \in Physical
        PROVE  LOGIC_MEMORY[p * S + get_offset(a)] \in Int
    BY <1>5, JoinAddress DEF Virtual, Pages
  <2> QED BY <1>1, <1>2, <2>1
<1>7. /\ \A g \in Frames : g < next_frame_ptr => PAGE_TABLE[FRAME_TO_PAGE[g]] = g
      /\ \A q \in Pages : PAGE_TABLE[q] < next_frame_ptr
      /\ \A a \in Physical : get_page_number(a) < next_frame_ptr =>
             MEMORY[a] = LOGIC_MEMORY[FRAME_TO_PAGE[get_page_number(a)] * S + get_offset(a)]
  BY DEF FifoInvariant, FramesHoldTheirPages
<1>8. ASSUME NEW g \in Frames, g < next_frame_ptr', g # f
      PROVE  FRAME_TO_PAGE[g] # p /\ PAGE_TABLE[FRAME_TO_PAGE[g]] = g
  <2>1. g < next_frame_ptr /\ PAGE_TABLE[FRAME_TO_PAGE[g]] = g
    BY <1>3, <1>7, <1>8
  <2>2. g # -1
    BY DEF Frames
  <2> QED BY <2>1, <2>2 DEF Resident, is_memory_valid
<1>9. \A g \in Frames : g < next_frame_ptr' => PAGE_TABLE'[FRAME_TO_PAGE'[g]] = g
  BY <1>4, <1>8
<1>10. \A q \in Pages : PAGE_TABLE'[q] < next_frame_ptr'
  <2> TAKE q \in Pages
  <2>1. CASE q = p
    BY <1>3, <1>4, <2>1
  <2>2. CASE q # p
    <3>1. PAGE_TABLE'[q] < next_frame_ptr /\ PAGE_TABLE'[q] \in Int
      BY <1>1, <1>4, <1>7, <2>2 DEF Frames
    <3> QED BY <1>1, <1>3, <3>1
  <2> QED BY <2>1, <2>2
<1>11. ASSUME NEW a \in Physical, get_page_number(a) < next_frame_ptr'
       PROVE  MEMORY'[a] = LOGIC_MEMORY[FRAME_TO_PAGE'[get_page_number(a)] * S + get_offset(a)]
  <2>1. CASE get_page_number(a) = f
    BY <1>2, <1>4, <2>1
  <2>2. CASE get_page_number(a) # f
    <3>1. get_page_number(a) < next_frame_ptr
      BY <1>3, <1>5, <1>11, <2>2
    <3>2. MEMORY'[a] = MEMORY[a]
      BY <1>2, <2>2
    <3>3. FRAME_TO_PAGE'[get_page_number(a)] = FRAME_TO_PAGE[get_page_number(a)]
      BY <1>4, <1>5, <2>2
    <3> QED BY <1>7, <3>1, <3>2, <3>3
  <2> QED BY <2>1, <2>2
<1>12. FramesHoldTheirPages'
  BY <1>9, <1>10, <1>11 DEF FramesHoldTheirPages
<1>13. next_frame_ptr' < N_FRAME => next_memory_victim' = 0
  BY <1>3 DEF FifoInvariant, FifoInUse
<1>14. ASSUME next_frame_ptr' < N_FRAME, NEW q \in Pages, PAGE_TABLE'[q] # -1
       PROVE  FRAME_TO_PAGE'[PAGE_TABLE'[q]] = q
  <2>1. CASE q = p
    BY <1>4, <2>1
  <2>2. CASE q # p
    <3>1. PAGE_TABLE'[q] = PAGE_TABLE[q] /\ PAGE_TABLE[q] \in Frames
      BY <1>1, <1>4, <1>14, <2>2
    <3>2. FRAME_TO_PAGE[PAGE_TABLE[q]] = q
      BY <1>3, <1>14, <3>1 DEF FifoInvariant, FifoInUse
    <3>3. PAGE_TABLE[q] # f
      BY <1>1, <1>3, <1>7, <1>14
    <3> QED BY <1>4, <3>1, <3>2, <3>3
  <2> QED BY <2>1, <2>2
<1> QED BY <1>3, <1>4, <1>6, <1>12, <1>13, <1>14 DEF f

(* The line printed is read from memory, and shows the byte of the backing *)
(* store if the frame that was found is in use and the page's.             *)
LEMMA FifoPrints ==
    ASSUME NEW a \in Virtual, NEW f \in Frames, PrintLine(a, f),
           MEMORY' \in [Physical -> Int], FramesHoldTheirPages'
    PROVE  /\ Len(output') = 1
           /\ output'[1] \in [virtual : Virtual, physical : Physical, value : Int]
           /\ output'[1].virtual = a
           /\ f < next_frame_ptr' /\ FRAME_TO_PAGE'[f] = get_page_number(a) =>
                  output'[1].value = LOGIC_MEMORY[a]
<1> USE ConstantTypes
<1> DEFINE p == get_page_number(a)
           o == get_offset(a)
           physical == f * PAGE_FRAME_SIZE + o
<1>1. p \in Pages /\ o \in 0 .. PAGE_FRAME_SIZE - 1 /\ a = p * PAGE_FRAME_SIZE + o
  BY SplitAddress DEF Virtual, Pages
<1>2. physical \in Physical /\ get_page_number(physical) = f /\ get_offset(physical) = o
  BY <1>1, JoinAddress DEF Physical, Frames
<1>3. output' = <<[virtual |-> a, physical |-> physical, value |-> MEMORY'[physical]]>>
  BY <1>2 DEF PrintLine
<1> HIDE DEF physical
<1>4. MEMORY'[physical] \in Int
  BY <1>2
<1>5. /\ Len(output') = 1 /\ output'[1].virtual = a /\ output'[1].value = MEMORY'[physical]
      /\ output'[1] \in [virtual : Virtual, physical : Physical, value : Int]
  BY <1>2, <1>3, <1>4
<1>6. f < next_frame_ptr' /\ FRAME_TO_PAGE'[f] = p => MEMORY'[physical] = LOGIC_MEMORY[a]
  BY <1>1, <1>2 DEF FramesHoldTheirPages
<1> QED BY <1>5, <1>6

(* What memory holds is kept by a step that leaves memory alone.           *)
LEMMA FifoMemoryKept ==
    ASSUME FifoInvariant, UNCHANGED memory
    PROVE  /\ UNCHANGED <<PAGE_TABLE, FRAME_TO_PAGE, MEMORY, next_frame_ptr, next_memory_victim>>
           /\ FramesHoldTheirPages'
           /\ next_frame_ptr' < N_FRAME => next_memory_victim' = 0
           /\ next_frame_ptr' < N_FRAME =>
                  \A q \in Pages : PAGE_TABLE'[q] # -1 => FRAME_TO_PAGE'[PAGE_TABLE'[q]] = q
<1>1. UNCHANGED <<PAGE_TABLE, FRAME_TO_PAGE, MEMORY, next_frame_ptr, next_memory_victim>>
  BY DEF memory
<1>2. FramesHoldTheirPages'
  BY <1>1 DEF FifoInvariant, FramesHoldTheirPages
<1> QED BY <1>1, <1>2 DEF FifoInvariant, FifoInUse

(* And what the TLB holds by one that leaves both alone.                   *)
LEMMA FifoTablesKept ==
    ASSUME FifoInvariant, UNCHANGED <<tlb, memory>>
    PROVE  /\ UNCHANGED <<TLB, tlb_item_count, next_tlb_victim>>
           /\ TlbAgrees' /\ FifoInUse'
<1>1. UNCHANGED <<TLB, tlb_item_count, next_tlb_victim, PAGE_TABLE, FRAME_TO_PAGE,
                  next_frame_ptr, next_memory_victim>>
  BY DEF tlb, memory
<1> QED BY <1>1 DEF FifoInvariant, TlbAgrees, FifoInUse

(* The three paths of a line, with what the calls of each are then known   *)
(* to return: the TLB counts a hit exactly when it answers, and the second *)
(* consult_page_table finds the page that was loaded (fifo_fifo.c:87-97).  *)
FifoHit(a) ==
    LET p == get_page_number(a)
    IN  /\ ReadLine /\ consult_tlb(p) # -1
        /\ tlb_hit_count' = tlb_hit_count + 1
        /\ UNCHANGED <<tlb, memory, page_fault_count>>
        /\ PrintLine(a, consult_tlb(p))

FifoFound(a) ==
    LET p == get_page_number(a)
    IN  /\ ReadLine /\ consult_tlb(p) = -1 /\ Resident(p)
        /\ update_tlb(p, PAGE_TABLE[p])
        /\ UNCHANGED <<memory, page_fault_count, tlb_hit_count>>
        /\ PrintLine(a, PAGE_TABLE[p])

FifoFaulted(a) ==
    LET p == get_page_number(a)
    IN  /\ ReadLine /\ consult_tlb(p) = -1 /\ ~Resident(p)
        /\ load_to_memory(p)
        /\ page_fault_count' = page_fault_count + 1
        /\ update_tlb(p, PAGE_TABLE'[p])
        /\ UNCHANGED tlb_hit_count
        /\ PrintLine(a, PAGE_TABLE'[p])

LEMMA FifoPaths ==
    ASSUME FifoInvariant, NEW a \in Virtual
    PROVE  /\ TlbHit(a) => FifoHit(a)
           /\ PageTableHit(a) => FifoFound(a)
           /\ PageFault(a) => FifoFaulted(a)
<1> DEFINE p == get_page_number(a)
<1>1. p \in Pages
  BY SplitAddress, ConstantTypes DEF Virtual, Pages
<1>2. /\ tlb_hit_count \in Nat /\ page_fault_count \in Nat
      /\ PAGE_TABLE \in [Pages -> Frames \cup {-1}]
  BY DEF FifoInvariant, TypeOK
<1> HIDE DEF p
<1>3. /\ consult_tlb(p) # -1 => Hits(p) = 1
      /\ consult_tlb(p) = -1 => Hits(p) = 0
  <2>1. CASE consult_tlb(p) # -1
    BY <2>1 DEF consult_tlb, Hits
  <2>2. CASE consult_tlb(p) = -1
    <3>1. Matching(p) = {}
      BY <1>1, <2>2, FifoConsult DEF Matching
    <3> QED BY <2>2, <3>1 DEF Hits
  <2> QED BY <2>1, <2>2
<1>4. ASSUME TlbHit(a)
      PROVE  FifoHit(a)
  BY <1>1, <1>3, <1>4 DEF TlbHit, FifoHit, p
<1>5. ASSUME PageTableHit(a)
      PROVE  FifoFound(a)
  <2>1. Resident(p) /\ consult_page_table(p) = PAGE_TABLE[p]
    BY <1>5 DEF PageTableHit, consult_page_table, p
  <2> QED BY <1>2, <1>3, <1>5, <2>1 DEF PageTableHit, FifoFound, p
<1>6. ASSUME PageFault(a)
      PROVE  FifoFaulted(a)
  <2> DEFINE absent == consult_page_table(p)
             frame  == consult_page_table(p)'
  <2>1. /\ ReadLine /\ consult_tlb(p) = -1 /\ absent = -1
        /\ load_to_memory(p)
        /\ page_fault_count' = page_fault_count + Faults(absent) + Faults(frame)
        /\ update_tlb(p, frame)
        /\ tlb_hit_count' = tlb_hit_count + Hits(p)
        /\ PrintLine(a, frame)
    BY <1>6 DEF PageFault, p
  <2>2. ~Resident(p)
    BY <1>1, <1>2, <2>1 DEF consult_page_table, Resident
  <2>3. PAGE_TABLE'[p] \in Frames /\ FRAME_TO_PAGE'[PAGE_TABLE'[p]] = p
    BY <1>1, <2>1, <2>2, FifoLoad
  <2>4. PAGE_TABLE'[p] # -1
    BY <2>3, ConstantTypes DEF Frames
  <2>5. frame = PAGE_TABLE'[p]
    BY <2>3, <2>4 DEF consult_page_table, Resident, is_memory_valid
  <2> HIDE DEF absent, frame
  <2>6. Faults(absent) = 1 /\ Faults(frame) = 0
    BY <2>1, <2>4, <2>5 DEF Faults
  <2>7. /\ page_fault_count' = page_fault_count + 1
        /\ tlb_hit_count' = tlb_hit_count
    BY <1>2, <1>3, <2>1, <2>6
  <2> QED BY <2>1, <2>2, <2>5, <2>7 DEF FifoFaulted, p
<1> QED BY <1>4, <1>5, <1>6

(* A step on one line keeps the invariant, and prints the byte that was    *)
(* asked for unless it hits an entry of the TLB whose page was evicted.    *)
LEMMA FifoTranslates ==
    ASSUME FifoInvariant, NEW a \in Virtual, Translate(a)
    PROVE  /\ FifoInvariant'
           /\ output'[1].virtual = a
           /\ \/ output'[1].value = LOGIC_MEMORY[a]
              \/ tlb_hit_count' # tlb_hit_count /\ ~Resident(get_page_number(a))
<1> USE ConstantTypes
<1> DEFINE p == get_page_number(a)
<1>1. p \in Pages
  BY SplitAddress DEF Virtual, Pages
<1>0. FifoHit(a) \/ FifoFound(a) \/ FifoFaulted(a)
  BY FifoPaths DEF Translate
<1>2. closed' = closed /\ closed \in BOOLEAN /\ instruction_count' \in Nat
  BY <1>0 DEF FifoHit, FifoFound, FifoFaulted, ReadLine, FifoInvariant, TypeOK
<1>3. page_fault_count' \in Nat /\ tlb_hit_count' \in Nat
  BY <1>0 DEF FifoHit, FifoFound, FifoFaulted, FifoInvariant, TypeOK
<1>4. /\ PAGE_TABLE \in [Pages -> Frames \cup {-1}] /\ FRAME_TO_PAGE \in [Frames -> Pages]
      /\ MEMORY \in [Physical -> Int]
      /\ next_frame_ptr \in 0 .. N_FRAME /\ next_memory_victim \in Frames
      /\ TLB \in [Entries -> Entry] /\ tlb_item_count \in 0 .. N_TLB_ENTRY
      /\ next_tlb_victim \in Entries /\ tlb_hit_count \in Nat
  BY DEF FifoInvariant, TypeOK, Entry
<1>5. \A q \in Pages : PAGE_TABLE[q] < next_frame_ptr
  BY DEF FifoInvariant, FramesHoldTheirPages
<1> HIDE DEF p
<1>6. CASE FifoHit(a)
  <2>1. /\ consult_tlb(p) # -1 /\ PrintLine(a, consult_tlb(p))
        /\ tlb_hit_count' = tlb_hit_count + 1
        /\ UNCHANGED <<tlb, memory>>
    BY <1>6 DEF FifoHit, p
  <2>2. consult_tlb(p) = PAGE_TABLE[p] /\ PAGE_TABLE[p] \in Frames
    BY <1>1, <2>1, FifoConsult
  <2>3. /\ UNCHANGED <<PAGE_TABLE, FRAME_TO_PAGE, MEMORY, next_frame_ptr, next_memory_victim>>
        /\ FramesHoldTheirPages'
    BY <2>1, FifoMemoryKept
  <2>4. /\ UNCHANGED <<TLB, tlb_item_count, next_tlb_victim>>
        /\ TlbAgrees' /\ FifoInUse'
    BY <2>1, FifoTablesKept
  <2>5. /\ Len(output') = 1
        /\ output'[1] \in [virtual : Virtual, physical : Physical, value : Int]
        /\ output'[1].virtual = a
        /\ PAGE_TABLE[p] < next_frame_ptr' /\ FRAME_TO_PAGE'[PAGE_TABLE[p]] = p =>
               output'[1].value = LOGIC_MEMORY[a]
    BY <1>4, <2>1, <2>2, <2>3, FifoPrints DEF p
  <2>6. Resident(p) => output'[1].value = LOGIC_MEMORY[a]
    BY <1>1, <1>5, <2>3, <2>5 DEF Resident, is_memory_valid
  <2>7. tlb_hit_count' # tlb_hit_count
    BY <1>4, <2>1
  <2>8. TypeOK'
    BY <1>2, <1>3, <1>4, <2>3, <2>4, <2>5 DEF TypeOK, Entry
  <2> QED BY <2>3, <2>4, <2>5, <2>6, <2>7, <2>8 DEF FifoInvariant, p
<1>7. CASE FifoFound(a)
  <2>1. /\ consult_tlb(p) = -1 /\ Resident(p)
        /\ update_tlb(p, PAGE_TABLE[p])
        /\ UNCHANGED memory /\ PrintLine(a, PAGE_TABLE[p])
    BY <1>7 DEF FifoFound, p
  <2>2. PAGE_TABLE[p] \in Frames /\ FRAME_TO_PAGE[PAGE_TABLE[p]] = p
    BY <1>1, <1>4, <2>1 DEF Resident, is_memory_valid
  <2>3. /\ UNCHANGED <<PAGE_TABLE, FRAME_TO_PAGE, MEMORY, next_frame_ptr, next_memory_victim>>
        /\ FramesHoldTheirPages'
        /\ next_frame_ptr' < N_FRAME => next_memory_victim' = 0
        /\ next_frame_ptr' < N_FRAME =>
               \A q \in Pages : PAGE_TABLE'[q] # -1 => FRAME_TO_PAGE'[PAGE_TABLE'[q]] = q
    BY <2>1, FifoMemoryKept
  <2>4. \A i \in Entries : ~(TLB[i].valid /\ TLB[i].page = p)
    BY <1>1, <2>1, FifoConsult
  <2>5. /\ TLB' \in [Entries -> Entry]
        /\ tlb_item_count' \in 0 .. N_TLB_ENTRY
        /\ next_tlb_victim' \in Entries
        /\ tlb_item_count' < N_TLB_ENTRY => next_tlb_victim' = 0
        /\ \A i \in Entries : TLB'[i].valid => TLB'[i].frame \in Frames
        /\ TlbAgrees'
    BY <1>1, <2>1, <2>2, <2>3, <2>4, FifoTlbKept
  <2>6. FifoInUse'
    BY <2>3, <2>5 DEF FifoInUse
  <2>7. /\ Len(output') = 1
        /\ output'[1] \in [virtual : Virtual, physical : Physical, value : Int]
        /\ output'[1].virtual = a
        /\ PAGE_TABLE[p] < next_frame_ptr' /\ FRAME_TO_PAGE'[PAGE_TABLE[p]] = p =>
               output'[1].value = LOGIC_MEMORY[a]
    BY <1>4, <2>1, <2>2, <2>3, FifoPrints DEF p
  <2>8. output'[1].value = LOGIC_MEMORY[a]
    BY <1>1, <1>5, <2>2, <2>3, <2>7
  <2>9. TypeOK'
    BY <1>2, <1>3, <1>4, <2>3, <2>5, <2>7 DEF TypeOK, Entry
  <2> QED BY <2>3, <2>5, <2>6, <2>7, <2>8, <2>9 DEF FifoInvariant
<1>8. CASE FifoFaulted(a)
  <2>1. /\ consult_tlb(p) = -1 /\ ~Resident(p) /\ load_to_memory(p)
        /\ update_tlb(p, PAGE_TABLE'[p]) /\ PrintLine(a, PAGE_TABLE'[p])
    BY <1>8 DEF FifoFaulted, p
  <2>2. PICK f \in Frames :
              /\ f = FrameVictim /\ f < next_frame_ptr'
              /\ next_frame_ptr' \in 0 .. N_FRAME /\ next_memory_victim' \in Frames
              /\ PAGE_TABLE' \in [Pages -> Frames \cup {-1}] /\ PAGE_TABLE'[p] = f
              /\ \A q \in Pages \ {p} : PAGE_TABLE'[q] = PAGE_TABLE[q]
              /\ FRAME_TO_PAGE' \in [Frames -> Pages] /\ FRAME_TO_PAGE'[f] = p
              /\ \A g \in Frames \ {f} : FRAME_TO_PAGE'[g] = FRAME_TO_PAGE[g]
              /\ MEMORY' \in [Physical -> Int]
              /\ FramesHoldTheirPages'
              /\ next_frame_ptr' < N_FRAME => next_memory_victim' = 0
              /\ next_frame_ptr' < N_FRAME =>
                     \A q \in Pages : PAGE_TABLE'[q] # -1 => FRAME_TO_PAGE'[PAGE_TABLE'[q]] = q
    BY <1>1, <2>1, FifoLoad
  <2>3. \A i \in Entries : ~(TLB[i].valid /\ TLB[i].page = p)
    BY <1>1, <2>1, FifoConsult
  <2>4. /\ TLB' \in [Entries -> Entry]
        /\ tlb_item_count' \in 0 .. N_TLB_ENTRY
        /\ next_tlb_victim' \in Entries
        /\ tlb_item_count' < N_TLB_ENTRY => next_tlb_victim' = 0
        /\ \A i \in Entries : TLB'[i].valid => TLB'[i].frame \in Frames
        /\ TlbAgrees'
    BY <1>1, <2>1, <2>2, <2>3, FifoTlbKept
  <2>5. FifoInUse'
    BY <2>2, <2>4 DEF FifoInUse
  <2>6. /\ Len(output') = 1
        /\ output'[1] \in [virtual : Virtual, physical : Physical, value : Int]
        /\ output'[1].virtual = a
        /\ f < next_frame_ptr' /\ FRAME_TO_PAGE'[f] = p => output'[1].value = LOGIC_MEMORY[a]
    BY <2>1, <2>2, FifoPrints DEF p
  <2>7. TypeOK'
    BY <1>2, <1>3, <2>2, <2>4, <2>6 DEF TypeOK, Entry
  <2> QED BY <2>2, <2>4, <2>5, <2>6, <2>7 DEF FifoInvariant
<1> QED BY <1>0, <1>6, <1>7, <1>8

(* Every step of fifo_fifo keeps the invariant.                            *)
LEMMA FifoStep ==
    ASSUME FifoInvariant, [Next]_vars
    PROVE  FifoInvariant'
<1>1. ASSUME NEW a \in Virtual, Translate(a)
      PROVE  FifoInvariant'
  BY <1>1, FifoTranslates
<1>2. CASE EndOfFile \/ Terminated \/ UNCHANGED vars
  <2>1. /\ UNCHANGED <<tlb, memory, page_fault_count, tlb_hit_count, instruction_count, output>>
        /\ closed' \in {TRUE, closed}
    BY <1>2 DEF EndOfFile, Terminated, vars
  <2>2. /\ UNCHANGED <<PAGE_TABLE, FRAME_TO_PAGE, MEMORY, next_frame_ptr, next_memory_victim>>
        /\ UNCHANGED <<TLB, tlb_item_count, next_tlb_victim>>
        /\ FramesHoldTheirPages' /\ TlbAgrees' /\ FifoInUse'
    BY <2>1, FifoMemoryKept, FifoTablesKept
  <2>3. TypeOK'
    BY <2>1, <2>2 DEF FifoInvariant, TypeOK
  <2> QED BY <2>2, <2>3 DEF FifoInvariant
<1> QED BY <1>1, <1>2 DEF Next

(* It holds when fifo_fifo starts.                                         *)
LEMMA FifoStart ==
    ASSUME Init
    PROVE  FifoInvariant
<1> USE ConstantTypes DEF Init
<1>1. \A p \in Pages : PAGE_TABLE[p] = -1
  OBVIOUS
<1>2. \A i \in Entries : ~TLB[i].valid
  OBVIOUS
<1>3. TlbAgrees /\ FifoInUse
  BY <1>1, <1>2 DEF TlbAgrees, FifoInUse, Entries
<1>4. \A a \in Physical : get_page_number(a) \in Frames
  BY SplitAddress DEF Physical, Frames
<1>5. FramesHoldTheirPages
  BY <1>1, <1>4 DEF FramesHoldTheirPages, Frames
<1>6. 0 \in Pages /\ 0 \in Frames /\ 0 \in Entries /\ 0 \in 0 .. N_FRAME /\ 0 \in 0 .. N_TLB_ENTRY
  BY DEF Pages, Frames, Entries
<1>7. TypeOK
  <2>1. TLB \in [Entries -> [page : Pages \cup {-1}, frame : Frames \cup {-1}, valid : BOOLEAN]]
    OBVIOUS
  <2>2. /\ PAGE_TABLE \in [Pages -> Frames \cup {-1}] /\ FRAME_TO_PAGE \in [Frames -> Pages]
        /\ MEMORY \in [Physical -> Int]
    BY <1>6
  <2>3. /\ next_frame_ptr \in 0 .. N_FRAME /\ next_memory_victim \in Frames
        /\ tlb_item_count \in 0 .. N_TLB_ENTRY /\ next_tlb_victim \in Entries
        /\ page_fault_count \in Nat /\ tlb_hit_count \in Nat /\ instruction_count \in Nat
        /\ output = <<>> /\ closed \in BOOLEAN
    BY <1>6
  <2> QED BY <2>1, <2>2, <2>3 DEF TypeOK
<1> QED BY <1>3, <1>5, <1>7 DEF FifoInvariant

-----------------------------------------------------------------------------
(* The two programs on the same input *)

(* Side by side each program does what it does by itself.                  *)
LEMMA BothStep ==
    ASSUME [BothNext]_bothVars
    PROVE  [Next]_vars /\ [None!Next]_(None!vars)
<1>1. ASSUME NEW a \in Virtual, Translate(a) /\ None!Translate(a)
      PROVE  Next /\ None!Next
  BY <1>1, SameSets DEF Next, None!Next
<1>2. CASE (EndOfFile /\ None!EndOfFile) \/ (Terminated /\ None!Terminated)
  BY <1>2 DEF Next, None!Next
<1>3. CASE UNCHANGED bothVars
  BY <1>3 DEF bothVars
<1> QED BY <1>1, <1>2, <1>3 DEF BothNext

(* The composition runs both programs as they are (fifo_none.c:52-104,     *)
(* fifo_fifo.c:58-110).                                                    *)
THEOREM BothRun == BothSpec => Spec /\ None!Spec
<1>1. BothInit => Init /\ None!Init
  BY DEF BothInit
<1>2. [BothNext]_bothVars => [Next]_vars /\ [None!Next]_(None!vars)
  BY BothStep
<1> QED BY <1>1, <1>2, PTL DEF BothSpec, Spec, None!Spec

(* The invariants of the two programs.                                     *)
LEMMA BothInvariants == BothSpec => [](FifoInvariant /\ NoneInvariant)
<1>1. BothInit => FifoInvariant /\ NoneInvariant
  BY FifoStart, NoneStart DEF BothInit
<1>2. (FifoInvariant /\ NoneInvariant) /\ [BothNext]_bothVars => (FifoInvariant /\ NoneInvariant)'
  BY BothStep, FifoStep, NoneStep
<1> QED BY <1>1, <1>2, PTL DEF BothSpec

(* Without replacement every line shows the byte of the backing store      *)
(* (fifo_none.c:92-94).                                                    *)
THEOREM PrintsCorrect == BothSpec => []PrintsBackingStore
<1>1. NoneInvariant => PrintsBackingStore
  BY DEF NoneInvariant, PrintsBackingStore
<1> QED BY <1>1, BothInvariants, PTL

(* The page table of fifo_fifo and its inverse describe its memory, also   *)
(* when pages are replaced (fifo_fifo.c:26-27, 137-171).                   *)
THEOREM FramesCorrect == BothSpec => []FramesHoldTheirPages
<1>1. FifoInvariant => FramesHoldTheirPages
  BY DEF FifoInvariant
<1> QED BY <1>1, BothInvariants, PTL

(* In both programs the TLB agrees with the page table and holds a page    *)
(* once (fifo_none.c:137-164, fifo_fifo.c:158-201).                        *)
THEOREM TablesCorrect == BothSpec => []TablesAgree
<1>1. FifoInvariant /\ NoneInvariant => TablesAgree
  BY DEF FifoInvariant, NoneInvariant, TablesAgree
<1> QED BY <1>1, BothInvariants, PTL

(* Where the two programs print different values, fifo_fifo has hit an     *)
(* entry of the TLB whose page was evicted (fifo_fifo.c:82-100, 137-154).  *)
THEOREM ValuesCorrect == BothSpec => SameValues
<1>1. FifoInvariant /\ NoneInvariant /\ [BothNext]_bothVars =>
          [instruction_count' # instruction_count =>
               \/ output'[1].value = none_output'[1].value
               \/ /\ tlb_hit_count' # tlb_hit_count
                  /\ ~Resident(get_page_number(output'[1].virtual))]_bothVars
  <2> SUFFICES ASSUME FifoInvariant, NoneInvariant, [BothNext]_bothVars,
                      instruction_count' # instruction_count
               PROVE  \/ output'[1].value = none_output'[1].value
                      \/ /\ tlb_hit_count' # tlb_hit_count
                         /\ ~Resident(get_page_number(output'[1].virtual))
    OBVIOUS
  <2>1. PICK a \in Virtual : Translate(a) /\ None!Translate(a)
    BY DEF BothNext, EndOfFile, Terminated, bothVars, vars
  <2>2. /\ output'[1].virtual = a
        /\ \/ output'[1].value = LOGIC_MEMORY[a]
           \/ tlb_hit_count' # tlb_hit_count /\ ~Resident(get_page_number(a))
    BY <2>1, FifoTranslates
  <2>3. none_output'[1].value = LOGIC_MEMORY[a]
    BY <2>1, NoneTranslates
  <2> QED BY <2>2, <2>3
<1> QED BY <1>1, BothInvariants, PTL DEF BothSpec, SameValues

-----------------------------------------------------------------------------
(* The TLBs and the counters *)

(* What a miss of the TLB does in fifo_none, whether the page was loaded   *)
(* or not.                                                                 *)
LEMMA NoneMisses ==
    ASSUME NoneInvariant, NEW a \in Virtual, NoneFound(a) \/ NoneFaulted(a)
    PROVE  LET p == get_page_number(a)
           IN  /\ p \in Pages
               /\ \A i \in Entries : none_TLB[i].page # p
               /\ NoneVictim \in Entries /\ none_TLB'[NoneVictim].page = p
               /\ \A i \in Entries \ {NoneVictim} : none_TLB'[i] = none_TLB[i]
               /\ none_tlb_item_count' = IF none_tlb_item_count < N_TLB_ENTRY
                                         THEN none_tlb_item_count + 1 ELSE none_tlb_item_count
               /\ none_next_tlb_victim' = IF none_tlb_item_count < N_TLB_ENTRY
                                          THEN none_next_tlb_victim
                                          ELSE (none_next_tlb_victim + 1) % N_TLB_ENTRY
               /\ none_PAGE_TABLE'[p] # -1
               /\ \A q \in Pages \ {p} : none_PAGE_TABLE'[q] = none_PAGE_TABLE[q]
               /\ none_tlb_hit_count' = none_tlb_hit_count
               /\ instruction_count' = instruction_count + 1
               /\ none_page_fault_count' = IF none_PAGE_TABLE[p] = -1
                                           THEN none_page_fault_count + 1
                                           ELSE none_page_fault_count
               /\ none_next_frame_ptr' = IF none_PAGE_TABLE[p] = -1
                                         THEN none_next_frame_ptr + 1
                                         ELSE none_next_frame_ptr
<1> DEFINE p == get_page_number(a)
<1>1. p \in Pages /\ None!get_page_number(a) = p
  BY SplitAddress, SameSets, ConstantTypes DEF Virtual, Pages
<1>2. /\ none_PAGE_TABLE \in [Pages -> Pages \cup {-1}]
      /\ none_TLB \in [Entries -> [page : Pages \cup {-1}, frame : Pages \cup {-1}]]
  BY SameSets DEF NoneInvariant, None!TypeOK
<1> HIDE DEF p
<1>3. /\ None!consult_tlb(p) = -1
      /\ instruction_count' = instruction_count + 1
      /\ none_tlb_hit_count' = none_tlb_hit_count
  BY DEF NoneFound, NoneFaulted, None!ReadLine, p
<1>4. \A i \in Entries : none_TLB[i].page # p
  BY <1>1, <1>3, NoneConsult
<1>5. ASSUME NEW f \in Pages, None!update_tlb(p, f)
      PROVE  /\ NoneVictim \in Entries /\ none_TLB'[NoneVictim].page = p
             /\ \A i \in Entries \ {NoneVictim} : none_TLB'[i] = none_TLB[i]
             /\ none_tlb_item_count' = IF none_tlb_item_count < N_TLB_ENTRY
                                       THEN none_tlb_item_count + 1 ELSE none_tlb_item_count
             /\ none_next_tlb_victim' = IF none_tlb_item_count < N_TLB_ENTRY
                                        THEN none_next_tlb_victim
                                        ELSE (none_next_tlb_victim + 1) % N_TLB_ENTRY
  <2>1. /\ NoneVictim \in Entries
        /\ none_TLB' = [none_TLB EXCEPT ![NoneVictim] = [page |-> p, frame |-> f]]
    BY <1>1, <1>5, NoneUpdate
  <2> QED BY <1>2, <1>5, <2>1 DEF None!update_tlb
<1>6. CASE NoneFound(a)
  <2>1. /\ none_PAGE_TABLE[p] # -1 /\ None!update_tlb(p, none_PAGE_TABLE[p])
        /\ UNCHANGED <<none_PAGE_TABLE, none_next_frame_ptr, none_page_fault_count>>
    BY <1>6 DEF NoneFound, None!memory, p
  <2>2. none_PAGE_TABLE[p] \in Pages
    BY <1>1, <1>2, <2>1
  <2> QED BY <1>1, <1>3, <1>4, <1>5, <2>1, <2>2 DEF p
<1>7. CASE NoneFaulted(a)
  <2>1. /\ none_PAGE_TABLE[p] = -1 /\ None!update_tlb(p, none_PAGE_TABLE'[p])
        /\ None!load_to_memory(p)
        /\ none_page_fault_count' = none_page_fault_count + 1
    BY <1>7 DEF NoneFaulted, p
  <2>2. /\ none_PAGE_TABLE'[p] \in Pages /\ none_next_frame_ptr' = none_next_frame_ptr + 1
        /\ \A q \in Pages \ {p} : none_PAGE_TABLE'[q] = none_PAGE_TABLE[q]
    BY <1>1, <2>1, NoneLoad
  <2>3. none_PAGE_TABLE'[p] # -1
    BY <2>2 DEF Pages
  <2> QED BY <1>1, <1>3, <1>4, <1>5, <2>1, <2>2, <2>3 DEF p
<1> QED BY <1>6, <1>7

(* And in fifo_fifo, where a page that was evicted is loaded again.        *)
LEMMA FifoMisses ==
    ASSUME FifoInvariant, NEW a \in Virtual, FifoFound(a) \/ FifoFaulted(a)
    PROVE  LET p == get_page_number(a)
           IN  /\ p \in Pages
               /\ \A i \in Entries : ~(TLB[i].valid /\ TLB[i].page = p)
               /\ TlbVictim \in Entries /\ TLB'[TlbVictim].page = p
               /\ TLB'[TlbVictim].frame \in Frames
               /\ \A i \in Entries \ {TlbVictim} : TLB'[i] = TLB[i]
               /\ tlb_item_count' = IF tlb_item_count < N_TLB_ENTRY
                                    THEN tlb_item_count + 1 ELSE tlb_item_count
               /\ next_tlb_victim' = IF tlb_item_count < N_TLB_ENTRY
                                     THEN next_tlb_victim
                                     ELSE (next_tlb_victim + 1) % N_TLB_ENTRY
               /\ PAGE_TABLE'[p] # -1
               /\ \A q \in Pages \ {p} : PAGE_TABLE'[q] = PAGE_TABLE[q]
               /\ tlb_hit_count' = tlb_hit_count
               /\ instruction_count' = instruction_count + 1
               /\ Resident(p) => UNCHANGED <<memory, page_fault_count>>
               /\ ~Resident(p) => /\ load_to_memory(p)
                                  /\ page_fault_count' = page_fault_count + 1
<1> DEFINE p == get_page_number(a)
<1>1. p \in Pages
  BY SplitAddress, ConstantTypes DEF Virtual, Pages
<1>2. PAGE_TABLE \in [Pages -> Frames \cup {-1}]
  BY DEF FifoInvariant, TypeOK
<1> HIDE DEF p
<1>3. /\ consult_tlb(p) = -1
      /\ instruction_count' = instruction_count + 1
      /\ tlb_hit_count' = tlb_hit_count
  BY DEF FifoFound, FifoFaulted, ReadLine, p
<1>4. \A i \in Entries : ~(TLB[i].valid /\ TLB[i].page = p)
  BY <1>1, <1>3, FifoConsult
<1>5. ASSUME NEW f \in Frames, update_tlb(p, f)
      PROVE  /\ TlbVictim \in Entries /\ TLB'[TlbVictim].page = p
             /\ TLB'[TlbVictim].frame \in Frames
             /\ \A i \in Entries \ {TlbVictim} : TLB'[i] = TLB[i]
             /\ tlb_item_count' = IF tlb_item_count < N_TLB_ENTRY
                                  THEN tlb_item_count + 1 ELSE tlb_item_count
             /\ next_tlb_victim' = IF tlb_item_count < N_TLB_ENTRY
                                   THEN next_tlb_victim
                                   ELSE (next_tlb_victim + 1) % N_TLB_ENTRY
  <2>1. /\ TlbVictim \in Entries
        /\ TLB'[TlbVictim] = [page |-> p, frame |-> f, valid |-> TRUE]
        /\ \A i \in Entries \ {TlbVictim} : TLB'[i] = TLB[i]
    BY <1>1, <1>4, <1>5, FifoUpdate
  <2>2. /\ tlb_item_count' = IF tlb_item_count < N_TLB_ENTRY
                             THEN tlb_item_count + 1 ELSE tlb_item_count
        /\ next_tlb_victim' = IF tlb_item_count < N_TLB_ENTRY
                              THEN next_tlb_victim
                              ELSE (next_tlb_victim + 1) % N_TLB_ENTRY
    BY <1>5 DEF update_tlb
  <2> QED BY <2>1, <2>2
<1>6. CASE FifoFound(a)
  <2>1. /\ Resident(p) /\ update_tlb(p, PAGE_TABLE[p])
        /\ UNCHANGED <<memory, page_fault_count>>
    BY <1>6 DEF FifoFound, p
  <2>2. PAGE_TABLE[p] \in Frames /\ PAGE_TABLE[p] # -1 /\ PAGE_TABLE' = PAGE_TABLE
    BY <1>1, <1>2, <2>1 DEF Resident, memory
  <2> QED BY <1>1, <1>3, <1>4, <1>5, <2>1, <2>2 DEF p
<1>7. CASE FifoFaulted(a)
  <2>1. /\ ~Resident(p) /\ update_tlb(p, PAGE_TABLE'[p]) /\ load_to_memory(p)
        /\ page_fault_count' = page_fault_count + 1
    BY <1>7 DEF FifoFaulted, p
  <2>2. /\ PAGE_TABLE'[p] \in Frames
        /\ \A q \in Pages \ {p} : PAGE_TABLE'[q] = PAGE_TABLE[q]
    BY <1>1, <2>1, FifoLoad
  <2>3. PAGE_TABLE'[p] # -1
    BY <2>2, ConstantTypes DEF Frames
  <2> QED BY <1>1, <1>3, <1>4, <1>5, <2>1, <2>2, <2>3 DEF p
<1> QED BY <1>6, <1>7

(* The two TLBs have the same pages in the same entries, and the two page  *)
(* tables have an entry for the same pages: the one of fifo_fifo is never  *)
(* taken back.                                                             *)
SameHistory ==
    /\ SameTlb
    /\ tlb_item_count = none_tlb_item_count /\ next_tlb_victim = none_next_tlb_victim
    /\ \A p \in Pages : PAGE_TABLE[p] # -1 <=> none_PAGE_TABLE[p] # -1

(* Hence a line hits in both or misses in both.                            *)
LEMMA SameHits ==
    ASSUME FifoInvariant, NoneInvariant, SameHistory, NEW p \in Pages
    PROVE  consult_tlb(p) = -1 <=> None!consult_tlb(p) = -1
<1>1. ASSUME consult_tlb(p) # -1
      PROVE  None!consult_tlb(p) # -1
  <2>1. PICK i \in Entries : TLB[i].valid /\ TLB[i].page = p
    BY <1>1, FifoConsult
  <2>2. none_TLB[i].page = p
    BY <2>1 DEF SameHistory, SameTlb
  <2> QED BY <2>2, NoneConsult
<1>2. ASSUME None!consult_tlb(p) # -1
      PROVE  consult_tlb(p) # -1
  <2>1. PICK i \in Entries : none_TLB[i].page = p
    BY <1>2, NoneConsult
  <2>2. p # -1
    BY ConstantTypes DEF Pages
  <2>3. i < none_tlb_item_count /\ TLB[i].page = p
    BY <2>1, <2>2 DEF NoneInvariant, NoneEntriesInUse, SameHistory, SameTlb
  <2>4. TLB[i].valid
    BY <2>3 DEF FifoInvariant, TlbAgrees, SameHistory
  <2> QED BY <2>3, <2>4, FifoConsult
<1> QED BY <1>1, <1>2

(* A line takes one of two pairs of paths.                                 *)
LEMMA SamePaths ==
    ASSUME FifoInvariant, NoneInvariant, SameHistory, NEW a \in Virtual,
           Translate(a), None!Translate(a)
    PROVE  \/ FifoHit(a) /\ NoneHit(a)
           \/ /\ FifoFound(a) \/ FifoFaulted(a)
              /\ NoneFound(a) \/ NoneFaulted(a)
<1>1. get_page_number(a) \in Pages /\ None!get_page_number(a) = get_page_number(a)
  BY SplitAddress, SameSets, ConstantTypes DEF Virtual, Pages
<1>2. consult_tlb(get_page_number(a)) = -1 <=> None!consult_tlb(get_page_number(a)) = -1
  BY <1>1, SameHits
<1>3. /\ FifoHit(a) \/ FifoFound(a) \/ FifoFaulted(a)
      /\ NoneHit(a) \/ NoneFound(a) \/ NoneFaulted(a)
  BY FifoPaths, NonePaths DEF Translate, None!Translate
<1> QED BY <1>2, <1>3 DEF FifoHit, FifoFound, FifoFaulted, NoneHit, NoneFound, NoneFaulted

(* A step of the two programs keeps what they have in common.              *)
LEMMA SameHistoryStep ==
    ASSUME FifoInvariant, NoneInvariant, SameHistory, [BothNext]_bothVars
    PROVE  SameHistory'
<1>1. CASE UNCHANGED <<TLB, tlb_item_count, next_tlb_victim, PAGE_TABLE, tlb_hit_count,
                       none_TLB, none_tlb_item_count, none_next_tlb_victim, none_PAGE_TABLE,
                       none_tlb_hit_count>>
  BY <1>1 DEF SameHistory, SameTlb
<1>2. CASE \/ UNCHANGED bothVars
           \/ EndOfFile /\ None!EndOfFile
           \/ Terminated /\ None!Terminated
  BY <1>1, <1>2 DEF bothVars, EndOfFile, None!EndOfFile, Terminated, None!Terminated, vars,
                    None!vars, tlb, memory, None!tlb, None!memory
<1>3. ASSUME NEW a \in Virtual, Translate(a), None!Translate(a)
      PROVE  SameHistory'
  <2>1. CASE FifoHit(a) /\ NoneHit(a)
    <3>1. /\ UNCHANGED <<TLB, tlb_item_count, next_tlb_victim, PAGE_TABLE>>
          /\ UNCHANGED <<none_TLB, none_tlb_item_count, none_next_tlb_victim, none_PAGE_TABLE>>
          /\ tlb_hit_count' = tlb_hit_count + 1
          /\ none_tlb_hit_count' = none_tlb_hit_count + 1
      BY <2>1 DEF FifoHit, NoneHit, tlb, memory, None!tlb, None!memory
    <3> QED BY <3>1 DEF SameHistory, SameTlb
  <2>2. CASE /\ FifoFound(a) \/ FifoFaulted(a)
             /\ NoneFound(a) \/ NoneFaulted(a)
    <3> DEFINE p == get_page_number(a)
    <3>1. /\ p \in Pages /\ TlbVictim \in Entries /\ TLB'[TlbVictim].page = p
          /\ \A i \in Entries \ {TlbVictim} : TLB'[i] = TLB[i]
          /\ tlb_item_count' = IF tlb_item_count < N_TLB_ENTRY
                               THEN tlb_item_count + 1 ELSE tlb_item_count
          /\ next_tlb_victim' = IF tlb_item_count < N_TLB_ENTRY
                                THEN next_tlb_victim
                                ELSE (next_tlb_victim + 1) % N_TLB_ENTRY
          /\ PAGE_TABLE'[p] # -1
          /\ \A q \in Pages \ {p} : PAGE_TABLE'[q] = PAGE_TABLE[q]
          /\ tlb_hit_count' = tlb_hit_count
      BY <2>2, FifoMisses
    <3>2. /\ none_TLB'[NoneVictim].page = p
          /\ \A i \in Entries \ {NoneVictim} : none_TLB'[i] = none_TLB[i]
          /\ none_tlb_item_count' = IF none_tlb_item_count < N_TLB_ENTRY
                                    THEN none_tlb_item_count + 1 ELSE none_tlb_item_count
          /\ none_next_tlb_victim' = IF none_tlb_item_count < N_TLB_ENTRY
                                     THEN none_next_tlb_victim
                                     ELSE (none_next_tlb_victim + 1) % N_TLB_ENTRY
          /\ none_PAGE_TABLE'[p] # -1
          /\ \A q \in Pages \ {p} : none_PAGE_TABLE'[q] = none_PAGE_TABLE[q]
          /\ none_tlb_hit_count' = none_tlb_hit_count
      BY <2>2, NoneMisses
    <3> HIDE DEF p
    <3>3. TlbVictim = NoneVictim
      BY DEF TlbVictim, NoneVictim, SameHistory
    <3>4. SameTlb'
      BY <3>1, <3>2, <3>3 DEF SameHistory, SameTlb
    <3>5. tlb_item_count' = none_tlb_item_count' /\ next_tlb_victim' = none_next_tlb_victim'
      BY <3>1, <3>2 DEF SameHistory
    <3>6. \A q \in Pages : PAGE_TABLE'[q] # -1 <=> none_PAGE_TABLE'[q] # -1
      BY <3>1, <3>2 DEF SameHistory
    <3> QED BY <3>4, <3>5, <3>6 DEF SameHistory
  <2> QED BY <1>3, <2>1, <2>2, SamePaths
<1>4. CASE \E a \in Virtual : Translate(a) /\ None!Translate(a)
  BY <1>3, <1>4
<1> QED BY <1>2, <1>4 DEF BothNext

(* And they start with the same.                                           *)
LEMMA SameHistoryStart ==
    ASSUME BothInit
    PROVE  SameHistory
BY SameSets DEF BothInit, Init, None!Init, SameHistory, SameTlb

(* What the two programs keep by themselves and together.                  *)
LEMMA TogetherInvariant == BothSpec => [](FifoInvariant /\ NoneInvariant /\ SameHistory)
<1>1. BothInit => SameHistory
  BY SameHistoryStart
<1>2. (FifoInvariant /\ NoneInvariant) /\ SameHistory /\ [BothNext]_bothVars => SameHistory'
  BY SameHistoryStep
<1> QED BY <1>1, <1>2, BothInvariants, PTL DEF BothSpec

(* Page replacement does not show in the TLB: the valid bits and the       *)
(* clearing of update_tlb change nothing (fifo_fifo.c:173-201).            *)
THEOREM SameTlbCorrect == BothSpec => []SameTlb
<1>1. SameHistory => SameTlb
  BY DEF SameHistory
<1> QED BY <1>1, TogetherInvariant, PTL

(* A table of which used entries are in use, and whose next victim is next *)
(* once all of them are, after n entries were made: the victims have gone  *)
(* round as often as the table was overfilled.                             *)
GoesRound(used, next, size, n) ==
    IF used < size THEN n = used ELSE n >= size /\ (n - size) % size = next

(* One entry more keeps it so (fifo_fifo.c:160-170, 173-201).              *)
LEMMA RoundAdvances ==
    ASSUME NEW size \in Nat \ {0}, NEW used \in 0 .. size, NEW next \in 0 .. size - 1,
           NEW n \in Int, used < size => next = 0, GoesRound(used, next, size, n)
    PROVE  GoesRound(IF used < size THEN used + 1 ELSE used,
                     IF used < size THEN next ELSE (next + 1) % size, size, n + 1)
<1>1. CASE used + 1 < size
  BY <1>1 DEF GoesRound
<1>2. CASE used + 1 = size
  <2>1. n + 1 = size /\ (n + 1) - size = 0 /\ next = 0
    BY <1>2 DEF GoesRound
  <2>2. 0 % size = 0
    OBVIOUS
  <2>3. ((n + 1) - size) % size = next
    BY <2>1, <2>2
  <2> QED BY <1>2, <2>1, <2>3 DEF GoesRound
<1>3. CASE used = size
  <2>1. n >= size /\ (n - size) % size = next
    BY <1>3 DEF GoesRound
  <2>2. PICK m \in Nat : m = n - size
    BY <2>1
  <2>3. (m + 1) % size = IF next + 1 = size THEN 0 ELSE next + 1
    BY <2>1, <2>2, RemainderOfNext
  <2>4. (next + 1) % size = IF next + 1 = size THEN 0 ELSE next + 1
    <3>1. PICK y \in 0 .. 2 * size - 1 : y = next + 1
      OBVIOUS
    <3>2. y % size = IF y < size THEN y ELSE y - size
      BY SmallMod
    <3> QED BY <3>1, <3>2
  <2>5. (n + 1) - size = m + 1 /\ n + 1 >= size
    BY <2>1, <2>2
  <2>6. ((n + 1) - size) % size = (next + 1) % size
    BY <2>3, <2>4, <2>5
  <2> QED BY <1>3, <2>5, <2>6 DEF GoesRound
<1> QED BY <1>1, <1>2, <1>3

(* The statistics of the two programs, with what they share and what the   *)
(* table of frames has been through.                                       *)
Counted ==
    LET misses == instruction_count - tlb_hit_count
    IN  /\ GoesRound(tlb_item_count, next_tlb_victim, N_TLB_ENTRY, misses)
        /\ GoesRound(next_frame_ptr, next_memory_victim, N_FRAME, page_fault_count)
        /\ page_fault_count <= misses
        /\ none_page_fault_count = none_next_frame_ptr
        /\ none_page_fault_count <= page_fault_count
        /\ next_frame_ptr < N_FRAME => page_fault_count = none_page_fault_count

(* Every step keeps them: a page that faults in fifo_none has never been   *)
(* loaded in fifo_fifo either, and as long as nothing was evicted only     *)
(* such a page faults in fifo_fifo.                                        *)
LEMMA CountedStep ==
    ASSUME FifoInvariant, NoneInvariant, SameHistory, Counted, [BothNext]_bothVars
    PROVE  Counted'
<1> USE ConstantTypes
<1>1. /\ tlb_item_count \in 0 .. N_TLB_ENTRY /\ next_tlb_victim \in 0 .. N_TLB_ENTRY - 1
      /\ next_frame_ptr \in 0 .. N_FRAME /\ next_memory_victim \in 0 .. N_FRAME - 1
      /\ page_fault_count \in Nat /\ tlb_hit_count \in Nat /\ instruction_count \in Nat
      /\ tlb_item_count < N_TLB_ENTRY => next_tlb_victim = 0
      /\ next_frame_ptr < N_FRAME => next_memory_victim = 0
  BY DEF FifoInvariant, TypeOK, FifoInUse, Entries, Frames
<1>2. none_page_fault_count \in Nat /\ none_next_frame_ptr \in Nat
  BY DEF NoneInvariant, None!TypeOK
<1>3. CASE \/ UNCHANGED bothVars
           \/ EndOfFile /\ None!EndOfFile
           \/ Terminated /\ None!Terminated
  <2>1. UNCHANGED <<tlb_item_count, next_tlb_victim, next_frame_ptr, next_memory_victim,
                    page_fault_count, tlb_hit_count, instruction_count,
                    none_page_fault_count, none_next_frame_ptr>>
    BY <1>3 DEF bothVars, EndOfFile, None!EndOfFile, Terminated, None!Terminated, vars,
                None!vars, tlb, memory, None!tlb, None!memory
  <2> QED BY <2>1 DEF Counted
<1>4. ASSUME NEW a \in Virtual, Translate(a), None!Translate(a)
      PROVE  Counted'
  <2>1. CASE FifoHit(a) /\ NoneHit(a)
    <3>1. /\ UNCHANGED <<tlb_item_count, next_tlb_victim, next_frame_ptr, next_memory_victim,
                         page_fault_count, none_page_fault_count, none_next_frame_ptr>>
          /\ tlb_hit_count' = tlb_hit_count + 1
          /\ instruction_count' = instruction_count + 1
      BY <2>1 DEF FifoHit, ReadLine, NoneHit, tlb, memory, None!tlb, None!memory
    <3>2. instruction_count' - tlb_hit_count' = instruction_count - tlb_hit_count
      BY <1>1, <3>1
    <3> QED BY <3>1, <3>2 DEF Counted
  <2>2. CASE /\ FifoFound(a) \/ FifoFaulted(a)
             /\ NoneFound(a) \/ NoneFaulted(a)
    <3> DEFINE p == get_page_number(a)
               misses == instruction_count - tlb_hit_count
    <3>1. /\ p \in Pages
          /\ tlb_item_count' = IF tlb_item_count < N_TLB_ENTRY
                               THEN tlb_item_count + 1 ELSE tlb_item_count
          /\ next_tlb_victim' = IF tlb_item_count < N_TLB_ENTRY
                                THEN next_tlb_victim
                                ELSE (next_tlb_victim + 1) % N_TLB_ENTRY
          /\ tlb_hit_count' = tlb_hit_count
          /\ instruction_count' = instruction_count + 1
          /\ Resident(p) => UNCHANGED <<memory, page_fault_count>>
          /\ ~Resident(p) => load_to_memory(p) /\ page_fault_count' = page_fault_count + 1
      BY <2>2, FifoMisses
    <3>2. /\ none_page_fault_count' = IF none_PAGE_TABLE[p] = -1
                                      THEN none_page_fault_count + 1
                                      ELSE none_page_fault_count
          /\ none_next_frame_ptr' = IF none_PAGE_TABLE[p] = -1
                                    THEN none_next_frame_ptr + 1
                                    ELSE none_next_frame_ptr
      BY <2>2, NoneMisses
    <3>3. /\ PAGE_TABLE[p] # -1 <=> none_PAGE_TABLE[p] # -1
          /\ next_frame_ptr < N_FRAME /\ PAGE_TABLE[p] # -1 => Resident(p)
      BY <3>1 DEF SameHistory, FifoInvariant, FifoInUse, Resident, is_memory_valid
    <3> HIDE DEF p
    <3>4. misses' = misses + 1 /\ misses \in Int
      BY <1>1, <3>1
    <3> HIDE DEF misses
    <3>5. GoesRound(tlb_item_count', next_tlb_victim', N_TLB_ENTRY, misses')
      <4>1. GoesRound(tlb_item_count, next_tlb_victim, N_TLB_ENTRY, misses)
        BY DEF Counted, misses
      <4>2. GoesRound(IF tlb_item_count < N_TLB_ENTRY THEN tlb_item_count + 1 ELSE tlb_item_count,
                      IF tlb_item_count < N_TLB_ENTRY THEN next_tlb_victim
                      ELSE (next_tlb_victim + 1) % N_TLB_ENTRY, N_TLB_ENTRY, misses + 1)
        BY <1>1, <3>4, <4>1, RoundAdvances
      <4> QED BY <3>1, <3>4, <4>2
    <3>6. CASE Resident(p)
      <4>1. PAGE_TABLE[p] # -1
        BY <3>6 DEF Resident
      <4>2. /\ UNCHANGED <<page_fault_count, next_frame_ptr, next_memory_victim>>
            /\ UNCHANGED <<none_page_fault_count, none_next_frame_ptr>>
        BY <3>1, <3>2, <3>3, <3>6, <4>1 DEF memory
      <4>3. page_fault_count <= misses'
        BY <1>1, <3>4 DEF Counted, misses
      <4> QED BY <3>5, <4>2, <4>3 DEF Counted, misses
    <3>7. CASE ~Resident(p)
      <4>1. /\ page_fault_count' = page_fault_count + 1
            /\ next_frame_ptr' = IF next_frame_ptr < N_FRAME THEN next_frame_ptr + 1
                                 ELSE next_frame_ptr
            /\ next_memory_victim' = IF next_frame_ptr < N_FRAME THEN next_memory_victim
                                     ELSE (next_memory_victim + 1) % N_FRAME
        BY <3>1, <3>7 DEF load_to_memory
      <4>2. GoesRound(next_frame_ptr', next_memory_victim', N_FRAME, page_fault_count')
        <5>1. GoesRound(next_frame_ptr, next_memory_victim, N_FRAME, page_fault_count)
          BY DEF Counted
        <5>2. GoesRound(IF next_frame_ptr < N_FRAME THEN next_frame_ptr + 1 ELSE next_frame_ptr,
                        IF next_frame_ptr < N_FRAME THEN next_memory_victim
                        ELSE (next_memory_victim + 1) % N_FRAME, N_FRAME, page_fault_count + 1)
          BY <1>1, <5>1, RoundAdvances
        <5> QED BY <4>1, <5>2
      <4>3. page_fault_count' <= misses'
        BY <1>1, <3>4, <4>1 DEF Counted, misses
      <4>4. /\ none_page_fault_count' = none_next_frame_ptr'
            /\ none_page_fault_count' <= page_fault_count'
        BY <1>1, <1>2, <3>2, <4>1 DEF Counted
      <4>5. next_frame_ptr' < N_FRAME => page_fault_count' = none_page_fault_count'
        <5> SUFFICES ASSUME next_frame_ptr' < N_FRAME
                     PROVE  page_fault_count' = none_page_fault_count'
          OBVIOUS
        <5>1. next_frame_ptr < N_FRAME
          BY <1>1, <4>1
        <5>2. none_PAGE_TABLE[p] = -1 /\ page_fault_count = none_page_fault_count
          BY <3>3, <3>7, <5>1 DEF Counted
        <5> QED BY <3>2, <4>1, <5>2
      <4> QED BY <3>5, <4>2, <4>3, <4>4, <4>5 DEF Counted, misses
    <3> QED BY <3>6, <3>7
  <2> QED BY <1>4, <2>1, <2>2, SamePaths
<1>5. CASE \E a \in Virtual : Translate(a) /\ None!Translate(a)
  BY <1>4, <1>5
<1> QED BY <1>3, <1>5 DEF BothNext

(* The statistics add up in both programs, and the smaller memory faults   *)
(* at least as often (fifo_none.c:76-98, fifo_fifo.c:82-104).              *)
THEOREM StatisticsCorrect == BothSpec => []StatisticsAddUp
<1>1. BothInit => Counted
  BY ConstantTypes DEF BothInit, Init, None!Init, Counted, GoesRound
<1>2. (FifoInvariant /\ NoneInvariant /\ SameHistory) /\ Counted /\ [BothNext]_bothVars => Counted'
  BY CountedStep
<1>3. FifoInvariant /\ NoneInvariant /\ SameHistory /\ Counted => StatisticsAddUp
  <2> SUFFICES ASSUME FifoInvariant, NoneInvariant, SameHistory, Counted
               PROVE  StatisticsAddUp
    OBVIOUS
  <2>1. /\ page_fault_count \in Nat /\ tlb_hit_count \in Nat /\ instruction_count \in Nat
        /\ none_page_fault_count \in Nat
    BY DEF FifoInvariant, TypeOK, NoneInvariant, None!TypeOK
  <2>2. CountersAddUp
    BY ConstantTypes, <2>1 DEF Counted, GoesRound, CountersAddUp
  <2>3. None!CountersAddUp
    BY ConstantTypes, <2>1 DEF Counted, GoesRound, None!CountersAddUp, SameHistory, SameTlb
  <2> QED BY <2>1, <2>2, <2>3 DEF StatisticsAddUp, Counted
<1> QED BY <1>1, <1>2, <1>3, TogetherInvariant, PTL DEF BothSpec

-----------------------------------------------------------------------------
(* First-in first-out *)

(* The entries in use of a table A of size entries, oldest first. *)
InOrder(A, used, next, size) == [k \in 1 .. used |-> A[(next + k - 1) % size]]

(* B is A after one entry, the victim, was replaced: the first free one or, *)
(* in a full table, the next victim.                                       *)
Replaces(A, used, next, B, used2, next2, victim, size, Value) ==
    /\ used \in 0 .. size /\ next \in 0 .. size - 1 /\ (used < size => next = 0)
    /\ A \in [0 .. size - 1 -> Value] /\ B \in [0 .. size - 1 -> Value]
    /\ victim = IF used < size THEN used ELSE next
    /\ \A i \in (0 .. size - 1) \ {victim} : B[i] = A[i]
    /\ used2 = IF used < size THEN used + 1 ELSE used
    /\ next2 = IF used < size THEN next ELSE (next + 1) % size

(* The victim is the oldest entry of a full table, and what takes its      *)
(* place is the newest (fifo_fifo.c:160-170, 173-201).                     *)
LEMMA OldestIsReplaced ==
    ASSUME NEW size \in Nat \ {0}, NEW Value, NEW A, NEW used, NEW next,
           NEW B, NEW used2, NEW next2, NEW victim,
           Replaces(A, used, next, B, used2, next2, victim, size, Value)
    PROVE  InOrder(B, used2, next2, size)
             = Append(IF Len(InOrder(A, used, next, size)) = size
                      THEN Tail(InOrder(A, used, next, size))
                      ELSE InOrder(A, used, next, size), B[victim])
<1>0. /\ used \in 0 .. size /\ next \in 0 .. size - 1 /\ (used < size => next = 0)
      /\ A \in [0 .. size - 1 -> Value] /\ B \in [0 .. size - 1 -> Value]
      /\ victim = IF used < size THEN used ELSE next
      /\ \A i \in (0 .. size - 1) \ {victim} : B[i] = A[i]
      /\ used2 = IF used < size THEN used + 1 ELSE used
      /\ next2 = IF used < size THEN next ELSE (next + 1) % size
  BY DEF Replaces
<1> USE <1>0
<1> DEFINE q == InOrder(A, used, next, size)
<1>1. \A k \in 1 .. size : (next + k - 1) % size \in 0 .. size - 1
  OBVIOUS
<1>2. q \in Seq(Value) /\ Len(q) = used /\ \A k \in 1 .. used : q[k] = A[(next + k - 1) % size]
  <2>1. \A k \in 1 .. used : A[(next + k - 1) % size] \in Value
    BY <1>1
  <2>2. q \in [1 .. used -> Value] /\ used \in Nat
    BY <2>1 DEF InOrder
  <2> QED BY <2>2 DEF InOrder
<1>3. CASE used < size
  <2> DEFINE r == InOrder(B, used + 1, next, size)
             t == Append(q, B[used])
  <2>1. next = 0 /\ used \in 0 .. size - 1 /\ used + 1 \in Nat
    BY <1>3
  <2>2. \A k \in 1 .. used + 1 : (next + k - 1) % size = k - 1
    <3> SUFFICES ASSUME NEW k \in 1 .. used + 1
                 PROVE  (next + k - 1) % size = k - 1
      OBVIOUS
    <3>1. PICK y \in 0 .. 2 * size - 1 : y = k - 1 /\ y < size
      BY <2>1
    <3>2. y % size = y
      BY <3>1, SmallMod
    <3> QED BY <2>1, <3>1, <3>2
  <2>3. \A k \in 1 .. used + 1 : r[k] = B[k - 1]
    BY <2>2 DEF InOrder
  <2>4. r \in Seq(Value) /\ Len(r) = used + 1
    <3>1. \A k \in 1 .. used + 1 : B[(next + k - 1) % size] \in Value
      BY <2>1, <2>2
    <3>2. r \in [1 .. used + 1 -> Value]
      BY <3>1 DEF InOrder
    <3> QED BY <2>1, <3>2 DEF InOrder
  <2>5. B[used] \in Value
    BY <2>1
  <2> HIDE DEF q, r
  <2>6. t \in Seq(Value) /\ Len(t) = used + 1 /\ t[used + 1] = B[used]
        /\ \A k \in 1 .. used : t[k] = q[k]
    BY <1>2, <2>5
  <2>7. \A k \in 1 .. used : q[k] = B[k - 1]
    <3> SUFFICES ASSUME NEW k \in 1 .. used
                 PROVE  q[k] = B[k - 1]
      OBVIOUS
    <3>1. q[k] = A[k - 1]
      BY <1>2, <2>2
    <3>2. k - 1 \in 0 .. size - 1 /\ k - 1 # used
      BY <1>3
    <3> QED BY <1>3, <3>1, <3>2
  <2>8. \A k \in 1 .. used + 1 : r[k] = t[k]
    <3> SUFFICES ASSUME NEW k \in 1 .. used + 1
                 PROVE  r[k] = t[k]
      OBVIOUS
    <3>1. CASE k \in 1 .. used
      BY <2>3, <2>6, <2>7, <3>1
    <3>2. CASE k = used + 1
      BY <2>3, <2>6, <3>2
    <3>3. k \in 1 .. used \/ k = used + 1
      OBVIOUS
    <3> QED BY <3>1, <3>2, <3>3
  <2> HIDE DEF t
  <2>9. r = t
    BY <2>4, <2>6, <2>8, SeqEqual
  <2>10. Len(q) # size
    BY <1>2, <1>3
  <2> QED BY <1>3, <2>9, <2>10 DEF q, r, t
<1>4. CASE used = size
  <2> DEFINE new == (next + 1) % size
             r == InOrder(B, size, new, size)
             t == Append(Tail(q), B[next])
  <2>1. new \in 0 .. size - 1
    OBVIOUS
  <2>2. \A k \in 1 .. size : (new + k - 1) % size \in 0 .. size - 1
    BY <2>1
  <2>3. \A k \in 1 .. size : r[k] = B[(new + k - 1) % size]
    BY DEF InOrder
  <2>4. r \in Seq(Value) /\ Len(r) = size
    <3>1. \A k \in 1 .. size : B[(new + k - 1) % size] \in Value
      BY <2>2
    <3>2. r \in [1 .. size -> Value]
      BY <3>1 DEF InOrder
    <3> QED BY <3>2 DEF InOrder
  <2>5. B[next] \in Value
    OBVIOUS
  <2>6. \A k \in 1 .. size : (new + (k - 1)) % size = (next + ((k - 1) + 1)) % size
    <3> SUFFICES ASSUME NEW k \in 1 .. size
                 PROVE  (new + (k - 1)) % size = (next + ((k - 1) + 1)) % size
      OBVIOUS
    <3>1. k - 1 \in 0 .. size - 1
      OBVIOUS
    <3> QED BY <3>1, FrontAdvances
  <2> HIDE DEF q, r, new
  <2>7. /\ Tail(q) \in Seq(Value) /\ Len(Tail(q)) = size - 1
        /\ \A k \in 1 .. size - 1 : Tail(q)[k] = q[k + 1]
    <3>1. q \in Seq(Value) /\ Len(q) = size /\ q # <<>>
      BY <1>2, <1>4
    <3> QED BY <3>1, HeadTailProperties
  <2>8. /\ t \in Seq(Value) /\ Len(t) = size /\ t[size] = B[next]
        /\ \A k \in 1 .. size - 1 : t[k] = q[k + 1]
    BY <2>5, <2>7
  <2>9. \A k \in 1 .. size - 1 : r[k] = q[k + 1]
    <3> SUFFICES ASSUME NEW k \in 1 .. size - 1
                 PROVE  r[k] = q[k + 1]
      OBVIOUS
    <3>1. r[k] = B[(next + k) % size]
      <4>1. new + k - 1 = new + (k - 1) /\ next + ((k - 1) + 1) = next + k
        BY <2>1
      <4> QED BY <2>3, <2>6, <4>1
    <3>2. q[k + 1] = A[(next + k) % size]
      <4>1. next + (k + 1) - 1 = next + k /\ k + 1 \in 1 .. used
        BY <1>4
      <4> QED BY <1>2, <4>1
    <3>3. (next + k) % size # next /\ (next + k) % size \in 0 .. size - 1
      <4>1. PICK y \in 0 .. 2 * size - 1 : y = next + k
        OBVIOUS
      <4>2. y % size = IF y < size THEN y ELSE y - size
        BY SmallMod
      <4> QED BY <4>1, <4>2
    <3> QED BY <1>4, <3>1, <3>2, <3>3
  <2>10. r[size] = B[next]
    <3>1. r[size] = B[(next + size) % size]
      <4>1. new + size - 1 = new + (size - 1) /\ next + ((size - 1) + 1) = next + size
        BY <2>1
      <4> QED BY <2>3, <2>6, <4>1
    <3>2. (next + size) % size = next
      <4>1. PICK y \in 0 .. 2 * size - 1 : y = next + size
        OBVIOUS
      <4>2. y % size = IF y < size THEN y ELSE y - size
        BY SmallMod
      <4> QED BY <4>1, <4>2
    <3> QED BY <3>1, <3>2
  <2>11. \A k \in 1 .. size : r[k] = t[k]
    <3> SUFFICES ASSUME NEW k \in 1 .. size
                 PROVE  r[k] = t[k]
      OBVIOUS
    <3>1. CASE k \in 1 .. size - 1
      BY <2>8, <2>9, <3>1
    <3>2. CASE k = size
      BY <2>8, <2>10, <3>2
    <3>3. k \in 1 .. size - 1 \/ k = size
      OBVIOUS
    <3> QED BY <3>1, <3>2, <3>3
  <2> HIDE DEF t
  <2>12. r = t
    BY <2>4, <2>8, <2>11, SeqEqual
  <2>13. Len(q) = size
    BY <1>2, <1>4
  <2> QED BY <1>4, <2>12, <2>13 DEF q, r, t, new
<1> QED BY <1>3, <1>4

(* The entries of the TLB as TlbQueue shows them, and the frames as        *)
(* FrameQueue does.                                                        *)
TlbTable == [i \in Entries |-> [key |-> TLB[i].page, value |-> TLB[i].frame]]
FrameTable == [f \in Frames |-> [key |-> FRAME_TO_PAGE[f], value |-> f]]

LEMMA QueuesInOrder ==
    ASSUME FifoInvariant
    PROVE  /\ TlbQueue = InOrder(TlbTable, tlb_item_count, next_tlb_victim, N_TLB_ENTRY)
           /\ FrameQueue = InOrder(FrameTable, next_frame_ptr, next_memory_victim, N_FRAME)
<1>1. \A k \in 1 .. tlb_item_count : (next_tlb_victim + k - 1) % N_TLB_ENTRY \in Entries
  BY ConstantTypes DEF FifoInvariant, TypeOK, Entries
<1>2. \A k \in 1 .. next_frame_ptr : (next_memory_victim + k - 1) % N_FRAME \in Frames
  BY ConstantTypes DEF FifoInvariant, TypeOK, Frames
<1>3. TlbQueue = InOrder(TlbTable, tlb_item_count, next_tlb_victim, N_TLB_ENTRY)
  BY <1>1 DEF TlbQueue, InOrder, TlbTable
<1>4. FrameQueue = InOrder(FrameTable, next_frame_ptr, next_memory_victim, N_FRAME)
  BY <1>2 DEF FrameQueue, InOrder, FrameTable
<1> QED BY <1>3, <1>4

(* A table that is not full starts with entry 0, so that the entries in    *)
(* use are the first ones.                                                 *)
LEMMA UsedAreFirst ==
    ASSUME NEW size \in Nat \ {0}, NEW used \in 0 .. size, NEW next \in 0 .. size - 1,
           used < size => next = 0, NEW k \in 1 .. used
    PROVE  (next + k - 1) % size \in 0 .. size - 1 /\ (next + k - 1) % size < used
<1>1. CASE used < size
  <2>1. PICK y \in 0 .. 2 * size - 1 : y = k - 1 /\ y < used
    OBVIOUS
  <2>2. y % size = IF y < size THEN y ELSE y - size
    BY SmallMod
  <2>3. next + k - 1 = y
    BY <1>1, <2>1
  <2> QED BY <1>1, <2>1, <2>2, <2>3
<1>2. CASE used = size
  BY <1>2
<1> QED BY <1>1, <1>2

(* A miss of the TLB inserts the page and its frame.                       *)
LEMMA MissInserts ==
    ASSUME FifoInvariant, FifoInvariant', NEW a \in Virtual, FifoFound(a) \/ FifoFaulted(a)
    PROVE  TlbCache!Next
<1> USE ConstantTypes
<1> DEFINE p == get_page_number(a)
           f == TLB'[TlbVictim].frame
<1>1. /\ p \in Pages
      /\ \A i \in Entries : ~(TLB[i].valid /\ TLB[i].page = p)
      /\ TlbVictim \in Entries /\ TLB'[TlbVictim].page = p
      /\ f \in Frames
      /\ \A i \in Entries \ {TlbVictim} : TLB'[i] = TLB[i]
      /\ tlb_item_count' = IF tlb_item_count < N_TLB_ENTRY
                           THEN tlb_item_count + 1 ELSE tlb_item_count
      /\ next_tlb_victim' = IF tlb_item_count < N_TLB_ENTRY
                            THEN next_tlb_victim
                            ELSE (next_tlb_victim + 1) % N_TLB_ENTRY
  BY FifoMisses
<1> HIDE DEF p, f
<1>2. /\ TLB \in [Entries -> Entry] /\ TLB' \in [Entries -> Entry]
      /\ tlb_item_count \in 0 .. N_TLB_ENTRY /\ next_tlb_victim \in 0 .. N_TLB_ENTRY - 1
      /\ tlb_item_count < N_TLB_ENTRY => next_tlb_victim = 0
      /\ \A i \in Entries : TLB[i].valid <=> i < tlb_item_count
  BY DEF FifoInvariant, TypeOK, FifoInUse, TlbAgrees, Entries, Entry
<1>3. \A i \in DOMAIN TlbQueue : TlbQueue[i].key # p
  <2> SUFFICES ASSUME NEW k \in 1 .. tlb_item_count
               PROVE  TlbQueue[k].key # p
    BY DEF TlbQueue
  <2>1. /\ (next_tlb_victim + k - 1) % N_TLB_ENTRY \in Entries
        /\ (next_tlb_victim + k - 1) % N_TLB_ENTRY < tlb_item_count
    BY <1>2, UsedAreFirst DEF Entries
  <2>2. TlbQueue[k].key = TLB[(next_tlb_victim + k - 1) % N_TLB_ENTRY].page
    BY DEF TlbQueue
  <2> QED BY <1>1, <1>2, <2>1, <2>2
<1>4. TlbQueue' = Append(IF Len(TlbQueue) = N_TLB_ENTRY THEN Tail(TlbQueue) ELSE TlbQueue,
                         [key |-> p, value |-> f])
  <2> DEFINE A == TlbTable
             B == TlbTable'
             Value == [key : Pages \cup {-1}, value : Frames \cup {-1}]
  <2>1. A \in [0 .. N_TLB_ENTRY - 1 -> Value] /\ B \in [0 .. N_TLB_ENTRY - 1 -> Value]
    BY <1>2 DEF TlbTable, Entries, Entry
  <2>2. TlbVictim = IF tlb_item_count < N_TLB_ENTRY THEN tlb_item_count ELSE next_tlb_victim
    BY DEF TlbVictim
  <2>3. \A i \in (0 .. N_TLB_ENTRY - 1) \ {TlbVictim} : B[i] = A[i]
    BY <1>1 DEF TlbTable, Entries
  <2>4. B[TlbVictim] = [key |-> p, value |-> f]
    BY <1>1 DEF TlbTable, f
  <2> HIDE DEF A, B, Value
  <2>5. InOrder(B, tlb_item_count', next_tlb_victim', N_TLB_ENTRY)
          = Append(IF Len(InOrder(A, tlb_item_count, next_tlb_victim, N_TLB_ENTRY)) = N_TLB_ENTRY
                   THEN Tail(InOrder(A, tlb_item_count, next_tlb_victim, N_TLB_ENTRY))
                   ELSE InOrder(A, tlb_item_count, next_tlb_victim, N_TLB_ENTRY), B[TlbVictim])
    <3>1. Replaces(A, tlb_item_count, next_tlb_victim, B, tlb_item_count', next_tlb_victim',
                   TlbVictim, N_TLB_ENTRY, Value)
      BY <1>1, <1>2, <2>1, <2>2, <2>3 DEF Replaces
    <3> QED BY <3>1, OldestIsReplaced
  <2>6. TlbQueue = InOrder(A, tlb_item_count, next_tlb_victim, N_TLB_ENTRY)
    BY QueuesInOrder DEF A
  <2>7. TlbQueue' = InOrder(B, tlb_item_count', next_tlb_victim', N_TLB_ENTRY)
    <3>1. (TlbQueue = InOrder(TlbTable, tlb_item_count, next_tlb_victim, N_TLB_ENTRY))'
      BY QueuesInOrder, PTL
    <3> QED BY <3>1 DEF B
  <2> QED BY <2>4, <2>5, <2>6, <2>7
<1>5. TlbCache!Insert(p, f)
  BY <1>3, <1>4 DEF TlbCache!Insert
<1> QED BY <1>1, <1>5 DEF TlbCache!Next

(* A page fault inserts the page and its frame.                            *)
LEMMA FaultInserts ==
    ASSUME FifoInvariant, FifoInvariant', NEW p \in Pages, ~Resident(p), load_to_memory(p)
    PROVE  FrameCache!Next
<1> USE ConstantTypes
<1> DEFINE f == FrameVictim
<1>1. /\ f \in Frames
      /\ FRAME_TO_PAGE \in [Frames -> Pages] /\ FRAME_TO_PAGE' \in [Frames -> Pages]
      /\ FRAME_TO_PAGE'[f] = p
      /\ \A g \in Frames \ {f} : FRAME_TO_PAGE'[g] = FRAME_TO_PAGE[g]
  BY FifoLoad DEF FifoInvariant, TypeOK
<1>2. /\ next_frame_ptr' = IF next_frame_ptr < N_FRAME THEN next_frame_ptr + 1
                           ELSE next_frame_ptr
      /\ next_memory_victim' = IF next_frame_ptr < N_FRAME THEN next_memory_victim
                               ELSE (next_memory_victim + 1) % N_FRAME
  BY DEF load_to_memory
<1>3. /\ next_frame_ptr \in 0 .. N_FRAME /\ next_memory_victim \in 0 .. N_FRAME - 1
      /\ next_frame_ptr < N_FRAME => next_memory_victim = 0
      /\ f = IF next_frame_ptr < N_FRAME THEN next_frame_ptr ELSE next_memory_victim
  BY DEF FifoInvariant, TypeOK, FifoInUse, Frames, FrameVictim
<1> HIDE DEF f
<1>4. \A i \in DOMAIN FrameQueue : FrameQueue[i].key # p
  <2> SUFFICES ASSUME NEW k \in 1 .. next_frame_ptr
               PROVE  FrameQueue[k].key # p
    BY DEF FrameQueue
  <2> DEFINE g == (next_memory_victim + k - 1) % N_FRAME
  <2>1. g \in Frames /\ g < next_frame_ptr
    BY <1>3, UsedAreFirst DEF Frames
  <2>2. FrameQueue[k].key = FRAME_TO_PAGE[g]
    BY DEF FrameQueue
  <2> HIDE DEF g
  <2>3. PAGE_TABLE[FRAME_TO_PAGE[g]] = g /\ g # -1
    BY <2>1 DEF FifoInvariant, FramesHoldTheirPages, Frames
  <2>4. FRAME_TO_PAGE[g] # p
    BY <2>3 DEF Resident, is_memory_valid
  <2> QED BY <2>2, <2>4
<1>5. FrameQueue' = Append(IF Len(FrameQueue) = N_FRAME THEN Tail(FrameQueue) ELSE FrameQueue,
                           [key |-> p, value |-> f])
  <2> DEFINE A == FrameTable
             B == FrameTable'
             Value == [key : Pages, value : Frames]
  <2>1. A \in [0 .. N_FRAME - 1 -> Value] /\ B \in [0 .. N_FRAME - 1 -> Value]
    BY <1>1 DEF FrameTable, Frames
  <2>2. \A i \in (0 .. N_FRAME - 1) \ {f} : B[i] = A[i]
    BY <1>1 DEF FrameTable, Frames
  <2>3. B[f] = [key |-> p, value |-> f]
    BY <1>1 DEF FrameTable
  <2> HIDE DEF A, B, Value
  <2>4. InOrder(B, next_frame_ptr', next_memory_victim', N_FRAME)
          = Append(IF Len(InOrder(A, next_frame_ptr, next_memory_victim, N_FRAME)) = N_FRAME
                   THEN Tail(InOrder(A, next_frame_ptr, next_memory_victim, N_FRAME))
                   ELSE InOrder(A, next_frame_ptr, next_memory_victim, N_FRAME), B[f])
    <3>1. Replaces(A, next_frame_ptr, next_memory_victim, B, next_frame_ptr',
                   next_memory_victim', f, N_FRAME, Value)
      BY <1>2, <1>3, <2>1, <2>2 DEF Replaces
    <3> QED BY <3>1, OldestIsReplaced
  <2>5. FrameQueue = InOrder(A, next_frame_ptr, next_memory_victim, N_FRAME)
    BY QueuesInOrder DEF A
  <2>6. FrameQueue' = InOrder(B, next_frame_ptr', next_memory_victim', N_FRAME)
    <3>1. (FrameQueue = InOrder(FrameTable, next_frame_ptr, next_memory_victim, N_FRAME))'
      BY QueuesInOrder, PTL
    <3> QED BY <3>1 DEF B
  <2> QED BY <2>3, <2>4, <2>5, <2>6
<1>6. FrameCache!Insert(p, f)
  BY <1>4, <1>5 DEF FrameCache!Insert
<1> QED BY <1>1, <1>6 DEF FrameCache!Next

(* A queue changes only with the tables it shows.                          *)
LEMMA QueuesKept ==
    /\ UNCHANGED tlb => TlbQueue' = TlbQueue
    /\ UNCHANGED memory => FrameQueue' = FrameQueue
BY DEF tlb, memory, TlbQueue, FrameQueue

(* Every step of fifo_fifo is one of both caches.                          *)
LEMMA CachesStep ==
    ASSUME FifoInvariant, FifoInvariant', [Next]_vars
    PROVE  [TlbCache!Next]_TlbQueue /\ [FrameCache!Next]_FrameQueue
<1>1. CASE EndOfFile \/ Terminated \/ UNCHANGED vars
  <2>1. UNCHANGED <<tlb, memory>>
    BY <1>1 DEF EndOfFile, Terminated, vars
  <2> QED BY <2>1, QueuesKept
<1>2. ASSUME NEW a \in Virtual, FifoHit(a)
      PROVE  [TlbCache!Next]_TlbQueue /\ [FrameCache!Next]_FrameQueue
  <2>1. UNCHANGED <<tlb, memory>>
    BY <1>2 DEF FifoHit
  <2> QED BY <2>1, QueuesKept
<1>3. ASSUME NEW a \in Virtual, FifoFound(a) \/ FifoFaulted(a)
      PROVE  [TlbCache!Next]_TlbQueue /\ [FrameCache!Next]_FrameQueue
  <2> DEFINE p == get_page_number(a)
  <2>1. TlbCache!Next
    BY <1>3, MissInserts
  <2>2. /\ p \in Pages
        /\ Resident(p) => UNCHANGED memory
        /\ ~Resident(p) => load_to_memory(p)
    BY <1>3, FifoMisses
  <2> HIDE DEF p
  <2>3. [FrameCache!Next]_FrameQueue
    BY <2>2, FaultInserts, QueuesKept
  <2> QED BY <2>1, <2>3
<1>4. ASSUME NEW a \in Virtual, Translate(a)
      PROVE  FifoHit(a) \/ FifoFound(a) \/ FifoFaulted(a)
  BY <1>4, FifoPaths DEF Translate
<1> QED BY <1>1, <1>2, <1>3, <1>4 DEF Next

(* fifo_fifo by itself, from its invariant.                                *)
LEMMA FifoCaches == Spec => TlbIsFifo /\ FramesAreFifo
<1>1. Init => FifoInvariant
  BY FifoStart
<1>2. FifoInvariant /\ [Next]_vars => FifoInvariant'
  BY FifoStep
<1>3. Init => TlbCache!Init /\ FrameCache!Init
  BY DEF Init, TlbCache!Init, FrameCache!Init, TlbQueue, FrameQueue
<1>4. FifoInvariant /\ FifoInvariant' /\ [Next]_vars =>
          [TlbCache!Next]_TlbQueue /\ [FrameCache!Next]_FrameQueue
  BY CachesStep
<1> QED BY <1>1, <1>2, <1>3, <1>4, PTL
        DEF Spec, TlbIsFifo, FramesAreFifo, TlbCache!Spec, FrameCache!Spec

(* The TLB of fifo_fifo is a first-in first-out cache of the page table    *)
(* (fifo_fifo.c:173-201).                                                  *)
THEOREM TlbImplemented == BothSpec => TlbIsFifo
BY BothRun, FifoCaches, PTL

(* The frames are a first-in first-out cache of the pages                  *)
(* (fifo_fifo.c:158-171).                                                  *)
THEOREM FramesImplemented == BothSpec => FramesAreFifo
BY BothRun, FifoCaches, PTL
=============================================================================
