------------------------------- MODULE FifoNone -------------------------------
(***************************************************************************)
(* Project 8/virtual_memory/fifo_none.c (main.c is the same text): address *)
(* translation with a TLB replaced first-in first-out and a physical       *)
(* memory as large as the virtual one, so that no page is ever replaced.   *)
(*                                                                         *)
(* One step of the specification is one iteration of the main loop, that   *)
(* is one line of the input file; the three actions are its three paths.   *)
(***************************************************************************)
EXTENDS Integers, Sequences, FiniteSets

CONSTANTS N_TLB_ENTRY,
          N_PAGE_TABLE_ENTRY,
          PAGE_FRAME_SIZE,
          LOGIC_MEMORY,        \* the backing store, mapped by initialize
          MaxInstructions      \* bound: lines of the input file

MEM_SIZE  == N_PAGE_TABLE_ENTRY * PAGE_FRAME_SIZE
Addresses == 0 .. MEM_SIZE - 1
Pages     == 0 .. N_PAGE_TABLE_ENTRY - 1
Frames    == Pages
Entries   == 0 .. N_TLB_ENTRY - 1

ConstantsAssumption ==
    /\ N_TLB_ENTRY \in Nat \ {0}
    /\ N_PAGE_TABLE_ENTRY \in Nat \ {0}
    /\ PAGE_FRAME_SIZE \in Nat \ {0}
    /\ LOGIC_MEMORY \in [Addresses -> Int]
    /\ MaxInstructions \in Nat

VARIABLES
    TLB,                \* TLB[i].page, TLB[i].frame: the two columns of entry i
    PAGE_TABLE,         \* page -> frame, -1 when not loaded
    MEMORY,
    next_frame_ptr, tlb_item_count, next_tlb_victim,
    page_fault_count, tlb_hit_count, instruction_count,
    output,             \* the lines printed last: none, or the one of the last address
    closed              \* the input is exhausted and the program has returned

tlb      == <<TLB, tlb_item_count, next_tlb_victim>>
memory   == <<PAGE_TABLE, MEMORY, next_frame_ptr>>
vars     == <<tlb, memory, page_fault_count, tlb_hit_count, instruction_count, output, closed>>

get_page_number(address) == address \div PAGE_FRAME_SIZE
get_offset(address)      == address % PAGE_FRAME_SIZE

(* The entries that answer for page p; the loop takes the first. *)
Matching(p) == {i \in Entries : TLB[i].page = p}

consult_tlb(p) ==
    IF Matching(p) = {} THEN -1
    ELSE TLB[CHOOSE i \in Matching(p) : \A j \in Matching(p) : i <= j].frame

(* What the call adds to the count of hits. *)
Hits(p) == IF Matching(p) = {} THEN 0 ELSE 1

(* Mutant: the victim's page is replaced and its frame is kept. *)
ForgetFrame(p, f) ==
    /\ TLB' = IF tlb_item_count < N_TLB_ENTRY
              THEN [TLB EXCEPT ![tlb_item_count] = [page |-> p, frame |-> f]]
              ELSE [TLB EXCEPT ![next_tlb_victim].page = p]
    /\ IF tlb_item_count < N_TLB_ENTRY
       THEN tlb_item_count' = tlb_item_count + 1 /\ UNCHANGED next_tlb_victim
       ELSE next_tlb_victim' = (next_tlb_victim + 1) % N_TLB_ENTRY /\ UNCHANGED tlb_item_count

update_tlb(p, f) ==
    IF tlb_item_count < N_TLB_ENTRY
    THEN /\ TLB' = [TLB EXCEPT ![tlb_item_count] = [page |-> p, frame |-> f]]
         /\ tlb_item_count' = tlb_item_count + 1
         /\ UNCHANGED next_tlb_victim
    ELSE /\ TLB' = [TLB EXCEPT ![next_tlb_victim] = [page |-> p, frame |-> f]]
         /\ next_tlb_victim' = (next_tlb_victim + 1) % N_TLB_ENTRY
         /\ UNCHANGED tlb_item_count

(* The frame of page p, or -1; Faults is what the call adds to the count.   *)
consult_page_table(p) == PAGE_TABLE[p]

Faults(frame) == IF frame = -1 THEN 1 ELSE 0

(* memcpy of page p of the backing store into frame f. *)
Loaded(p, f) ==
    [a \in Addresses |-> IF get_page_number(a) = f
                         THEN LOGIC_MEMORY[p * PAGE_FRAME_SIZE + get_offset(a)]
                         ELSE MEMORY[a]]

(* Mutant: the next frame is not reserved. *)
FrameNotReserved(p) ==
    /\ PAGE_TABLE' = [PAGE_TABLE EXCEPT ![p] = next_frame_ptr]
    /\ MEMORY' = Loaded(p, next_frame_ptr)
    /\ UNCHANGED next_frame_ptr

load_to_memory(p) ==
    /\ PAGE_TABLE' = [PAGE_TABLE EXCEPT ![p] = next_frame_ptr]
    /\ MEMORY' = Loaded(p, next_frame_ptr)
    /\ next_frame_ptr' = next_frame_ptr + 1

(* The address read is not tested by the code; TypeOK says it is in MEMORY. *)
PrintLine(address, frame) ==
    LET physical == frame * PAGE_FRAME_SIZE + get_offset(address)
        value    == IF physical \in Addresses THEN MEMORY'[physical] ELSE 0
    IN  output' = <<[virtual |-> address, physical |-> physical, value |-> value]>>

-----------------------------------------------------------------------------
(* Reading one more line of the input. *)
ReadLine == /\ ~closed
            /\ instruction_count < MaxInstructions
            /\ instruction_count' = instruction_count + 1
            /\ UNCHANGED closed

TlbHit(address) ==
    LET page  == get_page_number(address)
        frame == consult_tlb(page)
    IN  /\ ReadLine
        /\ frame # -1
        /\ tlb_hit_count' = tlb_hit_count + Hits(page)
        /\ UNCHANGED <<tlb, memory, page_fault_count>>
        /\ PrintLine(address, frame)

PageTableHit(address) ==
    LET page  == get_page_number(address)
        frame == consult_page_table(page)
    IN  /\ ReadLine
        /\ consult_tlb(page) = -1
        /\ frame # -1
        /\ update_tlb(page, frame)
        /\ tlb_hit_count' = tlb_hit_count + Hits(page)
        /\ UNCHANGED <<memory, page_fault_count>>
        /\ PrintLine(address, frame)

(* The page table is consulted before the load and again after it: each    *)
(* call that does not find the page counts a fault.                        *)
PageFault(address) ==
    LET page   == get_page_number(address)
        absent == consult_page_table(page)
        frame  == consult_page_table(page)'
    IN  /\ ReadLine
        /\ consult_tlb(page) = -1
        /\ absent = -1
        /\ load_to_memory(page)
        /\ page_fault_count' = page_fault_count + Faults(absent) + Faults(frame)
        /\ update_tlb(page, frame)
        /\ tlb_hit_count' = tlb_hit_count + Hits(page)
        /\ PrintLine(address, frame)

(* End of file: the statistics are printed and main returns. *)
EndOfFile ==
    /\ ~closed
    /\ closed' = TRUE
    /\ UNCHANGED <<tlb, memory, page_fault_count, tlb_hit_count, instruction_count, output>>

Terminated == closed /\ UNCHANGED vars

Init ==
    /\ TLB = [i \in Entries |-> [page |-> -1, frame |-> -1]]
    /\ PAGE_TABLE = [p \in Pages |-> -1]
    /\ MEMORY = [a \in Addresses |-> 0]
    /\ next_frame_ptr = 0 /\ tlb_item_count = 0 /\ next_tlb_victim = 0
    /\ page_fault_count = 0 /\ tlb_hit_count = 0 /\ instruction_count = 0
    /\ output = <<>>
    /\ closed = FALSE

(* One iteration of the main loop. *)
Translate(address) == TlbHit(address) \/ PageTableHit(address) \/ PageFault(address)

Next == \/ \E a \in Addresses : Translate(a)
        \/ EndOfFile
        \/ Terminated

Spec == Init /\ [][Next]_vars

-----------------------------------------------------------------------------
(* Properties *)

TypeOK ==
    /\ TLB \in [Entries -> [page : Pages \cup {-1}, frame : Frames \cup {-1}]]
    /\ PAGE_TABLE \in [Pages -> Frames \cup {-1}]
    /\ MEMORY \in [Addresses -> Int]
    /\ next_frame_ptr \in 0 .. N_PAGE_TABLE_ENTRY
    /\ tlb_item_count \in 0 .. N_TLB_ENTRY
    /\ next_tlb_victim \in Entries
    /\ page_fault_count \in Nat /\ tlb_hit_count \in Nat /\ instruction_count \in Nat
    /\ output = <<>> \/ /\ Len(output) = 1
                        /\ output[1] \in [virtual : Addresses, physical : Addresses, value : Int]
    /\ closed \in BOOLEAN

(* The byte printed for a virtual address is the byte of the backing store *)
(* at that address, whichever of the three paths the translation took      *)
(* (fifo_none.c:92-94).                                                    *)
PrintsBackingStore ==
    \A k \in DOMAIN output : output[k].value = LOGIC_MEMORY[output[k].virtual]

(* The TLB is a faithful cache of the page table: an entry in use agrees   *)
(* with it, and no page has two entries (fifo_none.c:143-164).             *)
TlbAgrees ==
    /\ \A i \in Entries : i < tlb_item_count =>
          /\ TLB[i].page \in Pages
          /\ PAGE_TABLE[TLB[i].page] = TLB[i].frame
    /\ \A i, j \in Entries : TLB[i].page = TLB[j].page /\ TLB[i].page # -1 => i = j

InMemory == {p \in Pages : PAGE_TABLE[p] # -1}

(* Each loaded page has a frame of its own and no frame is skipped, so     *)
(* that next_frame_ptr, which load_to_memory never compares with anything, *)
(* stays within MEMORY (fifo_none.c:137-141).                              *)
FramesAreDistinct ==
    /\ \A p, q \in InMemory : PAGE_TABLE[p] = PAGE_TABLE[q] => p = q
    /\ \A p \in InMemory : PAGE_TABLE[p] \in 0 .. next_frame_ptr - 1
    /\ next_frame_ptr = Cardinality(InMemory)

(* The statistics: a fault is counted once for each page loaded, although  *)
(* consult_page_table is called twice, and each miss of the TLB inserts    *)
(* one entry (fifo_none.c:82-91, 97-98).                                   *)
CountersAddUp ==
    LET misses == instruction_count - tlb_hit_count
    IN  /\ page_fault_count = next_frame_ptr
        /\ page_fault_count <= misses
        /\ IF tlb_item_count < N_TLB_ENTRY
           THEN misses = tlb_item_count
           ELSE (misses - N_TLB_ENTRY) % N_TLB_ENTRY = next_tlb_victim
=============================================================================
