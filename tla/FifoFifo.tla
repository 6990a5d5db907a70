------------------------------- MODULE FifoFifo -------------------------------
(***************************************************************************)
(* Project 8/virtual_memory/fifo_fifo.c: the address translation of        *)
(* FifoNone with a physical memory smaller than the virtual one.  Both the *)
(* TLB and the frames are replaced first-in first-out; FRAME_TO_PAGE says  *)
(* which page a frame holds now, and each TLB entry has a valid bit.       *)
(*                                                                         *)
(* One step of the specification is one iteration of the main loop, that   *)
(* is one line of the input file; the three actions are its three paths.   *)
(***************************************************************************)
EXTENDS Integers, Sequences

CONSTANTS N_TLB_ENTRY,
          N_PAGE_TABLE_ENTRY,
          N_FRAME,
          PAGE_FRAME_SIZE,
          LOGIC_MEMORY,        \* the backing store, mapped by initialize
          MaxInstructions      \* bound: lines of the input file

VM_SIZE   == N_PAGE_TABLE_ENTRY * PAGE_FRAME_SIZE
MEM_SIZE  == N_FRAME * PAGE_FRAME_SIZE
Virtual   == 0 .. VM_SIZE - 1
Physical  == 0 .. MEM_SIZE - 1
Pages     == 0 .. N_PAGE_TABLE_ENTRY - 1
Frames    == 0 .. N_FRAME - 1
Entries   == 0 .. N_TLB_ENTRY - 1

ASSUME ConstantsAssumption ==
    /\ N_TLB_ENTRY \in Nat \ {0}
    /\ N_PAGE_TABLE_ENTRY \in Nat \ {0}
    /\ N_FRAME \in 1 .. N_PAGE_TABLE_ENTRY
    /\ PAGE_FRAME_SIZE \in Nat \ {0}
    /\ LOGIC_MEMORY \in [Virtual -> Int]
    /\ MaxInstructions \in Nat

VARIABLES
    TLB,                \* TLB[i].page, .frame, .valid: the three columns of entry i
    PAGE_TABLE,         \* page -> the frame it was loaded to last, or -1
    FRAME_TO_PAGE,      \* frame -> the page it holds
    MEMORY,
    next_frame_ptr, tlb_item_count, next_tlb_victim, next_memory_victim,
    page_fault_count, tlb_hit_count, instruction_count,
    output,             \* the lines printed last: none, or the one of the last address
    closed              \* the input is exhausted and the program has returned

tlb      == <<TLB, tlb_item_count, next_tlb_victim>>
memory   == <<PAGE_TABLE, FRAME_TO_PAGE, MEMORY, next_frame_ptr, next_memory_victim>>
vars     == <<tlb, memory, page_fault_count, tlb_hit_count, instruction_count, output, closed>>

get_page_number(address) == address \div PAGE_FRAME_SIZE
get_offset(address)      == address % PAGE_FRAME_SIZE

Matching(p) == {i \in Entries : TLB[i].valid /\ TLB[i].page = p}

consult_tlb(p) ==
    IF Matching(p) = {} THEN -1
    ELSE TLB[CHOOSE i \in Matching(p) : \A j \in Matching(p) : i <= j].frame

(* What the call adds to the count of hits. *)
Hits(p) == IF Matching(p) = {} THEN 0 ELSE 1

(* Mutant: the victim is always entry 0. *)
SameVictim(p, f) ==
    LET i == IF tlb_item_count < N_TLB_ENTRY THEN tlb_item_count ELSE next_tlb_victim
    IN  /\ TLB' = [TLB EXCEPT ![i] = [page |-> p, frame |-> f, valid |-> TRUE]]
        /\ tlb_item_count' = IF tlb_item_count < N_TLB_ENTRY THEN tlb_item_count + 1
                                                              ELSE tlb_item_count
        /\ UNCHANGED next_tlb_victim

(* Mutant: the entries of the page are invalidated after the new one is made. *)
InvalidatedLast(p, f) ==
    IF tlb_item_count < N_TLB_ENTRY
    THEN /\ TLB' = [TLB EXCEPT ![tlb_item_count] = [page |-> p, frame |-> f, valid |-> TRUE]]
         /\ tlb_item_count' = tlb_item_count + 1
         /\ UNCHANGED next_tlb_victim
    ELSE /\ TLB' = [TLB EXCEPT ![next_tlb_victim] = [page |-> p, frame |-> f, valid |-> FALSE]]
         /\ next_tlb_victim' = (next_tlb_victim + 1) % N_TLB_ENTRY
         /\ UNCHANGED tlb_item_count

update_tlb(p, f) ==
    LET entry == [page |-> p, frame |-> f, valid |-> TRUE]
    IN  IF tlb_item_count < N_TLB_ENTRY
        THEN /\ TLB' = [TLB EXCEPT ![tlb_item_count] = entry]
             /\ tlb_item_count' = tlb_item_count + 1
             /\ UNCHANGED next_tlb_victim
        ELSE /\ TLB' = [i \in Entries |->
                          IF i = next_tlb_victim THEN entry
                          ELSE [TLB[i] EXCEPT !.valid = @ /\ TLB[i].page # p]]
             /\ next_tlb_victim' = (next_tlb_victim + 1) % N_TLB_ENTRY
             /\ UNCHANGED tlb_item_count

(* Mutant: a page that has been loaded once is taken to be resident. *)
AlwaysValid(p) == TRUE

is_memory_valid(p) == FRAME_TO_PAGE[PAGE_TABLE[p]] = p

Resident(p) == PAGE_TABLE[p] # -1 /\ is_memory_valid(p)

(* The frame of page p, or -1; Faults is what the call adds to the count.   *)
consult_page_table(p) == IF Resident(p) THEN PAGE_TABLE[p] ELSE -1

Faults(frame) == IF frame = -1 THEN 1 ELSE 0

(* memcpy of page p of the backing store into frame f. *)
Loaded(p, f) ==
    [a \in Physical |-> IF get_page_number(a) = f
                        THEN LOGIC_MEMORY[p * PAGE_FRAME_SIZE + get_offset(a)]
                        ELSE MEMORY[a]]

(* Mutant: the owner of a replaced frame is not recorded. *)
OwnerNotReplaced(p) ==
    LET filling == next_frame_ptr < N_FRAME
        frame   == IF filling THEN next_frame_ptr ELSE next_memory_victim
    IN  /\ PAGE_TABLE' = [PAGE_TABLE EXCEPT ![p] = frame]
        /\ FRAME_TO_PAGE' = IF filling THEN [FRAME_TO_PAGE EXCEPT ![frame] = p] ELSE FRAME_TO_PAGE
        /\ MEMORY' = Loaded(p, frame)
        /\ next_frame_ptr' = IF filling THEN next_frame_ptr + 1 ELSE next_frame_ptr
        /\ next_memory_victim' = IF filling THEN next_memory_victim
                                 ELSE (next_memory_victim + 1) % N_FRAME

load_to_memory(p) ==
    LET filling == next_frame_ptr < N_FRAME
        frame   == IF filling THEN next_frame_ptr ELSE next_memory_victim
    IN  /\ PAGE_TABLE' = [PAGE_TABLE EXCEPT ![p] = frame]
        /\ FRAME_TO_PAGE' = [FRAME_TO_PAGE EXCEPT ![frame] = p]
        /\ MEMORY' = Loaded(p, frame)
        /\ IF filling
           THEN next_frame_ptr' = next_frame_ptr + 1 /\ UNCHANGED next_memory_victim
           ELSE /\ next_memory_victim' = (next_memory_victim + 1) % N_FRAME
                /\ UNCHANGED next_frame_ptr

(* The address read is not tested by the code; TypeOK says it is in MEMORY. *)
PrintLine(address, frame) ==
    LET physical == frame * PAGE_FRAME_SIZE + get_offset(address)
        value    == IF physical \in Physical THEN MEMORY'[physical] ELSE 0
    IN  output' = <<[virtual |-> address, physical |-> physical, value |-> value]>>

-----------------------------------------------------------------------------
(* Reading one more line of the input. *)
ReadLine == /\ ~closed
            /\ instruction_count < MaxInstructions
            /\ instruction_count' = instruction_count + 1
            /\ UNCHANGED closed

TlbHit(address) ==
    LET page  == get_page_number(address)
        frame == consult_tlb(page)
    IN  /\ ReadLine
        /\ frame # -1
        /\ tlb_hit_count' = tlb_hit_count + Hits(page)
        /\ UNCHANGED <<tlb, memory, page_fault_count>>
        /\ PrintLine(address, frame)

PageTableHit(address) ==
    LET page  == get_page_number(address)
        frame == consult_page_table(page)
    IN  /\ ReadLine
        /\ consult_tlb(page) = -1
        /\ frame # -1
        /\ update_tlb(page, frame)
        /\ tlb_hit_count' = tlb_hit_count + Hits(page)
        /\ UNCHANGED <<memory, page_fault_count>>
        /\ PrintLine(address, frame)

(* The page table is consulted before the load and again after it: each    *)
(* call that does not find the page counts a fault.                        *)
PageFault(address) ==
    LET page   == get_page_number(address)
        absent == consult_page_table(page)
        frame  == consult_page_table(page)'
    IN  /\ ReadLine
        /\ consult_tlb(page) = -1
        /\ absent = -1
        /\ load_to_memory(page)
        /\ page_fault_count' = page_fault_count + Faults(absent) + Faults(frame)
        /\ update_tlb(page, frame)
        /\ tlb_hit_count' = tlb_hit_count + Hits(page)
        /\ PrintLine(address, frame)

(* End of file: the statistics are printed and main returns. *)
EndOfFile ==
    /\ ~closed
    /\ closed' = TRUE
    /\ UNCHANGED <<tlb, memory, page_fault_count, tlb_hit_count, instruction_count, output>>

Terminated == closed /\ UNCHANGED vars

Init ==
    /\ TLB = [i \in Entries |-> [page |-> -1, frame |-> -1, valid |-> FALSE]]
    /\ PAGE_TABLE = [p \in Pages |-> -1]
    /\ FRAME_TO_PAGE = [f \in Frames |-> 0]
    /\ MEMORY = [a \in Physical |-> 0]
    /\ next_frame_ptr = 0 /\ next_memory_victim = 0
    /\ tlb_item_count = 0 /\ next_tlb_victim = 0
    /\ page_fault_count = 0 /\ tlb_hit_count = 0 /\ instruction_count = 0
    /\ output = <<>>
    /\ closed = FALSE

(* One iteration of the main loop. *)
Translate(address) == TlbHit(address) \/ PageTableHit(address) \/ PageFault(address)

Next == \/ \E a \in Virtual : Translate(a)
        \/ EndOfFile
        \/ Terminated

Spec == Init /\ [][Next]_vars

-----------------------------------------------------------------------------
(* Properties *)

TypeOK ==
    /\ TLB \in [Entries -> [page : Pages \cup {-1}, frame : Frames \cup {-1}, valid : BOOLEAN]]
    /\ PAGE_TABLE \in [Pages -> Frames \cup {-1}]
    /\ FRAME_TO_PAGE \in [Frames -> Pages]
    /\ MEMORY \in [Physical -> Int]
    /\ next_frame_ptr \in 0 .. N_FRAME
    /\ next_memory_victim \in Frames
    /\ tlb_item_count \in 0 .. N_TLB_ENTRY
    /\ next_tlb_victim \in Entries
    /\ page_fault_count \in Nat /\ tlb_hit_count \in Nat /\ instruction_count \in Nat
    /\ output = <<>> \/ /\ Len(output) = 1
                        /\ output[1] \in [virtual : Virtual, physical : Physical, value : Int]
    /\ closed \in BOOLEAN

(* The page table and its inverse describe what memory holds: the page a   *)
(* used frame belongs to is mapped to that frame, so that no page is in    *)
(* two frames, and the frame holds that page's bytes.  In particular the   *)
(* static zero of an unused frame never passes for page 0                  *)
(* (fifo_fifo.c:26-27, 137-171).                                           *)
FramesHoldTheirPages ==
    /\ \A f \in Frames : f < next_frame_ptr => PAGE_TABLE[FRAME_TO_PAGE[f]] = f
    /\ \A p \in Pages : PAGE_TABLE[p] < next_frame_ptr
    /\ \A a \in Physical :
         LET f == get_page_number(a)
         IN  f < next_frame_ptr =>
               MEMORY[a] = LOGIC_MEMORY[FRAME_TO_PAGE[f] * PAGE_FRAME_SIZE + get_offset(a)]

(* The entries in use are the valid ones, no two of them are for one page, *)
(* and each agrees with the page table even when its page has been         *)
(* evicted since: a page with an entry is not loaded again                 *)
(* (fifo_fifo.c:173-201).                                                  *)
TlbAgrees ==
    /\ \A i \in Entries : TLB[i].valid <=> i < tlb_item_count
    /\ \A i \in Entries : TLB[i].valid => /\ TLB[i].page \in Pages
                                          /\ PAGE_TABLE[TLB[i].page] = TLB[i].frame
    /\ \A i, j \in Entries : TLB[i].valid /\ TLB[j].valid /\ TLB[i].page = TLB[j].page => i = j

(* What the valid bit is for ("add a valid-invalid bit", fifo_fifo.c:24):  *)
(* the page of a valid TLB entry is in memory.                             *)
ValidEntriesAreResident ==
    \A i \in Entries : TLB[i].valid => Resident(TLB[i].page)

(* A fault is counted once for each load and one entry is made in the TLB  *)
(* for each miss; the victims of both go round with them                   *)
(* (fifo_fifo.c:82-101, 160-170).                                          *)
CountersAddUp ==
    LET misses == instruction_count - tlb_hit_count
    IN  /\ page_fault_count <= misses
        /\ IF next_frame_ptr < N_FRAME
           THEN page_fault_count = next_frame_ptr
           ELSE (page_fault_count - N_FRAME) % N_FRAME = next_memory_victim
        /\ IF tlb_item_count < N_TLB_ENTRY
           THEN misses = tlb_item_count
           ELSE (misses - N_TLB_ENTRY) % N_TLB_ENTRY = next_tlb_victim

(* The entries in use, oldest first. *)
TlbQueue ==
    [k \in 1 .. tlb_item_count |->
        LET e == TLB[(next_tlb_victim + k - 1) % N_TLB_ENTRY]
        IN  [key |-> e.page, value |-> e.frame]]

TlbCache == INSTANCE FifoCache WITH
              Capacity <- N_TLB_ENTRY, Keys <- Pages, Values <- Frames, cache <- TlbQueue

(* "TLB-miss -> FIFO" (fifo_none.c:3). *)
TlbIsFifo == TlbCache!Spec

(* The pages in memory, oldest first. *)
FrameQueue ==
    [k \in 1 .. next_frame_ptr |->
        LET f == (next_memory_victim + k - 1) % N_FRAME
        IN  [key |-> FRAME_TO_PAGE[f], value |-> f]]

FrameCache == INSTANCE FifoCache WITH
                Capacity <- N_FRAME, Keys <- Pages, Values <- Frames, cache <- FrameQueue

(* The page in memory for the longest time is the one replaced, and no     *)
(* page is loaded that is already there (fifo_fifo.c:158-171).             *)
FramesAreFifo == FrameCache!Spec
=============================================================================
