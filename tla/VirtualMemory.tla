---------------------------- MODULE VirtualMemory ----------------------------
(***************************************************************************)
(* Project 8/virtual_memory: fifo_fifo and fifo_none run on the same input *)
(* file.  The variables of FifoFifo keep their names, those of FifoNone    *)
(* are prefixed; instruction_count and closed are where the two programs   *)
(* are in their common input.                                              *)
(***************************************************************************)
EXTENDS FifoFifo, FiniteSets

VARIABLES none_TLB, none_PAGE_TABLE, none_MEMORY,
          none_next_frame_ptr, none_tlb_item_count, none_next_tlb_victim,
          none_page_fault_count, none_tlb_hit_count, none_output

None == INSTANCE FifoNone WITH
          TLB <- none_TLB, PAGE_TABLE <- none_PAGE_TABLE, MEMORY <- none_MEMORY,
          next_frame_ptr <- none_next_frame_ptr, tlb_item_count <- none_tlb_item_count,
          next_tlb_victim <- none_next_tlb_victim, page_fault_count <- none_page_fault_count,
          tlb_hit_count <- none_tlb_hit_count, output <- none_output

ASSUME NoneAssumption == None!ConstantsAssumption

bothVars == <<vars, None!vars>>

BothInit == Init /\ None!Init

BothNext == \/ \E a \in Virtual : Translate(a) /\ None!Translate(a)
            \/ EndOfFile /\ None!EndOfFile
            \/ Terminated /\ None!Terminated

BothSpec == BothInit /\ [][BothNext]_bothVars

-----------------------------------------------------------------------------
(* Properties *)

(* Without replacement, the byte printed for a virtual address is the byte *)
(* of the backing store at that address, whichever of the three paths the  *)
(* translation took (fifo_none.c:92-94).                                   *)
PrintsBackingStore == None!PrintsBackingStore

(* In both programs the TLB agrees with the page table, in fifo_fifo even  *)
(* when a page has been evicted, and holds a page once; in fifo_none no    *)
(* two pages share a frame (fifo_none.c:137-164, fifo_fifo.c:158-201).     *)
TablesAgree ==
    /\ TypeOK /\ None!TypeOK
    /\ TlbAgrees /\ None!TlbAgrees
    /\ None!FramesAreDistinct

(* The statistics: in both programs a fault is counted once for each load, *)
(* although consult_page_table is called twice, and the victims go round   *)
(* with the misses and the loads.  The smaller memory faults at least as   *)
(* often, and no more often as long as it has free frames                  *)
(* (fifo_none.c:76-98, fifo_fifo.c:82-104).                                *)
StatisticsAddUp ==
    /\ CountersAddUp
    /\ None!CountersAddUp
    /\ page_fault_count >= none_page_fault_count
    /\ next_frame_ptr < N_FRAME => page_fault_count = none_page_fault_count

(* Page replacement does not show in the TLB: both programs keep the same  *)
(* pages in the same entries and hit on the same lines, although fifo_fifo *)
(* has a valid bit and clears it in update_tlb (fifo_fifo.c:173-201).      *)
SameTlb ==
    /\ tlb_hit_count = none_tlb_hit_count
    /\ \A i \in Entries : TLB[i].page = none_TLB[i].page

(* The two programs print the same value for a line, unless the line hits  *)
(* a TLB entry whose page has been evicted: whatever misses the TLB is     *)
(* translated correctly (fifo_fifo.c:82-100, 137-154).                     *)
SameValues ==
    [][instruction_count' # instruction_count =>
         \/ output'[1].value = none_output'[1].value
         \/ /\ tlb_hit_count' # tlb_hit_count
            /\ ~Resident(get_page_number(output'[1].virtual))]_bothVars
=============================================================================
