----------------------------- MODULE PetmemTool -----------------------------
(***************************************************************************)
(* virtual_memory/user/petmem.c, the tool that takes num_blocks            *)
(* consecutive blocks of memory from Linux and gives them to the module.   *)
(* Files under /sys that cannot be opened or read, and those of the device *)
(* end the tool with an error in the code; here they are always there.     *)
(***************************************************************************)
EXTENDS Integers, FiniteSets

CONSTANTS
    bitmap_entries,     \* the memory blocks of the machine are 0 .. bitmap_entries - 1
    num_blocks          \* how many the user asked for

ASSUME ToolAssumption == bitmap_entries \in Nat \ {0} /\ num_blocks \in Nat

Block == 0 .. bitmap_entries - 1

VARIABLES
    removable,          \* the blocks whose "removable" file says 1
    offline,            \* the blocks whose "state" file says "offline"
    bitmap,             \* the blocks the tool believes removable
    reg_start, run_len,
    i,                  \* the index of the loop it is in
    pc,
    taken,              \* the blocks that went offline in this attempt
    given               \* the blocks of the ADD_MEMORY ioctl

tool_vars == <<removable, offline, bitmap, reg_start, run_len, i, pc, taken, given>>

region == reg_start .. reg_start + num_blocks - 1

\* Blocks may be offline already.
ToolInit ==
    /\ removable \in SUBSET Block
    /\ offline \in SUBSET Block
    /\ bitmap = {}
    /\ reg_start = 0 /\ run_len = 0 /\ i = 0
    /\ pc = "read"
    /\ taken = {} /\ given = {}

\* The loop ends with the block whose number is bitmap_entries - 1, and with a
\* single block does not begin.
read_bitmap ==
    /\ pc = "read"
    /\ bitmap' = IF bitmap_entries = 1 THEN {} ELSE removable
    /\ pc' = "scan"
    /\ UNCHANGED <<removable, offline, reg_start, run_len, i, taken, given>>

-----------------------------------------------------------------------------
\* A mistaken turn that goes on when the run is just long enough.
scan_block_greedy(n, s) ==
    IF s.run_len > num_blocks THEN s
    ELSE IF n \notin bitmap THEN [reg_start |-> n + 1, run_len |-> 0]
    ELSE [s EXCEPT !.run_len = @ + 1]

\* A turn of the scan: a block that is not set starts the run anew behind it,
\* and the loop is left once the run is long enough.
scan_block(n, s) ==
    IF s.run_len >= num_blocks /\ s.run_len > 0 THEN s
    ELSE IF n \notin bitmap THEN [reg_start |-> n + 1, run_len |-> 0]
    ELSE [s EXCEPT !.run_len = @ + 1]

\* The scan after n turns; reg_start keeps its value from one scan to the next.
after[n \in 0 .. bitmap_entries] ==
    IF n = 0 THEN [reg_start |-> reg_start, run_len |-> 0]
    ELSE scan_block(n - 1, after[n - 1])

scan ==
    /\ pc = "scan"
    /\ LET s == after[bitmap_entries]
       IN /\ reg_start' = s.reg_start
          /\ run_len' = s.run_len
          /\ pc' = IF s.run_len < num_blocks THEN "failed" ELSE "offline"
    /\ i' = 0
    /\ taken' = {}
    /\ UNCHANGED <<removable, offline, bitmap, given>>

\* Linux may refuse; the result of the write is not looked at.
offline_block ==
    /\ pc = "offline" /\ i < num_blocks
    /\ \/ offline' = offline \cup {reg_start + i}
       \/ UNCHANGED offline
    /\ taken' = taken \cup (offline' \ offline)
    /\ i' = i + 1
    /\ UNCHANGED <<removable, bitmap, reg_start, run_len, pc, given>>

offline_end ==
    /\ pc = "offline" /\ i = num_blocks
    /\ i' = 0
    /\ pc' = "check"
    /\ UNCHANGED <<removable, offline, bitmap, reg_start, run_len, taken, given>>

\* A mistaken check that searches on without clearing the block's bit.
mark_not_removable_lost(n) == bitmap

mark_not_removable(n) == bitmap \ {n}

\* A mistaken check that takes every block's word for it.
is_offline_trusting(n) == TRUE

is_offline(n) == n \in offline

\* A block that is not offline: the blocks before it go online again, those
\* for which Linux agrees, and the search starts anew.
check_block ==
    /\ pc = "check" /\ i < num_blocks
    /\ IF is_offline(reg_start + i)
       THEN i' = i + 1 /\ UNCHANGED <<offline, bitmap, pc>>
       ELSE /\ bitmap' = mark_not_removable(reg_start + i)
            /\ \E back \in SUBSET (reg_start .. reg_start + i - 1) : offline' = offline \ back
            /\ pc' = "scan"
            /\ UNCHANGED i
    /\ UNCHANGED <<removable, reg_start, run_len, taken, given>>

\* mem_ready: the region goes to the module.
give ==
    /\ pc = "check" /\ i = num_blocks
    /\ given' = region
    /\ pc' = "done"
    /\ UNCHANGED <<removable, offline, bitmap, reg_start, run_len, i, taken>>

Finished == pc \in {"done", "failed"} /\ UNCHANGED tool_vars

ToolNext ==
    \/ read_bitmap \/ scan \/ offline_block \/ offline_end \/ check_block \/ give
    \/ Finished

ToolSpec == ToolInit /\ [][ToolNext]_tool_vars /\ WF_tool_vars(ToolNext)

-----------------------------------------------------------------------------
ToolTypeOK ==
    /\ bitmap \subseteq removable
    /\ offline \subseteq Block
    /\ reg_start \in 0 .. bitmap_entries
    /\ run_len \in 0 .. bitmap_entries
    /\ i \in 0 .. num_blocks
    /\ pc \in {"read", "scan", "offline", "check", "done", "failed"}

\* The tool only asks Linux for blocks it still takes for removable, although
\* reg_start is not reset between two scans, and gives the module a region
\* only when every block of it is offline.
RegionIsRight ==
    /\ ToolTypeOK
    /\ pc = "offline" => region \subseteq bitmap
    /\ given \subseteq offline

\* The tool gives up only when no run of the blocks it has not been refused is
\* long enough.
GivesUpRightly ==
    pc = "failed" => \A n \in Block : ~ (n .. n + num_blocks - 1 \subseteq bitmap)

\* Linux may refuse again and again; the tool comes to an end.
Ends == <>(pc \in {"done", "failed"})

\* "check whether blocks were offlined and start again if not": no block that
\* the failed attempt took is left offline behind the one that was refused.
StartsAgain ==
    [][pc = "check" /\ pc' = "scan" => \A n \in taken : n > reg_start + i => n \notin offline']_tool_vars
=============================================================================
