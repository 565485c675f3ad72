------------------------------ MODULE InstCache -----------------------------
(***************************************************************************)
(* L1_Cache_INST (src/RTL/module/Cache/L1_Cache_INST.v): a set-associative *)
(* instruction cache.  A hit is combinational; a miss fetches the words of *)
(* the line one by one from the memory below, in order, and only then      *)
(* makes the line valid.  An address is its line number (the bits above    *)
(* BLOCK_WIDTH) and its word in the line.  The LFSR that picks the way to  *)
(* replace is any choice.  inst_out_reg keeps its reset value for ever and *)
(* imem_ready_reg its 0, so a fetch that misses is answered not ready.     *)
(***************************************************************************)
EXTENDS Naturals

CONSTANTS Inst,       \* instruction words
          Line,       \* line numbers
          NumSets,    \* 2^GROUP_NUM_WIDTH
          NumWays,    \* 2^WAY_NUM_WIDTH
          LineWords,  \* words per line: 4, as refill_word_idx has two bits
          Blank,      \* the all-zero word
          PowerUp     \* the address in the registers that reset leaves alone

ASSUME InstCacheAssumption ==
    /\ Line \subseteq Nat
    /\ NumSets \in Nat \ {0}
    /\ NumWays \in Nat \ {0}
    /\ LineWords \in Nat \ {0}
    /\ Blank \in Inst
    /\ PowerUp \in [line : Line, word : 0 .. LineWords - 1]

VARIABLES Cache_addr,      \* per set and way: valid bit and line number
          Cache_inst,      \* per set and way: the words of the line
          miss_pending,
          mem_req_reg,
          addr_reg,        \* the last address looked up; the missing one
          refill_way,
          refill_word_idx, \* the word awaited
          refill_line_buf  \* the words received so far

icvars == <<Cache_addr, Cache_inst, miss_pending, mem_req_reg, addr_reg,
            refill_way, refill_word_idx, refill_line_buf>>

Set == 0 .. NumSets - 1
Way == 0 .. NumWays - 1
Offset == 0 .. LineWords - 1
Address == [line : Line, word : Offset]
Tag == [valid : BOOLEAN, line : Line]

TypeOK ==
    /\ Cache_addr \in [Set -> [Way -> Tag]]
    /\ Cache_inst \in [Set -> [Way -> [Offset -> Inst]]]
    /\ miss_pending \in BOOLEAN
    /\ mem_req_reg \in BOOLEAN
    /\ addr_reg \in Address
    /\ refill_way \in Way
    /\ refill_word_idx \in Offset
    /\ refill_line_buf \in [Offset -> Inst]

-----------------------------------------------------------------------------
index(line) == line % NumSets

\* A slip: the valid bit is not looked at.
Hits_slip(line) == {w \in Way : Cache_addr[index(line)][w].line = line}

\* The ways that hold a line, in the set the line maps to.
Hits(line) ==
    {w \in Way : Cache_addr[index(line)][w] = [valid |-> TRUE, line |-> line]}

hit_found(a) == Hits(a.line) # {}

\* The search runs over all ways: of two hits the last one would win.
hit_data(a) ==
    LET w == CHOOSE v \in Hits(a.line) : \A u \in Hits(a.line) : u <= v
    IN  Cache_inst[index(a.line)][w][a.word]

imem_rdata(a) == IF hit_found(a) THEN hit_data(a) ELSE Blank

\* The memory side: word by word of the missing line, from its first word.
mem_req == mem_req_reg
mem_addr == IF miss_pending
            THEN [line |-> addr_reg.line, word |-> refill_word_idx]
            ELSE addr_reg

EmptyLine == [o \in Offset |-> Blank]

\* Reset clears the valid bits; the line numbers, the words and addr_reg keep
\* what power-up left there until they are written.
Init ==
    /\ Cache_addr = [s \in Set |-> [w \in Way |->
                        [valid |-> FALSE, line |-> PowerUp.line]]]
    /\ Cache_inst = [s \in Set |-> [w \in Way |-> EmptyLine]]
    /\ miss_pending = FALSE
    /\ mem_req_reg = FALSE
    /\ addr_reg = PowerUp
    /\ refill_way = 0
    /\ refill_word_idx = 0
    /\ refill_line_buf = EmptyLine

-----------------------------------------------------------------------------
(* One rising clock edge is exactly one of the following.  imem_req and a   *)
(* are the fetch port, rdata and ready the memory's answer, victim_way the  *)
(* low bits of the LFSR.                                                    *)

\* Nothing is fetched.
Rest(imem_req) ==
    /\ ~miss_pending /\ ~imem_req
    /\ mem_req_reg' = FALSE
    /\ UNCHANGED <<Cache_addr, Cache_inst, miss_pending, addr_reg, refill_way,
                   refill_word_idx, refill_line_buf>>

Hit(imem_req, a) ==
    /\ ~miss_pending /\ imem_req /\ hit_found(a)
    /\ addr_reg' = a
    /\ mem_req_reg' = FALSE
    /\ UNCHANGED <<Cache_addr, Cache_inst, miss_pending, refill_way,
                   refill_word_idx, refill_line_buf>>

\* A slip: the base address of the line to fetch is not stored.
Miss_slip(imem_req, a, victim_way) ==
    /\ ~miss_pending /\ imem_req /\ ~hit_found(a)
    /\ mem_req_reg' = TRUE
    /\ miss_pending' = TRUE
    /\ refill_way' = victim_way
    /\ refill_word_idx' = 0
    /\ refill_line_buf' = EmptyLine
    /\ UNCHANGED <<Cache_addr, Cache_inst, addr_reg>>

Miss(imem_req, a, victim_way) ==
    /\ ~miss_pending /\ imem_req /\ ~hit_found(a)
    /\ addr_reg' = a
    /\ mem_req_reg' = TRUE
    /\ miss_pending' = TRUE
    /\ refill_way' = victim_way
    /\ refill_word_idx' = 0
    /\ refill_line_buf' = EmptyLine
    /\ UNCHANGED <<Cache_addr, Cache_inst>>

\* The word awaited is not there yet; what is fetched meanwhile is ignored.
AwaitWord(ready) ==
    /\ miss_pending /\ ~ready
    /\ mem_req_reg' = TRUE
    /\ UNCHANGED <<Cache_addr, Cache_inst, miss_pending, addr_reg, refill_way,
                   refill_word_idx, refill_line_buf>>

\* A slip: the words received so far are not kept.
refill_line_next_slip(rdata) == [EmptyLine EXCEPT ![refill_word_idx] = rdata]

refill_line_next(rdata) == [refill_line_buf EXCEPT ![refill_word_idx] = rdata]

TakeWord(rdata, ready) ==
    /\ miss_pending /\ ready /\ refill_word_idx # LineWords - 1
    /\ mem_req_reg' = TRUE
    /\ refill_word_idx' = refill_word_idx + 1
    /\ refill_line_buf' = refill_line_next(rdata)
    /\ UNCHANGED <<Cache_addr, Cache_inst, miss_pending, addr_reg, refill_way>>

\* A slip: the miss is not cleared.
FinishLine_slip(rdata, ready) ==
    /\ miss_pending /\ ready /\ refill_word_idx = LineWords - 1
    /\ Cache_addr' = [Cache_addr EXCEPT ![index(addr_reg.line)][refill_way] =
                        [valid |-> TRUE, line |-> addr_reg.line]]
    /\ Cache_inst' = [Cache_inst EXCEPT ![index(addr_reg.line)][refill_way] =
                        refill_line_next(rdata)]
    /\ mem_req_reg' = FALSE
    /\ refill_word_idx' = 0
    /\ refill_line_buf' = EmptyLine
    /\ UNCHANGED <<addr_reg, refill_way, miss_pending>>

FinishLine(rdata, ready) ==
    /\ miss_pending /\ ready /\ refill_word_idx = LineWords - 1
    /\ Cache_addr' = [Cache_addr EXCEPT ![index(addr_reg.line)][refill_way] =
                        [valid |-> TRUE, line |-> addr_reg.line]]
    /\ Cache_inst' = [Cache_inst EXCEPT ![index(addr_reg.line)][refill_way] =
                        refill_line_next(rdata)]
    /\ mem_req_reg' = FALSE
    /\ miss_pending' = FALSE
    /\ refill_word_idx' = 0
    /\ refill_line_buf' = EmptyLine
    /\ UNCHANGED <<addr_reg, refill_way>>

Clock(imem_req, a, rdata, ready, victim_way) ==
    \/ Rest(imem_req)
    \/ Hit(imem_req, a)
    \/ Miss(imem_req, a, victim_way)
    \/ AwaitWord(ready)
    \/ TakeWord(rdata, ready)
    \/ FinishLine(rdata, ready)
=============================================================================
