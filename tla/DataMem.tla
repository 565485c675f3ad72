------------------------------- MODULE DataMem ------------------------------
(***************************************************************************)
(* data_mem (src/RTL/memory/data_mem.v): the on-chip data BRAM.  The read  *)
(* data and ready are registered, so ready follows valid by one cycle: it  *)
(* is low in the first cycle of a request and still high in the cycle      *)
(* after the last one.  core_top fixes size to WORD (core_top.v:405), so   *)
(* the byte lanes always move together and a word is one value.            *)
(***************************************************************************)
EXTENDS Naturals

CONSTANTS Word,      \* data words and addresses
          MemSize,   \* number of words, 2^ADDR_WIDTH in the code
          InitMem,   \* contents at power-up, a function on MemAddr
          InitData   \* the uninitialised read register at power-up

MemAddr == 0 .. MemSize - 1

VARIABLES mem,       \* mem3..mem0, one word per entry
          mem_data,  \* the registered read data
          ready_reg

memvars == <<mem, mem_data, ready_reg>>

\* address[ADDR_WIDTH+1:2]: higher address bits are ignored.
word_addr(a) == a % MemSize

Request == [valid : BOOLEAN, ren : BOOLEAN, wen : BOOLEAN,
            addr : Word, wdata : Word]

TypeOK ==
    /\ mem \in [MemAddr -> Word]
    /\ mem_data \in Word
    /\ ready_reg \in BOOLEAN

data_out == mem_data
ready == ready_reg

Init ==
    /\ mem = InitMem
    /\ mem_data = InitData
    /\ ready_reg = FALSE

\* One rising clock edge under request r; a read that meets a write of the
\* same word returns the old word (both assignments are non-blocking).
Clock(r) ==
    /\ mem_data' = IF r.valid /\ r.ren THEN mem[word_addr(r.addr)] ELSE mem_data
    /\ ready_reg' = r.valid
    /\ mem' = IF r.wen THEN [mem EXCEPT ![word_addr(r.addr)] = r.wdata] ELSE mem
=============================================================================
