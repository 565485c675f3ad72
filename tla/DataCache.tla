------------------------------ MODULE DataCache -----------------------------
(***************************************************************************)
(* L1_Cache_DATA (src/RTL/module/Cache/L1_Cache_DATA.v): a set-associative *)
(* write-through data cache without write allocation.  A read miss fetches *)
(* the one word asked for and makes the whole line valid.  core_top fixes  *)
(* size to WORD (core_top.v:405), so a word is read and merged whole.  An  *)
(* address is its line number and its word in the line.  The LFSR that     *)
(* picks the way to replace is any choice.                                 *)
(*                                                                         *)
(* pending is the flags pending_read_miss and pending_write_through, never *)
(* both set.  The bus registers towards the memory are set with the flag,  *)
(* rewritten with the same request while it is set and cleared with it, so *)
(* they are read off it.                                                   *)
(***************************************************************************)
EXTENDS Naturals, FiniteSets

CONSTANTS Word,       \* data words
          Line,       \* line numbers
          NumSets,    \* 2^GROUP_NUM_WIDTH
          NumWays,    \* 2^WAY_NUM_WIDTH
          LineWords,  \* words per line
          NoData,     \* the all-zero word
          PowerUp,    \* the line number, and
          PowerUpData \* the word in the arrays that reset leaves alone

ASSUME DataCacheAssumption ==
    /\ Line \subseteq Nat
    /\ NumSets \in Nat \ {0}
    /\ NumWays \in Nat \ {0}
    /\ LineWords \in Nat \ {0}
    /\ NoData \in Word /\ PowerUpData \in Word
    /\ PowerUp \in Line

Set == 0 .. NumSets - 1
Way == 0 .. NumWays - 1
Offset == 0 .. LineWords - 1
Address == [line : Line, word : Offset]
Tag == [valid : BOOLEAN, line : Line]

VARIABLES Cache_addr,      \* per set and way: valid bit and line number
          Cache_data,      \* per set and way: the words of the line
          dmem_rdata_reg, dmem_ready_reg,
          pending,         \* "none", "read" or "write"
          req_addr_reg, req_wdata_reg,
          refill_way,
          completed        \* completed_addr_valid and completed_addr

dcvars == <<Cache_addr, Cache_data, dmem_rdata_reg, dmem_ready_reg, pending,
            req_addr_reg, req_wdata_reg, refill_way, completed>>

TypeOK ==
    /\ Cache_addr \in [Set -> [Way -> Tag]]
    /\ Cache_data \in [Set -> [Way -> [Offset -> Word]]]
    /\ dmem_rdata_reg \in Word
    /\ dmem_ready_reg \in BOOLEAN
    /\ pending \in {"none", "read", "write"}
    /\ req_addr_reg \in Address
    /\ req_wdata_reg \in Word
    /\ refill_way \in Way
    /\ completed \in [valid : BOOLEAN, addr : Address]

-----------------------------------------------------------------------------
index(line) == line % NumSets

Hits(line) ==
    {w \in Way : Cache_addr[index(line)][w] = [valid |-> TRUE, line |-> line]}

\* A slip: only the first way is searched.
hit_found_slip(a) == 0 \in Hits(a.line)

hit_found(a) == Hits(a.line) # {}

\* The search stops at the first way that hits.
hit_way(a) == CHOOSE w \in Hits(a.line) : \A u \in Hits(a.line) : w <= u
hit_word(a) == Cache_data[index(a.line)][hit_way(a)][a.word]

\* A slip: mem_valid is not dropped with the request.
mem_request_slip ==
    [valid |-> TRUE, ren |-> pending = "read",
     wen |-> pending = "write", addr |-> req_addr_reg, wdata |-> req_wdata_reg]

\* The request towards the memory below.
mem_request ==
    [valid |-> pending # "none", ren |-> pending = "read",
     wen |-> pending = "write", addr |-> req_addr_reg, wdata |-> req_wdata_reg]

Origin == [line |-> PowerUp, word |-> 0]
NotCompleted == [valid |-> FALSE, addr |-> Origin]

Init ==
    /\ Cache_addr = [s \in Set |-> [w \in Way |->
                        [valid |-> FALSE, line |-> PowerUp]]]
    /\ Cache_data = [s \in Set |-> [w \in Way |->
                        [o \in Offset |-> PowerUpData]]]
    /\ dmem_rdata_reg = NoData
    /\ dmem_ready_reg = FALSE
    /\ pending = "none"
    /\ req_addr_reg = Origin
    /\ req_wdata_reg = NoData
    /\ refill_way = 0
    /\ completed = NotCompleted

-----------------------------------------------------------------------------
(* One rising clock edge is exactly one of the following.  r is the request *)
(* of the CPU, rdata and ready the memory's answer.  The completed address  *)
(* is remembered for one cycle only.                                        *)

Await(ready) ==
    /\ pending # "none" /\ ~ready
    /\ dmem_ready_reg' = FALSE
    /\ completed' = NotCompleted
    /\ UNCHANGED <<Cache_addr, Cache_data, dmem_rdata_reg, pending,
                   req_addr_reg, req_wdata_reg, refill_way>>

\* The word that came back goes to its place in the line; the other words of
\* the line stay what they were in that way.
FinishRead(rdata, ready) ==
    LET s == index(req_addr_reg.line) IN
    /\ pending = "read" /\ ready
    /\ Cache_addr' = [Cache_addr EXCEPT ![s][refill_way] =
                        [valid |-> TRUE, line |-> req_addr_reg.line]]
    /\ Cache_data' = [Cache_data EXCEPT ![s][refill_way][req_addr_reg.word] = rdata]
    /\ dmem_rdata_reg' = rdata
    /\ dmem_ready_reg' = TRUE
    /\ pending' = "none"
    /\ completed' = [valid |-> TRUE, addr |-> req_addr_reg]
    /\ UNCHANGED <<req_addr_reg, req_wdata_reg, refill_way>>

\* A slip: a write-through is not answered.
FinishWrite_slip(ready) ==
    /\ pending = "write" /\ ready
    /\ dmem_ready_reg' = FALSE
    /\ pending' = "none"
    /\ completed' = [valid |-> TRUE, addr |-> req_addr_reg]
    /\ UNCHANGED <<Cache_addr, Cache_data, dmem_rdata_reg,
                   req_addr_reg, req_wdata_reg, refill_way>>

FinishWrite(ready) ==
    /\ pending = "write" /\ ready
    /\ dmem_ready_reg' = TRUE
    /\ pending' = "none"
    /\ completed' = [valid |-> TRUE, addr |-> req_addr_reg]
    /\ UNCHANGED <<Cache_addr, Cache_data, dmem_rdata_reg,
                   req_addr_reg, req_wdata_reg, refill_way>>

\* A slip: the valid bit of the completed address is not looked at.
Accepts_slip(r) == r.addr # completed.addr

\* The request that was just answered is still on the port.
Accepts(r) == ~completed.valid \/ r.addr # completed.addr

Ignore(r) ==
    /\ pending = "none"
    /\ (r.ren \/ r.wen) => ~Accepts(r)
    /\ dmem_ready_reg' = FALSE
    /\ completed' = NotCompleted
    /\ UNCHANGED <<Cache_addr, Cache_data, dmem_rdata_reg, pending,
                   req_addr_reg, req_wdata_reg, refill_way>>

\* A hit is answered in the next cycle, and again as long as it is held.
ReadHit(r) ==
    /\ pending = "none" /\ r.ren /\ Accepts(r) /\ hit_found(r.addr)
    /\ dmem_rdata_reg' = hit_word(r.addr)
    /\ dmem_ready_reg' = TRUE
    /\ completed' = NotCompleted
    /\ UNCHANGED <<Cache_addr, Cache_data, pending, req_addr_reg,
                   req_wdata_reg, refill_way>>

ReadMiss(r, victim_way) ==
    /\ pending = "none" /\ r.ren /\ Accepts(r) /\ ~hit_found(r.addr)
    /\ req_addr_reg' = r.addr
    /\ req_wdata_reg' = NoData
    /\ refill_way' = victim_way
    /\ pending' = "read"
    /\ dmem_ready_reg' = FALSE
    /\ completed' = NotCompleted
    /\ UNCHANGED <<Cache_addr, Cache_data, dmem_rdata_reg>>

\* A slip: a store that hits writes the memory only.
StartWrite_slip(r) ==
    /\ pending = "none" /\ ~r.ren /\ r.wen /\ Accepts(r)
    /\ req_addr_reg' = r.addr
    /\ req_wdata_reg' = r.wdata
    /\ pending' = "write"
    /\ dmem_ready_reg' = FALSE
    /\ completed' = NotCompleted
    /\ UNCHANGED <<Cache_addr, Cache_data, dmem_rdata_reg, refill_way>>

StartWrite(r) ==
    /\ pending = "none" /\ ~r.ren /\ r.wen /\ Accepts(r)
    /\ Cache_data' = IF hit_found(r.addr)
                     THEN [Cache_data EXCEPT
                            ![index(r.addr.line)][hit_way(r.addr)][r.addr.word] = r.wdata]
                     ELSE Cache_data
    /\ req_addr_reg' = r.addr
    /\ req_wdata_reg' = r.wdata
    /\ pending' = "write"
    /\ dmem_ready_reg' = FALSE
    /\ completed' = NotCompleted
    /\ UNCHANGED <<Cache_addr, dmem_rdata_reg, refill_way>>

Clock(r, rdata, ready, victim_way) ==
    \/ Await(ready)
    \/ FinishRead(rdata, ready)
    \/ FinishWrite(ready)
    \/ Ignore(r)
    \/ ReadHit(r)
    \/ ReadMiss(r, victim_way)
    \/ StartWrite(r)
=============================================================================
