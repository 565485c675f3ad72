# TLA+ models of the RISC-V core and its AXI memory

A five-stage RV32 pipeline in Verilog (`src/RTL`), with on-chip memories, optional
L1 caches and AXI masters, and the C++ (SystemC) model of the AXI BRAM controller that
answers those masters when the block design is simulated (`src/bd/soc/ip/soc_axi_bram_ctrl_0_0/src`).

In the Verilog all state changes on the rising edge of one clock; what
makes it hard is not threads but the many registers that move at once: forwarding
paths, two locks around the data bus, a memory whose `ready` is one cycle late, two
writers for one register-file port, and a JAL that acts one stage before a branch. In the C++ model
nothing is clocked: methods run when events notify them, one transaction at a time, a debug
transport reaches the memory between them, and with shared memory another process writes the same files.

Line numbers below are of files in the repository, `src/RTL/` or the directory above left out where it is clear.

## 1. Inventory

| part | state | operations | talks to | what makes it correct |
|---|---|---|---|---|
| register file (`module/register.v`) | BRAM array, one-entry write buffer, bypass, sampled read addresses | one clock edge with two write requests and two reads | WB (port 1), JAL in ID (port 2), EX | it is a two-port file: no write lost or reordered, reads see the newest value |
| load/store lock (`module/register_EX.v`) | load FSM, store flag, captured load, 2-deep forward chain, stale-ready skip | one clock edge | EX, hazard unit, data bus | a lock is held exactly for an access on its way; a forwarded value is the newest |
| hazard unit (`module/hazard_ctrl.v`) | none | front/back stall, IF/ID and ID/EX flush | everything | no instruction is lost, doubled or run on the wrong path; nobody waits for ever |
| pipeline (`core/core_top.v` and its stages) | PC, IF/ID, ID/EX, EX/MEM, EX/WB, MEM/WB | one clock edge | both buses | the registers and the memory are what RV32I says |
| decoder, ALU (`core/ID.v`, `module/ALU`) | none | combinational | EX | – |
| data BRAM (`memory/data_mem.v`) | words, registered read data and `ready` | one clock edge | data bus | a read returns the last write |
| instruction ROM (`memory/inst_mem.v`), `core/soc_top_bram.v` | the program | combinational read | fetch | – |
| L1 instruction cache (`module/Cache/L1_Cache_INST.v`) | tags, lines, refill buffer | combinational hit, miss, 4-word refill | fetch, ROM or AXI | a hit returns the memory's word; a miss ends; the core waits without side effects |
| L1 data cache (`module/Cache/L1_Cache_DATA.v`) | tags, lines, one pending access, completed-address filter | hit, read miss, write-through | data bus, BRAM or AXI | a load returns the last store; each request is answered once |
| LFSR (`module/Cache/LFSR16_*.v`) | 16 bits | advance | the caches' way choice | every way is chosen again and again |
| AXI masters (`module/axi`), `core/soc_top.v` | a handshake FSM each | AR/R, AW/W/B | caches or core, interconnect | each request is one transaction |
| AXI BRAM controller model (`axi_bram_ctrl.cpp`, `axi_bram_memory_imp.cpp`) | two sockets with arrived transactions, two response lists | read method, write method, debug transport | AXI master, memory handler | it is an array of bytes; every request is answered, whatever notifications coincide |
| RAM handler (`axi_bram_ram_fmodel.cxx`) | pages of 1 MB, allocated when touched | `writeDevMem`, `readDevMem`, `get_page` | controller model | paging is invisible, the page limit is never met |
| shared memory handler (`axi_bram_fmodel_shared_memory.cxx`, `P2P_XTLM_extension.h`) | buffers by base address, open files by name, names by base address | ALLOC_BO, FREE_BO, IMPORT_BO, COPY_BO, reads, writes | controller model, other processes through the mapped files | each buffer has its own mapping and bytes, each open file its own descriptor |
| unused units (`mem_conflict_ctrl.v`, `register_MEM.v`, `medium_reg.v`, `MEM_stage.v`, `examine.v`) | – | instantiated nowhere | – | – |

Not hardware of this repository, or not behaviour: the rest of the Vivado block design (`src/bd`,
generated), `sim/`, `scripts/`, `constraints/`.

The behaviours that are hard to test are the `hazards` of `PROJECT.json`, each with its
line and the property that watches it.

## 2. Modules

| module | models | notes |
|---|---|---|
| `RegisterFile` | `register.v` | one action `Clock(wb, link, raddr)`; `Spaced` is the requirement of the comment at `register.v:46-47` |
| `RegisterPromise` | the register file beside what a two-port one promises (`areg`) | `Next` feeds the same two writes to both |
| `LoadStoreLock` | `register_EX.v` | `Clock(i)` with one operator per always block; the FSM is a disjunction `Flushed`, `Start`, `Idle`, `Busy`, `Release` |
| `HazardCtrl` | `hazard_ctrl.v` | no state; `in` is the record of its input ports |
| `RV32` | `ID.v` and the arithmetic of `EX.v` | what the pipeline tells apart of an instruction |
| `Core` | `core_top.v` and the stage registers | instances of the three above; a wire is an operator, `Clock(in)` is the clock edge |
| `DataMem` | `data_mem.v` | |
| `CoreMem` | `Core` on `DataMem`, any instruction stream | every program on every instruction memory or cache is one of its behaviours |
| `LoadOwner` | `CoreMem` with a history variable | `owner` is the address of the load that holds the load lock, `Waiting` while that load is still in EX |
| `SocBram` | `soc_top_bram.v` | `CoreMem` whose stream is a program in `inst_mem` |
| `ISA` | RV32I, one instruction per step | abstract specification (external) |
| `Lockstep` | `SocBram` beside `ISA` | the correctness of the chip; `Scheduled` is the instruction order it needs, section 5 |
| `InstCache` | `L1_Cache_INST.v` | one clock edge is a disjunction `Rest`, `Hit`, `Miss`, `AwaitWord`, `TakeWord`, `FinishLine`; the victim way is an argument |
| `FetchRom` | `InstCache` on `inst_mem` | any fetch address and any redirection in every cycle |
| `DataCache` | `L1_Cache_DATA.v` | `pending` is "none", "read" or "write" (the code's two flags are never both set) |
| `DataCacheMem` | `DataCache` on `data_mem`, driven by an EX/MEM register | `fresh` is the set of words that were really fetched or written |
| `CoreDcache` | `soc_top_bram_dcache.v`, any instruction stream | `CoreMem` with `DataCache` between the core and the memory |
| `AxiImem`, `AxiDmem` | `axi_if_imem_master.v`, `axi_if_dmem_master.v` | one operator per state of the FSM |
| `AxiSlave` | an AXI memory (external) | it answers when it likes: `go` lets it move in this cycle |
| `FetchAxi` | the instruction side of `soc_top.v` | `FetchRom`'s cache and fetches on `AxiImem` and `AxiSlave`, which holds the program |
| `DataAxi` | the data side of `soc_top.v` without the core | `AxiDmem`, `AxiSlave`, and `amem`, the memory as the core has it |
| `Lfsr16` | `LFSR16_inst.v`, `LFSR16_data.v` | no run: its property is proved |
| `AxiPayload` | the fields of an `xtlm::aximm_payload` and the `P2P_XTLM_extension` it carries | address wrap, range check, byte enables |
| `TargetSocket` | the two sockets, the response lists and the methods' sensitivity | `notified`: an event is pending; any number of notifications are one activation |
| `RamModel` | `axi_bram_ram_fmodel` | a page is a function from offsets to bytes |
| `BramCtrl` | `axi_bram_ctrl` with `axi_bram_memory_imp` on `RamModel` | one action per method activation, debug call, arrival and sample |
| `FlatMemory` | what the controller promises | abstract specification: one array of bytes, each channel in order |
| `SharedModel` | `axi_bram_fmodel_shared_memory` and the mappings, descriptors and files below it | `wild`: undefined behaviour was met |
| `BramShared` | `axi_bram_memory_imp` on `SharedModel`, and a process that has mapped the files | what one activation or debug call does to the memory; `borrowed`: a file that is a buffer's by its name was imported |
| `MC*` | constants of the runs | |
| `RegisterPromise_proofs`, `CoreMem_proofs`, `Lockstep_proofs`, `Fetch_proofs`, `DataCacheMem_proofs`, `DataAxi_proofs`, `BramCtrl_proofs`, `BramShared_proofs` | theorems | section 6 |

How the modules correspond to the code: in the Verilog part one step of a specification is one rising edge of
`clk`. Non-blocking assignments become primed variables, `assign`s become operators, a
port list becomes a record. The reset is `Init`. In the C++ part a step is what runs without giving control
back to the simulator: one activation of an `SC_METHOD`, one call of the debug transport, or a step of the
master or of the other process. Operators named `..._slip` are plausible
mistakes in the operator they stand before (several were in the code once, see
`CHANGE_REPORT.md`); nothing uses them. They exist to confirm that each property is
able to fail: a run with the slip in place of the operator violates it.

Abstractions:
* An instruction is its class and its fields. Addition with wrap-around stands for every
  ALU operation, `beq`/`bne` for every branch: the control never looks at which it is.
* Every address and immediate is a multiple of four, so the number n stands for 4n; words
  wrap at `WordSize`. `core_top` fixes the bus size to a word (`core_top.v:405`), so byte
  lanes always move together.
* `mem_busy_out` of `register_EX` and the `rd_out2` outputs, which nothing reads, do not
  influence anything; the first is left out.
* `core_top.v:131,137,138` use wires declared further down. The model reads them with
  their declared width.
* A cache address is a record of line and word; set and tag follow from the line. The caches'
  replacement is any way (`victim_way` is an argument), of which the LFSR's choice is one; `Lfsr16` shows
  by itself that the generator never stops.
* `InstCache` gets `imem_req` as an argument; in the chip `IF.v:67` ties it to one.
* In the AXI masters the fields that never change (`arlen`, `arsize`, `arburst`, ids, protection) are left
  out; responses are always OKAY, since the masters never read `rresp` and `bresp`. `AxiSlave` takes one read
  and one write at a time, which is all the masters send.
* `AxiPayload`: a byte is a value of a small set, `Junk` what `new[]` leaves in a page. `C_MEMORY_DEPTH` times the
  data width in bits is what the code takes for the number of bytes; the model does so too. Report output,
  latencies (all zero) and the stub ports for ECC and the second BRAM port are left out; so is
  `transport_dbg` with a command that is neither read nor write, which changes nothing.
* `RamModel`: one call of `writeDevMem` or `readDevMem` is one step; its loop over pages gives up nothing in between.
* `SharedModel`: a pointer is a name that is free, a descriptor the least free number. `open` and `ftruncate` may fail
  (nothing is entered then); `mmap` of a size of 0 returns `MAP_FAILED`, which the code enters like any pointer; `mmap` of another size and
  `write` of readable bytes succeed. `munmap` of a pointer that was given back and handed out again takes the mapping that has it now; when the sizes
  differ it takes a part of it or more, which is undefined here (`Torn`). A file is as long as what was put into it. The process's
  name, run directory and user, which are the same in every file name, are left out of `get_mem_file_name`. `mFileFdMap` is static;
  the design has one instance. Where the code steps on an erased iterator, runs past the end of a buffer, or
  ends without its return value, the step sets `wild`, after which no step is specified; the outcomes in which
  nothing bad came of it are kept beside it where there are any (`createPage`, `freePage`, `ImportBO`).
* Flush, exception and interrupt ports are in `Core` and tied to zero in `CoreMem`, as
  `fpga_top_bram.v:47-52` and every testbench tie them.

## 3. What is checked

| run | instance | properties | what it shows |
|---|---|---|---|
| `regfile` | 3 registers, 2 words, all requests | `KeepsPromise`, `ReadsArchitectural`, `TypeOK` | one port with a one-entry buffer behaves as two ports, as long as writes are spaced |
| `core_mem` | 2 registers, 2 words; any stream of a load, a store, a branch taken that waits for a load, and either a load of the other word or a branch not taken and a JAL; fetch stalls | `LoadLockOwned`, `StoreLockOwned`, `SkipIsAnswered`, `LockCapturesOwn`, `BusStable`, `PipelineMoves`, `LoadWritesBack`, `TypeOK` | the locks and the skip always belong to an access in flight, the load lock captures its own load's word, the waits never close into a deadlock, no load is lost |
| `lockstep` | 3 registers, 16 words; 9,977 scheduled programs of 4 instructions over 11 (control) and 8,646 of 5 over 8 (memory) | `ArchCorrect`, `BufferNeverOverflows`, `MemoryIsArchitectural`, `DrainsWhenHalted` | control flow, links, loads, stores and forwarding give the RV32I result, no wrong store ever reaches memory, and the chip finishes what the architecture finishes |
| `fetch_rom` | 2 sets, 2 ways, 4 lines of 2 words; any fetch in any cycle | `LineIsRom`, `UniqueLine`, `FetchCorrect`, `SteadyFetchIsServed` | the cache answers only with the program's words, redirections during a refill included, and serves a steady fetch for good |
| `dcache` | 2 lines of 2 words in one set of 2 ways; any loads and stores, held until answered | `UniqueLine`, `FreshIsMemory`, `AnswerIsOwn` | write-through keeps every fetched or written word equal to memory, and no stale `ready` ends a request |
| `core_dcache` | 2 words, each a line, in a cache of one line; any stream of NOP, a load of either word, a store | `LoadLockServed`, `StoreLockServed`, `DcacheMoves`, `RequestAnswered` | locks and cache agree, also for a load that left EX/MEM on an older load's answer; the filter of answered requests swallows none |
| `fetch_axi` | two lines that compete for one way, a slave of any speed | `AnswerIsAsked`, `RefillEnds` | each answer is to the address sent, and every refill through the master ends |
| `data_axi` | 2 addresses, 2 words, any initial contents, a slave of any speed | `SingleOutstanding`, `StoresArrive`, `ChannelsHeld`, `RequestAnswered` | one access at a time, no store lost or overtaken although requests are repeated |
| `bram_ctrl` | 4 bytes in 2 pages, 2 outstanding transactions; transfers in a page, across pages, at a wrapped address, over the end, with byte enables, with an extension, and debug calls | `ImplementsFlatMemory`, `NeverExhausted`, `NoLostWakeup`, `EveryRequestServed`, `BramTypeOK` | the controller model is an array of bytes and never leaves a request behind |
| `bram_shared` | two buffers of 2 bytes that overlap, one of size 0, an import of another process's file and one of a buffer's own, one copy, 3 pointers, 3 descriptors, files of at most 2 bytes | `PagesMapped`, `ReadsReturnWrites`, `EntriesOpen` | a buffer keeps its mapping and its bytes through allocations, releases and imports over one another, until a buffer's own file is imported; an entry keeps its descriptor even then |
| `witness_line`, `witness_hit` | as `fetch_axi` and `dcache` | `LineIsMemory`; `HitIsMemory` | statements of the repository that the caches do not keep, section 4 |

**Bounds.** The register file compares addresses and never looks at data, so three
registers (x0 and two others) and two words show every comparison. The core's hazards lie
between instructions at most three apart (IF/ID, ID/EX, EX/MEM), so a free stream
or programs of four and five instructions followed by the drain contain every overlap;
two architectural registers besides x0 are enough for one to be a destination and the other a
source. `core_mem` takes every stream over one of two alphabets, one with loads of two words and one with both branches and JAL; each overlap of a
load, a store and a flush is in one of them. Its two words differ, to tell the word of a load from that of the access in front of it or behind it. Its
store puts the value that is there already: the locks look at no data, and a stale word shows as the other word. It has no idle
instruction: bubbles and a fetch that is not ready stand for it. `core_dcache` and `lockstep` have NOPs. On the data cache addresses matter to the locks:
with one word every load behind an answered one hits, with two it may miss, and its answer comes cycles after it has left
EX/MEM. `core_dcache` has two words for this, one line of cache so that they evict each other, and neither branches
nor jumps, whose effect on the locks `core_mem` shows; `inst_mem` is always ready.
`WordSize` 16 keeps `Image` addresses apart from wrapped ones and allows the backward branch `15`
(−1). `InitData` is the unknown content of the read register at power-up, different from
every memory word so that stale data shows. The initial values of memory differ from each other.
Caches: a set is looked at alone, so two ways and one line more than fits show eviction, and two words per
line (four in the code) show the first, the last and the order of a refill.
The controller model compares an address with a page border and with the end: two pages of two bytes have a transfer on
every side of both. Two outstanding transactions are what one activation cannot take; both channels, the
debug calls and the samples interleave with them. Two buffers at neighbouring bases of a size of two overlap; with an import under
one of them every pair of maps can disagree; with an import of the first one's file under the base of the second a release meets the other's mapping; and a third pointer and descriptor let what was given back be handed out
again. `FileMax` stops copies from making files ever longer.

**Fairness.** The clock does not stop, and nothing else is assumed of the hardware; in particular a
stream may hold any instruction at any time. `FairFetchSpec` says it as weak fairness of the clock edge, which is always
possible. The larger MC modules say the same with the clock as a signal: `clk` changes at every edge and changes for
ever (`ClockedSpec`), which spares TLC the ENABLED of a whole pipeline. It is not a progress assumption about the
core: `clk` also changes at an edge that leaves every register as it is, so a deadlock is a fair behaviour. With AXI the memory
does not put its next handshake off for ever, as AXI requires of it: `SlaveMoves`. `FairBramSpec` says that the simulator runs a method that was notified and that the master samples
a response it was sent (its socket utility does so of its own accord); that another transaction ever arrives is not assumed, so
`EveryRequestServed` cannot rest on a later arrival to wake the method. Deadlock checking is on except in `bram_shared`: hardware has a next
cycle in every state, and the simulation can always receive a debug call. `BramShared` stops where undefined behaviour was met, and where
its bound on files is reached.

On the data cache `DcacheMoves` makes an exception of states in which a store is held in EX behind an access in EX/MEM.
Without the exception it is violated: see the end of the next section.

## 4. Where the repository says otherwise

Two statements have a run whose counterexample TLC prints:

| run | the code does | the repository says |
|---|---|---|
| `witness_line` | the read master repeats each address, because `mem_req` is still up with the old one when it is idle again: a line filled through it is shifted by one word | `tb_L1_Cache_INST.v:9`, `axi_if_imem_master.v:6` |
| `witness_hit` | a read miss fetches one word and validates the whole line: a load of another word of it hits what was there | `L1_Cache_DATA.v:6-7` |

The others were met while modelling and have no run of their own; each follows from the definitions named, and the runs exclude it
by the restriction in the last column.

| the code does | the repository says | excluded by |
|---|---|---|
| read ports follow ID while EX is held behind a store: the held instruction gets its successor's operands | `core_top.v:163-164` | `Scheduled` |
| a JAL behind a taken branch wins the PC and writes its link (`NextPC`) | `special_features_tb.v:288-292` | `Scheduled` |
| `addi x1; addi x1; jal x2`: the second write arrives while the buffer drains and is lost (`Displaced`) | `register.v:46-47` the buffer never overflows | `Scheduled` |
| `load_skip_stale` is a register and holds EX/MEM one cycle late: on `sw; lw` the load leaves on the store's ready, and MEM/WB takes the word read before (`SkipStale`). Only the load lock captures the right one, a cycle later (`LockCapturesOwn`) | `register_EX.v:159-160` the stale ready is skipped and the real data awaited | `Scheduled`; `LockCapturesOwn` is about the lock |
| a load that enters EX in `L_RELEASE` passes without the lock; behind it the lock is taken for the next load and ended by the first one's answer, whose word goes into the forward chain under the next one's `rd` (`lw; nop; lw; lw`; `Answered`) | `register_EX.v:146` the load's result has been captured | `Scheduled`; `owner # Waiting` in `LockCapturesOwn` |
| `importBO` takes any file, a buffer's own too; FREE_BO of the import's address then unmaps the buffer, which stays entered (`Freed`) | `axi_bram_fmodel_shared_memory.cxx:353` free page at offset | `borrowed` in `PagesMapped` and `ReadsReturnWrites` |
| with two adjacent loads the bus is busy in `L_RELEASE` | `register_EX.v:91-92` | – |
| `ready` of the data BRAM is one cycle behind the request | `data_mem.v:5` | – |
| an instruction in ID during a fetch miss enters EX once per cycle of the miss: neither `stall_back` nor `flush_idex` looks at `if_stall` | `tb_icache_sys.v:8` | core and cache are not composed |
| both data masters (cache hits and AXI) take a request again that they answer in this cycle; a load right behind a load takes the second answer | `L1_Cache_DATA.v:73`, `axi_if_dmem_master.v:4` | loads are not compared with memory there |
| there a store behind an access also holds EX/MEM in the one cycle of its `ready`: the access is repeated for ever | `L1_Cache_DATA.v:73`, `axi_if_dmem_master.v:4` | `StoreBehindAccess` |
| the LFSR advances with every request | `LFSR16_inst.v:6` on a miss only | – |
| ALLOC_BO on the RAM handler is answered TRUE with an empty file name; on the shared one a failed `open` or `ftruncate` is answered TRUE with a name; `m_resp_valid` is never set (`ExtensionReply`, `createPage`) | `P2P_XTLM_extension.h:51-55` the slave responds with the buffer's file name | – |
| `createPage` on an existing buffer frees and maps anew, and goes on from an erased iterator; a buffer that only covers the new base is left, and the two overlap (`Conflict`, `Erased`) | `axi_bram_fmodel_shared_memory.cxx:287` return if it exists | runs go on beside `wild` |

Of the controller model no document says anything for the following, so they are not contradicted; each is in the model:
* `importBO` has no return statement when all went well: what the master is told is undefined (`ImportBO`). It replaces the name under
  the base address of a buffer that is there, and FREE_BO of an import without a buffer leaves its descriptor open (`Freed`).
* COPY_BO seeks from the position the last copy left (`SEEK_CUR`); to an unknown file, or from an address without a buffer, it
  copies nothing and is answered TRUE (`copyBO`).
* An access that starts outside every buffer is dropped and answered OK, whatever it reaches (`Dropped`: `ReadsReturnWrites` is not
  about it); one that starts in a buffer and ends outside runs past the mapping. With byte enables each byte finds its own buffer, without them the first byte's is taken (`writeDevMem`, `writeEnabled`).
* The range check compares bytes with depth times width in bits: 262,144 where the block design's memory has 32,768
  bytes (`m_mem_addr_width`). The page limit lets one page too many in and then refuses all; `NeverExhausted` says it is not met.
* A size of 0, the extension's default, is allocated or imported with `MAP_FAILED` for a pointer; what is read or written there is outside every buffer (`mmap`, `MapFile`).
* An import of a buffer's own file also cuts the file to the import's size, below the end of the buffer's mapping (`Resized`); an access behind that end is `wild`.

## 5. The scheduling rule

The cases of the core on its on-chip memories (the lines of the second table marked `Scheduled`) have no interlock. `Scheduled` (in `Lockstep`) states, one operator per rule, the
instruction order under which none of them occurs: an idle instruction behind a store; behind a
load its consumer or two idle instructions; a JAL not directly behind a branch or JALR, nor
behind a writer of its own `rd`, nor behind two writers. It is a rule about the words of the instruction memory as they
stand in sequence; branches and jumps may come from and go to anywhere. `LockstepAssumption` says that `Lockstep` runs such
programs, with the stall port tied off as in `fpga_top_bram.v:47`. The rule was found by dropping one clause at a time and looking at what
breaks; TLC checks on the programs of the run that it suffices, and `Lockstep_proofs` proves it for all of them. It is not claimed to be
necessary.

## 6. What is proved

For every set of registers, word size, memory and instruction stream:

* `RegisterPromise_proofs`: `TypeCorrect`, `PromiseKept`, `ReadsCorrect`, `ZeroCorrect`. The
  invariant `IInv` is the type invariant, `KeepsPromise`, `ZeroKept` and what the bypass and the raw
  read data are relative to the promise in the cycle after a write; `ReadsArchitectural` alone is not
  inductive because `raw` is one edge behind the bypass.
  `ArchStep` says of the whole array at once what the promise is after an edge; `Lockstep_proofs` uses it.
* `CoreMem_proofs` begins with the core by itself: every wire and register of `core_top` has its type, for any port values. Then:
  - `TypeCorrect`, `BusProtocol` (an unanswered request is kept on the bus);
  - `SkipCorrect`: the skip is set only with a ready in the load's first cycle, so the
    memory was just asked and the answer is there in the next cycle;
  - `LoadLockCorrect`: for any `StallValues` and `FetchReady`. Needs `Shape` (what is not valid in ID and
    EX is a NOP or bubble, so a load in EX is real) and `SkipIsAnswered` (otherwise a skipped load
    could leave the bus without any exit from `L_BUSY`);
  - `StoreLockCorrect`: for `StallValues = {FALSE}`. A store that takes the lock is in that same edge moved to
    EX/MEM or finds the bus occupied; both put a `ready` one edge away. With an external stall this is false.
  - `LoadWordCorrect` (`LockCapturesOwn`): for `StallValues = {FALSE}` and any stream; no scheduling rule is needed. The invariant `OwnerInv` follows the lock's
    load: in EX it waits for an older access whose ready has just come up (`OwnerInEx`); on the bus a ready that has
    just come up is its own, and one that was up before is not (`OwnerOnBus`); taken off the bus by the latter, its answer is there in the
    next cycle (`OwnerSkipped`). Of a lock released with its load still in EX (section 4) the theorem says nothing.
  - `ChipImplementsCore`: every run of `soc_top_bram` on any program is a run of `CoreMem`, so `ChipLocks`;
  - `DcacheLoadLock`, `DcacheStoreLock`: the locks of `soc_top_bram_dcache`. There the load in EX/MEM may leave on the answer of an older load, so
    `LoadLockOwned` does not hold; what does is that `L_BUSY` then has the cache's read or its answer to wait for. The
    invariant `DcacheInv` adds that an answer ends the cache's request, and that of two answers in a row the second is a hit
    (`AnswersEnd`): so the cache takes up the load whose stale answer is skipped (`SkipIsServed`) instead of filtering it as
    completed;
  - `ChipImplementsDcache`: the data side of that chip implements `DataCacheMem`, with EX/MEM seen through `port`: the core
    keeps the environment the cache is proved in. `fresh`, the history variable of `DataCacheMem`, is a function of each step and
    restrains none. With it `ChipCoherent`: what is proved of the cache holds on the chip whatever program it runs. Both are
    about addresses within the memory (`MemSize = WordSize`): `data_mem` ignores higher address bits and the cache does not.
* `Lockstep_proofs`: `soc_top_bram` computes what RV32I says, for every scheduled program, any registers, word size and memory:
  `PipelineComputes` (`ArchCorrect`), `MemoryFollows` (`MemoryIsArchitectural`) and `BufferHolds` (`BufferNeverOverflows`).
  None of the three is inductive. All follow from `PipelineFollows`, whose invariant `LockInv`
  says that in every cycle some state of the architecture's run is what the whole pipeline adds up to:
  - `Exec` is one instruction of the ISA as a function. `s` is the architecture's state after everything that has left ID,
    `p` the one before the instruction in EX; `Position` says which instruction the PC of each belongs to, and `InSequence` that IF/ID and ID/EX
    hold successive words of the program.
  - The back of the pipeline is in one of five phases: `Flow` (no access under way), `LoadAsked`, `LoadAnswered`, `LoadWrites`,
    and `StoreWait`. Each says where the results are that the registers and the memory do not have yet: in EX/WB, in
    the array's buffer, in MEM/WB, or on the bus. `Forwarded` adds that the chain has the newest value of what EX may read.
  - `PipeStep`: with every edge the front lets one instruction leave ID (`JumpLeaves`, `IssueLeaves`: the architecture executes it) or none
    (`NothingLeaves`), and the back goes from phase to phase (`FlowRest` to `StoreDone`). `Spacing` turns the scheduling rule into what it says of the
    instructions in EX, in ID and on the fetch port. `StoreSpaced` is needed on entering `StoreWait`, whose held EX would lose its operands; `LoadSpaced` on entering
    `LoadAsked`, so that nothing younger computes before the word is in the chain; `JalSpaced` where a jump meets a branch in EX, or its link a write-back at the write port
    (`WriterInFront` remembers the word in front of EX, the only trace of it being its write-back). Stalls change nothing in a phase, which is why no part of the invariant counts cycles.
  - `Run` is the architecture's history: it moves one instruction per cycle or has halted, the pipeline at most one, so `s` is always a state
    it has been in, and its memory is in `amems`.

  The module extends `CoreMem_proofs` for the types and `RegisterPromise_proofs` for the register file.
* `Fetch_proofs`, for any sets, ways, lines, words per line and program: on the ROM `TypeCorrect`, `LinesAreRom`,
  `LinesAreUnique`, `FetchIsRom`. The inductive invariant adds to these properties what the refill under way is: `Ahead` (the
  words collected so far are the ROM's, in order, of the line being filled) and `Absent` (that line is in no way of its set
  yet, which makes the line it finishes the only one). `Ahead` is not true behind the AXI master (`witness_line`);
  what does not depend on the memory below is proved there, too: `AxiTypeCorrect`, `AxiLinesAreUnique`, and
  `AnswersAreAsked` from an invariant that ties the state of the master to the slave's (`Together`, `PulseIsAnswer`).
  `NeverDies`: the generator of `Lfsr16` never reaches 0.
* `DataCacheMem_proofs`, for any sets, ways, words per line, number of lines and memory: `TypeCorrect`, `LinesAreUnique`, `FreshWordsAreMemory`,
  `AnswersAreOwn`. `IInv` adds `TagsInPlace` (a line lies in the set its number selects) and `Absent` (the line a read miss
  waits for is in no way). A store writes the cached word and sends the same word on, and `FreshIsMemory` says which of the
  two words counts while it is under way; that a hit, a refill and a store at another place of the same line do not meet rests on
  `FlatInjective`: two addresses of lines and words never share a word of memory.
* `DataAxi_proofs`, for any addresses and words: `TypeCorrect`, `OneAtATime`, `StoresReachMemory`, `OffersAreKept`. `IInv` adds what
  each state of the master says of the slave (`Together`), that `dmem_ready` is up only in an idle master (`PulseIsIdle`),
  and that a write in progress is the store on the port or one the core's memory already has (`WritesAreStores`), so that repeating an answered store changes nothing.

For every page size, memory size, number of outstanding transactions and set of requests:

* `BramCtrl_proofs`: `TypeCorrect`; `WakeupsKept` (the invariant says of each channel that what waits has an event
  pending or a sample to come, which every activation that leaves something behind re-establishes by sending);
  `CapacitySuffices`: every page index is below the number of pages, so their count never passes `N_1MBARRAYS`; and
  `PagesAreFlat`: `BramCtrl` implements `FlatMemory`. The mapping reads each byte through `ByteAt`, which is `Junk`
  before its page exists, so that allocating a page is a stutter; each activation is a `Perform`, an `Answer` or nothing,
  with or without the delivery of the first answer.

For every set of requests, pointers, descriptors, peer's writes and file length:

* `BramShared_proofs`: `BuffersKept`, `DescriptorsKept` and `ReadsCorrect`. `DescriptorsKept` holds whatever is imported, from an invariant of its own (`EntriesSound`). The other two hold
  until a buffer's own file is imported, and `MapsInv` says so of their invariant; after that they are false: ALLOC_BO of 1, an import of its file under 2, FREE_BO and ALLOC_BO of 1, FREE_BO of 2. The invariant `IInv` is about the three maps together: a buffer's pointer maps the file named after its base
  address (`PagesSound`), an entry's descriptor is open on its file (`FdsSound`), and an entry that FREE_BO would find under a base
  address has that buffer's pointer (`OwnSound`). The last part is what makes the release of one buffer harmless to the
  others. It is stated of records like `Freed(o)`, so that it also holds between the two halves of `createPage`.
  `ReadsCorrect` adds `BytesKept`: the byte last put at an address is in the file of the buffer found there. A write or a read
  that stays in its first byte's buffer finds no other buffer at its later bytes (`OneBuffer`, from the order of the
  search), and two addresses share a byte of a file only if they are one (`OwnIsOne`). What `createPage`
  unmaps is its own base address's pointer or an import's (`FreedPointers`), so when it maps the new buffer at that pointer,
  no other buffer is found to have stayed there (`MapBytes`).

Assumptions: the named `ASSUME`s of `RegisterFile`, `RV32`, `CoreMem`, `SocBram`, `Lockstep`, `CoreDcache`, `InstCache`, `FetchRom`, `DataCache`,
`DataCacheMem`, `DataAxi`, `AxiPayload`, `RamModel`, `BramCtrl`, `SharedModel`, `BramShared` and `LoadOwner` (constants have their types; the address range fits into the pages; `MAP_FAILED`, `NoByte` and `Waiting` are none of the values they stand beside. Nothing is assumed of the
requests of `BramShared`, of their sizes or of the files they import. TLC evaluates the assumptions in the runs).

`LockstepAssumption` is the one assumption about programs: those that break the scheduling rule go wrong as section 4 says, so no such theorem can do without a rule of this kind.

Only model-checked: liveness, since fairness and ENABLED are outside TLAPS. These are `PipelineMoves`, `LoadWritesBack`,
`DcacheMoves`, `DrainsWhenHalted`, `SteadyFetchIsServed`, `RefillEnds`, `RequestAnswered` (two modules) and `EveryRequestServed`. Every
invariant and action property that a passing run checks is also the statement of a theorem.

## 7. The plan, and what is left

Done, in this order: the core on its on-chip memory (register file, locks, pipeline, the RV32I
comparison), the proofs of its locks, then the instruction cache, the data cache (by itself and with the core) and the AXI
masters, then the controller model behind them, on either memory handler, then the proofs of the caches and masters and of the core on the
data cache, and last the proof that the scheduling rule suffices.

1. **Composition**: `soc_top.v` as a whole (the core, both masters, one memory), `soc_top_bram_icache.v` with a rule for
   the instructions at line ends, and `soc_top_bram_dcache.v` beside `ISA`, to find the scheduling rule of section 5 for a slow data
   bus.
2. **Refinement**: `DataCacheMem` and `DataAxi` as implementations of one abstract memory with
   `Request` and `Answer`, where each request takes effect once, for streams that leave a cycle between requests.
3. **Proofs**: the locks on AXI, along the lines of `DcacheInv`; `DataAxi` under the core, along the lines of
   `ChipImplementsDcache`; and, with a rule for a slow bus (item 1), `PipelineFollows` on the data cache.
4. **Byte lanes**: `data_mem.v` and the merge of `L1_Cache_DATA.v:107-163` for bytes and half-words, although
   `core_top.v:405` never asks for them.

Not planned: the ALU's own arithmetic, and the immediate formats, which are combinational
and left to the unit tests in `sim/module_testbench`.
