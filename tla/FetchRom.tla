------------------------------ MODULE FetchRom ------------------------------
(***************************************************************************)
(* The instruction cache on inst_mem, as in soc_top_bram_icache.v, under   *)
(* any fetch side: in each cycle any address is fetched, or none, so the   *)
(* PC may be redirected at any moment of a refill.  inst_mem answers       *)
(* combinationally and is always ready.                                    *)
(***************************************************************************)
EXTENDS InstCache

CONSTANT Rom   \* the program: a function from lines to their words

ASSUME FetchRomAssumption == Rom \in [Line -> [Offset -> Inst]]

VARIABLES imem_addr, imem_req   \* the fetch port, driven by the PC

fetchvars == <<icvars, imem_addr, imem_req>>

\* inst_mem: combinational read.
rom_word(a) == Rom[a.line][a.word]

FetchTypeOK == TypeOK /\ imem_addr \in Address /\ imem_req \in BOOLEAN

FetchInit == Init /\ imem_addr \in Address /\ imem_req = TRUE

FetchClock(victim_way) ==
    /\ Clock(imem_req, imem_addr, rom_word(mem_addr), TRUE, victim_way)
    /\ imem_addr' \in Address
    /\ imem_req' \in BOOLEAN

FetchNext == \E victim_way \in Way : FetchClock(victim_way)

FetchSpec == FetchInit /\ [][FetchNext]_fetchvars
FairFetchSpec == FetchSpec /\ WF_fetchvars(FetchNext)

-----------------------------------------------------------------------------
\* A valid line holds the program's words of that line, all of them and in
\* order, whatever was fetched or redirected while it was filled.
LineIsRom ==
    \A s \in Set, w \in Way :
        LET t == Cache_addr[s][w] IN
        t.valid => index(t.line) = s /\ Cache_inst[s][w] = Rom[t.line]

\* A line is never in two ways, so a hit is unambiguous: the refill that a
\* redirect interrupts is not repeated for the same line.
UniqueLine == \A line \in Line : \A v, w \in Hits(line) : v = w

\* What the fetch port promises: a ready answer is the program's word.
FetchCorrect ==
    hit_found(imem_addr) => imem_rdata(imem_addr) = rom_word(imem_addr)

\* An address that is fetched steadily is answered for good, even when an
\* earlier miss still has to evict its line.
SteadyFetchIsServed ==
    \A a \in Address :
        <>[](imem_req /\ imem_addr = a) => <>[]hit_found(a)
=============================================================================
