---------------------------- MODULE Fetch_proofs ----------------------------
(***************************************************************************)
(* The instruction cache never keeps a line twice, whatever memory answers *)
(* it; on inst_mem it answers with the program's words; and the AXI master *)
(* of soc_top answers what it asked.  For any number of sets, ways, words  *)
(* per line and lines, any program and any sequence of fetches, redirects  *)
(* and delays.  The generator that chooses the way never dies.             *)
(***************************************************************************)
EXTENDS FetchAxi, TLAPS

\* The words of the missing line received so far are the program's, and the
\* line is in no way yet: a hit cannot be filled a second time.
Ahead ==
    miss_pending =>
        \A o \in Offset : o < refill_word_idx =>
            refill_line_buf[o] = Rom[addr_reg.line][o]
Absent == miss_pending => Hits(addr_reg.line) = {}

CacheOK == TypeOK /\ UniqueLine /\ Absent

IInv == FetchTypeOK /\ CacheOK /\ LineIsRom /\ Ahead

-----------------------------------------------------------------------------
LEMMA IndexType == ASSUME NEW line \in Line PROVE index(line) \in Set
BY InstCacheAssumption DEF index, Set

LEMMA ConstantTypes ==
    /\ 0 \in Way /\ 0 \in Offset /\ LineWords - 1 \in Offset
    /\ EmptyLine \in [Offset -> Inst]
    /\ PowerUp \in Address /\ PowerUp.line \in Line
<1>1. 0 \in Way /\ 0 \in Offset /\ LineWords - 1 \in Offset
  BY InstCacheAssumption DEF Way, Offset
<1>2. EmptyLine \in [Offset -> Inst]
  BY InstCacheAssumption DEF EmptyLine
<1>3. PowerUp \in Address /\ PowerUp.line \in Line
  BY InstCacheAssumption DEF Address, Offset
<1> QED
  BY <1>1, <1>2, <1>3

\* The address inst_mem sees is one of the program's, and so is its answer.
LEMMA RomType ==
    ASSUME FetchTypeOK
    PROVE  mem_addr \in Address /\ rom_word(mem_addr) \in Inst
<1>1. addr_reg \in Address /\ refill_word_idx \in Offset
  BY DEF FetchTypeOK, TypeOK
<1>2. mem_addr \in Address
  BY <1>1 DEF mem_addr, Address
<1>3. mem_addr.line \in Line /\ mem_addr.word \in Offset
  BY <1>2 DEF Address
<1> QED
  BY <1>2, <1>3, FetchRomAssumption DEF rom_word

-----------------------------------------------------------------------------
\* After reset nothing is valid.
LEMMA InitCache ==
    ASSUME Init
    PROVE  CacheOK /\ LineIsRom
<1> USE DEF Init
<1>1. TypeOK
  <2>1. Cache_addr \in [Set -> [Way -> Tag]]
    BY ConstantTypes DEF Tag
  <2>2. Cache_inst \in [Set -> [Way -> [Offset -> Inst]]]
    BY ConstantTypes
  <2> QED
    BY <2>1, <2>2, ConstantTypes DEF TypeOK
<1>2. \A s \in Set, w \in Way : ~Cache_addr[s][w].valid
  OBVIOUS
<1>3. LineIsRom
  BY <1>2 DEF LineIsRom
<1>4. \A line \in Line : Hits(line) = {}
  BY <1>2, IndexType DEF Hits
<1> QED
  BY <1>1, <1>3, <1>4 DEF CacheOK, UniqueLine, Absent

\* A step that fills no line keeps the tags and words, and with them every hit.
LEMMA SameTags ==
    ASSUME UNCHANGED <<Cache_addr, Cache_inst>>
    PROVE  /\ LineIsRom => LineIsRom'
           /\ UniqueLine => UniqueLine'
           /\ \A line : Hits(line)' = Hits(line)
<1>1. \A line : Hits(line)' = Hits(line)
  BY DEF Hits
<1> QED
  BY <1>1 DEF LineIsRom, UniqueLine

\* Filling the line: no other way of the set holds it.
LEMMA FillUnique ==
    ASSUME CacheOK, NEW rdata \in Inst, NEW ready, FinishLine(rdata, ready)
    PROVE  UniqueLine'
<1> DEFINE L == addr_reg.line
<1>1. /\ L \in Line /\ index(L) \in Set /\ refill_way \in Way
      /\ Cache_addr \in [Set -> [Way -> Tag]]
  BY IndexType DEF CacheOK, TypeOK, Address
<1>2. Cache_addr' = [Cache_addr EXCEPT ![index(L)][refill_way] =
                            [valid |-> TRUE, line |-> L]]
  BY DEF FinishLine
<1>3. Hits(L) = {}
  BY DEF CacheOK, Absent, FinishLine
<1> HIDE DEF L
<1> SUFFICES ASSUME NEW line \in Line, NEW v \in Hits(line)', NEW w \in Hits(line)'
             PROVE  v = w
  BY DEF UniqueLine
<1>4. /\ v \in Way /\ w \in Way
      /\ Cache_addr'[index(line)][v] = [valid |-> TRUE, line |-> line]
      /\ Cache_addr'[index(line)][w] = [valid |-> TRUE, line |-> line]
  BY DEF Hits
<1>5. index(line) \in Set
  BY IndexType
<1>6. CASE line = L
  <2>1. \A u \in Way : Cache_addr[index(L)][u] # [valid |-> TRUE, line |-> L]
    BY <1>3 DEF Hits
  <2>2. \A u \in Way : u # refill_way =>
            Cache_addr'[index(L)][u] = Cache_addr[index(L)][u]
    BY <1>1, <1>2
  <2> QED
    BY <1>4, <1>6, <2>1, <2>2
<1>7. CASE line # L
  <2>1. Cache_addr'[index(L)][refill_way].line = L
    BY <1>1, <1>2
  <2>2. /\ Cache_addr[index(line)][v] = [valid |-> TRUE, line |-> line]
        /\ Cache_addr[index(line)][w] = [valid |-> TRUE, line |-> line]
    BY <1>1, <1>2, <1>4, <1>5, <1>7, <2>1
  <2> QED
    BY <1>4, <2>2 DEF CacheOK, UniqueLine, Hits
<1> QED
  BY <1>6, <1>7

\* One edge of the cache under any fetch and any answer of the memory below.
LEMMA CacheStep ==
    ASSUME CacheOK,
           NEW req \in BOOLEAN, NEW a \in Address, NEW rdata \in Inst,
           NEW ready \in BOOLEAN, NEW victim_way \in Way,
           Clock(req, a, rdata, ready, victim_way)
    PROVE  CacheOK'
<1> USE DEF CacheOK
<1>1. refill_line_next(rdata) \in [Offset -> Inst]
  BY DEF refill_line_next, TypeOK
<1>2. addr_reg.line \in Line /\ index(addr_reg.line) \in Set
  BY IndexType DEF TypeOK, Address
<1>3. CASE Rest(req) \/ Hit(req, a)
  <2>1. UNCHANGED <<Cache_addr, Cache_inst, miss_pending>> /\ ~miss_pending
    BY <1>3 DEF Rest, Hit
  <2>2. TypeOK'
    BY <1>3 DEF Rest, Hit, TypeOK
  <2> QED
    BY <2>1, <2>2, SameTags DEF Absent
<1>4. CASE Miss(req, a, victim_way)
  <2>1. UNCHANGED <<Cache_addr, Cache_inst>>
    BY <1>4 DEF Miss
  <2>2. TypeOK'
    BY <1>4, ConstantTypes DEF Miss, TypeOK
  <2>3. Absent'
    BY <1>4, <2>1, SameTags DEF Miss, Absent, hit_found
  <2> QED
    BY <2>1, <2>2, <2>3, SameTags
<1>5. CASE AwaitWord(ready) \/ TakeWord(rdata, ready)
  <2>1. UNCHANGED <<Cache_addr, Cache_inst, miss_pending, addr_reg, refill_way>>
    BY <1>5 DEF AwaitWord, TakeWord
  <2>2. refill_word_idx' \in Offset
    BY <1>5, InstCacheAssumption DEF AwaitWord, TakeWord, Offset, TypeOK
  <2>3. TypeOK'
    BY <1>1, <1>5, <2>1, <2>2 DEF AwaitWord, TakeWord, TypeOK
  <2>4. Absent'
    BY <2>1, SameTags DEF Absent
  <2> QED
    BY <2>1, <2>3, <2>4, SameTags
<1>6. CASE FinishLine(rdata, ready)
  <2>1. [valid |-> TRUE, line |-> addr_reg.line] \in Tag
    BY <1>2 DEF Tag
  <2>2. Cache_addr' \in [Set -> [Way -> Tag]]
    BY <1>2, <1>6, <2>1 DEF FinishLine, TypeOK
  <2>3. Cache_inst' \in [Set -> [Way -> [Offset -> Inst]]]
    BY <1>1, <1>2, <1>6 DEF FinishLine, TypeOK
  <2>4. TypeOK'
    BY <1>6, <2>2, <2>3, ConstantTypes DEF FinishLine, TypeOK
  <2>5. Absent'
    BY <1>6 DEF FinishLine, Absent
  <2> QED
    BY <1>6, <2>4, <2>5, FillUnique
<1> QED
  BY <1>3, <1>4, <1>5, <1>6 DEF Clock

-----------------------------------------------------------------------------
(* The cache on inst_mem.                                                   *)

LEMMA InitIInv == FetchInit => IInv
<1> SUFFICES ASSUME FetchInit PROVE IInv
  OBVIOUS
<1>1. Init /\ imem_addr \in Address /\ imem_req \in BOOLEAN
  BY DEF FetchInit
<1>2. Ahead
  BY <1>1 DEF Init, Ahead
<1> QED
  BY <1>1, <1>2, InitCache DEF IInv, FetchTypeOK, CacheOK

\* The last word arrives: the way gets the program's words.
LEMMA FillLine ==
    ASSUME IInv, FinishLine(rom_word(mem_addr), TRUE)
    PROVE  LineIsRom'
<1> DEFINE L == addr_reg.line
           rdata == rom_word(mem_addr)
<1>1. /\ L \in Line /\ index(L) \in Set
      /\ refill_way \in Way /\ refill_word_idx \in Offset
      /\ Cache_addr \in [Set -> [Way -> Tag]]
      /\ Cache_inst \in [Set -> [Way -> [Offset -> Inst]]]
      /\ refill_line_buf \in [Offset -> Inst] /\ rdata \in Inst
  BY IndexType, RomType DEF IInv, FetchTypeOK, TypeOK, Address
<1>2. refill_line_next(rdata) = Rom[L]
  <2>1. rdata = Rom[L][refill_word_idx]
    BY DEF FinishLine, rom_word, mem_addr
  <2>2. \A o \in Offset : refill_line_next(rdata)[o] = Rom[L][o]
    <3> SUFFICES ASSUME NEW o \in Offset
                 PROVE  refill_line_next(rdata)[o] = Rom[L][o]
      OBVIOUS
    <3>1. CASE o = refill_word_idx
      BY <1>1, <2>1, <3>1 DEF refill_line_next
    <3>2. CASE o # refill_word_idx
      <4>1. o < refill_word_idx
        BY <3>2, InstCacheAssumption DEF FinishLine, Offset
      <4>2. refill_line_buf[o] = Rom[L][o]
        BY <4>1 DEF IInv, Ahead, FinishLine
      <4> QED
        BY <1>1, <3>2, <4>2 DEF refill_line_next
    <3> QED
      BY <3>1, <3>2
  <2>3. refill_line_next(rdata) \in [Offset -> Inst]
    BY <1>1 DEF refill_line_next
  <2>4. Rom[L] \in [Offset -> Inst]
    BY <1>1, FetchRomAssumption
  <2> QED
    BY <2>2, <2>3, <2>4
<1> HIDE DEF L, rdata
<1>3. /\ Cache_addr' = [Cache_addr EXCEPT ![index(L)][refill_way] =
                            [valid |-> TRUE, line |-> L]]
      /\ Cache_inst' = [Cache_inst EXCEPT ![index(L)][refill_way] = Rom[L]]
  BY <1>2 DEF FinishLine, L, rdata
<1> SUFFICES ASSUME NEW s \in Set, NEW w \in Way, Cache_addr'[s][w].valid
             PROVE  LET t == Cache_addr'[s][w] IN
                    index(t.line) = s /\ Cache_inst'[s][w] = Rom[t.line]
  BY DEF LineIsRom
<1>4. CASE s = index(L) /\ w = refill_way
  BY <1>1, <1>3, <1>4
<1>5. CASE ~(s = index(L) /\ w = refill_way)
  <2>1. Cache_addr'[s][w] = Cache_addr[s][w] /\ Cache_inst'[s][w] = Cache_inst[s][w]
    BY <1>1, <1>3, <1>5
  <2> QED
    BY <2>1 DEF IInv, LineIsRom
<1> QED
  BY <1>4, <1>5

\* A word arrives before the last: the words so far are still the program's.
LEMMA NextWord ==
    ASSUME IInv, TakeWord(rom_word(mem_addr), TRUE)
    PROVE  Ahead'
<1>1. addr_reg' = addr_reg
  BY DEF TakeWord
<1>2. rom_word(mem_addr) = Rom[addr_reg.line][refill_word_idx]
  BY DEF TakeWord, rom_word, mem_addr
<1>3. refill_line_buf \in [Offset -> Inst] /\ refill_word_idx \in Offset
  BY DEF IInv, FetchTypeOK, TypeOK
<1> SUFFICES ASSUME NEW o \in Offset, o < refill_word_idx'
             PROVE  refill_line_buf'[o] = Rom[addr_reg.line][o]
  BY <1>1 DEF Ahead
<1>4. o < refill_word_idx \/ o = refill_word_idx
  BY <1>3, InstCacheAssumption DEF TakeWord, Offset
<1>5. CASE o = refill_word_idx
  BY <1>2, <1>3, <1>5 DEF TakeWord, refill_line_next
<1>6. CASE o < refill_word_idx
  <2>1. refill_line_buf[o] = Rom[addr_reg.line][o]
    BY <1>6 DEF TakeWord, IInv, Ahead
  <2>2. o # refill_word_idx
    BY <1>3, <1>6, InstCacheAssumption DEF Offset
  <2> QED
    BY <1>3, <2>1, <2>2 DEF TakeWord, refill_line_next
<1> QED
  BY <1>4, <1>5, <1>6

LEMMA NextIInv == IInv /\ [FetchNext]_fetchvars => IInv'
<1> SUFFICES ASSUME IInv, [FetchNext]_fetchvars PROVE IInv'
  OBVIOUS
<1>1. CASE UNCHANGED fetchvars
  BY <1>1, SameTags
  DEF fetchvars, icvars, IInv, CacheOK, FetchTypeOK, TypeOK, Ahead, Absent
<1>2. ASSUME NEW victim_way \in Way, FetchClock(victim_way) PROVE IInv'
  <2> DEFINE rdata == rom_word(mem_addr)
  <2>1. CacheOK' /\ FetchTypeOK'
    <3>1. PICK q \in BOOLEAN, a \in Address, r \in Inst :
              q = imem_req /\ a = imem_addr /\ r = rom_word(mem_addr)
      BY RomType DEF IInv, FetchTypeOK
    <3>2. Clock(q, a, r, TRUE, victim_way)
      BY <1>2, <3>1 DEF FetchClock, Clock, Rest, Hit, Miss, AwaitWord, TakeWord,
                        FinishLine
    <3>3. CacheOK'
      BY <3>2, CacheStep DEF IInv
    <3> QED
      BY <1>2, <3>3 DEF FetchClock, FetchTypeOK, CacheOK
  <2>2. CASE Rest(imem_req) \/ Hit(imem_req, imem_addr)
    <3>1. UNCHANGED <<Cache_addr, Cache_inst, miss_pending>> /\ ~miss_pending
      BY <2>2 DEF Rest, Hit
    <3> QED
      BY <2>1, <3>1, SameTags DEF IInv, Ahead
  <2>3. CASE Miss(imem_req, imem_addr, victim_way)
    <3>1. UNCHANGED <<Cache_addr, Cache_inst>>
      BY <2>3 DEF Miss
    <3>2. Ahead'
      BY <2>3, InstCacheAssumption DEF Miss, Ahead, Offset
    <3> QED
      BY <2>1, <3>1, <3>2, SameTags DEF IInv
  <2>4. CASE AwaitWord(TRUE)
    BY <2>4 DEF AwaitWord
  <2>5. CASE TakeWord(rdata, TRUE)
    <3>1. UNCHANGED <<Cache_addr, Cache_inst>>
      BY <2>5 DEF TakeWord
    <3> QED
      BY <2>1, <2>5, <3>1, SameTags, NextWord DEF IInv
  <2>6. CASE FinishLine(rdata, TRUE)
    <3>1. ~miss_pending'
      BY <2>6 DEF FinishLine
    <3> QED
      BY <2>1, <2>6, <3>1, FillLine DEF IInv, Ahead
  <2> QED
    BY <1>2, <2>2, <2>3, <2>4, <2>5, <2>6 DEF FetchClock, Clock
<1> QED
  BY <1>1, <1>2 DEF FetchNext

-----------------------------------------------------------------------------
\* A hit reads the word out of the one way that holds the line.
LEMMA HitIsRom == IInv => FetchCorrect
<1> SUFFICES ASSUME IInv, hit_found(imem_addr)
             PROVE  imem_rdata(imem_addr) = rom_word(imem_addr)
  BY DEF FetchCorrect
<1>1. imem_addr.line \in Line
  BY DEF IInv, FetchTypeOK, Address
<1>2. PICK w \in Hits(imem_addr.line) : TRUE
  BY DEF hit_found
<1>3. Hits(imem_addr.line) = {w}
  BY <1>1, <1>2 DEF IInv, CacheOK, UniqueLine
<1>4. /\ w \in Way
      /\ Cache_addr[index(imem_addr.line)][w] = [valid |-> TRUE, line |-> imem_addr.line]
  BY <1>2 DEF Hits
<1>5. Cache_inst[index(imem_addr.line)][w] = Rom[imem_addr.line]
  BY <1>1, <1>4, IndexType DEF IInv, LineIsRom
<1>6. (CHOOSE v \in Hits(imem_addr.line) : \A u \in Hits(imem_addr.line) : u <= v) = w
  BY <1>3, <1>4 DEF Way
<1> QED
  BY <1>5, <1>6 DEF imem_rdata, hit_data, rom_word

\* Types of the cache, for any sizes.
THEOREM TypeCorrect == FetchSpec => []FetchTypeOK
<1>1. IInv => FetchTypeOK
  BY DEF IInv
<1> QED
  BY InitIInv, NextIInv, <1>1, PTL DEF FetchSpec

\* L1_Cache_INST.v:116-138: a line that a refill made valid is the program's,
\* whatever is fetched while it is filled.
THEOREM LinesAreRom == FetchSpec => []LineIsRom
<1>1. IInv => LineIsRom
  BY DEF IInv
<1> QED
  BY InitIInv, NextIInv, <1>1, PTL DEF FetchSpec

\* L1_Cache_INST.v:44-62: no line is in two ways, so the search is unambiguous.
THEOREM LinesAreUnique == FetchSpec => []UniqueLine
<1>1. IInv => UniqueLine
  BY DEF IInv, CacheOK
<1> QED
  BY InitIInv, NextIInv, <1>1, PTL DEF FetchSpec

\* L1_Cache_INST.v:91-92: what the cache answers as ready is the word that
\* inst_mem holds at the address fetched.
THEOREM FetchIsRom == FetchSpec => []FetchCorrect
<1> QED
  BY InitIInv, NextIInv, HitIsRom, PTL DEF FetchSpec

-----------------------------------------------------------------------------
(* The cache on the AXI master.                                             *)

\* Where the slave is in each state of the master; nothing is ever written.
Together ==
    /\ state \in {"S_IDLE", "S_AR"} => rstate = "idle"
    /\ state = "S_R" => rstate \in {"busy", "valid"} /\ raddr = araddr
    /\ wstate = "idle"

\* The pulse of the answer comes in the first cycle back in S_IDLE.
PulseIsAnswer == mem_ready => state = "S_IDLE" /\ mem_rdata = cells[araddr]

AxiInv == AxiTypeOK /\ CacheOK /\ Together /\ PulseIsAnswer

LEMMA InitAxiInv == AxiInit => AxiInv
<1> SUFFICES ASSUME AxiInit PROVE AxiInv
  OBVIOUS
<1>1. FetchTypeOK /\ CacheOK
  BY InitIInv DEF AxiInit, IInv
<1>2. M!TypeOK
  BY ConstantTypes, InstCacheAssumption DEF AxiInit, M!Init, M!TypeOK
<1>3. S!TypeOK
  <2>1. \A a \in Address : rom_word(a) \in Inst
    BY FetchRomAssumption DEF rom_word, Address
  <2>2. cells \in [Address -> Inst]
    BY <2>1 DEF AxiInit, S!Init
  <2> QED
    BY <2>2, ConstantTypes DEF AxiInit, S!Init, S!TypeOK
<1>4. Together /\ PulseIsAnswer
  BY DEF AxiInit, M!Init, S!Init, Together, PulseIsAnswer
<1> QED
  BY <1>1, <1>2, <1>3, <1>4 DEF AxiInv, AxiTypeOK

\* One move of the master with the slave's: a read is taken, turned into an
\* answer, and delivered; the contents stay.
LEMMA ChannelStep ==
    ASSUME AxiInv, NEW go \in BOOLEAN, NEW victim_way \in Way,
           AxiClock(go, victim_way)
    PROVE  M!TypeOK' /\ S!TypeOK' /\ Together' /\ PulseIsAnswer'
<1> USE DEF AxiInv, AxiTypeOK
<1>1. mem_addr \in Address /\ S!rdata \in Inst
  BY RomType DEF S!rdata, S!TypeOK
<1>2. M!TypeOK'
  BY <1>1 DEF AxiClock, M!Clock, M!Idle, M!SendAddress, M!ReceiveData, M!TypeOK,
             S!rvalid
<1>3. UNCHANGED <<cells, wstate, waddr>>
  BY DEF AxiClock, S!Clock, S!Write, axi, S!wready, S!bvalid, Together
<1>4. rstate' \in {"idle", "busy", "valid"} /\ raddr' \in Address
  BY DEF AxiClock, S!Clock, S!Read, axi, M!TypeOK, S!TypeOK
<1>5. S!TypeOK'
  BY <1>3, <1>4 DEF S!TypeOK
<1>6. CASE M!Idle(mem_req, mem_addr)
  <2>1. rstate' = "idle"
    BY <1>6 DEF M!Idle, Together, AxiClock, S!Clock, S!Read, axi, S!arready,
               S!rvalid, M!arvalid
  <2> QED
    BY <1>2, <1>3, <1>5, <1>6, <2>1 DEF M!Idle, Together, PulseIsAnswer
<1>7. CASE M!SendAddress(S!arready(go))
  <2>1. IF go THEN state' = "S_R" /\ rstate' = "busy" /\ raddr' = araddr
              ELSE state' = state /\ rstate' = "idle"
    BY <1>7 DEF M!SendAddress, Together, AxiClock, S!Clock, S!Read, axi,
               S!arready, S!rvalid, M!arvalid
  <2> QED
    BY <1>2, <1>3, <1>5, <1>7, <2>1 DEF M!SendAddress, Together, PulseIsAnswer
<1>8. CASE M!ReceiveData(S!rvalid, S!rdata)
  <2>1. IF rstate = "valid"
        THEN rstate' = "idle" /\ state' = "S_IDLE" /\ mem_rdata' = cells[araddr]
        ELSE /\ rstate' \in {"busy", "valid"} /\ raddr' = raddr
             /\ state' = state /\ ~mem_ready'
    BY <1>8 DEF M!ReceiveData, Together, AxiClock, S!Clock, S!Read, axi,
               S!arready, S!rvalid, S!rdata, M!arvalid, M!rready
  <2> QED
    BY <1>2, <1>3, <1>5, <1>8, <2>1 DEF M!ReceiveData, Together, PulseIsAnswer
<1> QED
  BY <1>6, <1>7, <1>8 DEF AxiClock, M!Clock

LEMMA NextAxiInv == AxiInv /\ [AxiNext]_axivars => AxiInv'
<1> SUFFICES ASSUME AxiInv, [AxiNext]_axivars PROVE AxiInv'
  OBVIOUS
<1>1. ASSUME NEW go \in BOOLEAN, NEW victim_way \in Way, AxiClock(go, victim_way)
      PROVE  AxiInv'
  <2>1. PICK q \in BOOLEAN, a \in Address, r \in Inst, ready \in BOOLEAN :
            q = imem_req /\ a = imem_addr /\ r = mem_rdata /\ ready = mem_ready
    BY DEF AxiInv, AxiTypeOK, FetchTypeOK, M!TypeOK
  <2>2. Clock(q, a, r, ready, victim_way)
    BY <1>1, <2>1 DEF AxiClock, Clock, Rest, Hit, Miss, AwaitWord, TakeWord,
                      FinishLine
  <2>3. CacheOK'
    BY <2>2, CacheStep DEF AxiInv
  <2>4. FetchTypeOK'
    BY <1>1, <2>3 DEF AxiClock, FetchTypeOK, CacheOK
  <2> QED
    BY <1>1, <2>3, <2>4, ChannelStep DEF AxiInv, AxiTypeOK
<1>2. CASE UNCHANGED axivars
  <2> USE <1>2 DEF axivars, fetchvars, icvars, M!mastervars, S!slavevars
  <2>1. CacheOK'
    BY SameTags DEF AxiInv, CacheOK, TypeOK, Absent
  <2> QED
    BY <2>1 DEF AxiInv, AxiTypeOK, FetchTypeOK, TypeOK, M!TypeOK, S!TypeOK,
                Together, PulseIsAnswer
<1> QED
  BY <1>1, <1>2 DEF AxiNext

\* Types of the cache, the master and the slave.
THEOREM AxiTypeCorrect == AxiSpec => []AxiTypeOK
<1>1. AxiInv => AxiTypeOK
  BY DEF AxiInv
<1> QED
  BY InitAxiInv, NextAxiInv, <1>1, PTL DEF AxiSpec

\* axi_if_imem_master.v:3-6: the answer is the word at the address last sent,
\* whatever the delays, and no read is left in the slave behind it.
THEOREM AnswersAreAsked == AxiSpec => []AnswerIsAsked
<1>1. AxiInv => AnswerIsAsked
  BY DEF AxiInv, Together, PulseIsAnswer, AnswerIsAsked
<1> QED
  BY InitAxiInv, NextAxiInv, <1>1, PTL DEF AxiSpec

\* Behind the master, too, no line is in two ways.
THEOREM AxiLinesAreUnique == AxiSpec => []UniqueLine
<1>1. AxiInv => UniqueLine
  BY DEF AxiInv, CacheOK
<1> QED
  BY InitAxiInv, NextAxiInv, <1>1, PTL DEF AxiSpec

-----------------------------------------------------------------------------
(* The shift register that chooses the way to replace.                      *)

VARIABLE lfsr

G == INSTANCE Lfsr16

\* The shift register never dies, from its feedback polynomial alone.
Alive == G!TypeOK /\ G!NeverZero

LEMMA SeedAlive == G!Init => Alive
<1> SUFFICES ASSUME G!Init PROVE Alive
    OBVIOUS
<1>1. lfsr = [i \in G!Bit |-> i \in {15, 13, 11, 10, 7, 6, 5, 0}]
    BY DEF G!Init, G!Seed
<1>2. G!TypeOK
    BY <1>1 DEF G!TypeOK
<1>3. 0 \in G!Bit
    BY DEF G!Bit
<1>4. lfsr[0] = (0 \in {15, 13, 11, 10, 7, 6, 5, 0})
    BY <1>1, <1>3
<1>5. lfsr[0]
    BY <1>4, Zenon
<1> QED
    BY <1>2, <1>3, <1>5 DEF Alive, G!NeverZero

\* If only bit 0 was set it feeds back into bit 15; any other bit moves down.
LEMMA StaysAlive == Alive /\ [G!Next]_lfsr => Alive'
<1> SUFFICES ASSUME G!TypeOK, G!NeverZero, [G!Next]_lfsr PROVE G!TypeOK' /\ G!NeverZero'
  BY DEF Alive
<1>1. CASE UNCHANGED lfsr
  BY <1>1 DEF G!TypeOK, G!NeverZero
<1>2. CASE G!Advance
  <2>1. lfsr' = [i \in G!Bit |-> IF i = 15 THEN G!fb ELSE lfsr[i + 1]]
    BY <1>2 DEF G!Advance
  <2>2. G!fb \in BOOLEAN
    BY DEF G!fb, G!xor
  <2>3. \A i \in G!Bit : i # 15 => i + 1 \in G!Bit
    BY DEF G!Bit
  <2>4. \A i \in G!Bit : lfsr[i] \in BOOLEAN
    BY DEF G!TypeOK
  <2>5. G!TypeOK'
    BY <2>1, <2>2, <2>3, <2>4 DEF G!TypeOK
  <2>6. PICK k \in G!Bit : lfsr[k]
    BY DEF G!NeverZero
  <2>7. CASE \A i \in G!Bit : i # 0 => ~lfsr[i]
    <3>1. k = 0
      BY <2>6, <2>7
    <3>2. 2 \in G!Bit /\ 3 \in G!Bit /\ 5 \in G!Bit /\ 15 \in G!Bit
      BY DEF G!Bit
    <3>3. lfsr[0] /\ ~lfsr[2] /\ ~lfsr[3] /\ ~lfsr[5]
      BY <2>6, <2>7, <3>1, <3>2
    <3>4. G!fb
      BY <3>3, <2>4, <3>2 DEF G!fb, G!xor
    <3>5. lfsr'[15]
      BY <2>1, <3>2, <3>4
    <3> QED
      BY <2>5, <3>2, <3>5 DEF G!NeverZero
  <2>8. CASE \E i \in G!Bit : i # 0 /\ lfsr[i]
    <3>1. PICK j \in G!Bit : j # 0 /\ lfsr[j]
      BY <2>8
    <3>2. j - 1 \in G!Bit /\ j - 1 # 15 /\ (j - 1) + 1 = j
      BY <3>1 DEF G!Bit
    <3>3. lfsr'[j - 1] = lfsr[j]
      BY <2>1, <3>2
    <3>4. lfsr'[j - 1]
      BY <3>1, <3>3
    <3> QED
      BY <2>5, <3>2, <3>4 DEF G!NeverZero
  <2> QED
    BY <2>5, <2>7, <2>8
<1> QED
  BY <1>1, <1>2 DEF G!Next

\* The generator of the replacement way never reaches the all-zero state.
THEOREM NeverDies == G!Spec => []G!NeverZero
<1>1. Alive => G!NeverZero
  BY DEF Alive
<1> QED
  BY SeedAlive, StaysAlive, <1>1, PTL DEF G!Spec
=============================================================================
