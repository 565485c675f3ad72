------------------------- MODULE DataCacheMem_proofs ------------------------
(***************************************************************************)
(* The data cache on data_mem, for any sets, ways, words per line, lines,  *)
(* contents and any sequence of loads and stores: a line is cached once,   *)
(* what was fetched or written agrees with the memory, and the ready that  *)
(* ends a request belongs to it.                                           *)
(***************************************************************************)
EXTENDS DataCacheMem, FiniteSetTheorems, TLAPS

MemTypeOK ==
    /\ TypeOK /\ D!TypeOK
    /\ exmem \in Access
    /\ fresh \subseteq Set \X Way \X Offset

\* A line lies in the set its number selects.
TagsInPlace ==
    \A s \in Set, w \in Way :
        Cache_addr[s][w].valid => index(Cache_addr[s][w].line) = s

\* The line being fetched is in no way yet, so the refill adds no second one.
Absent == pending = "read" => Hits(req_addr_reg.line) = {}

IInv ==
    /\ MemTypeOK /\ TagsInPlace /\ Absent
    /\ UniqueLine /\ AnswerIsOwn /\ FreshIsMemory

-----------------------------------------------------------------------------
LEMMA IndexType == ASSUME NEW line \in Line PROVE index(line) \in Set
BY DataCacheAssumption DEF index, Set

LEMMA ConstantTypes ==
    /\ 0 \in Way /\ 0 \in Offset
    /\ Origin \in Address /\ NoAccess \in Access
    /\ NotCompleted \in [valid : BOOLEAN, addr : Address]
<1>1. 0 \in Way /\ 0 \in Offset
  BY DataCacheAssumption DEF Way, Offset
<1>2. Origin \in Address
  BY <1>1, DataCacheAssumption DEF Origin, Address
<1> QED
  BY <1>1, <1>2 DEF NotCompleted, Access

LEMMA AccessType ==
    ASSUME NEW r \in Access
    PROVE  r.addr \in Address /\ r.wdata \in Word
<1> USE ConstantTypes, DataCacheAssumption DEF NoAccess
<1>1. CASE r = NoAccess
  BY <1>1
<1>2. CASE \E a \in Address : r = Load(a)
  BY <1>2 DEF Load
<1>3. CASE \E a \in Address, d \in Word : r = Store(a, d)
  BY <1>3 DEF Store
<1> QED
  BY <1>1, <1>2, <1>3 DEF Access

-----------------------------------------------------------------------------
(* The words of the lines follow one another in data_mem without overlap.   *)

LEMMA LinesApart ==
    ASSUME NEW l \in Nat, NEW m \in Nat, NEW k \in Nat, l < m
    PROVE  l * k + k <= m * k
<1>1. PICK d \in Nat : m = l + 1 + d
  <2>1. m - l - 1 \in Nat
    OBVIOUS
  <2> QED
    BY <2>1
<1>2. PICK e \in Nat : e = d * k
  OBVIOUS
<1>3. m * k = l * k + k + d * k
  BY <1>1
<1> QED
  BY <1>2, <1>3

LEMMA SmallRemainder ==
    ASSUME NEW n \in Nat \ {0}, NEW i \in 0 .. n - 1
    PROVE  i % n = i
OBVIOUS

LEMMA AddressParts ==
    ASSUME NEW a \in Address
    PROVE  /\ a.line \in Line /\ a.line \in Nat
           /\ a.word \in Offset /\ a.word \in Nat /\ a.word < LineWords
<1>1. a.line \in Line /\ a.word \in Offset
  BY DEF Address
<1>2. a.line \in Nat
  BY <1>1, DataCacheAssumption
<1>3. LineWords \in Nat
  BY DataCacheAssumption
<1>4. a.word \in Nat /\ a.word < LineWords
  BY <1>1, <1>3 DEF Offset
<1> QED
  BY <1>1, <1>2, <1>4

LEMMA FlatInRange ==
    ASSUME NEW a \in Address
    PROVE  flat(a) \in D!MemAddr /\ D!word_addr(flat(a)) = flat(a)
<1>1. PICK n \in Nat : n = Cardinality(Line)
  BY FS_CardinalityType, DataCacheMemAssumption
<1>2. /\ a.line \in Nat /\ a.line < n
      /\ a.word \in Nat /\ a.word < LineWords /\ LineWords \in Nat
  BY <1>1, DataCacheMemAssumption, DataCacheAssumption DEF Address, Offset
<1>3. a.line * LineWords + LineWords <= n * LineWords
  BY <1>1, <1>2, LinesApart
<1>4. PICK p \in Nat : p = a.line * LineWords
  BY <1>2
<1>5. PICK q \in Nat : q = n * LineWords
  BY <1>1, <1>2
<1>6. p + a.word \in 0 .. q - 1 /\ q \in Nat \ {0}
  BY <1>2, <1>3, <1>4, <1>5
<1>7. (p + a.word) % q = p + a.word
  BY <1>6, SmallRemainder
<1>8. flat(a) = p + a.word
  BY <1>4 DEF flat
<1>9. D!MemAddr = 0 .. q - 1 /\ D!word_addr(flat(a)) = flat(a) % q
  BY <1>1, <1>5, Zenon DEF D!MemAddr, D!word_addr
<1> QED
  BY <1>6, <1>7, <1>8, <1>9

LEMMA FlatInjective ==
    ASSUME NEW a \in Address, NEW b \in Address, flat(a) = flat(b)
    PROVE  a = b
<1>1. /\ a.line \in Nat /\ b.line \in Nat /\ LineWords \in Nat
      /\ a.word \in Nat /\ a.word < LineWords
      /\ b.word \in Nat /\ b.word < LineWords
  BY AddressParts, DataCacheAssumption
<1>2. PICK p \in Nat : p = a.line * LineWords
  BY <1>1
<1>3. PICK q \in Nat : q = b.line * LineWords
  BY <1>1
<1>4. p + a.word = q + b.word
  BY <1>2, <1>3 DEF flat
<1>5. ~(a.line < b.line)
  <2>1. a.line < b.line => p + LineWords <= q
    BY <1>1, <1>2, <1>3, LinesApart
  <2> QED
    BY <1>1, <1>4, <2>1
<1>6. ~(b.line < a.line)
  <2>1. b.line < a.line => q + LineWords <= p
    BY <1>1, <1>2, <1>3, LinesApart
  <2> QED
    BY <1>1, <1>4, <2>1
<1>7. a.line = b.line
  BY <1>1, <1>5, <1>6
<1>8. a.word = b.word
  <2>1. p = q
    BY <1>2, <1>3, <1>7, Zenon
  <2> QED
    BY <1>1, <1>4, <2>1
<1> QED
  BY <1>7, <1>8 DEF Address

-----------------------------------------------------------------------------
\* One clock edge of data_mem under the cache's request.
LEMMA MemStep ==
    ASSUME MemTypeOK, D!Clock(dc_mem)
    PROVE  /\ D!ready' = (pending # "none")
           /\ pending = "read" => D!data_out' = mem[flat(req_addr_reg)]
           /\ mem' = IF pending = "write"
                     THEN [mem EXCEPT ![flat(req_addr_reg)] = req_wdata_reg]
                     ELSE mem
<1>1. D!word_addr(flat(req_addr_reg)) = flat(req_addr_reg)
  BY FlatInRange DEF MemTypeOK, TypeOK
<1>2. /\ dc_mem.valid = (pending # "none") /\ dc_mem.ren = (pending = "read")
      /\ dc_mem.wen = (pending = "write") /\ dc_mem.addr = flat(req_addr_reg)
      /\ dc_mem.wdata = req_wdata_reg
  BY DEF dc_mem, mem_request
<1> QED
  BY <1>1, <1>2 DEF D!Clock, D!ready, D!data_out

LEMMA InitIInv == MemInit => IInv
<1> SUFFICES ASSUME MemInit PROVE IInv
  OBVIOUS
<1> USE DEF MemInit, Init
<1>1. TypeOK
  <2>1. Cache_addr \in [Set -> [Way -> Tag]]
    BY DataCacheAssumption DEF Tag
  <2>2. Cache_data \in [Set -> [Way -> [Offset -> Word]]]
    BY DataCacheAssumption
  <2> QED
    BY <2>1, <2>2, ConstantTypes, DataCacheAssumption DEF TypeOK
<1>2. D!TypeOK
  BY DataCacheMemAssumption DEF D!Init, D!TypeOK
<1>3. MemTypeOK
  BY <1>1, <1>2, ConstantTypes DEF MemTypeOK
<1>4. \A s \in Set, w \in Way : ~Cache_addr[s][w].valid
  OBVIOUS
<1>5. \A line \in Line : Hits(line) = {}
  BY <1>4, IndexType DEF Hits
<1> QED
  BY <1>3, <1>4, <1>5
  DEF IInv, TagsInPlace, Absent, UniqueLine, AnswerIsOwn, FreshIsMemory

-----------------------------------------------------------------------------
\* What a request hits is the only way that holds its line.
LEMMA HitWay ==
    ASSUME UniqueLine, NEW a \in Address, hit_found(a)
    PROVE  /\ hit_way(a) \in Way /\ Hits(a.line) = {hit_way(a)}
           /\ Cache_addr[index(a.line)][hit_way(a)] = [valid |-> TRUE, line |-> a.line]
<1>1. PICK w \in Hits(a.line) : TRUE
  BY DEF hit_found
<1>2. Hits(a.line) = {w}
  BY <1>1, AddressParts DEF UniqueLine
<1>3. w \in Way /\ w <= w
  BY <1>1 DEF Hits, Way
<1>4. hit_way(a) = w
  BY <1>2, <1>3 DEF hit_way
<1> QED
  BY <1>1, <1>2, <1>3, <1>4 DEF Hits

\* The request that the cache sees, and the places it selects.
LEMMA RequestTypes ==
    ASSUME MemTypeOK, UniqueLine
    PROVE  /\ exmem.addr \in Address /\ exmem.wdata \in Word
           /\ index(exmem.addr.line) \in Set /\ exmem.addr.word \in Offset
           /\ index(req_addr_reg.line) \in Set /\ req_addr_reg.word \in Offset
           /\ req_addr_reg \in Address /\ req_addr_reg.line \in Line
           /\ hit_found(exmem.addr) =>
                hit_way(exmem.addr) \in Way /\ hit_word(exmem.addr) \in Word
<1>1. exmem.addr \in Address /\ exmem.wdata \in Word /\ req_addr_reg \in Address
  BY AccessType DEF MemTypeOK, TypeOK
<1>2. /\ index(exmem.addr.line) \in Set /\ exmem.addr.word \in Offset
      /\ index(req_addr_reg.line) \in Set /\ req_addr_reg.word \in Offset
      /\ req_addr_reg.line \in Line
  BY <1>1, AddressParts, IndexType
<1>3. ASSUME hit_found(exmem.addr)
      PROVE  hit_way(exmem.addr) \in Way /\ hit_word(exmem.addr) \in Word
  <2>1. hit_way(exmem.addr) \in Way
    BY <1>1, <1>3, HitWay
  <2> QED
    BY <1>2, <2>1 DEF hit_word, MemTypeOK, TypeOK
<1> QED
  BY <1>1, <1>2, <1>3

LEMMA CacheTypeStep ==
    ASSUME MemTypeOK, UniqueLine, NEW victim_way \in Way, MemClock(victim_way)
    PROVE  TypeOK'
<1> USE DEF TypeOK
<1>1. TypeOK /\ D!data_out \in Word
  BY DEF MemTypeOK, D!TypeOK, D!data_out
<1>2. CASE Await(D!ready)
  BY <1>1, <1>2, ConstantTypes DEF Await
<1>3. CASE FinishRead(D!data_out, D!ready)
  <2>1. [valid |-> TRUE, line |-> req_addr_reg.line] \in Tag
    BY RequestTypes DEF Tag
  <2>2. Cache_addr' \in [Set -> [Way -> Tag]]
    BY <1>1, <1>3, <2>1, RequestTypes DEF FinishRead
  <2>3. Cache_data' \in [Set -> [Way -> [Offset -> Word]]]
    BY <1>1, <1>3, RequestTypes DEF FinishRead
  <2> QED
    BY <1>1, <1>3, <2>2, <2>3, RequestTypes DEF FinishRead
<1>4. CASE FinishWrite(D!ready)
  BY <1>1, <1>4, RequestTypes DEF FinishWrite
<1>5. CASE Ignore(exmem)
  BY <1>1, <1>5, ConstantTypes DEF Ignore
<1>6. CASE ReadHit(exmem)
  BY <1>1, <1>6, RequestTypes, ConstantTypes DEF ReadHit
<1>7. CASE ReadMiss(exmem, victim_way)
  BY <1>1, <1>7, RequestTypes, ConstantTypes, DataCacheAssumption DEF ReadMiss
<1>8. CASE StartWrite(exmem)
  <2>1. Cache_data' \in [Set -> [Way -> [Offset -> Word]]]
    BY <1>1, <1>8, RequestTypes DEF StartWrite
  <2> QED
    BY <1>1, <1>8, <2>1, RequestTypes, ConstantTypes DEF StartWrite
<1> QED
  BY <1>2, <1>3, <1>4, <1>5, <1>6, <1>7, <1>8 DEF MemClock, Clock

LEMMA TypeStep ==
    ASSUME MemTypeOK, UniqueLine, NEW victim_way \in Way, MemClock(victim_way)
    PROVE  MemTypeOK'
<1>1. TypeOK'
  BY CacheTypeStep
<1>2. D!TypeOK'
  <2>1. D!ready' \in BOOLEAN
    BY MemStep DEF MemClock
  <2>2. flat(req_addr_reg) \in D!MemAddr
    BY RequestTypes, FlatInRange
  <2>3. mem' \in [D!MemAddr -> Word]
    BY <2>2, MemStep DEF MemClock, MemTypeOK, D!TypeOK, TypeOK
  <2>4. mem_data' \in Word
    <3>1. D!word_addr(dc_mem.addr) \in D!MemAddr
      BY RequestTypes, FlatInRange DEF dc_mem, mem_request
    <3> QED
      BY <3>1 DEF MemClock, D!Clock, MemTypeOK, D!TypeOK
  <2> QED
    BY <2>1, <2>3, <2>4 DEF D!TypeOK, D!ready
<1>3. exmem' \in Access
  BY DEF MemClock, Present, MemTypeOK
<1>4. fresh' \subseteq Set \X Way \X Offset
  <2>1. place(req_addr_reg, refill_way) \in Set \X Way \X Offset
    BY RequestTypes DEF place, MemTypeOK, TypeOK
  <2>2. hit_found(exmem.addr) =>
          place(exmem.addr, hit_way(exmem.addr)) \in Set \X Way \X Offset
    BY RequestTypes DEF place
  <2> QED
    BY <2>1, <2>2 DEF MemClock, Refresh, MemTypeOK
<1> QED
  BY <1>1, <1>2, <1>3, <1>4 DEF MemTypeOK

-----------------------------------------------------------------------------
\* Only a refill changes the tags.
LEMMA SameTags ==
    ASSUME Cache_addr' = Cache_addr
    PROVE  /\ \A line : Hits(line)' = Hits(line)
           /\ TagsInPlace => TagsInPlace'
           /\ UniqueLine => UniqueLine'
<1>1. \A line : Hits(line)' = Hits(line)
  BY DEF Hits
<1> QED
  BY <1>1 DEF TagsInPlace, UniqueLine

LEMMA TagStep ==
    ASSUME IInv, NEW victim_way \in Way, MemClock(victim_way)
    PROVE  TagsInPlace' /\ UniqueLine' /\ Absent'
<1> DEFINE L == req_addr_reg.line
<1>1. CASE ~FinishRead(D!data_out, D!ready)
  <2>1. Cache_addr' = Cache_addr
    BY <1>1 DEF MemClock, Clock, Await, FinishWrite, Ignore, ReadHit, ReadMiss,
                StartWrite
  <2>2. Absent'
    <3>1. CASE ReadMiss(exmem, victim_way)
      BY <2>1, <3>1, SameTags DEF ReadMiss, Absent, hit_found
    <3>2. CASE ~ReadMiss(exmem, victim_way)
      <4>1. pending' = "read" => pending = "read" /\ req_addr_reg' = req_addr_reg
        BY <1>1, <3>2 DEF MemClock, Clock, Await, FinishWrite, Ignore, ReadHit,
                          StartWrite
      <4> QED
        BY <2>1, <4>1, SameTags DEF IInv, Absent
    <3> QED
      BY <3>1, <3>2
  <2> QED
    BY <2>1, <2>2, SameTags DEF IInv
<1>2. CASE FinishRead(D!data_out, D!ready)
  <2>1. /\ L \in Line /\ index(L) \in Set /\ refill_way \in Way
        /\ Cache_addr \in [Set -> [Way -> Tag]]
    BY RequestTypes DEF IInv, MemTypeOK, TypeOK
  <2>2. Cache_addr' = [Cache_addr EXCEPT ![index(L)][refill_way] =
                          [valid |-> TRUE, line |-> L]]
    BY <1>2 DEF FinishRead
  <2>3. Hits(L) = {}
    BY <1>2 DEF FinishRead, IInv, Absent
  <2> HIDE DEF L
  <2>4. TagsInPlace'
    <3> SUFFICES ASSUME NEW s \in Set, NEW w \in Way, Cache_addr'[s][w].valid
                 PROVE  index(Cache_addr'[s][w].line) = s
      BY DEF TagsInPlace
    <3>1. CASE s = index(L) /\ w = refill_way
      BY <2>1, <2>2, <3>1
    <3>2. CASE ~(s = index(L) /\ w = refill_way)
      <4>1. Cache_addr'[s][w] = Cache_addr[s][w]
        BY <2>1, <2>2, <3>2
      <4> QED
        BY <4>1 DEF IInv, TagsInPlace
    <3> QED
      BY <3>1, <3>2
  <2>5. ASSUME NEW line \in Line, NEW v \in Hits(line)', NEW w \in Hits(line)'
        PROVE  v = w
    <3>1. /\ v \in Way /\ w \in Way
          /\ Cache_addr'[index(line)][v] = [valid |-> TRUE, line |-> line]
          /\ Cache_addr'[index(line)][w] = [valid |-> TRUE, line |-> line]
      BY <2>5 DEF Hits
    <3>2. index(line) \in Set
      BY IndexType
    <3>3. CASE line = L
      <4>1. \A u \in Way : Cache_addr[index(L)][u] # [valid |-> TRUE, line |-> L]
        BY <2>3 DEF Hits
      <4>2. \A u \in Way : u # refill_way =>
                Cache_addr'[index(L)][u] = Cache_addr[index(L)][u]
        BY <2>1, <2>2
      <4> QED
        BY <3>1, <3>3, <4>1, <4>2
    <3>4. CASE line # L
      <4>1. Cache_addr'[index(L)][refill_way].line = L
        BY <2>1, <2>2
      <4>2. /\ Cache_addr[index(line)][v] = [valid |-> TRUE, line |-> line]
            /\ Cache_addr[index(line)][w] = [valid |-> TRUE, line |-> line]
        BY <2>1, <2>2, <3>1, <3>2, <3>4, <4>1
      <4> QED
        BY <3>1, <4>2 DEF IInv, UniqueLine, Hits
    <3> QED
      BY <3>3, <3>4
  <2>6. Absent'
    BY <1>2 DEF FinishRead, Absent
  <2> QED
    BY <2>4, <2>5, <2>6 DEF UniqueLine
<1> QED
  BY <1>1, <1>2

-----------------------------------------------------------------------------
\* A request starts when data_mem's ready is down, so the ready that ends it
\* comes after an edge with the request on the bus.
LEMMA AnswerStep ==
    ASSUME IInv, NEW victim_way \in Way, MemClock(victim_way)
    PROVE  AnswerIsOwn'
<1> SUFFICES ASSUME pending' # "none", D!ready'
             PROVE  mem'[flat(req_addr_reg')] =
                        IF pending' = "read" THEN D!data_out' ELSE req_wdata_reg'
  BY DEF AnswerIsOwn, flat
<1>1. MemTypeOK /\ D!Clock(dc_mem)
  BY DEF IInv, MemClock
<1>2. pending # "none"
  BY <1>1, MemStep
<1>3. /\ pending' = pending
      /\ req_addr_reg' = req_addr_reg /\ req_wdata_reg' = req_wdata_reg
  BY <1>2 DEF MemClock, Clock, Await, FinishRead, FinishWrite, Ignore, ReadHit,
              ReadMiss, StartWrite
<1>4. flat(req_addr_reg) \in D!MemAddr /\ mem \in [D!MemAddr -> Word]
  BY <1>1, FlatInRange DEF MemTypeOK, TypeOK, D!TypeOK
<1>5. CASE pending = "read"
  BY <1>1, <1>3, <1>5, MemStep
<1>6. CASE pending = "write"
  BY <1>1, <1>3, <1>4, <1>6, MemStep
<1> QED
  BY <1>1, <1>2, <1>5, <1>6 DEF MemTypeOK, TypeOK

-----------------------------------------------------------------------------
\* The address whose word lies at a place of a valid line.
at(s, way, o) == [line |-> Cache_addr[s][way].line, word |-> o]

\* The two forms of a fresh word: while a store is under way, and otherwise.
LEMMA FreshWords ==
    ASSUME IInv, NEW s \in Set, NEW way \in Way, NEW o \in Offset,
           <<s, way, o>> \in fresh
    PROVE  /\ Cache_addr[s][way].valid
           /\ at(s, way, o) \in Address
           /\ index(at(s, way, o).line) = s
           /\ way \in Hits(at(s, way, o).line)
           /\ Cache_data[s][way][o] =
                IF pending = "write" /\ req_addr_reg = at(s, way, o)
                THEN req_wdata_reg ELSE mem[flat(at(s, way, o))]
<1>1. /\ Cache_addr[s][way].valid
      /\ Cache_data[s][way][o] =
            IF pending = "write" /\ req_addr_reg = at(s, way, o)
            THEN req_wdata_reg ELSE mem[flat(at(s, way, o))]
  BY DEF IInv, FreshIsMemory, at
<1>2. Cache_addr[s][way] \in Tag
  BY DEF IInv, MemTypeOK, TypeOK
<1>3. at(s, way, o) \in Address
  BY <1>2 DEF at, Tag, Address
<1>4. index(at(s, way, o).line) = s
  BY <1>1 DEF IInv, TagsInPlace, at
<1>5. way \in Hits(at(s, way, o).line)
  BY <1>1, <1>2, <1>4 DEF Hits, at, Tag
<1> QED
  BY <1>1, <1>3, <1>4, <1>5

\* A cycle of a store on its way to data_mem writes its word there.
LEMMA StoreCycle ==
    ASSUME IInv, NEW victim_way \in Way, MemClock(victim_way),
           pending = "write"
    PROVE  FreshIsMemory'
<1>1. UNCHANGED <<Cache_addr, Cache_data, fresh, req_addr_reg, req_wdata_reg>>
  BY DEF MemClock, Clock, Await, FinishRead, FinishWrite, Ignore, ReadHit,
         ReadMiss, StartWrite, Refresh
<1>2. mem' = [mem EXCEPT ![flat(req_addr_reg)] = req_wdata_reg]
  BY MemStep DEF IInv, MemClock
<1>3. req_addr_reg \in Address /\ flat(req_addr_reg) \in D!MemAddr
      /\ mem \in [D!MemAddr -> Word]
  BY FlatInRange DEF IInv, MemTypeOK, TypeOK, D!TypeOK
<1> SUFFICES ASSUME NEW s \in Set, NEW way \in Way, NEW o \in Offset,
                    <<s, way, o>> \in fresh
             PROVE  Cache_data[s][way][o] = mem'[flat(at(s, way, o))]
  <2>1. mem'[flat(req_addr_reg)] = req_wdata_reg
    BY <1>2, <1>3
  <2>2. \A f \in fresh : \E s \in Set, way \in Way, o \in Offset : f = <<s, way, o>>
    BY DEF IInv, MemTypeOK
  <2> SUFFICES ASSUME NEW s \in Set, NEW way \in Way, NEW o \in Offset,
                      <<s, way, o>> \in fresh
               PROVE  /\ Cache_addr[s][way].valid
                      /\ Cache_data[s][way][o] =
                            IF pending' = "write" /\ req_addr_reg = at(s, way, o)
                            THEN req_wdata_reg ELSE mem'[flat(at(s, way, o))]
    BY <1>1, <2>2 DEF FreshIsMemory, at, flat
  <2> QED
    BY <2>1, FreshWords
<1> DEFINE a == at(s, way, o)
<1>4. a \in Address /\ flat(a) \in D!MemAddr
  BY FreshWords, FlatInRange
<1>5. CASE a = req_addr_reg
  BY <1>2, <1>3, <1>5, FreshWords
<1>6. CASE a # req_addr_reg
  <2>1. flat(a) # flat(req_addr_reg)
    BY <1>3, <1>4, <1>6, FlatInjective
  <2> QED
    BY <1>2, <1>3, <1>4, <1>6, <2>1, FreshWords
<1> QED
  BY <1>5, <1>6

\* The word that a miss fetched is the memory's, and the refill forgets what
\* was fresh in its way.
LEMMA FetchCycle ==
    ASSUME IInv, NEW victim_way \in Way, MemClock(victim_way),
           FinishRead(D!data_out, D!ready)
    PROVE  FreshIsMemory'
<1> DEFINE i == index(req_addr_reg.line)
           q == req_addr_reg.word
<1>1. /\ Cache_addr' = [Cache_addr EXCEPT ![i][refill_way] =
                            [valid |-> TRUE, line |-> req_addr_reg.line]]
      /\ Cache_data' = [Cache_data EXCEPT ![i][refill_way][q] = D!data_out]
      /\ pending = "read" /\ pending' = "none" /\ D!ready
  BY DEF FinishRead
<1>2. mem' = mem
  BY <1>1, MemStep DEF IInv, MemClock
<1>3. D!data_out = mem[flat(req_addr_reg)]
  BY <1>1 DEF IInv, AnswerIsOwn
<1>4. /\ i \in Set /\ q \in Offset /\ refill_way \in Way
      /\ req_addr_reg \in Address
      /\ Cache_addr \in [Set -> [Way -> Tag]]
      /\ Cache_data \in [Set -> [Way -> [Offset -> Word]]]
  BY RequestTypes DEF IInv, MemTypeOK, TypeOK
<1>5. fresh' = {f \in fresh : <<f[1], f[2]>> # <<i, refill_way>>}
                   \cup {<<i, refill_way, q>>}
  BY <1>1 DEF MemClock, Refresh, place
<1>6. \A f \in fresh' : \E s \in Set, way \in Way, o \in Offset : f = <<s, way, o>>
  BY <1>4, <1>5 DEF IInv, MemTypeOK
<1> HIDE DEF i, q
<1> SUFFICES ASSUME NEW s \in Set, NEW way \in Way, NEW o \in Offset,
                    <<s, way, o>> \in fresh'
             PROVE  /\ Cache_addr'[s][way].valid
                    /\ Cache_data'[s][way][o] =
                        mem[flat([line |-> Cache_addr'[s][way].line, word |-> o])]
  BY <1>1, <1>2, <1>6 DEF FreshIsMemory, flat
<1>7. CASE <<s, way, o>> = <<i, refill_way, q>>
  <2>1. s = i /\ way = refill_way /\ o = q
    BY <1>7
  <2>2. /\ Cache_addr'[s][way] = [valid |-> TRUE, line |-> req_addr_reg.line]
        /\ Cache_data'[s][way][o] = D!data_out
    BY <1>1, <1>4, <2>1
  <2>3. [line |-> Cache_addr'[s][way].line, word |-> o] = req_addr_reg
    BY <1>4, <2>1, <2>2 DEF Address, q
  <2> QED
    BY <1>3, <2>2, <2>3
<1>8. CASE <<s, way, o>> \in fresh /\ <<s, way>> # <<i, refill_way>>
  <2>1. Cache_addr'[s][way] = Cache_addr[s][way] /\ Cache_data'[s][way] = Cache_data[s][way]
    BY <1>1, <1>4, <1>8
  <2> QED
    BY <1>1, <1>8, <2>1, FreshWords DEF at
<1> QED
  BY <1>5, <1>7, <1>8

\* A store that starts updates the one copy of its word, if there is one.
LEMMA StoreStarts ==
    ASSUME IInv, NEW victim_way \in Way, MemClock(victim_way),
           StartWrite(exmem)
    PROVE  FreshIsMemory'
<1>1. PICK r \in Access : r = exmem
  BY DEF IInv, MemTypeOK
<1>2. /\ r.addr \in Address /\ index(r.addr.line) \in Set /\ r.addr.word \in Offset
  BY <1>1, RequestTypes DEF IInv
<1>3. /\ pending = "none" /\ pending' = "write"
      /\ req_addr_reg' = r.addr /\ req_wdata_reg' = r.wdata
      /\ Cache_addr' = Cache_addr
      /\ Cache_data' = IF hit_found(r.addr)
                       THEN [Cache_data EXCEPT
                              ![index(r.addr.line)][hit_way(r.addr)][r.addr.word] = r.wdata]
                       ELSE Cache_data
      /\ fresh' = IF hit_found(r.addr) THEN fresh \cup {place(r.addr, hit_way(r.addr))}
                  ELSE fresh
  BY <1>1 DEF StartWrite, MemClock, Refresh
<1>4. mem' = mem
  BY <1>3, MemStep DEF IInv, MemClock
<1>5. hit_found(r.addr) =>
        /\ hit_way(r.addr) \in Way /\ Hits(r.addr.line) = {hit_way(r.addr)}
        /\ Cache_addr[index(r.addr.line)][hit_way(r.addr)] =
                [valid |-> TRUE, line |-> r.addr.line]
  BY <1>2, HitWay DEF IInv
<1>6. Cache_data \in [Set -> [Way -> [Offset -> Word]]]
  BY DEF IInv, MemTypeOK, TypeOK
<1>7. \A f \in fresh' : \E s \in Set, way \in Way, o \in Offset : f = <<s, way, o>>
  BY <1>2, <1>3, <1>5 DEF IInv, MemTypeOK, place
<1> SUFFICES ASSUME NEW s \in Set, NEW way \in Way, NEW o \in Offset,
                    <<s, way, o>> \in fresh'
             PROVE  /\ Cache_addr[s][way].valid
                    /\ Cache_data'[s][way][o] =
                          IF r.addr = at(s, way, o)
                          THEN r.wdata ELSE mem[flat(at(s, way, o))]
  BY <1>3, <1>4, <1>7 DEF FreshIsMemory, flat, at
<1>8. CASE hit_found(r.addr) /\ <<s, way, o>> = place(r.addr, hit_way(r.addr))
  <2>1. s = index(r.addr.line) /\ way = hit_way(r.addr) /\ o = r.addr.word
    BY <1>8 DEF place
  <2>2. Cache_addr[s][way].valid /\ at(s, way, o) = r.addr
    BY <1>2, <1>5, <1>8, <2>1 DEF at, Address
  <2>3. Cache_data'[s][way][o] = r.wdata
    BY <1>3, <1>2, <1>5, <1>6, <1>8, <2>1
  <2> QED
    BY <2>2, <2>3
<1>9. CASE /\ <<s, way, o>> \in fresh
           /\ ~(hit_found(r.addr) /\ <<s, way, o>> = place(r.addr, hit_way(r.addr)))
  <2>1. /\ Cache_addr[s][way].valid
        /\ index(at(s, way, o).line) = s
        /\ way \in Hits(at(s, way, o).line)
        /\ Cache_data[s][way][o] = mem[flat(at(s, way, o))]
    BY <1>3, <1>9, FreshWords
  <2>2. at(s, way, o) # r.addr
    <3> SUFFICES ASSUME at(s, way, o) = r.addr PROVE FALSE
      OBVIOUS
    <3>1. hit_found(r.addr) /\ way = hit_way(r.addr)
      BY <1>5, <2>1 DEF hit_found
    <3>2. o = r.addr.word
      BY DEF at
    <3> QED
      BY <1>9, <2>1, <3>1, <3>2 DEF place
  <2>3. Cache_data'[s][way][o] = Cache_data[s][way][o]
    <3>1. CASE hit_found(r.addr)
      <4>1. ~(s = index(r.addr.line) /\ way = hit_way(r.addr) /\ o = r.addr.word)
        BY <1>9, <3>1 DEF place
      <4> QED
        BY <1>2, <1>3, <1>5, <1>6, <3>1, <4>1
    <3>2. CASE ~hit_found(r.addr)
      BY <1>3, <3>2
    <3> QED
      BY <3>1, <3>2
  <2> QED
    BY <2>1, <2>2, <2>3
<1> QED
  BY <1>3, <1>8, <1>9

\* The other edges touch neither a line nor the memory.
LEMMA QuietCycle ==
    ASSUME IInv, NEW victim_way \in Way, MemClock(victim_way),
           pending # "write",
           \/ Await(D!ready) \/ Ignore(exmem) \/ ReadHit(exmem)
           \/ ReadMiss(exmem, victim_way)
    PROVE  FreshIsMemory'
<1>1. UNCHANGED <<Cache_addr, Cache_data>> /\ pending' # "write"
  BY DEF Await, Ignore, ReadHit, ReadMiss
<1>2. mem' = mem
  BY MemStep DEF IInv, MemClock
<1>3. fresh' = fresh
  BY <1>1 DEF MemClock, Refresh, Await, Ignore, ReadHit, ReadMiss
<1> QED
  BY <1>1, <1>2, <1>3 DEF IInv, FreshIsMemory, flat

LEMMA FreshStep ==
    ASSUME IInv, NEW victim_way \in Way, MemClock(victim_way)
    PROVE  FreshIsMemory'
<1>1. CASE pending = "write"
  BY <1>1, StoreCycle
<1>2. CASE pending # "write"
  BY <1>2, FetchCycle, StoreStarts, QuietCycle DEF MemClock, Clock, FinishWrite
<1> QED
  BY <1>1, <1>2

LEMMA NextIInv == IInv /\ [MemNext]_dcmemvars => IInv'
<1> SUFFICES ASSUME IInv, [MemNext]_dcmemvars PROVE IInv'
  OBVIOUS
<1>1. ASSUME NEW victim_way \in Way, MemClock(victim_way) PROVE IInv'
  BY <1>1, TypeStep, TagStep, AnswerStep, FreshStep DEF IInv
<1>2. CASE UNCHANGED dcmemvars
  <2> USE <1>2 DEF dcmemvars, dcvars, D!memvars
  <2>1. MemTypeOK'
    BY DEF IInv, MemTypeOK, TypeOK, D!TypeOK
  <2>2. TagsInPlace' /\ UniqueLine' /\ Absent'
    BY SameTags DEF IInv, Absent
  <2>3. AnswerIsOwn' /\ FreshIsMemory'
    BY DEF IInv, AnswerIsOwn, FreshIsMemory, flat, D!ready, D!data_out
  <2> QED
    BY <2>1, <2>2, <2>3 DEF IInv
<1> QED
  BY <1>1, <1>2 DEF MemNext

LEMMA Inductive == MemSpec => []IInv
BY InitIInv, NextIInv, PTL DEF MemSpec

-----------------------------------------------------------------------------
\* The registers of the cache, data_mem and the port keep their ranges.
THEOREM TypeCorrect == MemSpec => []MemTypeOK
<1>1. IInv => MemTypeOK
  BY DEF IInv
<1> QED
  BY <1>1, Inductive, PTL

\* No line is in two ways: a store that hits updates every copy there is.
THEOREM LinesAreUnique == MemSpec => []UniqueLine
<1>1. IInv => UniqueLine
  BY DEF IInv
<1> QED
  BY <1>1, Inductive, PTL

\* L1_Cache_DATA.v:5-9: the words that were fetched or written are the
\* memory's, but for the store under way.
THEOREM FreshWordsAreMemory == MemSpec => []FreshIsMemory
<1>1. IInv => FreshIsMemory
  BY DEF IInv
<1> QED
  BY <1>1, Inductive, PTL

\* The ready that ends a request is its own, although data_mem's ready outlives
\* a request by a cycle.
THEOREM AnswersAreOwn == MemSpec => []AnswerIsOwn
<1>1. IInv => AnswerIsOwn
  BY DEF IInv
<1> QED
  BY <1>1, Inductive, PTL
=============================================================================
