--------------------------- MODULE BramCtrl_proofs --------------------------
(***************************************************************************)
(* Proofs about BramCtrl, for any depth and width, any page size, any      *)
(* requests and any bound on what is outstanding: the model never runs     *)
(* into its page limit, never forgets to wake a method, and is, seen by    *)
(* its master, a flat array of bytes.                                      *)
(***************************************************************************)
EXTENDS BramCtrl, FiniteSetTheorems, TLAPS

Addr == 0 .. m_mem_addr_width - 1

\* Each queue has transactions of its own kind: what makes one method a reader
\* and the other a writer.
QueuesOK == /\ trans["rd"] \in Seq(ReadRequest)
            /\ trans["wr"] \in Seq(WriteRequest)
            /\ \A ch \in Channel : \E S : resp_vec[ch] \in Seq(S)
            /\ resp_vec = [ch \in Channel |-> resp_vec[ch]]

SocketsOK ==
    /\ trans \in [Channel -> Seq(ReadRequest \cup WriteRequest)]
    /\ notified \in [Channel -> BOOLEAN]
    /\ unsampled \in [Channel -> BOOLEAN]

PagesOK == /\ DOMAIN pageCache \subseteq Pages(Addr)
           /\ \A p \in DOMAIN pageCache : pageCache[p] \in [PageOffset -> Cell]

MemoryOK == PagesOK /\ exited = FALSE

IInv == MemoryOK /\ SocketsOK /\ QueuesOK /\ NoLostWakeup

\* An address is the offset in its page plus the bytes of the pages before it.
LEMMA DivMod ==
    ASSUME NEW a \in Nat
    PROVE  /\ page_idx(a) \in Nat
           /\ page_addr(a) \in PageOffset
           /\ page_idx(a) * PAGESIZE + page_addr(a) = a
  BY RamAssumption DEF page_idx, page_addr, PageOffset

\* The wrapped address is in the memory.
LEMMA Wraps ==
    ASSUME NEW t, IsPayload(t)
    PROVE  /\ m_mem_addr_width \in Nat \ {0}
           /\ address(t) \in Addr
           /\ InRange(t) => Span(t) \subseteq Addr
<1>1. m_mem_addr_width \in Nat \ {0}
  BY PayloadAssumption DEF m_mem_addr_width
<1>2. address(t) \in Addr
  <2>1. t.address \in Nat
    BY DEF IsPayload
  <2>2. QED
    BY <1>1, <2>1 DEF address, Addr
<1>3. InRange(t) => Span(t) \subseteq Addr
  BY <1>1, <1>2 DEF InRange, Span, Addr, IsPayload
<1>4. QED
  BY <1>1, <1>2, <1>3

\* A page number below N_1MBARRAYS for every address: no set of pages of the
\* memory has more than N_1MBARRAYS members.
LEMMA PageLimit ==
    ASSUME NEW S, S \subseteq Pages(Addr)
    PROVE  IsFiniteSet(S) /\ Cardinality(S) \in Nat /\ Cardinality(S) <= N_1MBARRAYS
<1> DEFINE Limit == 0 .. N_1MBARRAYS - 1
<1>1. Pages(Addr) \subseteq Limit
  <2> SUFFICES ASSUME NEW a \in Addr PROVE page_idx(a) \in Limit
    BY DEF Pages
  <2>1. a \in Nat /\ a < N_1MBARRAYS * PAGESIZE
    BY CapacityAssumption, PayloadAssumption, RamAssumption
       DEF Addr, m_mem_addr_width
  <2>2. page_idx(a) \in Nat /\ page_idx(a) * PAGESIZE <= a
    <3> DEFINE p == page_idx(a)
               o == page_addr(a)
    <3>1. p \in Nat /\ o \in PageOffset /\ p * PAGESIZE + o = a
      BY <2>1, DivMod
    <3> HIDE DEF p, o
    <3>2. p * PAGESIZE \in Nat /\ o \in Nat
      BY <3>1, RamAssumption DEF PageOffset
    <3>3. p \in Nat /\ p * PAGESIZE <= a
      BY <2>1, <3>1, <3>2
    <3>4. QED
      BY <3>3 DEF p
  <2>3. page_idx(a) < N_1MBARRAYS
    <3> DEFINE p == page_idx(a)
    <3>1. p \in Nat /\ p * PAGESIZE < N_1MBARRAYS * PAGESIZE
      BY <2>1, <2>2, RamAssumption
    <3> HIDE DEF p
    <3>2. p < N_1MBARRAYS
      BY <3>1, RamAssumption
    <3>3. QED
      BY <3>2 DEF p
  <2>4. QED
    BY <2>2, <2>3, RamAssumption
<1>2. IsFiniteSet(Limit) /\ Cardinality(Limit) = N_1MBARRAYS
  BY FS_Interval, RamAssumption
<1>3. S \subseteq Limit
  BY <1>1
<1> HIDE DEF Limit
<1>4. IsFiniteSet(S) /\ Cardinality(S) <= Cardinality(Limit)
  BY <1>2, <1>3, FS_Subset
<1>5. QED
  BY <1>2, <1>4, FS_CardinalityType

\* So get_page never refuses a page of the memory.
LEMMA Room ==
    ASSUME DOMAIN pageCache \subseteq Pages(Addr), NEW A, A \subseteq Addr
    PROVE  ~OutOfMemory(A)
<1> SUFFICES ASSUME NEW p \in Pages(A) PROVE
      LET S == DOMAIN pageCache \cup {q \in Pages(A) : q < p} IN
      ~(Cardinality(S) > N_1MBARRAYS)
  BY DEF OutOfMemory
<1> DEFINE S == DOMAIN pageCache \cup {q \in Pages(A) : q < p}
<1>1. S \subseteq Pages(Addr)
  BY DEF Pages
<1> HIDE DEF S
<1>2. Cardinality(S) \in Nat /\ Cardinality(S) <= N_1MBARRAYS
  BY <1>1, PageLimit
<1>3. QED
  BY <1>2, RamAssumption DEF S

\* What a byte of the memory is: its page's, or junk while there is no page.
LEMMA ByteIs ==
    ASSUME NEW a \in Nat
    PROVE  ByteAt(a) = IF page_idx(a) \in DOMAIN pageCache
                       THEN pageCache[page_idx(a)][page_addr(a)] ELSE Junk
<1>1. page_idx(a) \in Pages({a})
  BY DEF Pages
<1>2. page_addr(a) \in PageOffset
  BY DivMod
<1>3. QED
  BY <1>1, <1>2 DEF ByteAt, get_page, NewPage

\* A read leaves every byte what it was, whatever pages it brings in.
LEMMA ReadKeeps ==
    ASSUME PagesOK, NEW A, A \subseteq Addr, readDevMem(A)
    PROVE  /\ PagesOK' /\ exited' = FALSE
           /\ \A a \in Addr : ByteAt(a)' = ByteAt(a)
<1>1. exited' = FALSE /\ pageCache' = get_page(A)
  BY Room DEF readDevMem, Touch, PagesOK
<1>2. DOMAIN pageCache' = DOMAIN pageCache \cup Pages(A)
  BY <1>1 DEF get_page
<1>3. \A p \in DOMAIN pageCache' :
        pageCache'[p] = IF p \in DOMAIN pageCache THEN pageCache[p] ELSE NewPage
  BY <1>1 DEF get_page
<1>4. NewPage \in [PageOffset -> Cell]
  BY DEF NewPage, Cell
<1>5. PagesOK'
  BY <1>2, <1>3, <1>4 DEF PagesOK, Pages, Cell, PageOffset, Addr, m_mem_addr_width,
                          page_idx
<1>6. ASSUME NEW a \in Addr PROVE ByteAt(a)' = ByteAt(a)
  <2>1. a \in Nat
    BY <1>6 DEF Addr
  <2>2. page_addr(a) \in PageOffset
    BY <2>1, DivMod
  <2> DEFINE p == page_idx(a)
             o == page_addr(a)
  <2>3. ByteAt(a)' = IF p \in DOMAIN pageCache' THEN pageCache'[p][o] ELSE Junk
    <3>1. page_idx(a)' = p /\ page_addr(a)' = o
      BY DEF page_idx, page_addr
    <3>2. p \in Pages({a})
      BY DEF Pages
    <3>3. QED
      BY <2>2, <3>2 DEF ByteAt, get_page, NewPage, Pages, page_idx, page_addr, PageOffset
  <2>4. ByteAt(a) = IF p \in DOMAIN pageCache THEN pageCache[p][o] ELSE Junk
    BY <2>1, ByteIs
  <2> HIDE DEF p, o
  <2>5. o \in PageOffset
    BY <2>2 DEF o
  <2>6. QED
    BY <2>3, <2>4, <2>5, <1>2, <1>3 DEF NewPage
<1>7. QED
  BY <1>1, <1>5, <1>6

\* A write changes the bytes it is given, and no other.
LEMMA WriteStores ==
    ASSUME PagesOK, NEW bytes, DOMAIN bytes \subseteq Addr,
           \A a \in DOMAIN bytes : bytes[a] \in Byte, writeDevMem(bytes)
    PROVE  /\ PagesOK' /\ exited' = FALSE
           /\ \A a \in Addr : ByteAt(a)' = IF a \in DOMAIN bytes THEN bytes[a]
                                           ELSE ByteAt(a)
<1> DEFINE G == get_page(DOMAIN bytes)
<1>1. /\ exited' = FALSE
      /\ pageCache' = [p \in DOMAIN G |->
                        [o \in PageOffset |->
                          IF p * PAGESIZE + o \in DOMAIN bytes
                          THEN bytes[p * PAGESIZE + o] ELSE G[p][o]]]
  BY Room DEF writeDevMem, Touch, PagesOK
<1>2. DOMAIN G = DOMAIN pageCache \cup Pages(DOMAIN bytes)
  BY DEF get_page
<1>3. \A p \in DOMAIN G :
        G[p] = IF p \in DOMAIN pageCache THEN pageCache[p] ELSE NewPage
  BY DEF get_page
<1>4. NewPage \in [PageOffset -> Cell]
  BY DEF NewPage, Cell
<1>5. \A p \in DOMAIN G : G[p] \in [PageOffset -> Cell]
  BY <1>2, <1>3, <1>4 DEF PagesOK
<1> HIDE DEF G
<1>6. PagesOK'
  <2>1. DOMAIN pageCache' \subseteq Pages(Addr)
    BY <1>1, <1>2 DEF PagesOK, Pages
  <2>2. ASSUME NEW p \in DOMAIN G PROVE pageCache'[p] \in [PageOffset -> Cell]
    BY <1>1, <1>5, <2>2 DEF Cell
  <2>3. QED
    BY <1>1, <2>1, <2>2 DEF PagesOK, Pages, Cell, PageOffset, Addr, m_mem_addr_width,
                            page_idx
<1>7. ASSUME NEW a \in Addr
      PROVE ByteAt(a)' = IF a \in DOMAIN bytes THEN bytes[a] ELSE ByteAt(a)
  <2>1. a \in Nat
    BY <1>7 DEF Addr
  <2>2. page_addr(a) \in PageOffset /\ page_idx(a) * PAGESIZE + page_addr(a) = a
    BY <2>1, DivMod
  <2> DEFINE p == page_idx(a)
             o == page_addr(a)
  <2>3. ByteAt(a)' = IF p \in DOMAIN pageCache' THEN pageCache'[p][o] ELSE Junk
    <3>1. p \in Pages({a})
      BY DEF Pages
    <3>2. QED
      BY <2>2, <3>1 DEF ByteAt, get_page, NewPage, Pages, page_idx, page_addr, PageOffset
  <2>4. ByteAt(a) = IF p \in DOMAIN pageCache THEN pageCache[p][o] ELSE Junk
    BY <2>1, ByteIs
  <2>5. a \in DOMAIN bytes => p \in DOMAIN G
    BY <1>2 DEF Pages
  <2> HIDE DEF p, o
  <2>6. o \in PageOffset /\ p * PAGESIZE + o = a
    BY <2>2 DEF o, p
  <2>7. CASE p \in DOMAIN G
    <3>1. pageCache'[p][o] = IF a \in DOMAIN bytes THEN bytes[a] ELSE G[p][o]
      BY <1>1, <2>6, <2>7
    <3>2. G[p][o] = ByteAt(a)
      BY <1>3, <2>4, <2>6, <2>7 DEF NewPage
    <3>3. QED
      BY <1>1, <2>3, <2>7, <3>1, <3>2
  <2>8. CASE p \notin DOMAIN G
    BY <1>1, <1>2, <2>3, <2>4, <2>5, <2>8
  <2>9. QED
    BY <2>7, <2>8
<1>8. QED
  BY <1>1, <1>6, <1>7

-----------------------------------------------------------------------------
LEMMA StoredType ==
    ASSUME NEW t, IsPayload(t), InRange(t)
    PROVE  /\ DOMAIN Stored(t) \subseteq Addr
           /\ \A a \in DOMAIN Stored(t) : Stored(t)[a] \in Byte
<1>1. Span(t) \subseteq Addr /\ address(t) \in Addr
  BY Wraps
<1>2. DOMAIN Stored(t) \subseteq Span(t)
  BY DEF Stored
<1>3. ASSUME NEW a \in DOMAIN Stored(t) PROVE Stored(t)[a] \in Byte
  <2>1. Stored(t)[a] = t.data[At(t, a)]
    BY DEF Stored
  <2>2. address(t) \in Nat /\ a \in Span(t) /\ t.length \in Nat
    BY <1>1, <1>2, Wraps DEF Addr, IsPayload
  <2>3. At(t, a) \in 1 .. t.length
    BY <2>2 DEF Span, At
  <2>4. t.data \in Seq(Byte) /\ Len(t.data) = t.length
    BY DEF IsPayload
  <2>5. QED
    BY <2>1, <2>3, <2>4
<1>4. QED
  BY <1>1, <1>2, <1>3

\* What a read transaction leaves, and what a write transaction does, in terms
\* of the flat memory.
LEMMA ReadEffect ==
    ASSUME MemoryOK, NEW t, IsPayload(t), ReadMemory(t)
    PROVE  MemoryOK' /\ \A a \in Addr : ByteAt(a)' = ByteAt(a)
<1>1. CASE InRange(t)
  BY <1>1, Wraps, ReadKeeps DEF ReadMemory, MemoryOK
<1>2. CASE ~InRange(t)
  BY <1>2 DEF ReadMemory, MemoryOK, ramvars, PagesOK, ByteAt, get_page
<1>3. QED
  BY <1>1, <1>2

LEMMA WriteEffect ==
    ASSUME MemoryOK, NEW t, IsPayload(t), WriteMemory(t)
    PROVE  /\ MemoryOK'
           /\ \A a \in Addr :
                ByteAt(a)' = IF /\ InRange(t) /\ t.ext = NoExtension
                                /\ a \in DOMAIN Stored(t)
                             THEN Stored(t)[a] ELSE ByteAt(a)
<1>1. CASE InRange(t) /\ t.ext = NoExtension
  <2>1. writeDevMem(Stored(t))
    BY <1>1 DEF WriteMemory
  <2>2. /\ DOMAIN Stored(t) \subseteq Addr
        /\ \A a \in DOMAIN Stored(t) : Stored(t)[a] \in Byte
    BY <1>1, StoredType
  <2>3. /\ PagesOK' /\ exited' = FALSE
        /\ \A a \in Addr : ByteAt(a)' = IF a \in DOMAIN Stored(t)
                                        THEN Stored(t)[a] ELSE ByteAt(a)
    BY <2>1, <2>2, WriteStores DEF MemoryOK
  <2>4. QED
    BY <1>1, <2>3 DEF MemoryOK
<1>2. CASE ~(InRange(t) /\ t.ext = NoExtension)
  <2>1. UNCHANGED ramvars
    BY <1>2 DEF WriteMemory
  <2>2. QED
    BY <1>2, <2>1 DEF MemoryOK, ramvars, PagesOK, ByteAt, get_page
<1>3. QED
  BY <1>1, <1>2

-----------------------------------------------------------------------------
\* The queues and what wakes the methods.
LEMMA ArriveStep ==
    ASSUME SocketsOK, QueuesOK, NoLostWakeup, NEW ch \in Channel,
           NEW t \in (IF ch = "rd" THEN ReadRequest ELSE WriteRequest),
           Arrive(ch, t)
    PROVE  SocketsOK' /\ QueuesOK' /\ NoLostWakeup'
<1>1. /\ trans' = [trans EXCEPT ![ch] = Append(@, t)]
      /\ notified' = [notified EXCEPT ![ch] = TRUE]
      /\ resp_vec' = resp_vec /\ unsampled' = unsampled
  BY DEF Arrive
<1>2. SocketsOK'
  BY <1>1 DEF SocketsOK, Channel
<1>3. QueuesOK'
  BY <1>1 DEF QueuesOK, SocketsOK, Channel
<1>4. NoLostWakeup'
  BY <1>1 DEF NoLostWakeup, Waiting, SocketsOK, Channel
<1>5. QED
  BY <1>2, <1>3, <1>4

LEMMA SampleStep ==
    ASSUME SocketsOK, QueuesOK, NoLostWakeup, NEW ch \in Channel, Sample(ch)
    PROVE  SocketsOK' /\ QueuesOK' /\ NoLostWakeup'
<1>1. /\ unsampled' = [unsampled EXCEPT ![ch] = FALSE]
      /\ notified' = [notified EXCEPT ![ch] = TRUE]
      /\ trans' = trans /\ resp_vec' = resp_vec
  BY DEF Sample
<1>2. QED
  BY <1>1 DEF NoLostWakeup, Waiting, SocketsOK, QueuesOK, Channel

\* After an activation something waits only if the response sent now, or one
\* before it, has not been sampled: its sampling is the next notification.
LEMMA ActivateStep ==
    ASSUME SocketsOK, QueuesOK, NoLostWakeup, NEW ch \in Channel, NEW reply,
           Activate(ch, reply)
    PROVE  SocketsOK' /\ QueuesOK' /\ NoLostWakeup'
<1> DEFINE queue == Taken(ch, reply)
<1>1. /\ notified' = [notified EXCEPT ![ch] = FALSE]
      /\ trans' = [trans EXCEPT ![ch] =
                      IF is_trans_available(ch) THEN Tail(@) ELSE @]
  BY DEF Activate
<1>2. trans[ch] # <<>> => is_trans_available(ch)
  BY DEF is_trans_available
<1>3. PICK S : resp_vec[ch] \in Seq(S)
  BY DEF QueuesOK
<1>4. queue \in Seq(S \cup {reply}) /\ (is_trans_available(ch) => queue # <<>>)
  <2>1. resp_vec[ch] \in Seq(S \cup {reply})
    BY <1>3
  <2>2. /\ Append(resp_vec[ch], reply) \in Seq(S \cup {reply})
        /\ Append(resp_vec[ch], reply) # <<>>
    BY <2>1
  <2>3. QED
    BY <2>1, <2>2 DEF Taken
<1>5. \/ /\ queue # <<>> /\ ~unsampled[ch]
         /\ resp_vec' = [resp_vec EXCEPT ![ch] = Tail(queue)]
         /\ unsampled' = [unsampled EXCEPT ![ch] = TRUE]
      \/ /\ queue = <<>> \/ unsampled[ch]
         /\ resp_vec' = [resp_vec EXCEPT ![ch] = queue]
         /\ unsampled' = unsampled
  BY DEF Activate, SendFirst, SendNothing, is_master_ready
<1> HIDE DEF queue
<1>6. \/ resp_vec' = [resp_vec EXCEPT ![ch] = Tail(queue)] /\ queue # <<>>
      \/ resp_vec' = [resp_vec EXCEPT ![ch] = queue]
  BY <1>5
<1>7. \A c \in Channel : \E T : resp_vec'[c] \in Seq(T)
  <2> SUFFICES ASSUME NEW c \in Channel PROVE \E T : resp_vec'[c] \in Seq(T)
    OBVIOUS
  <2>1. CASE c = ch
    <3>1. resp_vec'[c] = queue \/ (queue # <<>> /\ resp_vec'[c] = Tail(queue))
      BY <1>6, <2>1 DEF QueuesOK
    <3>2. resp_vec'[c] \in Seq(S \cup {reply})
      BY <1>4, <3>1
    <3>3. QED
      BY <3>2
  <2>2. CASE c # ch
    BY <1>6, <2>2 DEF QueuesOK
  <2>3. QED
    BY <2>1, <2>2
<1>8. SocketsOK'
  <2>1. trans[ch] # <<>> => Tail(trans[ch]) \in Seq(ReadRequest \cup WriteRequest)
    BY DEF SocketsOK
  <2>2. trans' \in [Channel -> Seq(ReadRequest \cup WriteRequest)]
    BY <1>1, <2>1 DEF SocketsOK, is_trans_available
  <2>3. QED
    BY <1>1, <1>5, <2>2 DEF SocketsOK
<1>9. QueuesOK'
  <2>1. /\ trans[ch] # <<>> /\ ch = "rd" => Tail(trans[ch]) \in Seq(ReadRequest)
        /\ trans[ch] # <<>> /\ ch = "wr" => Tail(trans[ch]) \in Seq(WriteRequest)
    BY DEF QueuesOK
  <2>2. trans'["rd"] \in Seq(ReadRequest) /\ trans'["wr"] \in Seq(WriteRequest)
    BY <1>1, <2>1 DEF QueuesOK, SocketsOK, is_trans_available, Channel
  <2>3. resp_vec' = [c \in Channel |-> resp_vec'[c]]
    BY <1>6 DEF QueuesOK
  <2>4. QED
    BY <1>7, <2>2, <2>3 DEF QueuesOK
<1>10. NoLostWakeup'
  <2> SUFFICES ASSUME NEW c \in Channel, Waiting(c)'
               PROVE  notified'[c] \/ unsampled'[c]
    BY DEF NoLostWakeup
  <2>1. CASE c # ch
    <3>1. /\ trans'[c] = trans[c] /\ resp_vec'[c] = resp_vec[c]
          /\ notified'[c] = notified[c] /\ unsampled'[c] = unsampled[c]
      BY <1>1, <1>5, <2>1 DEF SocketsOK, QueuesOK
    <3>2. QED
      BY <3>1 DEF NoLostWakeup, Waiting
  <2>2. CASE c = ch /\ queue = <<>>
    <3>1. ~is_trans_available(ch) /\ trans[ch] = <<>>
      BY <1>2, <1>4, <2>2
    <3>2. trans'[c] = <<>> /\ resp_vec'[c] = <<>>
      BY <1>1, <1>5, <2>2, <3>1 DEF SocketsOK, QueuesOK
    <3>3. QED
      BY <3>2 DEF Waiting
  <2>3. CASE c = ch /\ queue # <<>>
    BY <1>5, <2>3 DEF SocketsOK
  <2>4. QED
    BY <2>1, <2>2, <2>3
<1>11. QED
  BY <1>8, <1>9, <1>10

-----------------------------------------------------------------------------
\* One activation of either method: the sockets, and the memory.
LEMMA ReadMethod ==
    ASSUME IInv, methodProcessTransactionRead
    PROVE  IInv' /\ \A a \in Addr : ByteAt(a)' = ByteAt(a)
<1> DEFINE t == Head(trans["rd"])
<1>1. MemoryOK /\ SocketsOK /\ QueuesOK /\ NoLostWakeup
  BY DEF IInv
<1>2. SocketsOK' /\ QueuesOK' /\ NoLostWakeup'
  BY <1>1, ActivateStep DEF methodProcessTransactionRead, Channel
<1>3. MemoryOK' /\ \A a \in Addr : ByteAt(a)' = ByteAt(a)
  <2>1. CASE is_trans_available("rd")
    <3>1. t \in ReadRequest
      BY <1>1, <2>1 DEF QueuesOK, is_trans_available
    <3>2. IsPayload(t)
      BY <3>1, BramAssumption
    <3>3. ReadMemory(t)
      BY <2>1 DEF methodProcessTransactionRead
    <3>4. QED
      BY <1>1, <3>2, <3>3, ReadEffect
  <2>2. CASE ~is_trans_available("rd")
    BY <1>1, <2>2 DEF methodProcessTransactionRead, MemoryOK, ramvars, PagesOK,
                      ByteAt, get_page
  <2>3. QED
    BY <2>1, <2>2
<1>4. QED
  BY <1>2, <1>3 DEF IInv

LEMMA WriteMethod ==
    ASSUME IInv, methodProcessTransactionWrite
    PROVE  IInv'
<1> DEFINE t == Head(trans["wr"])
<1>1. MemoryOK /\ SocketsOK /\ QueuesOK /\ NoLostWakeup
  BY DEF IInv
<1>2. SocketsOK' /\ QueuesOK' /\ NoLostWakeup'
  BY <1>1, ActivateStep DEF methodProcessTransactionWrite, Channel
<1>3. MemoryOK'
  <2>1. CASE is_trans_available("wr")
    <3>1. t \in WriteRequest
      BY <1>1, <2>1 DEF QueuesOK, is_trans_available
    <3>2. IsPayload(t)
      BY <3>1, BramAssumption
    <3>3. WriteMemory(t)
      BY <2>1 DEF methodProcessTransactionWrite
    <3>4. QED
      BY <1>1, <3>2, <3>3, WriteEffect
  <2>2. CASE ~is_trans_available("wr")
    BY <1>1, <2>2 DEF methodProcessTransactionWrite, MemoryOK, ramvars, PagesOK
  <2>3. QED
    BY <2>1, <2>2
<1>4. QED
  BY <1>2, <1>3 DEF IInv

\* The debug transport reaches the memory and no queue.
LEMMA DebugStep ==
    ASSUME IInv, NEW t \in DebugRequest, transport_dbg(t)
    PROVE  IInv'
<1>1. MemoryOK /\ SocketsOK /\ QueuesOK /\ NoLostWakeup
  BY DEF IInv
<1>2. UNCHANGED socketvars /\ (ReadMemory(t) \/ WriteMemory(t))
  BY DEF transport_dbg, transport_dbg_rd, transport_dbg_wr
<1>3. SocketsOK' /\ QueuesOK' /\ NoLostWakeup'
  BY <1>1, <1>2 DEF socketvars, SocketsOK, QueuesOK, NoLostWakeup, Waiting
<1>4. MemoryOK'
  BY <1>1, <1>2, BramAssumption, ReadEffect, WriteEffect
<1>5. QED
  BY <1>3, <1>4 DEF IInv

LEMMA BramInvInit == BramInit => IInv
<1> SUFFICES ASSUME BramInit PROVE IInv
  OBVIOUS
<1>1. pageCache = << >> /\ exited = FALSE
  BY DEF BramInit, RamInit
<1>2. DOMAIN pageCache = {}
  BY <1>1
<1>3. /\ trans = [ch \in Channel |-> <<>>] /\ resp_vec = [ch \in Channel |-> <<>>]
      /\ notified = [ch \in Channel |-> FALSE]
      /\ unsampled = [ch \in Channel |-> FALSE]
  BY DEF BramInit, SocketInit
<1>4. MemoryOK /\ SocketsOK
  BY <1>1, <1>2, <1>3 DEF MemoryOK, PagesOK, SocketsOK
<1>5. QueuesOK
  BY <1>3 DEF QueuesOK, Channel
<1>6. NoLostWakeup
  BY <1>3 DEF NoLostWakeup, Waiting
<1>7. QED
  BY <1>4, <1>5, <1>6 DEF IInv

LEMMA BramInvStep == IInv /\ [BramNext]_bramvars => IInv'
<1> SUFFICES ASSUME IInv, [BramNext]_bramvars PROVE IInv'
  OBVIOUS
<1>1. MemoryOK /\ SocketsOK /\ QueuesOK /\ NoLostWakeup
  BY DEF IInv
<1>2. CASE MasterSends
  <2>1. SocketsOK' /\ QueuesOK' /\ NoLostWakeup'
    BY <1>1, <1>2, ArriveStep DEF MasterSends, Channel
  <2>2. UNCHANGED ramvars
    BY <1>2 DEF MasterSends
  <2>3. QED
    BY <1>1, <2>1, <2>2 DEF IInv, MemoryOK, PagesOK, ramvars
<1>3. CASE \E ch \in Channel : MasterSamples(ch)
  <2>1. SocketsOK' /\ QueuesOK' /\ NoLostWakeup' /\ UNCHANGED ramvars
    BY <1>1, <1>3, SampleStep DEF MasterSamples
  <2>2. QED
    BY <1>1, <2>1 DEF IInv, MemoryOK, PagesOK, ramvars
<1>4. CASE methodProcessTransactionRead
  BY <1>4, ReadMethod
<1>5. CASE methodProcessTransactionWrite
  BY <1>5, WriteMethod
<1>6. CASE \E t \in DebugRequest : transport_dbg(t)
  BY <1>6, DebugStep
<1>7. CASE UNCHANGED bramvars
  BY <1>1, <1>7 DEF bramvars, ramvars, socketvars, IInv, MemoryOK, PagesOK,
                    SocketsOK, QueuesOK, NoLostWakeup, Waiting
<1>8. QED
  BY <1>2, <1>3, <1>4, <1>5, <1>6, <1>7 DEF BramNext

LEMMA Invariant == BramSpec => []IInv
BY BramInvInit, BramInvStep, PTL DEF BramSpec

\* axi_bram_memory_imp.cpp:135-405: pages lie in the memory and hold bytes or
\* what new[] left, and the queues hold transactions.
THEOREM TypeCorrect == BramSpec => []BramTypeOK
<1>1. IInv => BramTypeOK
  BY DEF IInv, MemoryOK, PagesOK, SocketsOK, BramTypeOK, Addr
<1>2. QED
  BY <1>1, Invariant, PTL

\* axi_bram_ram_fmodel.cxx:173-181: the simulation never ends for want of
\* pages when they are enough for the memory.
THEOREM CapacitySuffices == BramSpec => []NeverExhausted
<1>1. IInv => NeverExhausted
  BY DEF IInv, MemoryOK, NeverExhausted
<1>2. QED
  BY <1>1, Invariant, PTL

\* axi_bram_memory_imp.cpp:112-122: while a transaction or a response waits, a
\* notification or the sampling of a response is to come.
THEOREM WakeupsKept == BramSpec => []NoLostWakeup
<1>1. IInv => NoLostWakeup
  BY DEF IInv
<1>2. QED
  BY <1>1, Invariant, PTL

-----------------------------------------------------------------------------
\* The flat memory behind the pages.
memory == [a \in Addr |-> ByteAt(a)]

\* The two modules' readings of a transaction are the same.
LEMMA SameReading ==
    ASSUME NEW t
    PROVE  /\ Flat!InRange(t) = InRange(t)
           /\ Flat!address(t) = address(t)
           /\ Flat!Stored(t) = Stored(t)
           /\ Flat!NoExtension = NoExtension
           /\ \A status : Flat!Complete(t, status) = Complete(t, status)
           /\ Flat!m_mem_addr_width = m_mem_addr_width
<1>1. Flat!m_mem_addr_width = m_mem_addr_width
  BY DEF Flat!m_mem_addr_width, m_mem_addr_width
<1>2. Flat!address(t) = address(t)
  BY <1>1 DEF Flat!address, address
<1>3. Flat!InRange(t) = InRange(t)
  BY <1>1, <1>2 DEF Flat!InRange, InRange
<1>4. Flat!Stored(t) = Stored(t)
  BY <1>2 DEF Flat!Stored, Stored, Flat!Span, Span, Flat!Enabled, Enabled, Flat!At, At
<1>5. QED
  BY <1>1, <1>2, <1>3, <1>4 DEF Flat!NoExtension, NoExtension, Flat!Complete, Complete

\* What the methods answer is what the flat memory answers.
LEMMA SameReadReply ==
    ASSUME NEW t, IsPayload(t), t.command = "READ"
    PROVE  Flat!Result(t) = ReadReply(t)
<1>1. CASE InRange(t)
  <2> DEFINE read == [i \in 1 .. t.length |-> ByteAt(address(t) + i - 1)]
             flat == [i \in 1 .. t.length |-> memory[address(t) + i - 1]]
  <2>1. read = flat
    <3> SUFFICES ASSUME NEW i \in 1 .. t.length
                 PROVE  address(t) + i - 1 \in Addr
      BY DEF memory
    <3>1. QED
      BY <1>1, Wraps DEF InRange, Addr, IsPayload
  <2>2. ReadReply(t) = [Complete(t, "OK") EXCEPT !.data = read]
    BY <1>1 DEF ReadReply
  <2>3. Flat!Result(t) = [Complete(t, "OK") EXCEPT !.data = flat]
    <3>1. Flat!Bytes(t) = flat
      BY SameReading DEF Flat!Bytes, memory, Addr
    <3>2. Flat!InRange(t) /\ Flat!Complete(t, "OK") = Complete(t, "OK")
      BY <1>1, SameReading
    <3>3. QED
      BY <3>1, <3>2 DEF Flat!Result
  <2>4. QED
    BY <2>1, <2>2, <2>3
<1>2. CASE ~InRange(t)
  BY <1>2, SameReading DEF Flat!Result, ReadReply
<1>3. QED
  BY <1>1, <1>2

LEMMA SameWriteReply ==
    ASSUME NEW t, t.command = "WRITE"
    PROVE  Flat!Result(t) = WriteReply(t)
<1>1. CASE ~InRange(t)
  BY <1>1, SameReading DEF Flat!Result, WriteReply
<1>2. CASE InRange(t) /\ t.ext = NoExtension
  BY <1>2, SameReading DEF Flat!Result, WriteReply
<1>3. CASE InRange(t) /\ t.ext # NoExtension
  <2>1. WriteReply(t) = ExtensionReply(t) /\ Flat!Result(t) = Flat!Granted(t)
    BY <1>3, SameReading DEF WriteReply, Flat!Result
  <2>2. Flat!Granted(t) = ExtensionReply(t)
    <3>1. Flat!Complete(t, "OK") = Complete(t, "OK")
      BY SameReading
    <3>2. QED
      BY <3>1, Zenon DEF Flat!Granted, ExtensionReply, BufferRequest, Flat!NoFile
  <2>3. QED
    BY <2>1, <2>2
<1>4. QED
  BY <1>1, <1>2, <1>3

\* What the methods do to the pages is what the flat memory does.
LEMMA SameReadEffect ==
    ASSUME NEW t, t.command = "READ", \A a \in Addr : ByteAt(a)' = ByteAt(a)
    PROVE  Flat!Effect(t) /\ memory' = memory
<1>1. memory' = memory
  BY DEF memory, Addr, m_mem_addr_width
<1>2. QED
  BY <1>1 DEF Flat!Effect, memory, Addr

LEMMA SameWriteEffect ==
    ASSUME NEW t, t.command = "WRITE",
           \A a \in Addr :
                ByteAt(a)' = IF /\ InRange(t) /\ t.ext = NoExtension
                                /\ a \in DOMAIN Stored(t)
                             THEN Stored(t)[a] ELSE ByteAt(a)
    PROVE  Flat!Effect(t)
<1> DEFINE stored == [a \in Addr |-> IF a \in DOMAIN Stored(t)
                                     THEN Stored(t)[a] ELSE memory[a]]
<1>1. memory' = [a \in Addr |-> ByteAt(a)']
  BY DEF memory, Addr, m_mem_addr_width
<1>2. memory' = IF InRange(t) /\ t.ext = NoExtension THEN stored ELSE memory
  BY <1>1 DEF memory
<1>3. DOMAIN memory = Addr
  BY DEF memory
<1>4. QED
  BY <1>2, <1>3, SameReading DEF Flat!Effect, memory, Addr

\* An activation performs the first waiting transaction of its channel and may
\* deliver the first answer; without a transaction it may deliver one.
LEMMA SameActivation ==
    ASSUME NEW ch \in Channel, NEW reply, Activate(ch, reply),
           is_trans_available(ch) => /\ reply = Flat!Result(Head(trans[ch]))
                                     /\ Flat!Effect(Head(trans[ch])),
           ~is_trans_available(ch) => memory' = memory,
           dbg' = dbg, SocketsOK, resp_vec = [c \in Channel |-> resp_vec[c]]
    PROVE  [Flat!FlatNext]_Flat!flatvars
<1>1. CASE is_trans_available(ch)
  <2> DEFINE answers == Append(resp_vec[ch], Flat!Result(Head(trans[ch])))
  <2>1. Taken(ch, reply) = answers
    BY <1>1 DEF Taken
  <2>2. \/ answers # <<>> /\ resp_vec' = [resp_vec EXCEPT ![ch] = Tail(answers)]
        \/ resp_vec' = [resp_vec EXCEPT ![ch] = answers]
    BY <2>1 DEF Activate, SendFirst, SendNothing
  <2>3. Flat!Deliver(ch, answers) \/ Flat!Keep(ch, answers)
    BY <2>2 DEF Flat!Deliver, Flat!Keep
  <2>4. trans[ch] # <<>> /\ trans' = [trans EXCEPT ![ch] = Tail(@)]
    BY <1>1 DEF Activate, is_trans_available
  <2>5. Flat!Perform(ch)
    BY <1>1, <2>3, <2>4 DEF Flat!Perform
  <2>6. QED
    BY <2>5 DEF Flat!FlatNext
<1>2. CASE ~is_trans_available(ch)
  <2>1. Taken(ch, reply) = resp_vec[ch]
    BY <1>2 DEF Taken
  <2>2. trans' = trans
    BY <1>2 DEF Activate, SocketsOK
  <2>3. CASE SendFirst(ch, resp_vec[ch])
    <3>1. Flat!Answer(ch)
      BY <1>2, <2>2, <2>3 DEF SendFirst, Flat!Answer, Flat!Deliver, memory, Addr
    <3>2. QED
      BY <3>1 DEF Flat!FlatNext
  <2>4. CASE SendNothing(ch, resp_vec[ch])
    <3>1. resp_vec' = resp_vec
      BY <2>4 DEF SendNothing
    <3>2. QED
      BY <1>2, <2>2, <3>1 DEF Flat!flatvars, memory, Addr
  <2>5. QED
    BY <2>1, <2>3, <2>4 DEF Activate
<1>3. QED
  BY <1>1, <1>2

LEMMA FlatRead ==
    ASSUME IInv, methodProcessTransactionRead
    PROVE  [Flat!FlatNext]_Flat!flatvars
<1> DEFINE t == Head(trans["rd"])
<1>1. \A a \in Addr : ByteAt(a)' = ByteAt(a)
  BY ReadMethod
<1>2. memory' = memory
  BY <1>1 DEF memory, Addr, m_mem_addr_width
<1>3. is_trans_available("rd") => ReadReply(t) = Flat!Result(t) /\ Flat!Effect(t)
  <2> SUFFICES ASSUME is_trans_available("rd")
               PROVE  ReadReply(t) = Flat!Result(t) /\ Flat!Effect(t)
    OBVIOUS
  <2>1. t \in ReadRequest
    BY DEF IInv, QueuesOK, is_trans_available
  <2>2. IsPayload(t) /\ t.command = "READ"
    BY <2>1, BramAssumption
  <2> HIDE DEF t
  <2>3. QED
    BY <2>2, <1>1, SameReadReply, SameReadEffect
<1>4. QED
  BY <1>2, <1>3, SameActivation
     DEF methodProcessTransactionRead, IInv, QueuesOK, Channel

LEMMA FlatWrite ==
    ASSUME IInv, methodProcessTransactionWrite
    PROVE  [Flat!FlatNext]_Flat!flatvars
<1> DEFINE t == Head(trans["wr"])
<1>1. is_trans_available("wr") => WriteReply(t) = Flat!Result(t) /\ Flat!Effect(t)
  <2> SUFFICES ASSUME is_trans_available("wr")
               PROVE  WriteReply(t) = Flat!Result(t) /\ Flat!Effect(t)
    OBVIOUS
  <2>1. t \in WriteRequest
    BY DEF IInv, QueuesOK, is_trans_available
  <2>2. IsPayload(t) /\ t.command = "WRITE"
    BY <2>1, BramAssumption
  <2>3. WriteMemory(t)
    BY DEF methodProcessTransactionWrite
  <2> HIDE DEF t
  <2>4. MemoryOK
    BY DEF IInv
  <2>5. QED
    BY <2>2, <2>3, <2>4, WriteEffect, SameWriteReply, SameWriteEffect
<1>2. ~is_trans_available("wr") => memory' = memory
  BY DEF methodProcessTransactionWrite, ramvars, memory, Addr, m_mem_addr_width,
         ByteAt, get_page
<1>3. QED
  BY <1>1, <1>2, SameActivation
     DEF methodProcessTransactionWrite, IInv, QueuesOK, Channel

LEMMA FlatProbe ==
    ASSUME IInv, NEW t \in DebugRequest, transport_dbg(t)
    PROVE  [Flat!FlatNext]_Flat!flatvars
<1>1. IsPayload(t) /\ MemoryOK
  BY BramAssumption DEF IInv
<1>2. UNCHANGED <<trans, resp_vec>>
  BY DEF transport_dbg, transport_dbg_rd, transport_dbg_wr, socketvars
<1>3. CASE transport_dbg_rd(t)
  <2>1. t.command = "READ" /\ ReadMemory(t)
    BY <1>3 DEF transport_dbg_rd
  <2>2. Flat!Effect(t) /\ Flat!Result(t) = ReadReply(t)
    BY <1>1, <2>1, ReadEffect, SameReadReply, SameReadEffect
  <2>3. Flat!Count(t) = IF InRange(t) THEN t.length ELSE 0
    BY <2>1, SameReading DEF Flat!Count
  <2>4. Flat!Probe(t)
    BY <1>2, <1>3, <2>2, <2>3 DEF Flat!Probe, transport_dbg_rd, Returned
  <2>5. QED
    BY <2>4 DEF Flat!FlatNext
<1>4. CASE transport_dbg_wr(t)
  <2>1. t.command = "WRITE" /\ WriteMemory(t)
    BY <1>4 DEF transport_dbg_wr
  <2>2. Flat!Effect(t) /\ Flat!Result(t) = WriteReply(t)
    BY <1>1, <2>1, WriteEffect, SameWriteReply, SameWriteEffect
  <2>3. Flat!Count(t) = IF InRange(t) /\ t.ext = NoExtension THEN t.length ELSE 0
    BY <2>1, SameReading DEF Flat!Count
  <2>4. Flat!Probe(t)
    BY <1>2, <1>4, <2>2, <2>3 DEF Flat!Probe, transport_dbg_wr, Returned
  <2>5. QED
    BY <2>4 DEF Flat!FlatNext
<1>5. QED
  BY <1>3, <1>4 DEF transport_dbg

LEMMA FlatStep == IInv /\ [BramNext]_bramvars => [Flat!FlatNext]_Flat!flatvars
<1> SUFFICES ASSUME IInv, [BramNext]_bramvars PROVE [Flat!FlatNext]_Flat!flatvars
  OBVIOUS
<1>1. ASSUME UNCHANGED ramvars PROVE memory' = memory
  BY <1>1 DEF ramvars, memory, Addr, m_mem_addr_width, ByteAt, get_page
<1>2. CASE MasterSends
  <2>1. PICK ch \in Channel : \E t \in Flat!Request(ch) : Arrive(ch, t)
    BY <1>2 DEF MasterSends, Flat!Request, Channel
  <2> PICK t \in Flat!Request(ch) : Arrive(ch, t)
    BY <2>1
  <2>2. /\ trans' = [trans EXCEPT ![ch] = Append(@, t)]
        /\ resp_vec' = resp_vec /\ dbg' = dbg /\ memory' = memory
    BY <1>1, <1>2, <2>1 DEF MasterSends, Arrive
  <2>3. Flat!Accept(ch)
    BY <2>1, <2>2 DEF Flat!Accept, memory, Addr
  <2>4. QED
    BY <2>3 DEF Flat!FlatNext
<1>3. CASE \E ch \in Channel : MasterSamples(ch)
  <2>1. UNCHANGED <<trans, resp_vec, dbg, ramvars>>
    BY <1>3 DEF MasterSamples, Sample
  <2>2. QED
    BY <1>1, <2>1 DEF Flat!flatvars, memory, Addr
<1>4. CASE methodProcessTransactionRead
  BY <1>4, FlatRead
<1>5. CASE methodProcessTransactionWrite
  BY <1>5, FlatWrite
<1>6. CASE \E t \in DebugRequest : transport_dbg(t)
  BY <1>6, FlatProbe
<1>7. CASE UNCHANGED bramvars
  <2>1. UNCHANGED <<trans, resp_vec, dbg, ramvars>>
    BY <1>7 DEF bramvars, socketvars
  <2>2. QED
    BY <1>1, <2>1 DEF Flat!flatvars, memory, Addr
<1>8. QED
  BY <1>2, <1>3, <1>4, <1>5, <1>6, <1>7 DEF BramNext

LEMMA FlatStart == BramInit => Flat!FlatInit
<1> SUFFICES ASSUME BramInit PROVE Flat!FlatInit
  OBVIOUS
<1>1. pageCache = << >>
  BY DEF BramInit, RamInit
<1>2. DOMAIN pageCache = {}
  BY <1>1
<1>3. ASSUME NEW a \in Addr PROVE ByteAt(a) = Junk
  BY <1>2, ByteIs DEF Addr
<1>4. memory = [a \in Addr |-> Junk]
  BY <1>3 DEF memory
<1>5. Flat!m_mem_addr_width = m_mem_addr_width
  BY DEF Flat!m_mem_addr_width, m_mem_addr_width
<1>6. QED
  BY <1>4, <1>5 DEF Flat!FlatInit, BramInit, SocketInit, NoCall, memory, Addr

\* axi_bram_memory_imp.cpp:135-405 with axi_bram_ram_fmodel.cxx: page by page
\* allocation, the wrapping of addresses, byte enables and the bookkeeping of
\* two methods are to the master one array of bytes.
THEOREM PagesAreFlat == BramSpec => ImplementsFlatMemory
BY FlatStart, FlatStep, Invariant, PTL
   DEF BramSpec, ImplementsFlatMemory, Flat!FlatSpec
=============================================================================
