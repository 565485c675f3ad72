------------------------------ MODULE BramCtrl ------------------------------
(***************************************************************************)
(* axi_bram_ctrl with axi_bram_memory_imp and, as without                  *)
(* SDX_USE_SHARED_MEMORY, axi_bram_ram_fmodel: the memory that answers the *)
(* chip's AXI masters when the block design is simulated.  Reads and       *)
(* writes have a socket and a method each; the debug transport reaches the *)
(* memory at once, between any two activations.                            *)
(***************************************************************************)
EXTENDS AxiPayload, RamModel, TargetSocket

CONSTANTS ReadRequest, WriteRequest, DebugRequest

ASSUME BramAssumption ==
    /\ \A t \in ReadRequest : IsPayload(t) /\ t.command = "READ"
    /\ \A t \in WriteRequest : IsPayload(t) /\ t.command = "WRITE"
    /\ \A t \in DebugRequest : IsPayload(t)
    /\ Junk \notin Byte

\* 262144 bytes against 4096 pages of 1 MB in the block design's instance.
ASSUME CapacityAssumption == m_mem_addr_width <= N_1MBARRAYS * PAGESIZE

VARIABLE dbg   \* what the last debug call returned

bramvars == <<ramvars, socketvars, dbg>>

NoCall == [status |-> "incomplete", data |-> <<>>, count |-> 0]

BramInit == RamInit /\ SocketInit /\ dbg = NoCall

ReadReply(t) ==
    IF InRange(t)
    THEN [Complete(t, "OK") EXCEPT
              !.data = [i \in 1 .. t.length |-> ByteAt(address(t) + i - 1)]]
    ELSE Complete(t, "ADDRESS_ERROR")

\* The extension's answer and file name are set whatever its type.
ExtensionReply(t) ==
    [Complete(t, "OK") EXCEPT !.ext.resp = BufferRequest.ok,
                              !.ext.file_name = BufferRequest.file]

WriteReply(t) ==
    CASE ~InRange(t) -> Complete(t, "ADDRESS_ERROR")
      [] InRange(t) /\ t.ext # NoExtension -> ExtensionReply(t)
      [] OTHER -> Complete(t, "OK")

ReadMemory(t) == IF InRange(t) THEN readDevMem(Span(t)) ELSE UNCHANGED ramvars

WriteMemory(t) ==
    IF InRange(t) /\ t.ext = NoExtension
    THEN writeDevMem(Stored(t)) ELSE UNCHANGED ramvars

methodProcessTransactionRead ==
    LET t == Head(trans["rd"]) IN
    /\ Activate("rd", ReadReply(t))
    /\ IF is_trans_available("rd") THEN ReadMemory(t) ELSE UNCHANGED ramvars
    /\ UNCHANGED dbg

methodProcessTransactionWrite ==
    LET t == Head(trans["wr"]) IN
    /\ Activate("wr", WriteReply(t))
    /\ IF is_trans_available("wr") THEN WriteMemory(t) ELSE UNCHANGED ramvars
    /\ UNCHANGED dbg

Returned(t, count) == [status |-> t.status, data |-> t.data, count |-> count]

transport_dbg_rd(t) ==
    /\ t.command = "READ"
    /\ ReadMemory(t)
    /\ dbg' = Returned(ReadReply(t), IF InRange(t) THEN t.length ELSE 0)
    /\ UNCHANGED socketvars

transport_dbg_wr(t) ==
    /\ t.command = "WRITE"
    /\ WriteMemory(t)
    /\ dbg' = Returned(WriteReply(t),
                  IF InRange(t) /\ t.ext = NoExtension THEN t.length ELSE 0)
    /\ UNCHANGED socketvars

transport_dbg(t) == transport_dbg_rd(t) \/ transport_dbg_wr(t)

\* The master's side.
MasterSends ==
    /\ \/ \E t \in ReadRequest : Arrive("rd", t)
       \/ \E t \in WriteRequest : Arrive("wr", t)
    /\ UNCHANGED <<ramvars, dbg>>

MasterSamples(ch) == Sample(ch) /\ UNCHANGED <<ramvars, dbg>>

\* exit(1) ends all of it.
BramNext ==
    /\ ~exited
    /\ \/ MasterSends
       \/ \E ch \in Channel : MasterSamples(ch)
       \/ methodProcessTransactionRead
       \/ methodProcessTransactionWrite
       \/ \E t \in DebugRequest : transport_dbg(t)

BramSpec == BramInit /\ [][BramNext]_bramvars

\* The simulator runs an activated method, and the master samples what it is
\* sent; nothing says that another event or another transaction ever comes.
FairBramSpec ==
    /\ BramSpec
    /\ WF_bramvars(~exited /\ methodProcessTransactionRead)
    /\ WF_bramvars(~exited /\ methodProcessTransactionWrite)
    /\ \A ch \in Channel : WF_bramvars(~exited /\ MasterSamples(ch))

-----------------------------------------------------------------------------
Cell == Byte \cup {Junk}

BramTypeOK ==
    /\ DOMAIN pageCache \subseteq Pages(0 .. m_mem_addr_width - 1)
    /\ \A p \in DOMAIN pageCache : pageCache[p] \in [PageOffset -> Cell]
    /\ exited \in BOOLEAN
    /\ trans \in [Channel -> Seq(ReadRequest \cup WriteRequest)]
    /\ notified \in [Channel -> BOOLEAN]
    /\ unsampled \in [Channel -> BOOLEAN]

Waiting(ch) == trans[ch] # <<>> \/ resp_vec[ch] # <<>>

\* While anything waits there is an event to come: an activation takes one
\* transaction and sends one response, and any number of arrivals and samples
\* may have been one notification.
NoLostWakeup == \A ch \in Channel : Waiting(ch) => notified[ch] \/ unsampled[ch]

\* The wrapped address and the range check keep the model in its page limit,
\* at which get_page ends the whole simulation.
NeverExhausted == ~exited

\* Responses go on being sent as long as anything waits.
Sends(ch) == ~unsampled[ch] /\ unsampled'[ch]
EveryRequestServed ==
    \A ch \in Channel : <>[]Waiting(ch) => []<><<Sends(ch)>>_bramvars

\* Paging, wrapping and the methods' bookkeeping are invisible: the model is a
\* flat array of bytes that takes the transactions of each channel in order.
Flat == INSTANCE FlatMemory WITH
            memory <- [a \in 0 .. m_mem_addr_width - 1 |-> ByteAt(a)],
            waiting <- trans, answered <- resp_vec, probe <- dbg

ImplementsFlatMemory == Flat!FlatSpec
=============================================================================
