------------------------------ MODULE LoadOwner -----------------------------
(***************************************************************************)
(* CoreMem with a history variable that says which word the load lock of   *)
(* register_EX is held for, and what loads bring back under any            *)
(* instruction stream.  data_mem's ready is late by one cycle and stays up *)
(* one cycle too long, so the word on dmem_rdata may be an older access's. *)
(***************************************************************************)
EXTENDS CoreMem

CONSTANT Waiting      \* the lock is free, or its load is still in EX

VARIABLE owner        \* the address of the load that holds the lock

ASSUME LoadOwnerAssumption == Waiting \notin Word

ownervars == <<memcorevars, owner>>

OwnerInit == MemInit /\ owner = Waiting

\* What is in EX enters EX/MEM at this edge.
Advances(stall) == ~HC!stall_back(Hazard(CoreInput(NOP, TRUE, stall)))

\* The lock is taken with its load in EX, which keeps EX until it enters
\* EX/MEM: the first address to enter there is the load's.
Own(stall) ==
    owner' = IF lstate' # "L_BUSY" THEN Waiting
             ELSE IF owner = Waiting /\ Advances(stall) THEN exmem'.addr
             ELSE owner

OwnerClock(instr, fetched, stall) ==
    MemClock(instr, fetched, stall) /\ Own(stall)

OwnerNext == \E instr \in Fetchable, fetched \in FetchReady,
                stall \in StallValues : OwnerClock(instr, fetched, stall)

OwnerSpec == OwnerInit /\ [][OwnerNext]_ownervars

-----------------------------------------------------------------------------
\* register_EX.v:64-81, 120-127: when the load whose address went on the bus
\* ends L_BUSY, what is captured for it is its own word: neither the data
\* under a ready that was up before it (StaleReady), nor, when it has left
\* EX/MEM on that ready (LateReady), the data of the access behind it.
\* It says nothing of a lock that the answer of an older load ends while its own
\* load is still in EX (owner = Waiting): the code does that to lw; nop; lw; lw.
LockCapturesOwn ==
    [][lstate' = "L_RELEASE" /\ owner # Waiting
        => ld'.saved = mem[DM!word_addr(owner)]]_ownervars
=============================================================================
