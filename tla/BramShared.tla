----------------------------- MODULE BramShared -----------------------------
(***************************************************************************)
(* axi_bram_memory_imp on axi_bram_fmodel_shared_memory, as with           *)
(* SDX_USE_SHARED_MEMORY.  A step is what one activation of a method or    *)
(* one call of the debug transport does to the memory; BramCtrl has the    *)
(* queues around it, which do not depend on the memory.                    *)
(***************************************************************************)
EXTENDS AxiPayload, SharedModel

CONSTANTS Request,        \* the master's transactions
          PeerWrite,      \* bound: what the other process writes, at which index
          FileMax,        \* bound: no file grows longer
          NoByte

Imports(t) == t.ext.type = "IMPORT_BO"

ASSUME SharedAssumption ==
    /\ \A t \in Request : IsPayload(t)
    /\ NoByte \notin Byte

VARIABLES reply,    \* where the last transaction read and what, if it was a read
          wrote,    \* what was last put into each byte of a buffer
          borrowed  \* a file that is a buffer's by its name was imported

bramsharedvars == <<sharedvars, reply, wrote, borrowed>>

NoRead == [at |-> 0, data |-> <<>>]

Init ==
    /\ SharedInit
    /\ reply = NoRead
    /\ wrote = [a \in 0 .. m_mem_addr_width - 1 |-> NoByte]
    /\ borrowed = FALSE

\* Every kind of failure but undefined behaviour is answered TRUE with a name,
\* as is success.
AllocBO(t) == createPage(address(t), t.ext.size)
FreeBO(t) == freePage(address(t))

\* importBO ends without a return statement when all went well.
ImportBO(t) ==
    \/ Nothing
    \/ importBO(address(t), t.ext.file_name, t.ext.size)
    \/ Undefined

CopyBO(t) == copyBO(address(t), t.ext.file_name, t.ext.size,
                    t.ext.src_offset, t.ext.dst_offset)

\* importBO asks of no file whose it is.  From such an import on, two addresses
\* may name one file, and FREE_BO of one of them takes what the other has.
Borrows(t) ==
    /\ Imports(t)
    /\ \E offset \in 0 .. m_mem_addr_width - 1 :
           t.ext.file_name = get_mem_file_name(offset)

\* The buffer of byte a is there before and after the step.
BufferStays(a) ==
    /\ PagesAt(a) # {} /\ get_page(a) \in DOMAIN mapped
    /\ PagesAt(a)' # {} /\ get_page(a)' = get_page(a)
FileAt(a) == mapped[get_page(a)].file

Remember(new(_)) ==
    wrote' = [a \in DOMAIN wrote |-> IF BufferStays(a) THEN new(a) ELSE NoByte]

Extended(t) ==
    /\ \/ t.ext.type = "ALLOC_BO" /\ AllocBO(t)
       \/ t.ext.type = "FREE_BO" /\ FreeBO(t)
       \/ Imports(t) /\ ImportBO(t)
       \/ t.ext.type = "COPY_BO" /\ CopyBO(t)
    /\ Remember(LAMBDA a :
           IF t.ext.type = "COPY_BO" /\ t.ext.file_name = FileAt(a)
           THEN NoByte ELSE wrote[a])
    /\ reply' = NoRead
    /\ borrowed' = (borrowed \/ Borrows(t))

Data(t) == [i \in 0 .. t.length - 1 |-> t.data[i + 1]]

\* Without byte enables the buffer of the first byte is taken, and without
\* one the access is dropped and answered OK, whatever else it reaches.
Dropped(t) == PagesAt(address(t)) = {}

Write(t) ==
    /\ IF t.byte_enable = <<>>
       THEN writeDevMem(address(t), Data(t)) ELSE writeEnabled(Stored(t))
    /\ Remember(LAMBDA a :
           IF a \in DOMAIN Stored(t) /\ ~(t.byte_enable = <<>> /\ Dropped(t))
           THEN Stored(t)[a] ELSE wrote[a])
    /\ reply' = NoRead /\ UNCHANGED borrowed

Read(t) ==
    /\ ReadStep(address(t), Data(t))
    /\ reply' = IF Dropped(t) THEN NoRead
                ELSE [at |-> address(t), data |-> readDevMem(address(t), Data(t))]
    /\ UNCHANGED <<wrote, borrowed>>

\* A transaction out of range is answered with an address error.
Serve(t) ==
    IF ~InRange(t) THEN Nothing /\ reply' = NoRead /\ UNCHANGED <<wrote, borrowed>>
    ELSE IF t.command = "READ" THEN Read(t)
    ELSE IF t.ext # NoExtension THEN Extended(t)
    ELSE Write(t)

\* Another process writes a byte through its own mapping of a buffer's file.
PeerWrites(name, i, b) ==
    /\ i \in DOMAIN Content(name)
    /\ files' = [files EXCEPT ![name][i] = b]
    /\ UNCHANGED <<classvars, mapped, descriptors, wild, borrowed>>
    /\ reply' = NoRead
    /\ Remember(LAMBDA a : IF FileAt(a) = name /\ a - getBaseDdrAddress(a) = i
                           THEN b ELSE wrote[a])

ServeRequest == \E t \in Request : Serve(t)
PeerStep ==
    \E offset \in DOMAIN mOffsetFileMap, w \in PeerWrite :
        PeerWrites(mOffsetFileMap[offset], w.at, w.byte)

FilesBounded == \A name \in DOMAIN files' : Length(files'[name]) <= FileMax

Next == ~wild /\ (ServeRequest \/ PeerStep) /\ FilesBounded
Spec == Init /\ [][Next]_bramsharedvars

-----------------------------------------------------------------------------
\* While no undefined behaviour was met and no import named a buffer's file,
\* every buffer is a mapping of the file of its own base address, as long as the
\* buffer, whatever was freed, allocated and imported at other addresses.  A
\* buffer without a size has no mapping.
PageMapped(base) ==
    LET page == mPageCache[base]
        map == mapped[page.ptr] IN
    \/ page.size = 0 /\ page.ptr = MAP_FAILED
    \/ /\ page.ptr \in DOMAIN mapped
       /\ map.file = get_mem_file_name(base) /\ map.size = page.size
       /\ 0 .. page.size - 1 \subseteq DOMAIN Content(map.file)

PagesMapped == ~wild /\ ~borrowed => \A base \in DOMAIN mPageCache : PageMapped(base)

\* While no undefined behaviour was met and no import named a buffer's file, a
\* read that is not dropped returns what was last put into each byte of a buffer,
\* by the master or through the file by another process: two buffers may
\* overlap, and never share a byte.
ReadsReturnWrites ==
    ~wild /\ ~borrowed => \A i \in DOMAIN reply.data :
                              wrote[reply.at + i] \in {NoByte, reply.data[i]}

\* Every entry of mFileFdMap has an open descriptor of the file it is under,
\* and no other entry has it: COPY_BO writes where it says, and FREE_BO closes
\* no file of another buffer.
EntriesOpen ==
    \A name \in DOMAIN mFileFdMap :
        LET fd == mFileFdMap[name].fd IN
        fd \in DOMAIN descriptors /\ descriptors[fd].file = name
=============================================================================
