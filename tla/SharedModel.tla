----------------------------- MODULE SharedModel ----------------------------
(***************************************************************************)
(* axi_bram_fmodel_shared_memory: buffers that a master allocates, each a  *)
(* shared mapping of a file that another process may map as well.  Below   *)
(* the class's three maps is the operating system: live mappings, open     *)
(* descriptors and the files.  A pointer or a descriptor that was given    *)
(* back may be handed out again.                                           *)
(***************************************************************************)
EXTENDS Integers, FiniteSets, Functions

CONSTANTS Pointer,     \* bound: what mmap hands out, any that is free
          MAP_FAILED,  \* what it returns when there is nothing to map
          Descriptor   \* bound: what open hands out, the least that is free

ASSUME SystemAssumption ==
    /\ MAP_FAILED \notin Pointer
    /\ Descriptor \subseteq Nat

VARIABLES mPageCache,      \* base address -> pointer and size of its buffer
          mFileFdMap,      \* file name -> descriptor, pointer, size
          mOffsetFileMap,  \* base address -> file name, never erased
          mapped,          \* live pointer -> its file and size
          descriptors,     \* open descriptor -> its file and position
          files,           \* file name -> bytes
          wild             \* undefined behaviour was met

classvars == <<mPageCache, mFileFdMap, mOffsetFileMap>>
osvars == <<mapped, descriptors, files>>
sharedvars == <<classvars, osvars, wild>>

Without(f, S) == Restrict(f, DOMAIN f \ S)
With(f, x, y) == [z \in DOMAIN f \cup {x} |-> IF z = x THEN y ELSE f[z]]

\* The name has the base address in it and nothing else that varies.
get_mem_file_name(offset) == <<"buffer", offset>>

Content(name) == IF name \in DOMAIN files THEN files[name] ELSE << >>
Length(content) == Cardinality(DOMAIN content)
Least(S) == CHOOSE x \in S : \A y \in S : x <= y

\* ftruncate: cut, or filled up with zeros.
Resized(content, size) ==
    [i \in 0 .. size - 1 |-> IF i \in DOMAIN content THEN content[i] ELSE 0]

\* data is what is written at pos; a gap before it reads as zeros.
Overwritten(content, pos, data) ==
    LET end == pos + Length(data)
        size == IF end > Length(content) THEN end ELSE Length(content) IN
    [i \in 0 .. size - 1 |->
        IF i - pos \in DOMAIN data THEN data[i - pos]
        ELSE Resized(content, size)[i]]

SharedInit ==
    /\ mPageCache = << >> /\ mFileFdMap = << >> /\ mOffsetFileMap = << >>
    /\ mapped = << >> /\ descriptors = << >> /\ files = << >>
    /\ wild = FALSE

-----------------------------------------------------------------------------
\* Lookup by linear search in the order of base addresses.
Covers(base, a) == base <= a /\ a < base + mPageCache[base].size
PagesAt(a) == {base \in DOMAIN mPageCache : Covers(base, a)}
getBaseDdrAddress(a) == IF PagesAt(a) = {} THEN 0 ELSE Least(PagesAt(a))
get_page(a) == mPageCache[getBaseDdrAddress(a)].ptr

\* The bytes of the buffer at a that the memory unit can reach.
Readable(a) ==
    LET p == get_page(a) IN
    IF p \in DOMAIN mapped
    THEN (0 .. mapped[p].size - 1) \cap DOMAIN Content(mapped[p].file) ELSE {}

Undefined == wild' = TRUE /\ UNCHANGED <<classvars, osvars>>
Nothing == UNCHANGED sharedvars

\* data starts at address a and is copied in one go to where a's buffer is,
\* whether it ends in that buffer or not.
writeDevMem(a, data) ==
    LET at == a - getBaseDdrAddress(a)
        file == mapped[get_page(a)].file IN
    \/ PagesAt(a) = {} /\ Nothing
    \/ /\ PagesAt(a) # {}
       /\ {at + i : i \in DOMAIN data} \subseteq Readable(a)
       /\ files' = [files EXCEPT ![file] = Overwritten(@, at, data)]
       /\ UNCHANGED <<classvars, mapped, descriptors, wild>>
    \/ /\ PagesAt(a) # {}
       /\ ~({at + i : i \in DOMAIN data} \subseteq Readable(a))
       /\ Undefined

\* bytes are written one call each, every one to the buffer of its own address.
writeEnabled(bytes) ==
    LET live == {a \in DOMAIN bytes : PagesAt(a) # {}}
        At(a) == a - getBaseDdrAddress(a)
        Hits(f, i) == {a \in live : mapped[get_page(a)].file = f /\ At(a) = i} IN
    \/ /\ \A a \in live : At(a) \in Readable(a)
       /\ files' = [f \in DOMAIN files |-> [i \in DOMAIN files[f] |->
                       IF Hits(f, i) = {} THEN files[f][i]
                       ELSE bytes[Least(Hits(f, i))]]]
       /\ UNCHANGED <<classvars, mapped, descriptors, wild>>
    \/ (\E a \in live : At(a) \notin Readable(a)) /\ Undefined

\* Mutant: the base address is not subtracted.
readDevMem_slip(a, data) ==
    IF PagesAt(a) = {} \/ ~({a + i : i \in DOMAIN data} \subseteq Readable(a))
    THEN data
    ELSE [i \in DOMAIN data |-> Content(mapped[get_page(a)].file)[a + i]]

\* Where there is no buffer the caller's data stay as they are.
readDevMem(a, data) ==
    LET at == a - getBaseDdrAddress(a) IN
    IF PagesAt(a) = {} \/ ~({at + i : i \in DOMAIN data} \subseteq Readable(a))
    THEN data
    ELSE [i \in DOMAIN data |-> Content(mapped[get_page(a)].file)[at + i]]

ReadStep(a, data) ==
    LET at == a - getBaseDdrAddress(a) IN
    IF \/ PagesAt(a) = {}
       \/ {at + i : i \in DOMAIN data} \subseteq Readable(a)
    THEN Nothing ELSE Undefined

-----------------------------------------------------------------------------
\* freePage, as the state it leaves.  It looks the file up under the base
\* address, unmaps what the file's entry says and then the buffer's own
\* pointer, and closes a descriptor only when there is a buffer.
Freed(offset) ==
    LET name == mOffsetFileMap[offset]
        held == offset \in DOMAIN mOffsetFileMap /\ name \in DOMAIN mFileFdMap
        page == offset \in DOMAIN mPageCache
        entry == mFileFdMap[name]
        pointers == (IF held THEN {entry.ptr} ELSE {})
                       \cup (IF page THEN {mPageCache[offset].ptr} ELSE {})
    IN [pages |-> Without(mPageCache, {offset}),
        fds |-> IF held THEN Without(mFileFdMap, {name}) ELSE mFileFdMap,
        mapped |-> Without(mapped, pointers),
        open |-> IF held /\ page THEN Without(descriptors, {entry.fd})
                 ELSE descriptors]

Unfreed == [pages |-> mPageCache, fds |-> mFileFdMap,
            mapped |-> mapped, open |-> descriptors]

Becomes(s) ==
    /\ mPageCache' = s.pages /\ mFileFdMap' = s.fds
    /\ mapped' = s.mapped /\ descriptors' = s.open

\* Mutant: without mPageCache.erase, the buffer outlives its mapping.
freePage_slip(offset) ==
    /\ Becomes([Freed(offset) EXCEPT !.pages = mPageCache])
    /\ UNCHANGED <<mOffsetFileMap, files, wild>>

\* Mutant: without mFileFdMap.erase, the entry outlives its descriptor.
freePage_slip_fd(offset) ==
    /\ Becomes([Freed(offset) EXCEPT !.fds = mFileFdMap])
    /\ UNCHANGED <<mOffsetFileMap, files, wild>>

\* munmap of a pointer that was given back meets the mapping that has it now:
\* it goes, whole or, when its size is not the one munmap is told, in part.
Torn(offset) ==
    LET name == mOffsetFileMap[offset]
        Other(entry) == /\ entry.ptr \in DOMAIN mapped
                        /\ mapped[entry.ptr].size # entry.size IN
    \/ /\ offset \in DOMAIN mOffsetFileMap /\ name \in DOMAIN mFileFdMap
       /\ Other(mFileFdMap[name])
    \/ offset \in DOMAIN mPageCache /\ Other(mPageCache[offset])

freePage(offset) ==
    \/ Becomes(Freed(offset)) /\ UNCHANGED <<mOffsetFileMap, files, wild>>
    \/ Torn(offset) /\ Undefined

\* A size of 0 cannot be mapped, and no caller looks at what it gets.
mmap(s, size) == IF size = 0 THEN {MAP_FAILED} ELSE Pointer \ DOMAIN s.mapped

\* open and ftruncate of a file succeed: a descriptor is new in s and a pointer
\* is what mmap gave, and both are entered in the maps.
MapFile(s, offset, name, size, p, pages) ==
    LET fd == Least(Descriptor \ DOMAIN s.open) IN
    /\ Descriptor \ DOMAIN s.open # {}
    /\ mPageCache' = pages
    /\ mFileFdMap' = With(s.fds, name, [fd |-> fd, ptr |-> p, size |-> size])
    /\ mOffsetFileMap' = With(mOffsetFileMap, offset, name)
    /\ mapped' = IF size = 0 THEN s.mapped
                 ELSE With(s.mapped, p, [file |-> name, size |-> size])
    /\ descriptors' = With(s.open, fd, [file |-> name, pos |-> 0])
    /\ files' = With(files, name, Resized(Content(name), size))
    /\ UNCHANGED wild

\* createPage with p2p, its only use.  A buffer that covers the new base is
\* freed under the NEW base, which leaves it in place unless it starts there.
\* When it starts there and is the one the search is at, the search goes on
\* from an iterator that was erased.
Conflict(offset) == IF PagesAt(offset) = {} THEN Unfreed ELSE Freed(offset)
Erased(offset) == PagesAt(offset) # {} /\ getBaseDdrAddress(offset) = offset

createPage(offset, size) ==
    LET s == Conflict(offset)
        name == get_mem_file_name(offset) IN
    \/ Erased(offset) /\ Undefined
    \/ PagesAt(offset) # {} /\ Torn(offset) /\ Undefined
    \/ Becomes(s) /\ UNCHANGED <<mOffsetFileMap, files, wild>>  \* open fails
    \/ \E p \in mmap(s, size) :
          MapFile(s, offset, name, size, p,
                  With(s.pages, offset, [ptr |-> p, size |-> size]))

\* importBO enters a file, any it is given, under a base address without making
\* it a buffer.
importBO(offset, name, size) ==
    \E p \in mmap(Unfreed, size) :
        MapFile(Unfreed, offset, name, size, p, mPageCache)

\* copyBO: the offset is added to the descriptor's position (SEEK_CUR).  From
\* an address without a buffer write() has nothing to copy and fails.
copyBO(a, name, size, src_offset, dst_offset) ==
    LET from == a - getBaseDdrAddress(a) + src_offset
        inside == (from .. from + size - 1) \subseteq Readable(a)
        data == [i \in 0 .. size - 1 |->
                    Content(mapped[get_page(a)].file)[from + i]]
        fd == mFileFdMap[name].fd
        pos == descriptors[fd].pos + dst_offset
        file == descriptors[fd].file
        Move(to) == descriptors' = [descriptors EXCEPT ![fd].pos = to] IN
    \/ name \notin DOMAIN mFileFdMap /\ Nothing
    \/ /\ name \in DOMAIN mFileFdMap /\ PagesAt(a) = {}
       /\ Move(pos)
       /\ UNCHANGED <<classvars, mapped, files, wild>>
    \/ /\ name \in DOMAIN mFileFdMap /\ PagesAt(a) # {} /\ inside
       /\ Move(pos + size)
       /\ files' = With(files, file, Overwritten(Content(file), pos, data))
       /\ UNCHANGED <<classvars, mapped, wild>>
    \/ /\ name \in DOMAIN mFileFdMap /\ PagesAt(a) # {} /\ ~inside
       /\ Undefined
=============================================================================
