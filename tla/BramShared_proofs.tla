-------------------------- MODULE BramShared_proofs -------------------------
(***************************************************************************)
(* Proofs about BramShared, for any buffers, files, requests and bounds:   *)
(* the three maps of the class stay consistent with what the operating     *)
(* system has mapped and opened.                                           *)
(***************************************************************************)
EXTENDS BramShared, FiniteSetTheorems, WellFoundedInduction, TLAPS

Addr == 0 .. m_mem_addr_width - 1
Own(base) == get_mem_file_name(base)
Foreign(name) == \A a \in Addr : name # Own(a)

\* An entry or a buffer without a size has no mapping, any other one of its file.
Backed(s, handle, name) ==
    \/ handle.size = 0 /\ handle.ptr = MAP_FAILED
    \/ /\ handle.ptr \in DOMAIN s.mapped
       /\ s.mapped[handle.ptr].file = name
       /\ s.mapped[handle.ptr].size = handle.size

\* What holds of the state, and of the one createPage has after it freed a
\* conflicting buffer and before it maps the new one.  An own entry may be
\* stale after an import took its base address; it is not looked up then.
PagesSound(s) ==
    \A base \in DOMAIN s.pages :
        LET page == s.pages[base] IN
        /\ base \in Addr
        /\ Backed(s, page, Own(base))
        /\ page.size \in Nat
        /\ 0 .. page.size - 1 \subseteq DOMAIN Content(Own(base))

FdsSound(s) ==
    \A name \in DOMAIN s.fds :
        LET entry == s.fds[name] IN
        /\ entry.fd \in DOMAIN s.open
        /\ s.open[entry.fd].file = name
        /\ s.open[entry.fd].pos \in Nat
        /\ Foreign(name) => Backed(s, entry, name)

OwnSound(s) ==
    \A o \in DOMAIN mOffsetFileMap :
        mOffsetFileMap[o] = Own(o) /\ Own(o) \in DOMAIN s.fds =>
            o \in DOMAIN s.pages /\ s.fds[Own(o)].ptr = s.pages[o].ptr

Sound(s) == /\ PagesSound(s) /\ FdsSound(s) /\ OwnSound(s)
            /\ MAP_FAILED \notin DOMAIN s.mapped

\* An import leaves its base address with a foreign name.
NamesOK == \A o \in DOMAIN mOffsetFileMap :
              o \in Addr /\ (mOffsetFileMap[o] = Own(o) \/ Foreign(mOffsetFileMap[o]))

IsContent(content) == \E k \in Nat : DOMAIN content = 0 .. k - 1
FilesOK == \A name \in DOMAIN files : IsContent(files[name])

IInv == Sound(Unfreed) /\ NamesOK /\ FilesOK

-----------------------------------------------------------------------------
\* Two base addresses never have one file.
LEMMA OwnIsOne ==
    ASSUME NEW a, NEW b, Own(a) = Own(b)
    PROVE  a = b
  BY DEF Own, get_mem_file_name

LEMMA LeastIs ==
    ASSUME NEW S, S \subseteq Nat, S # {}
    PROVE  Least(S) \in S /\ \A y \in S : Least(S) <= y
<1>1. \E x \in S : \A y \in S : ~(<<y, x>> \in OpToRel(<, Nat))
  BY NatLessThanWellFounded, WFMin
<1>2. \A x, y \in Nat : <<y, x>> \in OpToRel(<, Nat) <=> y < x
  BY DEF OpToRel
<1>3. \A x, y \in Nat : ~(y < x) => x <= y
  OBVIOUS
<1>4. \E x \in S : \A y \in S : x <= y
  BY <1>1, <1>2, <1>3
<1>5. QED
  BY <1>4 DEF Least

LEMMA LengthIs ==
    ASSUME NEW content, NEW k \in Nat, DOMAIN content = 0 .. k - 1
    PROVE  Length(content) = k
<1>1. Cardinality(0 .. k - 1) = k
  BY FS_Interval
<1>2. QED
  BY <1>1 DEF Length

LEMMA ResizedIs ==
    ASSUME NEW content, NEW size \in Nat
    PROVE  DOMAIN Resized(content, size) = 0 .. size - 1
  BY DEF Resized

\* Writing never makes a file shorter.
LEMMA OverwrittenIs ==
    ASSUME NEW content, IsContent(content), NEW data, IsContent(data), NEW pos \in Nat
    PROVE  /\ IsContent(Overwritten(content, pos, data))
           /\ DOMAIN content \subseteq DOMAIN Overwritten(content, pos, data)
<1>1. PICK k \in Nat : DOMAIN content = 0 .. k - 1
  BY DEF IsContent
<1>2. PICK n \in Nat : DOMAIN data = 0 .. n - 1
  BY DEF IsContent
<1>3. Length(content) = k /\ Length(data) = n
  BY <1>1, <1>2, LengthIs
<1> DEFINE size == IF pos + n > k THEN pos + n ELSE k
<1>4. DOMAIN Overwritten(content, pos, data) = 0 .. size - 1
  BY <1>3 DEF Overwritten
<1>5. size \in Nat /\ k <= size
  OBVIOUS
<1> HIDE DEF size
<1>6. 0 .. k - 1 \subseteq 0 .. size - 1
  BY <1>5
<1>7. QED
  BY <1>1, <1>4, <1>5, <1>6 DEF IsContent

LEMMA AddressType ==
    ASSUME NEW t \in Request
    PROVE  address(t) \in Addr
<1>1. t.address \in Nat /\ m_mem_addr_width \in Nat \ {0}
  BY SharedAssumption, PayloadAssumption DEF IsPayload, m_mem_addr_width
<1>2. QED
  BY <1>1 DEF address, Addr
-----------------------------------------------------------------------------
\* What freePage unmaps is a mapping of the freed buffer's own file or of an
\* imported one, and the rest stays as it is.
FreedPointersAre(s, o) ==
    /\ \A q \in DOMAIN s.mapped : q \in DOMAIN mapped /\ s.mapped[q] = mapped[q]
    /\ \A q \in DOMAIN mapped : q \notin DOMAIN s.mapped =>
          mapped[q].file = Own(o) \/ Foreign(mapped[q].file)

LEMMA FreedPointers ==
    ASSUME IInv, NEW o \in Addr
    PROVE  FreedPointersAre(Freed(o), o)
<1> DEFINE name == mOffsetFileMap[o]
           held == o \in DOMAIN mOffsetFileMap /\ name \in DOMAIN mFileFdMap
           page == o \in DOMAIN mPageCache
           pointers == (IF held THEN {mFileFdMap[name].ptr} ELSE {})
                          \cup (IF page THEN {mPageCache[o].ptr} ELSE {})
<1>1. Freed(o).mapped = Without(mapped, pointers)
  BY DEF Freed
<1> HIDE DEF pointers
<1>2. /\ DOMAIN Freed(o).mapped = DOMAIN mapped \ pointers
      /\ \A q \in DOMAIN Freed(o).mapped : Freed(o).mapped[q] = mapped[q]
  BY <1>1 DEF Without, Restrict
<1>3. /\ PagesSound(Unfreed) /\ FdsSound(Unfreed) /\ OwnSound(Unfreed) /\ NamesOK
      /\ MAP_FAILED \notin DOMAIN mapped
  BY DEF IInv, Sound, Unfreed
<1>4. page => \/ mPageCache[o].ptr = MAP_FAILED
              \/ mapped[mPageCache[o].ptr].file = Own(o)
  BY <1>3 DEF PagesSound, Backed, Unfreed
<1>5. held => name = Own(o) \/ Foreign(name)
  BY <1>3 DEF NamesOK
<1>6. held /\ Foreign(name) => \/ mFileFdMap[name].ptr = MAP_FAILED
                               \/ mapped[mFileFdMap[name].ptr].file = name
  BY <1>3 DEF FdsSound, Backed, Unfreed
<1>7. held /\ name = Own(o) => page /\ mFileFdMap[name].ptr = mPageCache[o].ptr
  BY <1>3 DEF OwnSound, Unfreed
<1>8. \A q \in pointers : \/ q \notin DOMAIN mapped
                         \/ mapped[q].file = Own(o) \/ Foreign(mapped[q].file)
  BY <1>3, <1>4, <1>5, <1>6, <1>7 DEF pointers
<1>9. QED
  BY <1>2, <1>8 DEF FreedPointersAre

\* freePage takes nothing from another buffer, and the descriptor it closes is
\* the one of the entry it erases.
LEMMA FreedSound ==
    ASSUME IInv, NEW o \in Addr
    PROVE  Sound(Freed(o))
<1> DEFINE F == Freed(o)
           name == mOffsetFileMap[o]
           held == o \in DOMAIN mOffsetFileMap /\ name \in DOMAIN mFileFdMap
           page == o \in DOMAIN mPageCache
           pointers == (IF held THEN {mFileFdMap[name].ptr} ELSE {})
                          \cup (IF page THEN {mPageCache[o].ptr} ELSE {})
<1>1. /\ F.pages = Without(mPageCache, {o})
      /\ F.fds = IF held THEN Without(mFileFdMap, {name}) ELSE mFileFdMap
      /\ F.mapped = Without(mapped, pointers)
      /\ F.open = IF held /\ page THEN Without(descriptors, {mFileFdMap[name].fd})
                  ELSE descriptors
  BY DEF Freed
<1> HIDE DEF F, pointers
<1>2. /\ DOMAIN F.pages = DOMAIN mPageCache \ {o}
      /\ \A b \in DOMAIN F.pages : F.pages[b] = mPageCache[b]
  BY <1>1 DEF Without, Restrict
<1>3. /\ DOMAIN F.fds = IF held THEN DOMAIN mFileFdMap \ {name} ELSE DOMAIN mFileFdMap
      /\ \A n \in DOMAIN F.fds : F.fds[n] = mFileFdMap[n]
  BY <1>1 DEF Without, Restrict
<1>4. /\ DOMAIN F.mapped = DOMAIN mapped \ pointers
      /\ \A p \in DOMAIN F.mapped : F.mapped[p] = mapped[p]
  BY <1>1 DEF Without, Restrict
<1>5. /\ DOMAIN F.open = IF held /\ page THEN DOMAIN descriptors \ {mFileFdMap[name].fd}
                         ELSE DOMAIN descriptors
      /\ \A fd \in DOMAIN F.open : F.open[fd] = descriptors[fd]
  BY <1>1 DEF Without, Restrict
<1>6. /\ PagesSound(Unfreed) /\ FdsSound(Unfreed) /\ OwnSound(Unfreed) /\ NamesOK
      /\ MAP_FAILED \notin DOMAIN mapped
  BY DEF IInv, Sound, Unfreed
<1>7. FreedPointersAre(F, o)
  BY FreedPointers DEF F
<1>8. PagesSound(F)
  <2> SUFFICES ASSUME NEW b \in DOMAIN F.pages
               PROVE  /\ b \in Addr
                      /\ Backed(F, F.pages[b], Own(b))
                      /\ F.pages[b].size \in Nat
                      /\ 0 .. F.pages[b].size - 1 \subseteq DOMAIN Content(Own(b))
    BY DEF PagesSound
  <2>1. b \in DOMAIN mPageCache /\ b # o /\ F.pages[b] = mPageCache[b]
    BY <1>2
  <2>2. /\ b \in Addr /\ Backed(Unfreed, mPageCache[b], Own(b))
        /\ mPageCache[b].size \in Nat
        /\ 0 .. mPageCache[b].size - 1 \subseteq DOMAIN Content(Own(b))
    BY <1>6, <2>1 DEF PagesSound, Unfreed
  <2>3. CASE mPageCache[b].ptr \in DOMAIN mapped
    <3>1. /\ mapped[mPageCache[b].ptr].file = Own(b)
          /\ mapped[mPageCache[b].ptr].size = mPageCache[b].size
      BY <1>6, <2>2, <2>3 DEF Backed, Unfreed
    <3>2. mPageCache[b].ptr \in DOMAIN F.mapped
      BY <1>7, <2>1, <2>2, <2>3, <3>1, OwnIsOne DEF Foreign, FreedPointersAre
    <3>3. QED
      BY <1>4, <2>1, <2>2, <3>1, <3>2 DEF Backed
  <2>4. CASE mPageCache[b].ptr \notin DOMAIN mapped
    BY <2>1, <2>2, <2>4 DEF Backed, Unfreed
  <2>5. QED
    BY <2>3, <2>4
<1>9. FdsSound(F)
  <2> SUFFICES ASSUME NEW n \in DOMAIN F.fds
               PROVE  /\ F.fds[n].fd \in DOMAIN F.open
                      /\ F.open[F.fds[n].fd].file = n
                      /\ F.open[F.fds[n].fd].pos \in Nat
                      /\ Foreign(n) => Backed(F, F.fds[n], n)
    BY DEF FdsSound
  <2>1. n \in DOMAIN mFileFdMap /\ F.fds[n] = mFileFdMap[n] /\ (held => n # name)
    BY <1>3
  <2>2. /\ mFileFdMap[n].fd \in DOMAIN descriptors
        /\ descriptors[mFileFdMap[n].fd].file = n
        /\ descriptors[mFileFdMap[n].fd].pos \in Nat
        /\ Foreign(n) => Backed(Unfreed, mFileFdMap[n], n)
    BY <1>6, <2>1 DEF FdsSound, Unfreed
  <2>3. held => descriptors[mFileFdMap[name].fd].file = name
    BY <1>6 DEF FdsSound, Unfreed
  <2>4. mFileFdMap[n].fd \in DOMAIN F.open
    BY <1>5, <2>1, <2>2, <2>3
  <2>5. ASSUME Foreign(n), mFileFdMap[n].ptr \in DOMAIN mapped
        PROVE  Backed(F, mFileFdMap[n], n)
    <3>1. n # Own(o)
      BY <2>5 DEF Foreign
    <3>2. page => \/ mPageCache[o].ptr = MAP_FAILED
                  \/ mapped[mPageCache[o].ptr].file = Own(o)
      BY <1>6 DEF PagesSound, Backed, Unfreed
    <3>3. held => \/ mFileFdMap[name].ptr = MAP_FAILED
                  \/ mapped[mFileFdMap[name].ptr].file = name
                  \/ mFileFdMap[name].ptr = mPageCache[o].ptr /\ page
      BY <1>6 DEF NamesOK, FdsSound, OwnSound, Backed, Unfreed
    <3>4. /\ mapped[mFileFdMap[n].ptr].file = n
          /\ mapped[mFileFdMap[n].ptr].size = mFileFdMap[n].size
      BY <1>6, <2>2, <2>5 DEF Backed, Unfreed
    <3>5. mFileFdMap[n].ptr \notin pointers
      BY <1>6, <2>1, <2>5, <3>1, <3>2, <3>3, <3>4 DEF pointers
    <3>6. QED
      BY <1>4, <2>5, <3>4, <3>5 DEF Backed
  <2>6. ASSUME Foreign(n), mFileFdMap[n].ptr \notin DOMAIN mapped
        PROVE  Backed(F, mFileFdMap[n], n)
    BY <2>2, <2>6 DEF Backed, Unfreed
  <2>7. QED
    BY <1>5, <2>1, <2>2, <2>4, <2>5, <2>6
<1>10. OwnSound(F)
  <2> SUFFICES ASSUME NEW q \in DOMAIN mOffsetFileMap,
                      mOffsetFileMap[q] = Own(q), Own(q) \in DOMAIN F.fds
               PROVE  q \in DOMAIN F.pages /\ F.fds[Own(q)].ptr = F.pages[q].ptr
    BY DEF OwnSound
  <2>1. q \in DOMAIN mPageCache /\ mFileFdMap[Own(q)].ptr = mPageCache[q].ptr
    BY <1>3, <1>6 DEF OwnSound, Unfreed
  <2>2. q # o
    BY <1>3
  <2>3. QED
    BY <1>2, <1>3, <2>1, <2>2
<1>11. MAP_FAILED \notin DOMAIN F.mapped
  BY <1>4, <1>6
<1>12. QED
  BY <1>8, <1>9, <1>10, <1>11 DEF Sound, F

\* A state without anything to map, and one that maps what is sound.
LEMMA BecomesSound ==
    ASSUME NamesOK, FilesOK, NEW s, Sound(s), Becomes(s),
           UNCHANGED <<mOffsetFileMap, files>>
    PROVE  IInv'
<1>1. /\ Unfreed'.pages = s.pages /\ Unfreed'.fds = s.fds
      /\ Unfreed'.mapped = s.mapped /\ Unfreed'.open = s.open
  BY DEF Becomes, Unfreed
<1>2. PagesSound(Unfreed)'
  BY <1>1 DEF Sound, PagesSound, Backed, Content, Unfreed, Addr, Own, get_mem_file_name,
              m_mem_addr_width
<1>3. FdsSound(Unfreed)'
  BY <1>1 DEF Sound, FdsSound, Backed, Unfreed, Foreign, Own, get_mem_file_name, Addr,
              m_mem_addr_width
<1>4. OwnSound(Unfreed)'
  BY <1>1 DEF Sound, OwnSound, Unfreed, Own, get_mem_file_name
<1>5. NamesOK' /\ FilesOK'
  BY DEF NamesOK, FilesOK, Foreign, Own, get_mem_file_name, Addr, m_mem_addr_width
<1>6. MAP_FAILED \notin DOMAIN Unfreed'.mapped
  BY <1>1 DEF Sound
<1>7. QED
  BY <1>2, <1>3, <1>4, <1>5, <1>6 DEF IInv, Sound

\* A file that is mapped under a base address, as that address's buffer if it
\* has its name and beside the buffers if it is foreign.
LEMMA MapSound ==
    ASSUME NamesOK, FilesOK, NEW s, Sound(s), NEW o \in Addr, NEW name,
           NEW size \in Nat, NEW p \in mmap(s, size), NEW pages,
           MapFile(s, o, name, size, p, pages),
           \/ name = Own(o) /\ pages = With(s.pages, o, [ptr |-> p, size |-> size])
           \/ Foreign(name) /\ pages = s.pages
    PROVE  IInv'
<1> DEFINE fd == Least(Descriptor \ DOMAIN s.open)
           new == Resized(Content(name), size)
<1>1. /\ mPageCache' = pages
      /\ mFileFdMap' = With(s.fds, name, [fd |-> fd, ptr |-> p, size |-> size])
      /\ mOffsetFileMap' = With(mOffsetFileMap, o, name)
      /\ mapped' = IF size = 0 THEN s.mapped
                   ELSE With(s.mapped, p, [file |-> name, size |-> size])
      /\ descriptors' = With(s.open, fd, [file |-> name, pos |-> 0])
      /\ files' = With(files, name, new)
  BY DEF MapFile
<1>2. DOMAIN new = 0 .. size - 1
  BY ResizedIs
<1>3. fd \notin DOMAIN s.open
  <2>1. Descriptor \ DOMAIN s.open # {}
    BY DEF MapFile
  <2>2. QED
    BY <2>1, LeastIs, SystemAssumption
<1> HIDE DEF fd, new
<1>4. /\ DOMAIN mFileFdMap' = DOMAIN s.fds \cup {name}
      /\ mFileFdMap'[name] = [fd |-> fd, ptr |-> p, size |-> size]
      /\ \A n \in DOMAIN s.fds : n # name => mFileFdMap'[n] = s.fds[n]
  BY <1>1 DEF With
<1>5. /\ DOMAIN mOffsetFileMap' = DOMAIN mOffsetFileMap \cup {o}
      /\ mOffsetFileMap'[o] = name
      /\ \A q \in DOMAIN mOffsetFileMap : q # o => mOffsetFileMap'[q] = mOffsetFileMap[q]
  BY <1>1 DEF With
<1>6. /\ size = 0 => p = MAP_FAILED /\ mapped' = s.mapped
      /\ size # 0 => /\ p # MAP_FAILED
                     /\ DOMAIN mapped' = DOMAIN s.mapped \cup {p}
                     /\ mapped'[p] = [file |-> name, size |-> size]
      /\ DOMAIN s.mapped \subseteq DOMAIN mapped'
      /\ \A q \in DOMAIN s.mapped : mapped'[q] = s.mapped[q]
  BY <1>1, SystemAssumption DEF With, mmap
<1>7. /\ DOMAIN descriptors' = DOMAIN s.open \cup {fd}
      /\ descriptors'[fd] = [file |-> name, pos |-> 0]
      /\ \A d \in DOMAIN s.open : descriptors'[d] = s.open[d]
  BY <1>1, <1>3 DEF With
<1>8. /\ DOMAIN files' = DOMAIN files \cup {name}
      /\ files'[name] = new
      /\ \A f \in DOMAIN files : f # name => files'[f] = files[f]
  BY <1>1 DEF With
<1>9. \A f : f # name => Content(f)' = Content(f)
  BY <1>8 DEF Content
<1>10. /\ DOMAIN mPageCache' \subseteq DOMAIN s.pages \cup {o}
       /\ DOMAIN s.pages \subseteq DOMAIN mPageCache'
       /\ name = Own(o) => /\ o \in DOMAIN mPageCache'
                           /\ mPageCache'[o] = [ptr |-> p, size |-> size]
       /\ \A b \in DOMAIN mPageCache' :
             ~(b = o /\ name = Own(o)) => b \in DOMAIN s.pages /\ mPageCache'[b] = s.pages[b]
  <2>1. CASE name = Own(o) /\ pages = With(s.pages, o, [ptr |-> p, size |-> size])
    BY <1>1, <2>1 DEF With
  <2>2. CASE Foreign(name) /\ pages = s.pages
    BY <1>1, <2>2 DEF Foreign
  <2>3. QED
    BY <2>1, <2>2
<1>11. PagesSound(Unfreed)'
  <2> SUFFICES ASSUME NEW b \in DOMAIN mPageCache'
               PROVE  /\ b \in Addr
                      /\ Backed([mapped |-> mapped'], mPageCache'[b], Own(b))
                      /\ mPageCache'[b].size \in Nat
                      /\ 0 .. mPageCache'[b].size - 1 \subseteq DOMAIN Content(Own(b))'
    BY DEF PagesSound, Backed, Unfreed, Addr, Own, get_mem_file_name, m_mem_addr_width
  <2>1. CASE b = o /\ name = Own(o)
    <3>1. Content(name)' = new
      BY <1>8 DEF Content
    <3>2. mPageCache'[b].ptr = p /\ mPageCache'[b].size = size
      BY <1>10, <2>1
    <3>3. Content(Own(b))' = new
      BY <2>1, <3>1
    <3>4. QED
      BY <1>2, <1>6, <2>1, <3>2, <3>3 DEF Backed
  <2>2. CASE ~(b = o /\ name = Own(o))
    <3>1. b \in DOMAIN s.pages /\ mPageCache'[b] = s.pages[b]
      BY <1>10, <2>2
    <3>2. /\ b \in Addr /\ Backed(s, s.pages[b], Own(b))
          /\ s.pages[b].size \in Nat
          /\ 0 .. s.pages[b].size - 1 \subseteq DOMAIN Content(Own(b))
      BY <3>1 DEF Sound, PagesSound
    <3>3. Own(b) # name
      BY <2>2, <3>2, OwnIsOne DEF Foreign
    <3>4. Content(Own(b))' = Content(Own(b))
      BY <1>9, <3>3 DEF Own, get_mem_file_name
    <3>5. QED
      BY <1>6, <3>1, <3>2, <3>4 DEF Backed
  <2>3. QED
    BY <2>1, <2>2
<1>12. FdsSound(Unfreed)'
  <2> SUFFICES ASSUME NEW n \in DOMAIN mFileFdMap'
               PROVE  /\ mFileFdMap'[n].fd \in DOMAIN descriptors'
                      /\ descriptors'[mFileFdMap'[n].fd].file = n
                      /\ descriptors'[mFileFdMap'[n].fd].pos \in Nat
                      /\ Foreign(n) => Backed([mapped |-> mapped'], mFileFdMap'[n], n)
    BY DEF FdsSound, Backed, Unfreed, Foreign, Addr, Own, get_mem_file_name, m_mem_addr_width
  <2>1. CASE n = name
    BY <1>4, <1>6, <1>7, <2>1 DEF Backed
  <2>2. CASE n # name
    <3>1. n \in DOMAIN s.fds /\ mFileFdMap'[n] = s.fds[n]
      BY <1>4, <2>2
    <3>2. /\ s.fds[n].fd \in DOMAIN s.open /\ s.open[s.fds[n].fd].file = n
          /\ s.open[s.fds[n].fd].pos \in Nat
          /\ Foreign(n) => Backed(s, s.fds[n], n)
      BY <3>1 DEF Sound, FdsSound
    <3>3. QED
      BY <1>6, <1>7, <3>1, <3>2 DEF Backed
  <2>3. QED
    BY <2>1, <2>2
<1>13. OwnSound(Unfreed)'
  <2> SUFFICES ASSUME NEW q \in DOMAIN mOffsetFileMap',
                      mOffsetFileMap'[q] = Own(q), Own(q) \in DOMAIN mFileFdMap'
               PROVE  /\ q \in DOMAIN mPageCache'
                      /\ mFileFdMap'[Own(q)].ptr = mPageCache'[q].ptr
    BY DEF OwnSound, Unfreed, Own, get_mem_file_name
  <2>1. CASE q = o
    BY <1>4, <1>5, <1>10, <2>1
  <2>2. CASE q # o
    <3>1. q \in DOMAIN mOffsetFileMap /\ mOffsetFileMap[q] = Own(q) /\ q \in Addr
      BY <1>5, <2>2 DEF NamesOK
    <3>2. Own(q) # name
      BY <2>2, <3>1, OwnIsOne DEF Foreign
    <3>3. Own(q) \in DOMAIN s.fds /\ mFileFdMap'[Own(q)] = s.fds[Own(q)]
      BY <1>4, <3>2
    <3>4. q \in DOMAIN s.pages /\ s.fds[Own(q)].ptr = s.pages[q].ptr
      BY <3>1, <3>3 DEF Sound, OwnSound
    <3>5. mPageCache'[q] = s.pages[q] /\ q \in DOMAIN mPageCache'
      BY <1>10, <2>2, <3>4
    <3>6. QED
      BY <3>3, <3>4, <3>5
  <2>3. QED
    BY <2>1, <2>2
<1>14. NamesOK'
  <2>1. name = Own(o) \/ Foreign(name)
    OBVIOUS
  <2>2. \A q \in DOMAIN mOffsetFileMap' :
           q \in Addr /\ (mOffsetFileMap'[q] = Own(q) \/ Foreign(mOffsetFileMap'[q]))
    BY <1>5, <2>1 DEF NamesOK
  <2>3. QED
    BY <2>2 DEF NamesOK, Foreign, Addr, Own, get_mem_file_name, m_mem_addr_width
<1>15. FilesOK'
  BY <1>2, <1>8 DEF FilesOK, IsContent
<1>16. MAP_FAILED \notin DOMAIN Unfreed'.mapped
  BY <1>6 DEF Sound, Unfreed
<1>17. QED
  BY <1>11, <1>12, <1>13, <1>14, <1>15, <1>16 DEF IInv, Sound

-----------------------------------------------------------------------------
\* Steps that leave the maps alone: bytes and positions may change.
LEMMA DataStep ==
    ASSUME IInv, UNCHANGED <<mPageCache, mFileFdMap, mOffsetFileMap, mapped>>,
           DOMAIN descriptors' = DOMAIN descriptors,
           \A fd \in DOMAIN descriptors :
              /\ descriptors'[fd].file = descriptors[fd].file
              /\ descriptors[fd].pos \in Nat => descriptors'[fd].pos \in Nat,
           \A f : DOMAIN Content(f) \subseteq DOMAIN Content(f)',
           FilesOK'
    PROVE  IInv'
<1>1. PagesSound(Unfreed)'
  <2> SUFFICES ASSUME NEW b \in DOMAIN mPageCache
               PROVE  /\ b \in Addr
                      /\ Backed(Unfreed, mPageCache[b], Own(b))
                      /\ mPageCache[b].size \in Nat
                      /\ 0 .. mPageCache[b].size - 1 \subseteq DOMAIN Content(Own(b))'
    BY DEF PagesSound, Backed, Unfreed, Addr, Own, get_mem_file_name, m_mem_addr_width
  <2>1. /\ b \in Addr /\ Backed(Unfreed, mPageCache[b], Own(b))
        /\ mPageCache[b].size \in Nat
        /\ 0 .. mPageCache[b].size - 1 \subseteq DOMAIN Content(Own(b))
    BY DEF IInv, Sound, PagesSound, Unfreed
  <2>2. DOMAIN Content(Own(b)) \subseteq DOMAIN Content(Own(b))'
    BY DEF Own, get_mem_file_name
  <2>3. QED
    BY <2>1, <2>2
<1>2. FdsSound(Unfreed)'
  <2> SUFFICES ASSUME NEW n \in DOMAIN mFileFdMap
               PROVE  /\ mFileFdMap[n].fd \in DOMAIN descriptors'
                      /\ descriptors'[mFileFdMap[n].fd].file = n
                      /\ descriptors'[mFileFdMap[n].fd].pos \in Nat
                      /\ Foreign(n) => Backed(Unfreed, mFileFdMap[n], n)
    BY DEF FdsSound, Backed, Unfreed, Foreign, Addr, Own, get_mem_file_name, m_mem_addr_width
  <2>1. /\ mFileFdMap[n].fd \in DOMAIN descriptors
        /\ descriptors[mFileFdMap[n].fd].file = n
        /\ descriptors[mFileFdMap[n].fd].pos \in Nat
        /\ Foreign(n) => Backed(Unfreed, mFileFdMap[n], n)
    BY DEF IInv, Sound, FdsSound, Unfreed
  <2>2. QED
    BY <2>1
<1>3. OwnSound(Unfreed)' /\ NamesOK'
  BY DEF IInv, Sound, OwnSound, NamesOK, Unfreed, Foreign, Own, get_mem_file_name,
         Addr, m_mem_addr_width
<1>4. MAP_FAILED \notin DOMAIN Unfreed'.mapped
  BY DEF IInv, Sound, Unfreed
<1>5. QED
  BY <1>1, <1>2, <1>3, <1>4 DEF IInv, Sound

\* One file gets new content, and is not cut.
LEMMA OneFile ==
    ASSUME FilesOK, NEW f, NEW content,
           files' = [files EXCEPT ![f] = content] \/ files' = With(files, f, content),
           IsContent(content), DOMAIN Content(f) \subseteq DOMAIN content
    PROVE  FilesOK' /\ \A g : DOMAIN Content(g) \subseteq DOMAIN Content(g)'
<1>1. ASSUME files' = [files EXCEPT ![f] = content]
      PROVE  FilesOK' /\ \A g : DOMAIN Content(g) \subseteq DOMAIN Content(g)'
  <2>1. DOMAIN files' = DOMAIN files
    BY <1>1
  <2>2. \A g \in DOMAIN files : files'[g] = IF g = f THEN content ELSE files[g]
    BY <1>1
  <2>3. QED
    BY <2>1, <2>2 DEF FilesOK, Content, IsContent
<1>2. ASSUME files' = With(files, f, content)
      PROVE  FilesOK' /\ \A g : DOMAIN Content(g) \subseteq DOMAIN Content(g)'
  <2>1. DOMAIN files' = DOMAIN files \cup {f}
    BY <1>2 DEF With
  <2>2. \A g \in DOMAIN files' : files'[g] = IF g = f THEN content ELSE files[g]
    BY <1>2 DEF With
  <2>3. QED
    BY <2>1, <2>2 DEF FilesOK, Content, IsContent
<1>3. QED
  BY <1>1, <1>2

-----------------------------------------------------------------------------
\* The step of each request.
LEMMA QuietStep ==
    ASSUME IInv, UNCHANGED <<classvars, osvars>>
    PROVE  IInv'
  BY DEF classvars, osvars, IInv, Sound, PagesSound, FdsSound, Backed, OwnSound, NamesOK,
         FilesOK, Unfreed, Foreign, Content, Own, get_mem_file_name, Addr,
         m_mem_addr_width

LEMMA AllocStep ==
    ASSUME IInv, NEW t \in Request, t.ext # NoExtension, AllocBO(t)
    PROVE  IInv'
<1> DEFINE o == address(t)
           size == t.ext.size
           s == Conflict(o)
<1>1. o \in Addr /\ size \in Nat
  BY AddressType, SharedAssumption DEF IsPayload, IsExtension
<1>2. Sound(s) /\ NamesOK /\ FilesOK
  BY <1>1, FreedSound DEF Conflict, IInv
<1>3. \/ Undefined
      \/ Becomes(s) /\ UNCHANGED <<mOffsetFileMap, files, wild>>
      \/ \E p \in mmap(s, size) :
            MapFile(s, o, Own(o), size, p, With(s.pages, o, [ptr |-> p, size |-> size]))
  BY DEF AllocBO, createPage, Own
<1> HIDE DEF o, size, s
<1>4. CASE Undefined
  BY <1>4, QuietStep DEF Undefined
<1>5. CASE Becomes(s) /\ UNCHANGED <<mOffsetFileMap, files, wild>>
  BY <1>2, <1>5, BecomesSound
<1>6. CASE \E p \in mmap(s, size) :
              MapFile(s, o, Own(o), size, p, With(s.pages, o, [ptr |-> p, size |-> size]))
  BY <1>1, <1>2, <1>6, MapSound
<1>7. QED
  BY <1>3, <1>4, <1>5, <1>6

LEMMA FreeStep ==
    ASSUME IInv, NEW t \in Request, FreeBO(t)
    PROVE  IInv'
<1>1. Sound(Freed(address(t)))
  BY AddressType, FreedSound
<1>2. CASE Undefined
  BY <1>2, QuietStep DEF Undefined
<1>3. CASE Becomes(Freed(address(t))) /\ UNCHANGED <<mOffsetFileMap, files, wild>>
  BY <1>1, <1>3, BecomesSound DEF IInv
<1>4. QED
  BY <1>2, <1>3 DEF FreeBO, freePage

LEMMA ImportStep ==
    ASSUME IInv, NEW t \in Request, t.ext # NoExtension, Imports(t), ImportBO(t),
           ~Borrows(t)
    PROVE  IInv'
<1> DEFINE o == address(t)
           name == t.ext.file_name
           size == t.ext.size
<1>1. o \in Addr /\ size \in Nat /\ Foreign(name)
  BY AddressType, SharedAssumption DEF IsPayload, IsExtension, Borrows, Foreign, Own, Addr
<1>2. Nothing \/ Undefined \/ importBO(o, name, size)
  BY DEF ImportBO
<1> HIDE DEF o, name, size
<1>3. CASE Nothing \/ Undefined
  BY <1>3, QuietStep DEF Nothing, Undefined, sharedvars
<1>4. CASE importBO(o, name, size)
  <2>1. PICK p \in mmap(Unfreed, size) :
               MapFile(Unfreed, o, name, size, p, mPageCache)
    BY <1>4 DEF importBO
  <2>2. Unfreed.mapped = mapped /\ Unfreed.pages = mPageCache
    BY DEF Unfreed
  <2>3. Sound(Unfreed) /\ NamesOK /\ FilesOK
    BY DEF IInv
  <2>4. QED
    BY <1>1, <2>1, <2>2, <2>3, MapSound
<1>5. QED
  BY <1>2, <1>3, <1>4

LEMMA ContentOK == ASSUME FilesOK, NEW f PROVE IsContent(Content(f))
<1>1. IsContent(<< >>)
  <2>1. DOMAIN << >> = 0 .. 0 - 1
    OBVIOUS
  <2>2. QED
    BY <2>1 DEF IsContent
<1>2. QED
  BY <1>1 DEF FilesOK, Content

LEMMA CopyStep ==
    ASSUME IInv, NEW t \in Request, t.ext # NoExtension, CopyBO(t)
    PROVE  IInv'
<1> DEFINE a == address(t)
           name == t.ext.file_name
           size == t.ext.size
           fd == mFileFdMap[name].fd
           pos == descriptors[fd].pos + t.ext.dst_offset
           file == descriptors[fd].file
           from == a - getBaseDdrAddress(a) + t.ext.src_offset
           data == [i \in 0 .. size - 1 |->
                       Content(mapped[get_page(a)].file)[from + i]]
           Moved(to) == /\ name \in DOMAIN mFileFdMap
                        /\ descriptors' = [descriptors EXCEPT ![fd].pos = to]
                        /\ UNCHANGED <<classvars, mapped>>
           Copied == files' = With(files, file, Overwritten(Content(file), pos, data))
<1>1. \/ Nothing \/ Undefined
      \/ Moved(pos) /\ UNCHANGED files
      \/ Moved(pos + size) /\ Copied
  BY Zenon DEF CopyBO, copyBO
<1>2. size \in Nat /\ t.ext.dst_offset \in Nat
  BY SharedAssumption DEF IsPayload, IsExtension
<1>3. CASE Nothing \/ Undefined
  BY <1>3, QuietStep DEF Nothing, Undefined, sharedvars
<1>4. ASSUME NEW to \in {pos, pos + size}, Moved(to), UNCHANGED files \/ Copied
      PROVE  IInv'
  <2>1. fd \in DOMAIN descriptors /\ descriptors[fd].pos \in Nat
    BY <1>4 DEF IInv, Sound, FdsSound, Unfreed
  <2>2. pos \in Nat /\ to \in Nat
    <3>1. pos \in Nat /\ pos + size \in Nat
      BY <1>2, <2>1
    <3>2. QED
      BY <3>1
  <2>3. IsContent(data)
    BY <1>2 DEF IsContent
  <2>4. FilesOK
    BY DEF IInv
  <2>5. /\ descriptors' = [descriptors EXCEPT ![fd].pos = to]
        /\ UNCHANGED <<mPageCache, mFileFdMap, mOffsetFileMap, mapped>>
    BY <1>4 DEF classvars
  <2> HIDE DEF data, pos, file, fd, size
  <2>6. FilesOK' /\ \A f : DOMAIN Content(f) \subseteq DOMAIN Content(f)'
    <3>1. CASE Copied
      <4>1. IsContent(Content(file))
        BY <2>4, ContentOK
      <4>2. QED
        BY <2>2, <2>3, <2>4, <3>1, <4>1, OverwrittenIs, OneFile
    <3>2. CASE UNCHANGED files
      BY <2>4, <3>2 DEF FilesOK, Content, IsContent
    <3>3. QED
      BY <1>4, <3>1, <3>2
  <2>7. /\ DOMAIN descriptors' = DOMAIN descriptors
        /\ \A d \in DOMAIN descriptors :
             /\ descriptors'[d].file = descriptors[d].file
             /\ descriptors[d].pos \in Nat => descriptors'[d].pos \in Nat
    BY <2>2, <2>5
  <2>8. QED
    BY <2>5, <2>6, <2>7, DataStep
<1>5. QED
  BY <1>1, <1>3, <1>4

\* The bytes of a write go into the file of one buffer.
LEMMA WriteDevMemStep ==
    ASSUME IInv, NEW a \in Addr, NEW data, IsContent(data), writeDevMem(a, data)
    PROVE  IInv'
<1> DEFINE at == a - getBaseDdrAddress(a)
           file == mapped[get_page(a)].file
<1>1. CASE UNCHANGED <<classvars, osvars>>
  BY <1>1, QuietStep
<1>2. CASE /\ PagesAt(a) # {}
           /\ files' = [files EXCEPT ![file] = Overwritten(@, at, data)]
           /\ UNCHANGED <<classvars, mapped, descriptors, wild>>
  <2>1. PagesAt(a) \subseteq Addr
    BY DEF PagesAt, IInv, Sound, PagesSound, Unfreed
  <2>2. getBaseDdrAddress(a) \in PagesAt(a)
    BY <1>2, <2>1, LeastIs DEF getBaseDdrAddress, Addr
  <2>3. getBaseDdrAddress(a) \in Nat /\ getBaseDdrAddress(a) <= a /\ a \in Nat
    BY <2>1, <2>2 DEF PagesAt, Covers, Addr
  <2>4. at \in Nat
    BY <2>3
  <2>5. FilesOK
    BY DEF IInv
  <2> HIDE DEF at, file
  <2>6. FilesOK' /\ \A f : DOMAIN Content(f) \subseteq DOMAIN Content(f)'
    <3>1. CASE file \in DOMAIN files
      <4>1. Content(file) = files[file] /\ IsContent(files[file])
        BY <2>5, <3>1 DEF Content, FilesOK
      <4>2. files' = [files EXCEPT ![file] = Overwritten(files[file], at, data)]
        BY <1>2
      <4>3. QED
        BY <2>4, <2>5, <4>1, <4>2, OverwrittenIs, OneFile
    <3>2. CASE file \notin DOMAIN files
      <4>1. DOMAIN files' = DOMAIN files /\ \A f \in DOMAIN files : files'[f] = files[f]
        BY <1>2, <3>2
      <4>2. QED
        BY <2>5, <4>1 DEF FilesOK, Content, IsContent
    <3>3. QED
      BY <3>1, <3>2
  <2>7. QED
    BY <1>2, <2>6, DataStep DEF classvars
<1>3. QED
  BY <1>1, <1>2 DEF writeDevMem, Nothing, Undefined, sharedvars

LEMMA SameDomains ==
    ASSUME FilesOK, DOMAIN files' = DOMAIN files,
           \A f \in DOMAIN files : DOMAIN files'[f] = DOMAIN files[f]
    PROVE  FilesOK' /\ \A f : DOMAIN Content(f) \subseteq DOMAIN Content(f)'
  BY DEF FilesOK, Content, IsContent

LEMMA WriteStep ==
    ASSUME IInv, NEW t \in Request, Write(t)
    PROVE  IInv'
<1>1. address(t) \in Addr /\ t.length \in Nat
  BY AddressType, SharedAssumption DEF IsPayload
<1>2. CASE writeDevMem(address(t), Data(t))
  <2>1. IsContent(Data(t))
    BY <1>1 DEF Data, IsContent
  <2>2. QED
    BY <1>1, <1>2, <2>1, WriteDevMemStep
<1>3. CASE writeEnabled(Stored(t))
  <2>1. CASE UNCHANGED <<classvars, osvars>>
    BY <2>1, QuietStep
  <2>2. CASE /\ DOMAIN files' = DOMAIN files
             /\ \A f \in DOMAIN files : DOMAIN files'[f] = DOMAIN files[f]
             /\ UNCHANGED <<classvars, mapped, descriptors, wild>>
    BY <2>2, SameDomains, DataStep DEF classvars, IInv
  <2>3. QED
    BY <1>3, <2>1, <2>2 DEF writeEnabled, Undefined
<1>4. QED
  BY <1>2, <1>3 DEF Write

LEMMA PeerStepKeeps ==
    ASSUME IInv, NEW name, NEW i, NEW b, PeerWrites(name, i, b)
    PROVE  IInv'
<1>1. /\ files' = [files EXCEPT ![name] = [@ EXCEPT ![i] = b]]
      /\ UNCHANGED <<classvars, mapped, descriptors, wild>>
  BY DEF PeerWrites
<1>2. /\ DOMAIN files' = DOMAIN files
      /\ \A f \in DOMAIN files : DOMAIN files'[f] = DOMAIN files[f]
  BY <1>1
<1>3. QED
  BY <1>1, <1>2, SameDomains, DataStep DEF classvars, IInv

LEMMA ServeStep ==
    ASSUME IInv, NEW t \in Request, Serve(t), ~borrowed'
    PROVE  IInv'
<1>1. CASE Nothing \/ Undefined
  BY <1>1, QuietStep DEF Nothing, Undefined, sharedvars
<1>2. CASE Read(t)
  BY <1>1, <1>2 DEF Read, ReadStep
<1>3. CASE Extended(t) /\ t.ext # NoExtension
  <2>1. ~Borrows(t)
    BY <1>3 DEF Extended
  <2>2. QED
    BY <1>3, <2>1, AllocStep, FreeStep, ImportStep, CopyStep DEF Extended
<1>4. CASE Write(t)
  BY <1>4, WriteStep
<1>5. QED
  BY <1>1, <1>2, <1>3, <1>4 DEF Serve

LEMMA InvInit == Init => IInv
<1> SUFFICES ASSUME Init PROVE IInv
  OBVIOUS
<1>1. /\ DOMAIN mPageCache = {} /\ DOMAIN mFileFdMap = {}
      /\ DOMAIN mOffsetFileMap = {} /\ DOMAIN files = {} /\ DOMAIN mapped = {}
  BY DEF Init, SharedInit
<1>2. QED
  BY <1>1 DEF IInv, Sound, PagesSound, FdsSound, OwnSound, NamesOK, FilesOK, Unfreed

\* An import of a buffer's file ends the soundness of the maps.
MapsInv == ~borrowed => IInv

LEMMA BorrowedStays == [Next]_bramsharedvars /\ ~borrowed' => ~borrowed
  BY DEF Next, ServeRequest, Serve, Read, Write, Extended, PeerStep, PeerWrites,
         bramsharedvars

LEMMA InvStep == MapsInv /\ [Next]_bramsharedvars => MapsInv'
<1> SUFFICES ASSUME MapsInv, [Next]_bramsharedvars, ~borrowed' PROVE IInv'
  BY DEF MapsInv
<1>1. IInv
  BY BorrowedStays DEF MapsInv
<1>2. CASE ServeRequest
  BY <1>1, <1>2, ServeStep DEF ServeRequest
<1>3. CASE PeerStep
  BY <1>1, <1>3, PeerStepKeeps DEF PeerStep
<1>4. CASE UNCHANGED bramsharedvars
  BY <1>1, <1>4, QuietStep DEF bramsharedvars, sharedvars
<1>5. QED
  BY <1>2, <1>3, <1>4 DEF Next

LEMMA Invariant == Spec => []MapsInv
<1>1. Init => MapsInv
  BY InvInit DEF MapsInv
<1>2. QED
  BY <1>1, InvStep, PTL DEF Spec

\* axi_bram_fmodel_shared_memory.cxx:288-390: as long as no import names a file
\* of one of the buffers, each buffer keeps the mapping of its own file, however
\* buffers of any size are allocated, freed and imported over one another.
THEOREM BuffersKept == Spec => []PagesMapped
<1>1. MapsInv => PagesMapped
  <2> SUFFICES ASSUME IInv, NEW b \in DOMAIN mPageCache PROVE PageMapped(b)
    BY DEF PagesMapped, MapsInv
  <2>1. /\ Backed(Unfreed, mPageCache[b], Own(b))
        /\ 0 .. mPageCache[b].size - 1 \subseteq DOMAIN Content(Own(b))
    BY DEF IInv, Sound, PagesSound, Unfreed
  <2>2. QED
    BY <2>1 DEF PageMapped, Backed, Unfreed, Own
<1>2. QED
  BY <1>1, Invariant, PTL

-----------------------------------------------------------------------------
\* The descriptors, whatever was imported.
EntriesSound(fds, open) ==
    \A name \in DOMAIN fds : /\ fds[name].fd \in DOMAIN open
                              /\ open[fds[name].fd].file = name

LEMMA FreedEntries ==
    ASSUME EntriesOpen, NEW o
    PROVE  EntriesSound(Freed(o).fds, Freed(o).open)
<1> DEFINE name == mOffsetFileMap[o]
           held == o \in DOMAIN mOffsetFileMap /\ name \in DOMAIN mFileFdMap
           page == o \in DOMAIN mPageCache
           F == Freed(o)
<1>1. /\ F.fds = IF held THEN Without(mFileFdMap, {name}) ELSE mFileFdMap
      /\ F.open = IF held /\ page THEN Without(descriptors, {mFileFdMap[name].fd})
                  ELSE descriptors
  BY DEF Freed
<1> HIDE DEF F
<1>2. /\ DOMAIN F.fds = IF held THEN DOMAIN mFileFdMap \ {name} ELSE DOMAIN mFileFdMap
      /\ \A n \in DOMAIN F.fds : F.fds[n] = mFileFdMap[n]
  BY <1>1 DEF Without, Restrict
<1>3. /\ DOMAIN F.open = IF held /\ page THEN DOMAIN descriptors \ {mFileFdMap[name].fd}
                         ELSE DOMAIN descriptors
      /\ \A fd \in DOMAIN F.open : F.open[fd] = descriptors[fd]
  BY <1>1 DEF Without, Restrict
<1>4. \A n \in DOMAIN mFileFdMap : /\ mFileFdMap[n].fd \in DOMAIN descriptors
                                   /\ descriptors[mFileFdMap[n].fd].file = n
  BY DEF EntriesOpen
<1>5. QED
  BY <1>2, <1>3, <1>4 DEF EntriesSound, F

LEMMA MapEntries ==
    ASSUME NEW s, EntriesSound(s.fds, s.open), NEW o, NEW name, NEW size, NEW p,
           NEW pages, MapFile(s, o, name, size, p, pages)
    PROVE  EntriesOpen'
<1> DEFINE fd == Least(Descriptor \ DOMAIN s.open)
<1>1. /\ mFileFdMap' = With(s.fds, name, [fd |-> fd, ptr |-> p, size |-> size])
      /\ descriptors' = With(s.open, fd, [file |-> name, pos |-> 0])
  BY DEF MapFile
<1>2. fd \notin DOMAIN s.open
  BY LeastIs, SystemAssumption DEF MapFile
<1> HIDE DEF fd
<1>3. /\ DOMAIN mFileFdMap' = DOMAIN s.fds \cup {name}
      /\ mFileFdMap'[name].fd = fd
      /\ \A n \in DOMAIN s.fds : n # name => mFileFdMap'[n] = s.fds[n]
  BY <1>1 DEF With
<1>4. /\ DOMAIN descriptors' = DOMAIN s.open \cup {fd}
      /\ descriptors'[fd].file = name
      /\ \A d \in DOMAIN s.open : descriptors'[d] = s.open[d]
  BY <1>1, <1>2 DEF With
<1>5. QED
  BY <1>3, <1>4 DEF EntriesOpen, EntriesSound

LEMMA EntriesUnchanged ==
    ASSUME EntriesOpen, UNCHANGED <<mFileFdMap, descriptors>>
    PROVE  EntriesOpen'
  BY DEF EntriesOpen

LEMMA BecomesEntries ==
    ASSUME NEW s, EntriesSound(s.fds, s.open), Becomes(s)
    PROVE  EntriesOpen'
  BY DEF Becomes, EntriesOpen, EntriesSound

LEMMA ExtendedEntries ==
    ASSUME EntriesOpen, NEW t \in Request, Extended(t)
    PROVE  EntriesOpen'
<1>1. EntriesSound(Unfreed.fds, Unfreed.open)
  BY DEF EntriesOpen, EntriesSound, Unfreed
<1>2. CASE Nothing \/ Undefined
  BY <1>2, EntriesUnchanged DEF Nothing, Undefined, sharedvars, classvars, osvars
<1>3. CASE AllocBO(t)
  <2>1. PICK s : s = Conflict(address(t)) /\ EntriesSound(s.fds, s.open)
    BY <1>1, FreedEntries DEF Conflict
  <2>2. \/ Undefined \/ Becomes(s)
        \/ \E o, name, size, p, pages : MapFile(s, o, name, size, p, pages)
    BY <1>3, <2>1 DEF AllocBO, createPage
  <2>3. QED
    BY <1>2, <2>1, <2>2, BecomesEntries, MapEntries
<1>4. CASE FreeBO(t)
  BY <1>2, <1>4, FreedEntries, BecomesEntries DEF FreeBO, freePage
<1>5. CASE ImportBO(t)
  BY <1>1, <1>2, <1>5, MapEntries DEF ImportBO, importBO
<1>6. CASE CopyBO(t)
  <2>1. PICK name : name = t.ext.file_name
    OBVIOUS
  <2>2. \/ Nothing \/ Undefined
        \/ /\ name \in DOMAIN mFileFdMap /\ UNCHANGED mFileFdMap
           /\ \E to : descriptors' = [descriptors EXCEPT ![mFileFdMap[name].fd].pos = to]
    BY <1>6, <2>1, Zenon DEF CopyBO, copyBO, classvars
  <2>3. ASSUME UNCHANGED mFileFdMap, NEW fd, NEW to,
               descriptors' = [descriptors EXCEPT ![fd].pos = to]
        PROVE  EntriesOpen'
    <3>1. DOMAIN descriptors' = DOMAIN descriptors
      BY <2>3
    <3>2. \A n \in DOMAIN mFileFdMap : /\ mFileFdMap[n].fd \in DOMAIN descriptors
                                       /\ descriptors[mFileFdMap[n].fd].file = n
      BY DEF EntriesOpen
    <3>3. \A d \in DOMAIN descriptors : descriptors'[d].file = descriptors[d].file
      BY <2>3
    <3>4. QED
      BY <2>3, <3>1, <3>2, <3>3 DEF EntriesOpen
  <2>4. QED
    BY <1>2, <2>2, <2>3
<1>7. QED
  BY <1>3, <1>4, <1>5, <1>6 DEF Extended

LEMMA EntriesNext == EntriesOpen /\ [Next]_bramsharedvars => EntriesOpen'
<1> SUFFICES ASSUME EntriesOpen, [Next]_bramsharedvars PROVE EntriesOpen'
  OBVIOUS
<1>1. \/ UNCHANGED <<mFileFdMap, descriptors>>
      \/ \E t \in Request : Extended(t)
  BY DEF Next, ServeRequest, Serve, Read, ReadStep, Write, writeDevMem, writeEnabled,
         PeerStep, PeerWrites, Nothing, Undefined, bramsharedvars, sharedvars,
         classvars, osvars
<1>2. QED
  BY <1>1, EntriesUnchanged, ExtendedEntries

\* axi_bram_fmodel_shared_memory.cxx:238-285, 354-390: whatever is imported, a
\* descriptor is closed with its entry and never under another, so a copy goes
\* to the named file.
THEOREM DescriptorsKept == Spec => []EntriesOpen
<1>1. Init => EntriesOpen
  BY DEF Init, SharedInit, EntriesOpen
<1>2. QED
  BY <1>1, EntriesNext, PTL DEF Spec
-----------------------------------------------------------------------------
\* Reads and writes.  The byte of address a, as a read of a alone finds it.
ByteOf(a) == Content(FileAt(a))[a - getBaseDdrAddress(a)]

BytesKept ==
    /\ DOMAIN wrote = Addr
    /\ \A a \in Addr :
          wrote[a] # NoByte => PagesAt(a) # {} /\ ByteOf(a) = wrote[a]

\* Where get_page and getBaseDdrAddress find a.
Located(a) ==
    LET b == getBaseDdrAddress(a) IN
    /\ b \in Addr
    /\ mPageCache[b].size \in Nat
    /\ b <= a /\ a < b + mPageCache[b].size
    /\ get_page(a) \in DOMAIN mapped
    /\ FileAt(a) = Own(b)
    /\ Readable(a) = 0 .. mPageCache[b].size - 1
    /\ a - b \in DOMAIN Content(Own(b))
    /\ \A c \in PagesAt(a) : b <= c

LEMMA BaseFound == IInv => \A a \in Addr : PagesAt(a) # {} => Located(a)
<1> SUFFICES ASSUME IInv, NEW a \in Addr, PagesAt(a) # {} PROVE Located(a)
  OBVIOUS
<1> DEFINE b == getBaseDdrAddress(a)
<1>1. \A c \in DOMAIN mPageCache :
         /\ c \in Addr
         /\ mPageCache[c].size # 0 => /\ mPageCache[c].ptr \in DOMAIN mapped
                                      /\ mapped[mPageCache[c].ptr].file = Own(c)
                                      /\ mapped[mPageCache[c].ptr].size = mPageCache[c].size
         /\ mPageCache[c].size \in Nat
         /\ 0 .. mPageCache[c].size - 1 \subseteq DOMAIN Content(Own(c))
  BY DEF IInv, Sound, PagesSound, Backed, Unfreed
<1>2. PagesAt(a) \subseteq Nat
  BY <1>1 DEF PagesAt, Addr
<1>3. b = Least(PagesAt(a))
  BY DEF getBaseDdrAddress
<1>4. b \in PagesAt(a) /\ \A c \in PagesAt(a) : b <= c
  BY <1>2, <1>3, LeastIs
<1>5. b \in DOMAIN mPageCache /\ b <= a /\ a < b + mPageCache[b].size
  BY <1>4 DEF PagesAt, Covers
<1>6. get_page(a) = mPageCache[b].ptr
  BY DEF get_page
<1> HIDE DEF b
<1>7. a \in Nat /\ b \in Nat /\ mPageCache[b].size # 0
  BY <1>1, <1>5 DEF Addr
<1>8. FileAt(a) = Own(b) /\ get_page(a) \in DOMAIN mapped
  BY <1>1, <1>5, <1>6, <1>7 DEF FileAt
<1>9. a - b \in 0 .. mPageCache[b].size - 1
  BY <1>1, <1>5, <1>7
<1>10. Readable(a) = 0 .. mPageCache[b].size - 1
  BY <1>1, <1>5, <1>6, <1>7 DEF Readable
<1>11. QED
  BY <1>1, <1>4, <1>5, <1>8, <1>9, <1>10 DEF Located, b

LEMMA BaseFoundNext ==
    (IInv => \A a \in Addr : PagesAt(a) # {} => Located(a))'
BY BaseFound, PTL

\* An access that starts at a0 and stays in the buffer of a0 reaches the same
\* bytes as one that starts further on: no other buffer is found there.
LEMMA OneBuffer ==
    ASSUME IInv, NEW a0 \in Addr, PagesAt(a0) # {}, NEW a \in Addr, a0 <= a,
           a - getBaseDdrAddress(a0) \in Readable(a0)
    PROVE  PagesAt(a) # {} /\ getBaseDdrAddress(a) = getBaseDdrAddress(a0)
<1> DEFINE b0 == getBaseDdrAddress(a0)
           b == getBaseDdrAddress(a)
<1>1. Located(a0)
  BY BaseFound
<1>2. b0 \in DOMAIN mPageCache
  <2>1. PagesAt(a0) \subseteq Nat
    BY DEF PagesAt, IInv, Sound, PagesSound, Unfreed, Addr
  <2>2. b0 = Least(PagesAt(a0)) /\ Least(PagesAt(a0)) \in PagesAt(a0)
    BY <2>1, LeastIs DEF getBaseDdrAddress
  <2>3. QED
    BY <2>2 DEF PagesAt
<1>3. /\ b0 \in Nat /\ a0 \in Nat /\ a \in Nat /\ mPageCache[b0].size \in Nat
      /\ b0 <= a0 /\ a - b0 \in 0 .. mPageCache[b0].size - 1
      /\ \A c \in PagesAt(a0) : b0 <= c
  BY <1>1 DEF Located, Addr
<1> HIDE DEF b0
<1>4. b0 \in PagesAt(a)
  BY <1>2, <1>3 DEF PagesAt, Covers
<1>5. Located(a)
  BY <1>4, BaseFound
<1>6. b \in PagesAt(a)
  <2>1. PagesAt(a) \subseteq Nat
    BY DEF PagesAt, IInv, Sound, PagesSound, Unfreed, Addr
  <2>2. b = Least(PagesAt(a)) /\ Least(PagesAt(a)) \in PagesAt(a)
    BY <1>4, <2>1, LeastIs DEF getBaseDdrAddress
  <2>3. QED
    BY <2>2
<1>7. /\ b \in Nat /\ b <= b0 /\ mPageCache[b].size \in Nat
      /\ a < b + mPageCache[b].size
  BY <1>4, <1>5 DEF Located, Addr
<1>8. b \in DOMAIN mPageCache
  BY <1>6 DEF PagesAt
<1> HIDE DEF b
<1>9. b \in PagesAt(a0)
  BY <1>3, <1>7, <1>8 DEF PagesAt, Covers
<1>10. b = b0
  BY <1>3, <1>7, <1>9
<1>11. QED
  BY <1>4, <1>10 DEF b, b0

\* One step, byte by byte: the file that is found at a is the one that was,
\* and has the byte.
LEMMA BytesStep ==
    ASSUME IInv, IInv', DOMAIN wrote' = Addr,
           \A a \in Addr : wrote'[a] # NoByte =>
              /\ BufferStays(a)
              /\ mapped'[get_page(a)].file = mapped[get_page(a)].file
              /\ \A b : b = getBaseDdrAddress(a) => Content(Own(b))'[a - b] = wrote'[a]
    PROVE  BytesKept'
<1> SUFFICES ASSUME NEW a \in Addr, wrote'[a] # NoByte
             PROVE  PagesAt(a)' # {} /\ ByteOf(a)' = wrote'[a]
  BY DEF BytesKept, Addr, m_mem_addr_width
<1>1. /\ PagesAt(a) # {} /\ PagesAt(a)' # {} /\ get_page(a)' = get_page(a)
  BY DEF BufferStays
<1>2. Located(a)
  BY <1>1, BaseFound
<1>3. Located(a)'
  BY <1>1, BaseFoundNext DEF Addr, m_mem_addr_width
<1>4. PICK b : b = getBaseDdrAddress(a)
  OBVIOUS
<1>5. PICK c : c = getBaseDdrAddress(a)'
  OBVIOUS
<1>6. mapped[get_page(a)].file = Own(b)
  BY <1>2, <1>4 DEF Located, FileAt
<1>7. mapped'[get_page(a)'].file = Own(c)
  BY <1>3, <1>5 DEF Located, FileAt, Own, get_mem_file_name
<1>8. b = c
  BY <1>1, <1>6, <1>7, OwnIsOne
<1>9. FileAt(a)' = Own(b)
  BY <1>7, <1>8 DEF FileAt
<1>10. ByteOf(a)' = Content(Own(b))'[a - b]
  <2>1. ByteOf(a)' = Content(FileAt(a))'[a - c]
    BY <1>5 DEF ByteOf
  <2>2. Content(FileAt(a))' = Content(Own(b))'
    BY <1>9 DEF Content
  <2>3. QED
    BY <1>8, <2>1, <2>2
<1>11. QED
  BY <1>1, <1>4, <1>10
\* A byte that was put somewhere, before the step.
LEMMA OldByte ==
    ASSUME IInv, BytesKept, NEW a \in Addr, wrote[a] # NoByte,
           NEW b, b = getBaseDdrAddress(a)
    PROVE  /\ Located(a) /\ b \in Addr /\ FileAt(a) = Own(b)
           /\ a - b \in DOMAIN Content(Own(b))
           /\ Content(Own(b))[a - b] = wrote[a]
<1>1. PagesAt(a) # {} /\ ByteOf(a) = wrote[a]
  BY DEF BytesKept
<1>2. Located(a)
  BY <1>1, BaseFound
<1>3. QED
  BY <1>1, <1>2 DEF Located, ByteOf

\* Steps that leave the maps alone.
LEMMA DataBytes ==
    ASSUME IInv, IInv', UNCHANGED <<mPageCache, mapped>>, DOMAIN wrote' = Addr,
           \A a \in Addr : wrote'[a] # NoByte =>
              /\ PagesAt(a) # {}
              /\ \A b : b = getBaseDdrAddress(a) => Content(Own(b))'[a - b] = wrote'[a]
    PROVE  BytesKept'
<1>1. \A a \in Addr : PagesAt(a)' = PagesAt(a)
  BY DEF PagesAt, Covers
<1>2. \A a \in Addr : getBaseDdrAddress(a)' = getBaseDdrAddress(a)
  BY <1>1 DEF getBaseDdrAddress
<1>3. \A a \in Addr : get_page(a)' = get_page(a)
  BY <1>2 DEF get_page
<1>4. \A a \in Addr : PagesAt(a) # {} => BufferStays(a)
  BY <1>1, <1>3, BaseFound DEF BufferStays, Located
<1>5. QED
  BY <1>4, BytesStep

LEMMA OverwrittenAt ==
    ASSUME NEW content, IsContent(content), NEW data, IsContent(data),
           NEW pos \in Nat, NEW i \in Int
    PROVE  /\ i - pos \in DOMAIN data =>
                 Overwritten(content, pos, data)[i] = data[i - pos]
           /\ i - pos \notin DOMAIN data /\ i \in DOMAIN content =>
                 Overwritten(content, pos, data)[i] = content[i]
<1>1. PICK k \in Nat : DOMAIN content = 0 .. k - 1
  BY DEF IsContent
<1>2. PICK n \in Nat : DOMAIN data = 0 .. n - 1
  BY DEF IsContent
<1>3. Length(content) = k /\ Length(data) = n
  BY <1>1, <1>2, LengthIs
<1> DEFINE size == IF pos + n > k THEN pos + n ELSE k
<1>4. Overwritten(content, pos, data) =
         [j \in 0 .. size - 1 |-> IF j - pos \in DOMAIN data THEN data[j - pos]
                                  ELSE Resized(content, size)[j]]
  BY <1>3 DEF Overwritten
<1>5. size \in Nat /\ pos + n <= size /\ k <= size
  OBVIOUS
<1> HIDE DEF size
<1>6. i - pos \in DOMAIN data => i \in 0 .. size - 1
  BY <1>2, <1>5
<1>7. i \in DOMAIN content => /\ i \in 0 .. size - 1
                              /\ Resized(content, size)[i] = content[i]
  BY <1>1, <1>5 DEF Resized
<1>8. QED
  BY <1>4, <1>6, <1>7

LEMMA InRangeSpan ==
    ASSUME NEW t \in Request, InRange(t)
    PROVE  /\ address(t) \in Addr /\ t.length \in Nat /\ Span(t) \subseteq Addr
           /\ Data(t) = [i \in 0 .. t.length - 1 |-> t.data[i + 1]]
           /\ IsContent(Data(t))
<1>1. address(t) \in Addr
  BY AddressType
<1>2. t.length \in Nat
  BY SharedAssumption DEF IsPayload
<1>3. m_mem_addr_width \in Nat
  BY PayloadAssumption DEF m_mem_addr_width
<1>4. Span(t) \subseteq Addr
  BY <1>1, <1>2, <1>3 DEF Span, InRange, Addr
<1>5. QED
  BY <1>1, <1>2, <1>4 DEF Data, IsContent

\* One file has new content.
LEMMA FileReplaced ==
    ASSUME NEW f, NEW content,
           \/ f \in DOMAIN files /\ files' = [files EXCEPT ![f] = content]
           \/ files' = With(files, f, content)
    PROVE  Content(f)' = content /\ \A g : g # f => Content(g)' = Content(g)
<1>1. CASE f \in DOMAIN files /\ files' = [files EXCEPT ![f] = content]
  <2>1. /\ DOMAIN files' = DOMAIN files /\ files'[f] = content
        /\ \A g \in DOMAIN files : g # f => files'[g] = files[g]
    BY <1>1
  <2>2. QED
    BY <1>1, <2>1 DEF Content
<1>2. CASE files' = With(files, f, content)
  <2>1. /\ DOMAIN files' = DOMAIN files \cup {f} /\ files'[f] = content
        /\ \A g \in DOMAIN files : g # f => files'[g] = files[g]
    BY <1>2 DEF With
  <2>2. QED
    BY <2>1 DEF Content
<1>3. QED
  BY <1>1, <1>2

\* What a write of data at pos into file f leaves in the byte that a has in f.
LEMMA OverwrittenByte ==
    ASSUME NEW content, IsContent(content), NEW data, IsContent(data),
           NEW a0 \in Nat, NEW b0 \in Nat, b0 <= a0, NEW a \in Nat
    PROVE  /\ a - a0 \in DOMAIN data =>
                 Overwritten(content, a0 - b0, data)[a - b0] = data[a - a0]
           /\ a - a0 \notin DOMAIN data /\ a - b0 \in DOMAIN content =>
                 Overwritten(content, a0 - b0, data)[a - b0] = content[a - b0]
<1>1. a0 - b0 \in Nat /\ a - b0 \in Int /\ (a - b0) - (a0 - b0) = a - a0
  OBVIOUS
<1>2. PICK pos \in Nat : pos = a0 - b0
  BY <1>1
<1>3. PICK i \in Int : i = a - b0
  BY <1>1
<1>4. i - pos = a - a0
  BY <1>1, <1>2, <1>3
<1>5. /\ i - pos \in DOMAIN data => Overwritten(content, pos, data)[i] = data[i - pos]
      /\ i - pos \notin DOMAIN data /\ i \in DOMAIN content =>
            Overwritten(content, pos, data)[i] = content[i]
  BY OverwrittenAt
<1>6. QED
  BY <1>2, <1>3, <1>4, <1>5

-----------------------------------------------------------------------------
LEMMA WriteBytes ==
    ASSUME IInv, IInv', BytesKept, ~wild', NEW t \in Request, InRange(t), Write(t)
    PROVE  BytesKept'
<1> DEFINE a0 == address(t)
           into(a) == a \in DOMAIN Stored(t) /\ ~(t.byte_enable = <<>> /\ Dropped(t))
<1>1. /\ a0 \in Addr /\ t.length \in Nat /\ Span(t) \subseteq Addr
      /\ Data(t) = [i \in 0 .. t.length - 1 |-> t.data[i + 1]]
      /\ IsContent(Data(t))
  BY InRangeSpan
<1>2. /\ DOMAIN wrote' = Addr
      /\ \A a \in Addr : wrote'[a] =
            IF BufferStays(a) THEN IF into(a) THEN Stored(t)[a] ELSE wrote[a]
            ELSE NoByte
  BY DEF Write, Remember, BytesKept
<1>3. \A a \in Addr : wrote'[a] # NoByte =>
         /\ PagesAt(a) # {}
         /\ into(a) => wrote'[a] = Stored(t)[a]
         /\ ~into(a) => wrote'[a] = wrote[a]
  BY <1>2 DEF BufferStays
<1>4. /\ \A a \in DOMAIN Stored(t) : a \in Span(t) /\ Stored(t)[a] = t.data[a - a0 + 1]
      /\ t.byte_enable = <<>> => DOMAIN Stored(t) = Span(t)
  BY DEF Stored, At, Enabled
<1> HIDE DEF into
<1>5. CASE t.byte_enable = <<>> /\ Dropped(t)
  <2>1. UNCHANGED <<mPageCache, mapped, files>>
    BY <1>5 DEF Write, writeDevMem, Dropped, Nothing, sharedvars, classvars, osvars
  <2>2. \A a \in Addr : wrote'[a] # NoByte =>
           /\ PagesAt(a) # {}
           /\ \A b : b = getBaseDdrAddress(a) => Content(Own(b))'[a - b] = wrote'[a]
    <3> SUFFICES ASSUME NEW a \in Addr, wrote'[a] # NoByte,
                        NEW b, b = getBaseDdrAddress(a)
                 PROVE  PagesAt(a) # {} /\ Content(Own(b))'[a - b] = wrote'[a]
      BY <1>3
    <3>1. wrote'[a] = wrote[a] /\ PagesAt(a) # {}
      BY <1>3, <1>5 DEF into
    <3>2. Content(Own(b))' = Content(Own(b))
      BY <2>1 DEF Content, Own, get_mem_file_name
    <3>3. QED
      BY <3>1, <3>2, OldByte
  <2>3. QED
    BY <1>2, <2>1, <2>2, DataBytes
<1>6. CASE t.byte_enable = <<>> /\ ~Dropped(t)
  <2> DEFINE b0 == getBaseDdrAddress(a0)
             at == a0 - b0
  <2>1. /\ PagesAt(a0) # {}
        /\ {at + i : i \in DOMAIN Data(t)} \subseteq Readable(a0)
        /\ files' = [files EXCEPT ![mapped[get_page(a0)].file] =
                        Overwritten(@, at, Data(t))]
        /\ UNCHANGED <<classvars, mapped, descriptors, wild>>
    BY <1>6 DEF Write, writeDevMem, Dropped, Nothing, Undefined
  <2>2. Located(a0)
    BY <1>1, <2>1, BaseFound
  <2>3. /\ b0 \in Addr /\ b0 <= a0 /\ FileAt(a0) = Own(b0)
        /\ at \in DOMAIN Content(Own(b0))
    BY <2>2 DEF Located
  <2>4. /\ a0 \in Nat /\ b0 \in Nat /\ at \in Nat
    BY <1>1, <2>3 DEF Addr
  <2>5. Own(b0) \in DOMAIN files /\ Content(Own(b0)) = files[Own(b0)]
    BY <2>3 DEF Content
  <2>6. files' = [files EXCEPT ![Own(b0)] = Overwritten(files[Own(b0)], at, Data(t))]
    BY <2>1, <2>3, <2>5 DEF FileAt
  <2>7. IsContent(Content(Own(b0)))
    BY ContentOK DEF IInv
  <2>8. PICK d \in Nat : d = b0
    BY <2>4
  <2>9. PICK content, data, f :
           content = Content(Own(b0)) /\ data = Data(t) /\ f = Own(b0)
    OBVIOUS
  <2> HIDE DEF b0
  <2>10. /\ f = Own(d) /\ f \in DOMAIN files
         /\ files' = [files EXCEPT ![f] = Overwritten(content, a0 - d, data)]
    BY <2>5, <2>6, <2>8, <2>9
  <2>11. /\ Content(f)' = Overwritten(content, a0 - d, data)
         /\ \A g : g # f => Content(g)' = Content(g)
    BY <2>10, FileReplaced
  <2>12. ASSUME NEW a \in Addr, wrote'[a] # NoByte, NEW b, b = getBaseDdrAddress(a)
         PROVE  Content(Own(b))'[a - b] = wrote'[a]
    <3>1. a \in Nat
      BY DEF Addr
    <3>2. /\ a - a0 \in DOMAIN data =>
                Overwritten(content, a0 - d, data)[a - d] = data[a - a0]
          /\ a - a0 \notin DOMAIN data /\ a - d \in DOMAIN content =>
                Overwritten(content, a0 - d, data)[a - d] = content[a - d]
      <4>1. IsContent(content) /\ IsContent(data) /\ a0 \in Nat /\ d <= a0
        BY <1>1, <2>3, <2>4, <2>7, <2>8, <2>9
      <4>2. QED
        BY <3>1, <4>1, OverwrittenByte
    <3>3. CASE a \in Span(t)
      <4>1. a - a0 \in DOMAIN data /\ a0 <= a /\ data[a - a0] = t.data[a - a0 + 1]
        BY <1>1, <2>4, <2>8, <2>9, <3>1, <3>3 DEF Span
      <4>2. a - b0 = at + (a - a0)
        BY <2>4, <3>1
      <4>3. a - b0 \in Readable(a0)
        BY <2>1, <2>8, <2>9, <4>1, <4>2
      <4>4. b = d
        BY <1>1, <2>1, <2>8, <2>9, <2>12, <4>1, <4>3, OneBuffer DEF b0
      <4>5. Content(f)'[a - d] = data[a - a0]
        BY <2>11, <3>2, <4>1
      <4>6. wrote'[a] = t.data[a - a0 + 1]
        BY <1>3, <1>4, <1>6, <2>12, <3>3 DEF into
      <4>7. Content(Own(b))' = Content(f)'
        BY <2>10, <4>4
      <4>8. QED
        BY <4>1, <4>4, <4>5, <4>6, <4>7
    <3>4. CASE a \notin Span(t)
      <4>1. wrote'[a] = wrote[a]
        BY <1>3, <1>4, <2>12, <3>4 DEF into
      <4>2. a - b \in DOMAIN Content(Own(b)) /\ Content(Own(b))[a - b] = wrote[a]
        BY <2>12, <4>1, OldByte
      <4>3. CASE Own(b) # f
        <5>1. Content(Own(b))' = Content(Own(b))
          BY <2>11, <4>3 DEF Own, get_mem_file_name
        <5>2. QED
          BY <4>1, <4>2, <5>1
      <4>4. CASE Own(b) = f
        <5>1. b = d
          BY <2>10, <4>4, OwnIsOne
        <5>2. a - a0 \notin DOMAIN data
          BY <1>1, <2>4, <2>8, <2>9, <3>1, <3>4 DEF Span
        <5>3. Content(Own(b)) = content
          BY <2>8, <2>9, <4>4
        <5>4. Content(f)'[a - d] = content[a - d]
          BY <2>11, <3>2, <4>2, <5>1, <5>2, <5>3
        <5>5. Content(Own(b))' = Content(f)'
          BY <4>4 DEF Own, get_mem_file_name
        <5>6. QED
          BY <4>1, <4>2, <5>1, <5>3, <5>4, <5>5
      <4>5. QED
        BY <4>3, <4>4
    <3>5. QED
      BY <3>3, <3>4
  <2>13. UNCHANGED <<mPageCache, mapped>>
    BY <2>1 DEF classvars
  <2>14. QED
    BY <1>2, <1>3, <2>12, <2>13, DataBytes
<1>7. CASE t.byte_enable # <<>>
  <2> DEFINE live == {a \in DOMAIN Stored(t) : PagesAt(a) # {}}
             At0(a) == a - getBaseDdrAddress(a)
             Hits(f, i) == {a \in live : mapped[get_page(a)].file = f /\ At0(a) = i}
  <2>1. /\ \A a \in live : At0(a) \in Readable(a)
        /\ files' = [f \in DOMAIN files |-> [i \in DOMAIN files[f] |->
                        IF Hits(f, i) = {} THEN files[f][i]
                        ELSE Stored(t)[Least(Hits(f, i))]]]
        /\ UNCHANGED <<classvars, mapped, descriptors, wild>>
    BY <1>7 DEF Write, writeEnabled, Undefined
  <2> HIDE DEF Hits, live
  <2>2. ASSUME NEW a \in Addr, wrote'[a] # NoByte, NEW b, b = getBaseDdrAddress(a)
        PROVE  Content(Own(b))'[a - b] = wrote'[a]
    <3>1. PagesAt(a) # {} /\ Located(a)
      BY <1>3, <2>2, BaseFound
    <3>2. /\ b \in Addr /\ FileAt(a) = Own(b) /\ a - b \in DOMAIN Content(Own(b))
      BY <2>2, <3>1 DEF Located
    <3>3. Own(b) \in DOMAIN files /\ Content(Own(b)) = files[Own(b)]
      BY <3>2 DEF Content
    <3>4. Content(Own(b))'[a - b] =
             IF Hits(Own(b), a - b) = {} THEN Content(Own(b))[a - b]
             ELSE Stored(t)[Least(Hits(Own(b), a - b))]
      <4>1. Own(b) \in DOMAIN files' /\ Content(Own(b))' = files'[Own(b)]
        BY <2>1, <3>3 DEF Content, Own, get_mem_file_name
      <4>2. QED
        BY <2>1, <3>2, <3>3, <4>1
    <3>5. \A x \in Hits(Own(b), a - b) : x = a /\ x \in DOMAIN Stored(t)
      <4> SUFFICES ASSUME NEW x \in Hits(Own(b), a - b)
                   PROVE  x = a /\ x \in DOMAIN Stored(t)
        OBVIOUS
      <4>1. /\ x \in DOMAIN Stored(t) /\ PagesAt(x) # {}
            /\ FileAt(x) = Own(b) /\ x - getBaseDdrAddress(x) = a - b
        BY DEF Hits, live, FileAt
      <4>2. x \in Addr
        BY <1>1, <1>4, <4>1
      <4>3. Located(x)
        BY <4>1, <4>2, BaseFound
      <4>4. getBaseDdrAddress(x) = b
        BY <4>1, <4>3, OwnIsOne DEF Located
      <4>5. x \in Int /\ a \in Int /\ b \in Int
        BY <3>2, <4>2 DEF Addr
      <4>6. QED
        BY <4>1, <4>4, <4>5
    <3>6. CASE a \in DOMAIN Stored(t)
      <4>1. a \in Hits(Own(b), a - b)
        BY <2>2, <3>1, <3>2, <3>6 DEF Hits, live, FileAt
      <4>2. Hits(Own(b), a - b) = {a}
        BY <3>5, <4>1
      <4>3. a \in Nat
        BY DEF Addr
      <4>4. Least(Hits(Own(b), a - b)) = a
        BY <4>2, <4>3, LeastIs
      <4>5. wrote'[a] = Stored(t)[a]
        BY <1>3, <1>7, <2>2, <3>6 DEF into
      <4>6. QED
        BY <3>4, <4>2, <4>4, <4>5
    <3>7. CASE a \notin DOMAIN Stored(t)
      <4>1. Hits(Own(b), a - b) = {}
        BY <3>5, <3>7
      <4>2. wrote'[a] = wrote[a]
        BY <1>3, <2>2, <3>7 DEF into
      <4>3. Content(Own(b))[a - b] = wrote[a]
        BY <2>2, <4>2, OldByte
      <4>4. QED
        BY <3>4, <4>1, <4>2, <4>3
    <3>8. QED
      BY <3>6, <3>7
  <2>3. UNCHANGED <<mPageCache, mapped>>
    BY <2>1 DEF classvars
  <2>4. QED
    BY <1>2, <1>3, <2>2, <2>3, DataBytes
<1>8. QED
  BY <1>5, <1>6, <1>7

\* Another process writes a byte of the file.
LEMMA PeerBytes ==
    ASSUME IInv, IInv', BytesKept, NEW name, NEW i, NEW v, PeerWrites(name, i, v)
    PROVE  BytesKept'
<1>1. /\ i \in DOMAIN Content(name)
      /\ files' = [files EXCEPT ![name] = [@ EXCEPT ![i] = v]]
      /\ UNCHANGED <<mPageCache, mapped>>
  BY DEF PeerWrites, classvars
<1>2. name \in DOMAIN files /\ Content(name) = files[name]
  BY <1>1 DEF Content
<1>3. /\ Content(name)' = [Content(name) EXCEPT ![i] = v]
      /\ \A g : g # name => Content(g)' = Content(g)
  <2>1. PICK content : content = [Content(name) EXCEPT ![i] = v]
    OBVIOUS
  <2>2. files' = [files EXCEPT ![name] = content]
    BY <1>1, <1>2, <2>1
  <2>3. QED
    BY <1>2, <2>1, <2>2, FileReplaced
<1>4. /\ DOMAIN wrote' = Addr
      /\ \A a \in Addr : wrote'[a] =
            IF BufferStays(a)
            THEN IF FileAt(a) = name /\ a - getBaseDdrAddress(a) = i THEN v ELSE wrote[a]
            ELSE NoByte
  BY DEF PeerWrites, Remember, BytesKept
<1>5. ASSUME NEW a \in Addr, wrote'[a] # NoByte
      PROVE  /\ PagesAt(a) # {}
             /\ \A b : b = getBaseDdrAddress(a) => Content(Own(b))'[a - b] = wrote'[a]
  <2> SUFFICES ASSUME NEW b, b = getBaseDdrAddress(a)
               PROVE  PagesAt(a) # {} /\ Content(Own(b))'[a - b] = wrote'[a]
    BY <1>4, <1>5 DEF BufferStays
  <2>1. PagesAt(a) # {} /\ Located(a)
    BY <1>4, <1>5, BaseFound DEF BufferStays
  <2>2. FileAt(a) = Own(b) /\ a - b \in DOMAIN Content(Own(b))
    BY <2>1 DEF Located
  <2>3. wrote'[a] = IF Own(b) = name /\ a - b = i THEN v ELSE wrote[a]
    BY <1>4, <1>5, <2>2
  <2>4. CASE Own(b) = name /\ a - b = i
    <3>1. Content(Own(b))' = Content(name)'
      BY <2>4 DEF Own, get_mem_file_name
    <3>2. QED
      BY <1>1, <1>3, <2>1, <2>3, <2>4, <3>1
  <2>5. CASE ~(Own(b) = name /\ a - b = i)
    <3>1. Content(Own(b))[a - b] = wrote[a]
      BY <1>5, <2>3, <2>5, OldByte
    <3>2. CASE Own(b) = name
      <4>1. Content(Own(b))' = Content(name)' /\ a - b # i
        BY <2>5, <3>2 DEF Own, get_mem_file_name
      <4>2. QED
        BY <1>3, <2>1, <2>2, <2>3, <2>5, <3>1, <3>2, <4>1
    <3>3. CASE Own(b) # name
      <4>1. Content(Own(b))' = Content(Own(b))
        BY <1>3, <3>3 DEF Own, get_mem_file_name
      <4>2. QED
        BY <2>1, <2>3, <2>5, <3>1, <4>1
    <3>4. QED
      BY <3>2, <3>3
  <2>6. QED
    BY <2>4, <2>5
<1>6. QED
  BY <1>1, <1>4, <1>5, DataBytes

\* Where the files stay and nothing new is mapped.
LEMMA ShrunkBytes ==
    ASSUME IInv, IInv', BytesKept, UNCHANGED files, DOMAIN wrote' = Addr,
           \A q \in DOMAIN mapped' : q \in DOMAIN mapped /\ mapped'[q] = mapped[q],
           \A a \in Addr : wrote'[a] # NoByte => BufferStays(a) /\ wrote'[a] = wrote[a]
    PROVE  BytesKept'
<1>1. ASSUME NEW a \in Addr, wrote'[a] # NoByte
      PROVE  /\ BufferStays(a)
             /\ mapped'[get_page(a)].file = mapped[get_page(a)].file
             /\ \A b : b = getBaseDdrAddress(a) => Content(Own(b))'[a - b] = wrote'[a]
  <2> SUFFICES ASSUME NEW b, b = getBaseDdrAddress(a)
               PROVE  /\ BufferStays(a)
                      /\ mapped'[get_page(a)].file = mapped[get_page(a)].file
                      /\ Content(Own(b))'[a - b] = wrote'[a]
    OBVIOUS
  <2>1. BufferStays(a) /\ wrote'[a] = wrote[a]
    BY <1>1
  <2>2. PagesAt(a)' # {} /\ get_page(a)' = get_page(a)
    BY <2>1 DEF BufferStays
  <2>3. Located(a)'
    BY <2>2, BaseFoundNext DEF Addr, m_mem_addr_width
  <2>4. get_page(a) \in DOMAIN mapped'
    BY <2>2, <2>3 DEF Located
  <2>5. Content(Own(b))' = Content(Own(b))
    BY DEF Content, Own, get_mem_file_name
  <2>6. QED
    BY <1>1, <2>1, <2>4, <2>5, OldByte
<1>2. QED
  BY <1>1, BytesStep

-----------------------------------------------------------------------------
\* What every extended request but COPY_BO keeps.
LEMMA ExtendedKeeps ==
    ASSUME BytesKept, NEW t \in Request, Extended(t)
    PROVE  /\ DOMAIN wrote' = Addr
           /\ \A a \in Addr : wrote'[a] # NoByte =>
                 /\ BufferStays(a) /\ wrote'[a] = wrote[a]
                 /\ t.ext.type = "COPY_BO" => t.ext.file_name # FileAt(a)
  BY DEF Extended, Remember, BytesKept

LEMMA FreeBytes ==
    ASSUME IInv, IInv', BytesKept, ~wild', NEW t \in Request, Extended(t), FreeBO(t)
    PROVE  BytesKept'
<1>1. mapped' = Freed(address(t)).mapped /\ UNCHANGED files
  BY DEF FreeBO, freePage, Becomes, Undefined
<1>2. FreedPointersAre(Freed(address(t)), address(t))
  BY AddressType, FreedPointers
<1>3. \A q \in DOMAIN mapped' : q \in DOMAIN mapped /\ mapped'[q] = mapped[q]
  BY <1>1, <1>2 DEF FreedPointersAre
<1>4. QED
  BY <1>1, <1>3, ExtendedKeeps, ShrunkBytes

LEMMA ImportBytes ==
    ASSUME IInv, IInv', BytesKept, ~wild', NEW t \in Request, t.ext # NoExtension,
           Extended(t), Imports(t), ImportBO(t), ~Borrows(t)
    PROVE  BytesKept'
<1> DEFINE name == t.ext.file_name
<1>1. CASE Nothing
  <2>1. UNCHANGED <<files, mapped>>
    BY <1>1 DEF Nothing, sharedvars, osvars
  <2>2. QED
    BY <2>1, ExtendedKeeps, ShrunkBytes
<1>2. CASE importBO(address(t), name, t.ext.size)
  <2>1. PICK p \in mmap(Unfreed, t.ext.size) :
               MapFile(Unfreed, address(t), name, t.ext.size, p, mPageCache)
    BY <1>2 DEF importBO
  <2>2. /\ mapped' = IF t.ext.size = 0 THEN mapped
                     ELSE With(mapped, p, [file |-> name, size |-> t.ext.size])
        /\ files' = With(files, name, Resized(Content(name), t.ext.size))
    BY <2>1 DEF MapFile, Unfreed
  <2>3. \A q \in DOMAIN mapped : mapped'[q] = mapped[q]
    BY <2>1, <2>2 DEF With, mmap, Unfreed
  <2>4. \A g : g # name => Content(g)' = Content(g)
    BY <2>2 DEF With, Content
  <2>5. Foreign(name)
    BY DEF Borrows, Foreign, Own, Addr
  <2>6. ASSUME NEW a \in Addr, wrote'[a] # NoByte
        PROVE  /\ BufferStays(a)
               /\ mapped'[get_page(a)].file = mapped[get_page(a)].file
               /\ \A b : b = getBaseDdrAddress(a) => Content(Own(b))'[a - b] = wrote'[a]
    <3> SUFFICES ASSUME NEW b, b = getBaseDdrAddress(a)
                 PROVE  /\ BufferStays(a)
                        /\ mapped'[get_page(a)].file = mapped[get_page(a)].file
                        /\ Content(Own(b))'[a - b] = wrote'[a]
      OBVIOUS
    <3>1. BufferStays(a) /\ wrote'[a] = wrote[a]
      BY <2>6, ExtendedKeeps
    <3>2. Located(a) /\ b \in Addr /\ Content(Own(b))[a - b] = wrote[a]
      BY <2>6, <3>1, OldByte
    <3>3. get_page(a) \in DOMAIN mapped
      BY <3>2 DEF Located
    <3>4. Own(b) # name
      BY <2>5, <3>2 DEF Foreign
    <3>5. Content(Own(b))' = Content(Own(b))
      BY <2>4, <3>4 DEF Own, get_mem_file_name
    <3>6. QED
      BY <2>3, <3>1, <3>2, <3>3, <3>5
  <2>7. QED
    BY <2>6, ExtendedKeeps, BytesStep
<1>3. QED
  BY <1>1, <1>2 DEF ImportBO, Undefined

\* A new buffer may take the pointer of the one it replaces, which then had
\* the same base address: its file keeps the bytes that are not cut.
LEMMA MapBytes ==
    ASSUME IInv, IInv', BytesKept, DOMAIN wrote' = Addr,
           \A a \in Addr : wrote'[a] # NoByte => BufferStays(a) /\ wrote'[a] = wrote[a],
           NEW o \in Addr, NEW s, FreedPointersAre(s, o), NEW size \in Nat,
           NEW p \in mmap(s, size),
           MapFile(s, o, Own(o), size, p, With(s.pages, o, [ptr |-> p, size |-> size]))
    PROVE  BytesKept'
<1>1. /\ mPageCache' = With(s.pages, o, [ptr |-> p, size |-> size])
      /\ mapped' = IF size = 0 THEN s.mapped
                   ELSE With(s.mapped, p, [file |-> Own(o), size |-> size])
      /\ files' = With(files, Own(o), Resized(Content(Own(o)), size))
  BY DEF MapFile
<1>2. /\ size # 0 => /\ DOMAIN mapped' = DOMAIN s.mapped \cup {p}
                     /\ mapped'[p].file = Own(o) /\ p \notin DOMAIN s.mapped
      /\ size = 0 => p = MAP_FAILED /\ mapped' = s.mapped
      /\ \A q \in DOMAIN s.mapped : mapped'[q] = mapped[q]
  BY <1>1 DEF With, FreedPointersAre, mmap
<1>3. mPageCache'[o].ptr = p
  BY <1>1 DEF With
<1>4. /\ Content(Own(o))' = Resized(Content(Own(o)), size)
      /\ \A g : g # Own(o) => Content(g)' = Content(g)
  <2>1. PICK f, content : f = Own(o) /\ content = Resized(Content(f), size)
    OBVIOUS
  <2>2. Content(f)' = content /\ \A g : g # f => Content(g)' = Content(g)
    BY <1>1, <2>1, FileReplaced
  <2>3. Content(f)' = Content(Own(o))'
    BY <2>1 DEF Own, get_mem_file_name
  <2>4. QED
    BY <2>1, <2>2, <2>3
<1>5. ASSUME NEW a \in Addr, wrote'[a] # NoByte
      PROVE  /\ BufferStays(a)
             /\ mapped'[get_page(a)].file = mapped[get_page(a)].file
             /\ \A b : b = getBaseDdrAddress(a) => Content(Own(b))'[a - b] = wrote'[a]
  <2> SUFFICES ASSUME NEW b, b = getBaseDdrAddress(a)
               PROVE  /\ BufferStays(a)
                      /\ mapped'[get_page(a)].file = mapped[get_page(a)].file
                      /\ Content(Own(b))'[a - b] = wrote'[a]
    OBVIOUS
  <2>1. BufferStays(a) /\ wrote'[a] = wrote[a]
    BY <1>5
  <2>2. /\ Located(a) /\ b \in Addr /\ FileAt(a) = Own(b)
        /\ a - b \in DOMAIN Content(Own(b)) /\ Content(Own(b))[a - b] = wrote[a]
    BY <1>5, <2>1, OldByte
  <2>3. PICK q : q = get_page(a)
    OBVIOUS
  <2>4. q \in DOMAIN mapped /\ mapped[q].file = Own(b)
    BY <2>2, <2>3 DEF Located, FileAt
  <2>5. PagesAt(a)' # {} /\ get_page(a)' = q
    BY <2>1, <2>3 DEF BufferStays
  <2>6. PICK c : c = getBaseDdrAddress(a)'
    OBVIOUS
  <2>7. Located(a)'
    BY <2>5, BaseFoundNext DEF Addr, m_mem_addr_width
  <2>8. /\ q \in DOMAIN mapped' /\ mapped'[q].file = Own(c)
        /\ a - c \in DOMAIN Content(Own(c))'
    BY <2>5, <2>6, <2>7 DEF Located, FileAt, Own, get_mem_file_name, Content
  <2>9. mPageCache'[c].ptr = q
    BY <2>5, <2>6 DEF get_page
  <2>10. CASE q # p
    <3>1. mapped'[q] = mapped[q]
      BY <1>2, <2>8, <2>10 DEF FreedPointersAre
    <3>2. b = c
      BY <2>4, <2>8, <3>1, OwnIsOne
    <3>3. b # o
      BY <1>3, <2>9, <2>10, <3>2
    <3>4. Own(b) # Own(o)
      BY <3>3, OwnIsOne
    <3>5. Content(Own(b))' = Content(Own(b))
      BY <1>4, <3>4 DEF Own, get_mem_file_name
    <3>6. QED
      BY <2>1, <2>2, <2>3, <3>1, <3>5
  <2>11. CASE q = p
    <3>1. size # 0
      BY <1>2, <2>4, <2>11 DEF IInv, Sound, Unfreed
    <3>2. c = o
      BY <1>2, <2>8, <2>11, <3>1, OwnIsOne
    <3>3. mapped[q].file = Own(o) \/ Foreign(mapped[q].file)
      BY <1>2, <2>4, <2>11, <3>1 DEF FreedPointersAre
    <3>4. b = o
      BY <2>2, <2>4, <3>3, OwnIsOne DEF Foreign
    <3>5. a - o \in DOMAIN Resized(Content(Own(o)), size)
      <4>1. Content(Own(c))' = Content(Own(o))'
        BY <3>2
      <4>2. QED
        BY <1>4, <2>8, <3>2, <4>1
    <3>6. Resized(Content(Own(o)), size)[a - o] = Content(Own(o))[a - o]
      BY <2>2, <3>4, <3>5 DEF Resized
    <3>7. Content(Own(b))' = Content(Own(o))'
      BY <3>4
    <3>8. QED
      BY <1>2, <1>4, <2>1, <2>2, <2>3, <2>4, <2>11, <3>1, <3>4, <3>6, <3>7
  <2>12. QED
    BY <2>10, <2>11
<1>6. QED
  BY <1>5, BytesStep

LEMMA AllocBytes ==
    ASSUME IInv, IInv', BytesKept, ~wild', NEW t \in Request, t.ext # NoExtension,
           Extended(t), t.ext.type = "ALLOC_BO", AllocBO(t)
    PROVE  BytesKept'
<1>1. PICK o \in Addr, size \in Nat : o = address(t) /\ size = t.ext.size
  BY AddressType, SharedAssumption DEF IsPayload, IsExtension
<1>2. PICK s : s = Conflict(o)
  OBVIOUS
<1>3. FreedPointersAre(s, o)
  <2>1. FreedPointersAre(Freed(o), o)
    BY FreedPointers
  <2>2. FreedPointersAre(Unfreed, o)
    BY DEF FreedPointersAre, Unfreed
  <2>3. QED
    BY <1>2, <2>1, <2>2 DEF Conflict
<1>4. \/ Becomes(s) /\ UNCHANGED files
      \/ \E p \in mmap(s, size) :
            MapFile(s, o, Own(o), size, p, With(s.pages, o, [ptr |-> p, size |-> size]))
  BY <1>1, <1>2 DEF AllocBO, createPage, Own, Undefined
<1>5. CASE Becomes(s) /\ UNCHANGED files
  <2>1. \A q \in DOMAIN mapped' : q \in DOMAIN mapped /\ mapped'[q] = mapped[q]
    BY <1>3, <1>5 DEF Becomes, FreedPointersAre
  <2>2. QED
    BY <1>5, <2>1, ExtendedKeeps, ShrunkBytes
<1>6. CASE \E p \in mmap(s, size) :
              MapFile(s, o, Own(o), size, p, With(s.pages, o, [ptr |-> p, size |-> size]))
  BY <1>3, <1>6, ExtendedKeeps, MapBytes
<1>7. QED
  BY <1>4, <1>5, <1>6

\* COPY_BO writes to the file it names and to no other.
LEMMA CopyBytes ==
    ASSUME IInv, IInv', BytesKept, ~wild', NEW t \in Request, t.ext # NoExtension,
           Extended(t), t.ext.type = "COPY_BO", CopyBO(t)
    PROVE  BytesKept'
<1>1. PICK name : name = t.ext.file_name
  OBVIOUS
<1>2. UNCHANGED <<mPageCache, mapped>>
  BY DEF CopyBO, copyBO, Nothing, Undefined, sharedvars, classvars, osvars
<1>3. \/ UNCHANGED files
      \/ /\ name \in DOMAIN mFileFdMap
         /\ \E content : files' = With(files, descriptors[mFileFdMap[name].fd].file, content)
  BY <1>1, Zenon DEF CopyBO, copyBO, Nothing, Undefined, sharedvars, osvars
<1>4. name \in DOMAIN mFileFdMap => descriptors[mFileFdMap[name].fd].file = name
  BY DEF IInv, Sound, FdsSound, Unfreed
<1>5. \A g : g # name => Content(g)' = Content(g)
  BY <1>3, <1>4 DEF With, Content
<1>6. ASSUME NEW a \in Addr, wrote'[a] # NoByte
      PROVE  /\ PagesAt(a) # {}
             /\ \A b : b = getBaseDdrAddress(a) => Content(Own(b))'[a - b] = wrote'[a]
  <2> SUFFICES ASSUME NEW b, b = getBaseDdrAddress(a)
               PROVE  PagesAt(a) # {} /\ Content(Own(b))'[a - b] = wrote'[a]
    BY <1>6, ExtendedKeeps DEF BufferStays
  <2>1. PagesAt(a) # {} /\ wrote'[a] = wrote[a] /\ FileAt(a) # name
    BY <1>1, <1>6, ExtendedKeeps DEF BufferStays
  <2>2. FileAt(a) = Own(b) /\ Content(Own(b))[a - b] = wrote[a]
    BY <1>6, <2>1, OldByte
  <2>3. Content(Own(b))' = Content(Own(b))
    BY <1>5, <2>1, <2>2 DEF Own, get_mem_file_name
  <2>4. QED
    BY <2>1, <2>2, <2>3
<1>7. QED
  BY <1>2, <1>6, ExtendedKeeps, DataBytes

LEMMA UnchangedBytes ==
    ASSUME BytesKept, UNCHANGED <<mPageCache, mapped, files, wrote>>
    PROVE  BytesKept'
<1>1. \A a : PagesAt(a)' = PagesAt(a)
  BY DEF PagesAt, Covers
<1>2. \A a : getBaseDdrAddress(a)' = getBaseDdrAddress(a)
  BY <1>1 DEF getBaseDdrAddress
<1>3. \A a : ByteOf(a)' = ByteOf(a)
  BY <1>2 DEF ByteOf, FileAt, get_page, Content
<1>4. QED
  BY <1>1, <1>3 DEF BytesKept, Addr, m_mem_addr_width

-----------------------------------------------------------------------------
\* A read finds each byte in the file where a read of that byte alone would.
LEMMA ReadReply ==
    ASSUME IInv, BytesKept, ~wild', NEW t \in Request, InRange(t), Read(t)
    PROVE  ReadsReturnWrites'
<1> DEFINE a0 == address(t)
<1>1. /\ a0 \in Addr /\ t.length \in Nat /\ Span(t) \subseteq Addr
      /\ Data(t) = [i \in 0 .. t.length - 1 |-> t.data[i + 1]]
  BY InRangeSpan
<1>2. wrote' = wrote
  BY DEF Read
<1>3. CASE Dropped(t)
  <2>1. DOMAIN reply'.data = {}
    BY <1>3 DEF Read, NoRead
  <2>2. QED
    BY <2>1 DEF ReadsReturnWrites
<1>4. CASE ~Dropped(t)
  <2> DEFINE b0 == getBaseDdrAddress(a0)
             file == mapped[get_page(a0)].file
  <2>1. /\ PagesAt(a0) # {}
        /\ {a0 - b0 + i : i \in DOMAIN Data(t)} \subseteq Readable(a0)
    BY <1>4 DEF Dropped, Read, ReadStep, Undefined
  <2>2. reply' = [at |-> a0, data |-> [i \in DOMAIN Data(t) |-> Content(file)[a0 - b0 + i]]]
    BY <1>4, <2>1 DEF Read, readDevMem
  <2>3. ASSUME NEW i \in DOMAIN Data(t), wrote[a0 + i] # NoByte
        PROVE  wrote[a0 + i] = Content(file)[a0 - b0 + i]
    <3>1. i \in Nat /\ a0 + i \in Span(t) /\ a0 \in Nat
      BY <1>1 DEF Span, Addr
    <3>2. PICK a \in Addr : a = a0 + i
      BY <1>1, <3>1
    <3>3. Located(a0)
      BY <1>1, <2>1, BaseFound
    <3>4. b0 \in Nat
      BY <3>3 DEF Located, Addr
    <3>5. a - b0 = a0 - b0 + i /\ a0 <= a
      BY <3>1, <3>2, <3>4
    <3>6. getBaseDdrAddress(a) = b0
      BY <1>1, <2>1, <3>5, OneBuffer
    <3>7. FileAt(a) = file
      BY <3>6 DEF FileAt, get_page
    <3>8. ByteOf(a) = wrote[a]
      BY <2>3, <3>2 DEF BytesKept
    <3>9. QED
      BY <3>2, <3>5, <3>6, <3>7, <3>8 DEF ByteOf
  <2> HIDE DEF file, b0
  <2>4. /\ reply'.at = a0 /\ DOMAIN reply'.data = DOMAIN Data(t)
        /\ \A i \in DOMAIN Data(t) : reply'.data[i] = Content(file)[a0 - b0 + i]
    BY <2>2
  <2>5. QED
    BY <1>2, <2>3, <2>4 DEF ReadsReturnWrites
<1>5. QED
  BY <1>3, <1>4

\* What is read follows from where the bytes are.
BytesInv == (~wild /\ ~borrowed => BytesKept) /\ ReadsReturnWrites

LEMMA NothingRead == ASSUME reply' = NoRead PROVE ReadsReturnWrites'
  BY DEF ReadsReturnWrites, NoRead

LEMMA ServeBytes ==
    ASSUME IInv, IInv', BytesKept, ~wild', ~borrowed', NEW t \in Request, Serve(t)
    PROVE  BytesInv'
<1>1. CASE ~InRange(t)
  <2>1. UNCHANGED <<mPageCache, mapped, files, wrote>> /\ reply' = NoRead
    BY <1>1 DEF Serve, Nothing, sharedvars, classvars, osvars
  <2>2. QED
    BY <2>1, UnchangedBytes, NothingRead DEF BytesInv
<1>2. CASE InRange(t) /\ Read(t)
  <2>1. UNCHANGED <<mPageCache, mapped, files, wrote>>
    BY <1>2 DEF Read, ReadStep, Nothing, Undefined, sharedvars, classvars, osvars
  <2>2. QED
    BY <1>2, <2>1, UnchangedBytes, ReadReply DEF BytesInv
<1>3. CASE t.ext # NoExtension /\ Extended(t)
  <2>1. ~Borrows(t)
    BY <1>3 DEF Extended
  <2>2. \/ t.ext.type = "ALLOC_BO" /\ AllocBO(t)
        \/ FreeBO(t)
        \/ Imports(t) /\ ImportBO(t)
        \/ t.ext.type = "COPY_BO" /\ CopyBO(t)
    BY <1>3 DEF Extended
  <2>3. BytesKept'
    BY <1>3, <2>1, <2>2, AllocBytes, FreeBytes, ImportBytes, CopyBytes
  <2>4. reply' = NoRead
    BY <1>3 DEF Extended
  <2>5. QED
    BY <2>3, <2>4, NothingRead DEF BytesInv
<1>4. CASE InRange(t) /\ Write(t)
  <2>1. reply' = NoRead
    BY <1>4 DEF Write
  <2>2. QED
    BY <1>4, <2>1, WriteBytes, NothingRead DEF BytesInv
<1>5. QED
  BY <1>1, <1>2, <1>3, <1>4 DEF Serve

LEMMA BytesNext == MapsInv /\ BytesInv /\ [Next]_bramsharedvars => BytesInv'
<1> SUFFICES ASSUME MapsInv, BytesInv, [Next]_bramsharedvars PROVE BytesInv'
  OBVIOUS
<1>1. CASE wild' \/ borrowed'
  BY <1>1 DEF BytesInv, ReadsReturnWrites
<1>2. CASE ~wild' /\ ~borrowed'
  <2>1. ~borrowed /\ IInv /\ IInv'
    BY <1>2, BorrowedStays, InvStep DEF MapsInv
  <2>2. CASE ~wild /\ ServeRequest
    BY <1>2, <2>1, <2>2, ServeBytes DEF ServeRequest, BytesInv
  <2>3. CASE ~wild /\ PeerStep
    <3>1. PICK name, i, v : PeerWrites(name, i, v)
      BY <2>3 DEF PeerStep
    <3>2. reply' = NoRead
      BY <3>1 DEF PeerWrites
    <3>3. QED
      BY <2>1, <2>3, <3>1, <3>2, PeerBytes, NothingRead DEF BytesInv
  <2>4. CASE UNCHANGED bramsharedvars
    <3>1. UNCHANGED <<mPageCache, mapped, files, wrote, wild, reply, borrowed>>
      BY <2>4 DEF bramsharedvars, sharedvars, classvars, osvars
    <3>2. ReadsReturnWrites'
      BY <3>1 DEF BytesInv, ReadsReturnWrites
    <3>3. QED
      BY <3>1, <3>2, UnchangedBytes DEF BytesInv
  <2>5. QED
    BY <2>2, <2>3, <2>4 DEF Next
<1>3. QED
  BY <1>1, <1>2

\* axi_bram_fmodel_shared_memory.cxx:95-186: as long as no import names a file of
\* one of the buffers, a read returns what was last put into each of its bytes,
\* whatever overlaps, moves or goes in between.
THEOREM ReadsCorrect == Spec => []ReadsReturnWrites
<1>1. Init => BytesInv
  <2> SUFFICES ASSUME Init PROVE BytesInv
    OBVIOUS
  <2>1. DOMAIN wrote = Addr /\ \A a \in Addr : wrote[a] = NoByte
    BY DEF Init, Addr
  <2>2. DOMAIN reply.data = {}
    BY DEF Init, NoRead
  <2>3. QED
    BY <2>1, <2>2 DEF BytesInv, BytesKept, ReadsReturnWrites
<1>2. BytesInv => ReadsReturnWrites
  BY DEF BytesInv
<1>3. QED
  BY <1>1, <1>2, BytesNext, Invariant, PTL DEF Spec
=============================================================================
