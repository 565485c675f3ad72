------------------------------ MODULE RamModel ------------------------------
(***************************************************************************)
(* axi_bram_ram_fmodel: memory in pages that are allocated when they are   *)
(* first touched, by a read as well as by a write.  One call of            *)
(* writeDevMem or readDevMem is one step; it visits the pages of its bytes *)
(* in ascending order.                                                     *)
(***************************************************************************)
EXTENDS Integers, FiniteSets

CONSTANTS PAGESIZE, N_1MBARRAYS,
          Junk        \* what new[] leaves in a page

ASSUME RamAssumption == PAGESIZE \in Nat \ {0} /\ N_1MBARRAYS \in Nat

VARIABLES pageCache,  \* page index -> page
          exited      \* exit(1) was called

ramvars == <<pageCache, exited>>

PageOffset == 0 .. PAGESIZE - 1
page_idx(a) == a \div PAGESIZE
page_addr(a) == a % PAGESIZE
Pages(A) == {page_idx(a) : a \in A}

\* Mutant: a page with one byte too many.
NewPage_slip == [o \in 0 .. PAGESIZE |-> Junk]

NewPage == [o \in PageOffset |-> Junk]

RamInit == pageCache = << >> /\ exited = FALSE

\* get_page counts the pages before it looks for the one asked for, so it also
\* refuses a page it has once there is one page too many.
OutOfMemory(A) ==
    \E p \in Pages(A) :
        Cardinality(DOMAIN pageCache \cup {q \in Pages(A) : q < p}) > N_1MBARRAYS

\* Mutant: a touched page is allocated again when it is there.
get_page_slip(A) ==
    [p \in DOMAIN pageCache \cup Pages(A) |->
        IF p \in Pages(A) THEN NewPage ELSE pageCache[p]]

\* The cache when every byte of A has its page.
get_page(A) ==
    [p \in DOMAIN pageCache \cup Pages(A) |->
        IF p \in DOMAIN pageCache THEN pageCache[p] ELSE NewPage]

Touch(A, pages) ==
    /\ exited' = OutOfMemory(A)
    /\ pageCache' = IF OutOfMemory(A) THEN pageCache ELSE pages

\* bytes maps addresses to what is stored there.
writeDevMem(bytes) ==
    Touch(DOMAIN bytes,
          [p \in DOMAIN get_page(DOMAIN bytes) |->
              [o \in PageOffset |->
                  LET a == p * PAGESIZE + o IN
                  IF a \in DOMAIN bytes THEN bytes[a]
                  ELSE get_page(DOMAIN bytes)[p][o]]])

readDevMem(A) == Touch(A, get_page(A))

\* The byte at a, as a read that touches it returns it.
ByteAt(a) == get_page({a})[page_idx(a)][page_addr(a)]

\* createMMappedBuffer, freePage, copyBO and importBO do nothing and say yes.
BufferRequest == [ok |-> TRUE, file |-> "none"]
=============================================================================
