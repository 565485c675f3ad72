---------------------------- MODULE MCBramShared ----------------------------
EXTENDS BramShared, TLC

Bo(type, addr, size) ==
    Payload("WRITE", addr, <<0>>, <<>>, [Extension(type) EXCEPT !.size = size])
Peer == <<"peer", 0>>
Import(addr, name, size) ==
    Payload("WRITE", addr, <<0>>, <<>>,
            [Extension("IMPORT_BO") EXCEPT !.size = size, !.file_name = name])
Copy(addr, name) ==
    Payload("WRITE", addr, <<0>>, <<>>,
            [Extension("COPY_BO") EXCEPT !.size = 1, !.file_name = name])

\* Buffers of bytes 1-2, 2-3 and none; another process's file and the first
\* buffer's imported; accesses in the buffers, from one into the other, from
\* outside into them and over the end of the memory.
Requests ==
    {Bo("ALLOC_BO", 1, 2), Bo("ALLOC_BO", 2, 2), Bo("ALLOC_BO", 2, 0),
     Bo("FREE_BO", 1, 0), Bo("FREE_BO", 2, 0),
     Import(1, Peer, 2), Import(2, get_mem_file_name(1), 1), Copy(1, Peer),
     Payload("WRITE", 2, <<1, 1>>, <<>>, NoExtension),
     Payload("WRITE", 0, <<1, 1>>, <<>>, NoExtension),
     Payload("WRITE", 1, <<0, 1, 1>>, <<TRUE, FALSE>>, NoExtension),
     Payload("READ", 2, <<0, 0>>, <<>>, NoExtension),
     Payload("READ", 0, <<0, 0>>, <<>>, NoExtension),
     Payload("READ", 3, <<0, 0>>, <<>>, NoExtension)}
PeerWrites01 == {[at |-> 0, byte |-> 1]}

Sym == Permutations(Pointer)
=============================================================================
