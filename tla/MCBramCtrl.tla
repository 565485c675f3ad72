----------------------------- MODULE MCBramCtrl -----------------------------
\* Four bytes in two pages.  Transfers inside a page, across the pages, at a
\* wrapped address, over the end, with byte enables and with an extension.
EXTENDS BramCtrl

Read(a, n) == Payload("READ", a, [i \in 1 .. n |-> 0], <<>>, NoExtension)
Write(a, data, enable) == Payload("WRITE", a, data, enable, NoExtension)

Reads == {Read(5, 2), Read(3, 2)}
Writes == {Write(1, <<1, 0>>, <<>>), Write(4, <<1, 1, 0, 1>>, <<TRUE, FALSE>>),
           Write(7, <<0, 1>>, <<>>),
           Payload("WRITE", 2, <<0>>, <<>>, Extension("ALLOC_BO"))}
Debugs == {Read(2, 2), Write(6, <<0>>, <<>>)}
=============================================================================
