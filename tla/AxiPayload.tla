----------------------------- MODULE AxiPayload -----------------------------
(***************************************************************************)
(* The transactions of the AXI BRAM controller's simulation model          *)
(* (src/src/bd/soc/ip/soc_axi_bram_ctrl_0_0/src): the fields of an         *)
(* xtlm::aximm_payload that axi_bram_memory_imp looks at, and the          *)
(* P2P_XTLM_extension it may carry.                                        *)
(***************************************************************************)
EXTENDS Integers, Sequences

CONSTANTS C_MEMORY_DEPTH, C_S_AXI_DATA_WIDTH, Byte

ASSUME PayloadAssumption ==
    /\ C_MEMORY_DEPTH \in Nat \ {0}
    /\ C_S_AXI_DATA_WIDTH \in Nat \ {0}

\* Depth times width in bits, which the code compares with byte addresses.
m_mem_addr_width == C_MEMORY_DEPTH * C_S_AXI_DATA_WIDTH

NoFile == "none"
NoExtension == [type |-> "none"]

\* A fresh extension of the given type; the fields the type does not use stay
\* at their defaults.
Extension(type) ==
    [type |-> type, size |-> 0, file_name |-> NoFile,
     src_offset |-> 0, dst_offset |-> 0, resp |-> FALSE]

\* data is the payload's buffer; an empty byte_enable is the null pointer.
Payload(command, addr, data, byte_enable, ext) ==
    [command |-> command, address |-> addr, data |-> data,
     length |-> Len(data), byte_enable |-> byte_enable, ext |-> ext,
     status |-> "incomplete"]

IsExtension(ext) == {ext.size, ext.src_offset, ext.dst_offset} \subseteq Nat

IsPayload(t) ==
    /\ t.address \in Nat
    /\ t.length \in Nat
    /\ t.data \in Seq(Byte) /\ Len(t.data) = t.length
    /\ t.byte_enable \in Seq(BOOLEAN)
    /\ t.ext # NoExtension => IsExtension(t.ext)

address(t) == t.address % m_mem_addr_width

\* Mutant: only the first byte is checked.
InRange_slip(t) == address(t) < m_mem_addr_width

\* The range check, after the address was wrapped.
InRange(t) == address(t) + t.length <= m_mem_addr_width

Span(t) == address(t) .. address(t) + t.length - 1

\* Index of an address of the span in the payload's buffer.
At(t, a) == a - address(t) + 1

\* byte_enable_ptr[(index - 1) % byte_enable_len]
Enabled(t, a) ==
    \/ t.byte_enable = <<>>
    \/ t.byte_enable[((a - address(t)) % Len(t.byte_enable)) + 1]

\* What a write stores where.
Stored(t) == [a \in {x \in Span(t) : Enabled(t, x)} |-> t.data[At(t, a)]]

Complete(t, status) == [t EXCEPT !.status = status]
=============================================================================
