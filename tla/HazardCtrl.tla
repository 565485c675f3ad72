----------------------------- MODULE HazardCtrl -----------------------------
(***************************************************************************)
(* hazard_ctrl (src/RTL/module/hazard_ctrl.v): combinational.  From the    *)
(* requests of the stages in one cycle it decides what the front of the    *)
(* pipeline (PC, IF/ID) and the back (ID/EX, EX/MEM, MEM/WB) do at the     *)
(* next clock edge.  in is a record with one field per input port.         *)
(***************************************************************************)
CONSTANT X0

load_use_hazard(in) ==
    /\ in.load_pending_in
    /\ in.rd_load_use # X0
    /\ \/ in.id_use_rs1 /\ in.id_rs1 = in.rd_load_use
       \/ in.id_use_rs2 /\ in.id_rs2 = in.rd_load_use

branch_hazard_ex(in) == in.ex_branch_taken \/ in.ex_jalr

\* A slip: the pipeline does not wait for the memory.
mem_stall_slip(in) == in.mem_stall_req \/ in.load_skip_stale

mem_stall(in) ==
    in.mem_stall_req \/ (in.dmem_valid /\ ~in.dmem_ready) \/ in.load_skip_stale

stall_back(in) == in.stall \/ mem_stall(in)

\* A slip: imem_ready is taken for the stall it releases.
stall_front_slip(in) ==
    in.stall \/ load_use_hazard(in) \/ mem_stall(in) \/ in.imem_ready

stall_front(in) ==
    in.stall \/ load_use_hazard(in) \/ mem_stall(in) \/ ~in.imem_ready

\* A slip: a JAL does not squash the instruction fetched behind it.
flush_ifid_slip(in) == in.flush \/ branch_hazard_ex(in)

flush_ifid(in) == in.flush \/ branch_hazard_ex(in) \/ in.jump_if

\* A slip, once in the code (CHANGE_REPORT Bug 6): the load-use bubble kills
\* a load that is still held in EX.
flush_idex_slip(in) ==
    \/ in.flush
    \/ branch_hazard_ex(in)
    \/ load_use_hazard(in)
    \/ in.jump_if /\ ~stall_back(in)

flush_idex(in) ==
    \/ in.flush
    \/ branch_hazard_ex(in)
    \/ load_use_hazard(in) /\ ~stall_back(in)
    \/ in.jump_if /\ ~stall_back(in)
=============================================================================
