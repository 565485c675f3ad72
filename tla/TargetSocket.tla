---------------------------- MODULE TargetSocket ----------------------------
(***************************************************************************)
(* The two target sockets of axi_bram_memory_imp and the SC_METHOD behind  *)
(* each: a transaction waits in the socket utility until an activation of  *)
(* the method takes it, and its response in a list until the master has    *)
(* sampled the one before it.  A method is activated once for any number   *)
(* of notifications since its last activation.                             *)
(***************************************************************************)
EXTENDS Naturals, Sequences

CONSTANT Outstanding   \* bound: unanswered transactions of a channel

VARIABLES trans,     \* transactions in the socket utility
          resp_vec,  \* m_rd_req_vec and m_wr_resp_vec
          notified,  \* an event of the method's sensitivity list is pending
          unsampled  \* the master holds a response it has not sampled

socketvars == <<trans, resp_vec, notified, unsampled>>

Channel == {"rd", "wr"}

SocketInit ==
    /\ trans = [ch \in Channel |-> <<>>]
    /\ resp_vec = [ch \in Channel |-> <<>>]
    /\ notified = [ch \in Channel |-> FALSE]
    /\ unsampled = [ch \in Channel |-> FALSE]

is_trans_available(ch) == trans[ch] # <<>>
is_master_ready(ch) == ~unsampled[ch]

\* The master sends a transaction: transaction_available.
Arrive(ch, t) ==
    /\ Len(trans[ch]) + Len(resp_vec[ch]) < Outstanding
    /\ trans' = [trans EXCEPT ![ch] = Append(@, t)]
    /\ notified' = [notified EXCEPT ![ch] = TRUE]
    /\ UNCHANGED <<resp_vec, unsampled>>

\* The response list once the activation has taken what is there.
Taken(ch, reply) ==
    IF is_trans_available(ch) THEN Append(resp_vec[ch], reply) ELSE resp_vec[ch]

SendFirst(ch, queue) ==
    /\ queue # <<>> /\ is_master_ready(ch)
    /\ resp_vec' = [resp_vec EXCEPT ![ch] = Tail(queue)]
    /\ unsampled' = [unsampled EXCEPT ![ch] = TRUE]

SendNothing(ch, queue) ==
    /\ queue = <<>> \/ ~is_master_ready(ch)
    /\ resp_vec' = [resp_vec EXCEPT ![ch] = queue]
    /\ UNCHANGED unsampled

\* Mutant: the response goes out only in an activation that takes nothing.
Activate_slip(ch, reply) ==
    /\ notified[ch]
    /\ notified' = [notified EXCEPT ![ch] = FALSE]
    /\ trans' = [trans EXCEPT ![ch] =
                    IF is_trans_available(ch) THEN Tail(@) ELSE @]
    /\ IF is_trans_available(ch)
       THEN /\ resp_vec' = [resp_vec EXCEPT ![ch] = Taken(ch, reply)]
            /\ UNCHANGED unsampled
       ELSE SendFirst(ch, resp_vec[ch]) \/ SendNothing(ch, resp_vec[ch])

\* One activation: at most one transaction is taken and one response sent.
Activate(ch, reply) ==
    /\ notified[ch]
    /\ notified' = [notified EXCEPT ![ch] = FALSE]
    /\ trans' = [trans EXCEPT ![ch] =
                    IF is_trans_available(ch) THEN Tail(@) ELSE @]
    /\ SendFirst(ch, Taken(ch, reply)) \/ SendNothing(ch, Taken(ch, reply))

\* Mutant: the method is not sensitive to the sampling of its response.
Sample_slip(ch) ==
    /\ unsampled[ch]
    /\ unsampled' = [unsampled EXCEPT ![ch] = FALSE]
    /\ UNCHANGED <<trans, resp_vec, notified>>

\* The master samples a response: data_sampled, resp_sampled.
Sample(ch) ==
    /\ unsampled[ch]
    /\ unsampled' = [unsampled EXCEPT ![ch] = FALSE]
    /\ notified' = [notified EXCEPT ![ch] = TRUE]
    /\ UNCHANGED <<trans, resp_vec>>
=============================================================================
