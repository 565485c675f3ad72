----------------------------- MODULE FlatMemory -----------------------------
(***************************************************************************)
(* What the BRAM controller promises its master: one array of bytes.  A    *)
(* transaction takes effect at one moment between its arrival and its      *)
(* answer, the transactions of a channel in the order of their arrival,    *)
(* and an answer to a read carries the bytes of that moment.               *)
(***************************************************************************)
EXTENDS AxiPayload

CONSTANTS Channel, ReadRequest, WriteRequest, DebugRequest,
          Junk   \* a byte nobody wrote

VARIABLES memory, waiting, answered, probe

flatvars == <<memory, waiting, answered, probe>>

\* A request for a buffer is granted, and has no effect.
Granted(t) ==
    [Complete(t, "OK") EXCEPT !.ext.resp = TRUE, !.ext.file_name = NoFile]

Bytes(t) == [i \in 1 .. t.length |-> memory[address(t) + i - 1]]

Result(t) ==
    IF ~InRange(t) THEN Complete(t, "ADDRESS_ERROR")
    ELSE IF t.command = "READ"
    THEN [Complete(t, "OK") EXCEPT !.data = Bytes(t)]
    ELSE IF t.ext = NoExtension THEN Complete(t, "OK")
    ELSE Granted(t)

Count(t) ==
    IF InRange(t) /\ (t.command = "READ" \/ t.ext = NoExtension)
    THEN t.length ELSE 0

Effect(t) ==
    memory' = IF t.command = "WRITE" /\ InRange(t) /\ t.ext = NoExtension
              THEN [a \in DOMAIN memory |->
                       IF a \in DOMAIN Stored(t) THEN Stored(t)[a] ELSE memory[a]]
              ELSE memory

FlatInit ==
    /\ memory = [a \in 0 .. m_mem_addr_width - 1 |-> Junk]
    /\ waiting = [ch \in Channel |-> <<>>]
    /\ answered = [ch \in Channel |-> <<>>]
    /\ probe = [status |-> "incomplete", data |-> <<>>, count |-> 0]

Request(ch) == IF ch = "rd" THEN ReadRequest ELSE WriteRequest

Accept(ch) ==
    /\ \E t \in Request(ch) : waiting' = [waiting EXCEPT ![ch] = Append(@, t)]
    /\ UNCHANGED <<memory, answered, probe>>

\* answers is answered[ch] with what this step performs.
Deliver(ch, answers) ==
    /\ answers # <<>>
    /\ answered' = [answered EXCEPT ![ch] = Tail(answers)]
Keep(ch, answers) == answered' = [answered EXCEPT ![ch] = answers]

Perform(ch) ==
    /\ waiting[ch] # <<>>
    /\ Effect(Head(waiting[ch]))
    /\ waiting' = [waiting EXCEPT ![ch] = Tail(@)]
    /\ LET answers == Append(answered[ch], Result(Head(waiting[ch])))
       IN Deliver(ch, answers) \/ Keep(ch, answers)
    /\ UNCHANGED probe

Answer(ch) == Deliver(ch, answered[ch]) /\ UNCHANGED <<memory, waiting, probe>>

\* The debug transport: effect and answer in one step.
Probe(t) ==
    /\ Effect(t)
    /\ probe' = [status |-> Result(t).status, data |-> Result(t).data,
                 count |-> Count(t)]
    /\ UNCHANGED <<waiting, answered>>

FlatNext ==
    \/ \E ch \in Channel : Accept(ch) \/ Perform(ch) \/ Answer(ch)
    \/ \E t \in DebugRequest : Probe(t)

FlatSpec == FlatInit /\ [][FlatNext]_flatvars
=============================================================================
