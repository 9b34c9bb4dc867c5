---------------------------- MODULE AtomicMemory ----------------------------
(***************************************************************************)
(* What the board promises the core: every memory request is performed     *)
(* once, at one moment between the core presenting it and the core being   *)
(* allowed to go on, or is reported as failed; and nothing else touches    *)
(* memory.  While the core is held in reset its requests are ignored.      *)
(***************************************************************************)
CONSTANTS Addr, Data

VARIABLES mem,      \* contents of the memory
          request,  \* what the core asks: [strobe, write, addr, data]
          reset,    \* the core is held in reset
          outcome   \* Pending, or how the request was performed

vars == <<mem, request, reset, outcome>>

Pending == [done |-> FALSE]
Stored(ok)   == [done |-> TRUE, ok |-> ok]
Loaded(ok, d) == [done |-> TRUE, ok |-> ok, data |-> d]

Requests == [strobe : BOOLEAN, write : BOOLEAN, addr : Addr, data : Data]

Init == /\ mem \in [Addr -> Data]
        /\ request \in Requests
        /\ reset \in BOOLEAN
        /\ outcome = Pending

Asked == ~reset /\ request.strobe /\ outcome = Pending

Store == /\ Asked /\ request.write
         /\ \E ok \in BOOLEAN :
              /\ outcome' = Stored(ok)
              /\ mem' = IF ok THEN [mem EXCEPT ![request.addr] = request.data]
                        ELSE mem
         /\ UNCHANGED <<request, reset>>

Load == /\ Asked /\ ~request.write
        /\ \E ok \in BOOLEAN, d \in Data :
             /\ ok => d = mem[request.addr]
             /\ outcome' = Loaded(ok, d)
        /\ UNCHANGED <<mem, request, reset>>

\* The core goes on to its next request.
Advance == /\ ~reset /\ ~Asked
           /\ request' \in Requests /\ outcome' = Pending
           /\ UNCHANGED <<mem, reset>>

\* Reset is pressed, or released, while nothing is half done; under reset the
\* request follows the core's first instruction.
Press   == /\ request' \in Requests /\ reset' = TRUE /\ outcome' = Pending
           /\ UNCHANGED mem
Release == /\ reset /\ reset' = FALSE /\ outcome' = Pending
           /\ UNCHANGED <<mem, request>>

Next == Store \/ Load \/ Advance \/ Press \/ Release

Spec == Init /\ [][Next]_vars
=============================================================================
