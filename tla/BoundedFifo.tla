---------------------------- MODULE BoundedFifo -----------------------------
(***************************************************************************)
(* What the mouse queue of j820_keyb.c promises to those who have the      *)
(* device open: bytes come out in the order they went in, each at most     *)
(* once. A byte that arrives is left out only when nobody has the device   *)
(* open, when Capacity bytes wait already, or when it may be an answer to  *)
(* a command; what waits is thrown away only when nobody has it open.      *)
(***************************************************************************)
EXTENDS Naturals, Sequences

CONSTANTS
    Bytes,
    Answers,     \* bytes that may be answers
    Capacity

VARIABLES
    fifo,    \* the bytes that wait
    last,    \* the byte that arrived last
    users    \* how many have the device open

FifoInit == fifo = <<>> /\ users = 0 /\ last \notin Bytes

Join ==
    /\ users' = users + 1
    /\ fifo' = IF users = 0 THEN <<>> ELSE fifo
    /\ UNCHANGED last

Leave == users > 0 /\ users' = users - 1 /\ UNCHANGED <<fifo, last>>

Arrive(b) ==
    /\ last' = b
    /\ \/ users > 0 /\ Len(fifo) < Capacity /\ fifo' = Append(fifo, b)
       \/ (users = 0 \/ Len(fifo) = Capacity \/ b \in Answers) /\ UNCHANGED fifo
    /\ UNCHANGED users

Get ==
    /\ users > 0 /\ fifo # <<>>
    /\ fifo' = Tail(fifo)
    /\ UNCHANGED <<last, users>>

FifoNext == Join \/ Leave \/ Get \/ \E b \in Bytes : Arrive(b)

FifoSpec == FifoInit /\ [][FifoNext]_<<fifo, last, users>>

=============================================================================
