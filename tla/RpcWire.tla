------------------------------ MODULE RpcWire ------------------------------
(***************************************************************************)
(* Packets on a connection: rpc_io_make_shell puts a shell before a body,  *)
(* the stream arrives in pieces of any size, rpc_io_enqueue writes each    *)
(* piece to the ring buffer of the connection (rpc_ringbuffer.c) and takes *)
(* whole packets out.                                                      *)
(*                                                                         *)
(* A byte is <<packet, place in the packet>>.  The shell has Header bytes, *)
(* which say how long the body is.                                         *)
(*                                                                         *)
(* Two things in this code are undefined, and the model stops there:       *)
(*  - a read that reaches the end of a wrapped buffer stores a pointer     *)
(*    behind the structure and leaves the second part out (rpc_rb_read);   *)
(*  - when a shell was read and its body is not there yet, the next call   *)
(*    uses a pointer that was never set (rpc_io_enqueue).                  *)
(***************************************************************************)
EXTENDS Naturals, Sequences

CONSTANTS
  Header,      \* sizeof(rpc_shell_t)
  Grow,        \* RPC_IO_DEF_GROW_SIZE, first capacity and growth
  Bodies,      \* sizes of bodies
  MaxPackets,  \* bound: packets that are sent
  MaxPiece     \* bound: bytes that one recv returns

ASSUME SizesAssumption ==
  /\ Header \in Nat \ {0} /\ Grow \in Nat \ {0} /\ Bodies \subseteq Nat
  /\ MaxPackets \in Nat /\ MaxPiece \in Nat

VARIABLES
  sizes,    \* sizes[p]: the size of the body of packet p
  wire,     \* bytes on their way
  rb,       \* the ring buffer: cell, head, tail, capacity
  cached,   \* shell_cached
  got,      \* packets given to the processors
  pc        \* the receiving thread: "recv", "loop" in rpc_io_enqueue, "refused", "undefined"

vars == <<sizes, wire, rb, cached, got, pc>>

Old == <<0, 0>>     \* what a cell holds that was not written

rpc_rb_new(capacity) ==
  [cell |-> [i \in 0..(capacity - 1) |-> Old], head |-> 0, tail |-> 0, capacity |-> capacity]

Init ==
  /\ sizes = <<>> /\ wire = <<>> /\ got = <<>>
  /\ rb = rpc_rb_new(Grow)
  /\ cached = FALSE
  /\ pc = "recv"

-----------------------------------------------------------------------------
(* rpc_ringbuffer.c *)

(* Mutant of rpc_rb_can_read: a wrapped buffer counted without its second part. *)
rpc_rb_can_read_first(b) ==
  IF b.head <= b.tail THEN b.tail - b.head ELSE b.capacity - b.head

rpc_rb_can_read(b) ==
  IF b.head <= b.tail THEN b.tail - b.head ELSE b.capacity - (b.head - b.tail)

rpc_rb_can_write(b) == b.capacity - rpc_rb_can_read(b)

(* A read of n that the code cannot do *)
Crosses(b, n) == b.head >= b.tail /\ n >= b.capacity - b.head

(* The bytes of rpc_rb_read, and the buffer after it *)
Bytes(b, n) == [i \in 1..n |-> b.cell[(b.head + i - 1) % b.capacity]]
Advanced(b, n) == [b EXCEPT !.head = (@ + n) % b.capacity]

(* rpc_rb_write moves to a larger buffer first. *)
MustGrow(b, n) == n >= rpc_rb_can_write(b)

Grown(b, n) ==
  LET used == rpc_rb_can_read(b)
      capacity == used + n + Grow
  IN  [cell |-> [i \in 0..(capacity - 1) |-> IF i < used THEN Bytes(b, used)[i + 1] ELSE Old],
       head |-> 0, tail |-> used, capacity |-> capacity]

(* The copy of data, in one part or in two *)
Written(b, data) ==
  LET at(i) == (b.tail + i - 1) % b.capacity
  IN  [b EXCEPT !.cell = [c \in DOMAIN b.cell |->
                            IF \E i \in 1..Len(data) : at(i) = c
                            THEN data[CHOOSE i \in 1..Len(data) : at(i) = c]
                            ELSE b.cell[c]],
                !.tail = at(Len(data) + 1)]

rpc_rb_write(b, data) ==
  Written(IF MustGrow(b, Len(data)) THEN Grown(b, Len(data)) ELSE b, data)

-----------------------------------------------------------------------------
(* The sender *)

(* rpc_io_make_shell *)
Packet(p, size) == [i \in 1..(Header + size) |-> <<p, i>>]

(* The bytes of rpc_io_make_shell go to the stream. *)
Send(size) ==
  /\ Len(sizes) < MaxPackets
  /\ sizes' = Append(sizes, size)
  /\ wire' = wire \o Packet(Len(sizes) + 1, size)
  /\ UNCHANGED <<rb, cached, got, pc>>

-----------------------------------------------------------------------------
(* The receiver *)

(* A piece of n bytes: the beginning of rpc_io_enqueue.  Growing reads the  *)
(* whole buffer.                                                            *)
Receive(n) ==
  /\ pc = "recv" /\ n <= Len(wire)
  /\ wire' = SubSeq(wire, n + 1, Len(wire))
  /\ IF MustGrow(rb, n) /\ Crosses(rb, rpc_rb_can_read(rb))
     THEN pc' = "undefined" /\ UNCHANGED rb
     ELSE pc' = "loop" /\ rb' = rpc_rb_write(rb, SubSeq(wire, 1, n))
  /\ UNCHANGED <<sizes, cached, got>>

(* Not enough for a shell *)
LoopEnd ==
  /\ pc = "loop" /\ ~cached /\ rpc_rb_can_read(rb) < Header
  /\ pc' = "recv"
  /\ UNCHANGED <<sizes, wire, rb, cached, got>>

LoopUndefined ==
  /\ pc = "loop" /\ (cached \/ (rpc_rb_can_read(rb) >= Header /\ Crosses(rb, Header)))
  /\ pc' = "undefined"
  /\ UNCHANGED <<sizes, wire, rb, cached, got>>

(* The packet whose shell these bytes are, or 0: magic or version is wrong. *)
Shell(bytes) ==
  IF \E p \in 1..Len(sizes) : bytes = [i \in 1..Header |-> <<p, i>>]
  THEN bytes[1][1] ELSE 0

(* Mutant of Loop: one packet for each call. *)
LoopOnce ==
  /\ pc = "loop" /\ ~cached /\ rpc_rb_can_read(rb) >= Header /\ ~Crosses(rb, Header)
  /\ LET p == Shell(Bytes(rb, Header))
         rest == Advanced(rb, Header)
         size == sizes[p]
     IN  /\ rpc_rb_can_read(rest) >= size /\ ~(size # 0 /\ Crosses(rest, size))
         /\ got' = Append(got, [shell |-> p, body |-> Bytes(rest, size)])
         /\ rb' = Advanced(rest, size) /\ pc' = "recv"
         /\ UNCHANGED cached
  /\ UNCHANGED <<sizes, wire>>

(* One turn of the loop with a shell *)
Loop ==
  /\ pc = "loop" /\ ~cached /\ rpc_rb_can_read(rb) >= Header /\ ~Crosses(rb, Header)
  /\ LET p == Shell(Bytes(rb, Header))
         rest == Advanced(rb, Header)
         size == sizes[p]
     IN  \/ /\ p = 0 /\ pc' = "refused"
            /\ rb' = rest /\ UNCHANGED <<cached, got>>
         \/ /\ p # 0 /\ rpc_rb_can_read(rest) < size
            /\ cached' = TRUE /\ pc' = "recv"
            /\ rb' = rest /\ UNCHANGED got
         \/ /\ p # 0 /\ rpc_rb_can_read(rest) >= size /\ size # 0 /\ Crosses(rest, size)
            /\ pc' = "undefined"
            /\ rb' = rest /\ UNCHANGED <<cached, got>>
         \/ /\ p # 0 /\ rpc_rb_can_read(rest) >= size /\ ~(size # 0 /\ Crosses(rest, size))
            /\ got' = Append(got, [shell |-> p, body |-> Bytes(rest, size)])
            /\ rb' = Advanced(rest, size) /\ UNCHANGED <<pc, cached>>
  /\ UNCHANGED <<sizes, wire>>

-----------------------------------------------------------------------------

Receiver ==
  \/ \E n \in 1..MaxPiece : Receive(n)
  \/ LoopEnd \/ LoopUndefined \/ Loop

Next == (\E size \in Bodies : Send(size)) \/ Receiver

Spec == Init /\ [][Next]_vars

(* The receiving thread runs, and the stream brings its bytes. *)
Fairness == WF_vars(Receiver)

-----------------------------------------------------------------------------

(* What a processor should get for packet p with a body of size bytes *)
Whole(p, size) == [shell |-> p, body |-> SubSeq(Packet(p, size), Header + 1, Header + size)]

Wholes == {Whole(p, size) : p \in 1..MaxPackets, size \in Bodies}
SentPackets == [p \in 1..Len(sizes) |-> Whole(p, sizes[p])]

Channel == INSTANCE FifoChannel WITH Message <- Wholes, sent <- SentPackets, delivered <- got

(***************************************************************************)
(* However the stream is cut and however often the buffer wraps and grows, *)
(* the processors get the packets that were sent, whole and in order.      *)
(***************************************************************************)
PacketsIntact == Channel!Spec

(***************************************************************************)
(* Again and again every packet that was sent so far was given to a        *)
(* processor: once no more are sent, none waits in the buffer for the      *)
(* bytes of a next one, or was refused (rpc_io_enqueue: -1, bad request).  *)
(***************************************************************************)
AllDelivered == []<>(Len(got) = Len(sizes) \/ pc = "undefined")
============================================================================
