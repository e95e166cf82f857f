------------------------------ MODULE RpcCrypt ------------------------------
(***************************************************************************)
(* The way of a body through rpc_buffer.c when its packet is encrypted:    *)
(* rpc_io_make_shell clones and encrypts it, the packet carries the bytes, *)
(* rpc_io_enqueue puts them into a new buffer and decrypts that.  The      *)
(* ciphers are those of rpc_crypt.c, with the padding of utils/tea.c.      *)
(*                                                                         *)
(* A byte is a number: i for the i-th of the body, 0 for a zero, Junk for  *)
(* memory that nobody wrote, and the code of a byte under a cipher.  A     *)
(* cipher keeps its bytes apart and in place: that holds block by block    *)
(* for AES and TEA in the modes used, and only whole blocks are made.      *)
(***************************************************************************)
EXTENDS Integers, Sequences

CONSTANT MaxSize    \* bound: size of a body

ASSUME MaxSizeAssumption == MaxSize \in Nat

GrowSize == 64          \* RPC_BUFFER_DEF_GROW_SIZE
SizeBytes == 4      \* sizeof(rpc_size_t)
AesBlock == 16      \* AES_BLOCK_SIZE

Junk == -1
Aes(b) == 1000 + b          \* a byte under AES
Tea(b) == 2000 + b          \* a byte under TEA
TeaHeader(pad) == 500 + pad \* the first byte of a TEA text
SizeCode(n) == 3000 + n     \* a size in the first bytes of a buffer

Fill(b, n) == [i \in 1..n |-> b]

VARIABLES
  crypt,    \* shell.crypt
  size,     \* bytes of the body
  buffer,   \* rpc_buffer_t: its chunk, of chunk_size bytes, and chunk_used
  packet,   \* the bytes on the wire
  legal,    \* nothing was read or written outside of its memory (history)
  step      \* the next step

cryptVars == <<crypt, size, buffer, packet, legal, step>>

-----------------------------------------------------------------------------
(* Mutant of rpc_buffer_new: no more memory than is used. *)
rpc_buffer_new_exact(bytes) == [chunk |-> bytes \o <<0>>, used |-> Len(bytes)]

rpc_buffer_new(bytes) ==
  [chunk |-> bytes \o <<0>> \o Fill(Junk, GrowSize), used |-> Len(bytes)]

(* The bytes of a buffer that are used: rpc_buffer_get_buffer and _get_size *)
Used(b) == SubSeq(b.chunk, 1, b.used)

(* The n bytes at position at, and whether they are there *)
Read(b, at, n) == [i \in 1..n |-> IF at + i <= Len(b.chunk) THEN b.chunk[at + i] ELSE Junk]
Inside(b, at, n) == at + n <= Len(b.chunk)

(* memcpy of bytes into b at position at *)
Put(b, at, bytes) ==
  [b EXCEPT !.chunk = [i \in 1..Len(b.chunk) |->
                         IF i \in at + 1..at + Len(bytes) THEN bytes[i - at] ELSE b.chunk[i]]]

-----------------------------------------------------------------------------
(* Ciphers *)

(* rpc_aes_crypt works on len bytes when it was given n: at least one more, *)
(* and a number of blocks.                                                  *)
aes_len(n) ==
  IF (n + 1) % AesBlock = 0 THEN n + 1 ELSE ((n + 1) \div AesBlock + 1) * AesBlock

Block(i) == ((i - 1) \div AesBlock) * AesBlock + 1 .. ((i - 1) \div AesBlock + 1) * AesBlock

aes_encrypt(in) == [i \in 1..Len(in) |-> Aes(in[i])]
aes_decrypt(in) ==
  [i \in 1..Len(in) |-> IF \A j \in Block(i) : in[j] >= Aes(Junk) THEN in[i] - Aes(0) ELSE Junk]

(* qq_encrypt: a header byte with the number of pad bytes, these, two more, *)
(* the text, and seven zeros                                                *)
tea_pad(n) == (8 - ((n + 10) % 8)) % 8

qq_encrypt(in) ==
  LET pad == tea_pad(Len(in))
      text == <<TeaHeader(pad)>> \o Fill(Junk, pad + 2) \o in \o Fill(0, 7)
  IN  [i \in 1..Len(text) |-> Tea(text[i])]

(* qq_decrypt: the text, or nothing when the size or the header is bad *)
qq_decrypt(in, room) ==
  LET pad == in[1] - Tea(TeaHeader(0))
      count == Len(in) - pad - 10
  IN  IF Len(in) % 8 # 0 \/ Len(in) < 16 \/ pad \notin 0..7 \/ room < count \/ count < 0 THEN <<>>
      ELSE [i \in 1..count |-> in[pad + 3 + i] - Tea(0)]

(* What rpc_tea_crypt allocates for n bytes *)
tea_room(n) == n + 32

-----------------------------------------------------------------------------

(* A body as the handlers append it *)
CryptInit ==
  /\ crypt \in {"none", "aes", "tea"}
  /\ size \in 1..MaxSize
  /\ buffer = [chunk |-> [i \in 1..size |-> i] \o Fill(Junk, GrowSize), used |-> size]
  /\ packet = <<>> /\ legal = TRUE
  /\ step = "clone"

rpc_buffer_clone ==
  /\ step = "clone" /\ step' = "encrypt"
  /\ buffer' = rpc_buffer_new(Used(buffer))
  /\ UNCHANGED <<crypt, size, packet, legal>>

(* The first bytes of an encrypted buffer tell the size it had. *)
Sealed(enc) ==
  LET b == IF Len(buffer.chunk) - SizeBytes < Len(enc)
           THEN [chunk |-> Fill(Junk, Len(enc) + SizeBytes + 1), used |-> buffer.used]
           ELSE buffer
  IN  [Put(Put(b, 0, Fill(SizeCode(buffer.used), SizeBytes)), SizeBytes, enc)
         EXCEPT !.used = Len(enc) + SizeBytes]

rpc_buffer_encrypt ==
  /\ step = "encrypt" /\ step' = "send"
  /\ CASE crypt = "none" -> UNCHANGED <<buffer, legal>>
       [] crypt = "aes" -> LET n == aes_len(buffer.used) IN
            /\ buffer' = Sealed(aes_encrypt(Read(buffer, 0, n)))
            /\ legal' = Inside(buffer, 0, n)
       [] crypt = "tea" -> LET enc == qq_encrypt(Used(buffer)) IN
            /\ buffer' = Sealed(enc)
            /\ legal' = (Len(enc) <= tea_room(buffer.used))
  /\ UNCHANGED <<crypt, size, packet>>

(* rpc_io_make_shell puts the bytes behind a header, rpc_io_enqueue takes   *)
(* them off again.                                                          *)
CryptSend ==
  /\ step = "send" /\ step' = "receive"
  /\ packet' = Used(buffer)
  /\ UNCHANGED <<crypt, size, buffer, legal>>

CryptReceive ==
  /\ step = "receive" /\ step' = "decrypt"
  /\ buffer' = rpc_buffer_new(packet)
  /\ UNCHANGED <<crypt, size, packet, legal>>

(* A new chunk, if one is needed, is not that with the size any more. *)
Opened(dec, decsize) ==
  LET b == IF Len(buffer.chunk) - SizeBytes < decsize
           THEN [chunk |-> Fill(Junk, decsize - SizeBytes + 1), used |-> buffer.used]
           ELSE buffer
      n == b.chunk[1] - SizeCode(0)
  IN  [Put(b, 0, SubSeq(dec, 1, n)) EXCEPT !.used = n]

rpc_buffer_decrypt ==
  /\ step = "decrypt" /\ step' = "done"
  /\ LET given == buffer.used - SizeBytes IN
     CASE crypt = "none" -> UNCHANGED <<buffer, legal>>
       [] crypt = "aes" -> LET n == aes_len(given) IN
            /\ buffer' = Opened(aes_decrypt(Read(buffer, SizeBytes, n)), n)
            /\ legal' = (legal /\ Inside(buffer, SizeBytes, n) /\ buffer'.used <= n)
       [] crypt = "tea" -> LET dec == qq_decrypt(Read(buffer, SizeBytes, given), tea_room(given)) IN
            /\ buffer' = Opened(dec, IF dec = <<>> THEN tea_room(given) ELSE Len(dec))
            /\ legal' = (legal /\ buffer'.used <= tea_room(given))
  /\ UNCHANGED <<crypt, size, packet>>

CryptNext == rpc_buffer_clone \/ rpc_buffer_encrypt \/ CryptSend \/ CryptReceive \/ rpc_buffer_decrypt

CryptSpec == CryptInit /\ [][CryptNext]_cryptVars

-----------------------------------------------------------------------------

(***************************************************************************)
(* A body of any size comes out of the decryption as it went into the      *)
(* encryption, under every cipher, and no copy leaves its memory: although *)
(* AES works on up to a block more than it is given on either side, and a  *)
(* reallocation in rpc_buffer_decrypt would lose the size (rpc_buffer.c:   *)
(* 188, 197).                                                              *)
(***************************************************************************)
CryptRoundTrip ==
  step = "done" => legal /\ Used(buffer) = [i \in 1..size |-> i]
============================================================================
