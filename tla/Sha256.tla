------------------------------- MODULE Sha256 -------------------------------
(***************************************************************************)
(* The streaming part of sha256.c: how sha256_update and sha256_finish cut *)
(* a message that arrives in pieces into the blocks sha256_process sees.   *)
(*                                                                         *)
(* Abstractions.  sha256_process is not interpreted: a digest is the list  *)
(* of blocks it has been given, so two digests are equal exactly when the  *)
(* blocks are.  The block, the length field and the two words of the       *)
(* length are constants, and a byte holds 0 .. ByteSize - 1.               *)
(***************************************************************************)
EXTENDS Integers, Sequences, SequencesExt

CONSTANTS
  Block,        \* 64: bytes in a block
  LenBytes,     \* 8: bytes in the length that ends a message
  ByteSize,     \* 256: values of a byte
  TotalWord     \* 2^32: what total[0] counts up to

ASSUME ShaAssumption ==
  /\ Block \in Nat /\ LenBytes \in Nat \ {0} /\ LenBytes < Block
  /\ ByteSize \in Nat \ {0, 1} /\ TotalWord \in Nat /\ TotalWord > 2 * Block
  /\ TotalWord % Block = 0

Zeros(n) == [i \in 1..n |-> 0]

(* memcpy(buffer + left, input, Len(input))                                *)
Overwritten(buffer, left, input) ==
  [i \in 1..Block |-> IF i > left /\ i <= left + Len(input) THEN input[i - left]
                      ELSE buffer[i]]

(* sha256_starts; what the buffer holds is not read before it is written.  *)
Starts == [total |-> <<0, 0>>, buffer |-> Zeros(Block), blocks |-> <<>>]

(* total[0] += length with the carry into total[1].                        *)
Counted(total, length) ==
  LET low == (total[1] + length) % TotalWord
  IN <<low, IF low < length THEN total[2] + 1 ELSE total[2]>>

(* Seeded fault: left is not reset when the buffer has been filled.        *)
RestAtLeft(filled, left) == left

(* Where the rest of the input goes in the buffer.                         *)
RestAt(filled, left) == IF filled THEN 0 ELSE left

(* sha256_update: top up the buffer, hash whole blocks straight from the   *)
(* input, keep the rest.                                                   *)
Update(ctx, input) ==
  LET left == ctx.total[1] % Block
      fill == Block - left
      filled == left > 0 /\ Len(input) >= fill
      buffer == IF filled THEN Overwritten(ctx.buffer, left, SubSeq(input, 1, fill))
                ELSE ctx.buffer
      rest == IF filled THEN SubSeq(input, fill + 1, Len(input)) ELSE input
      whole == Len(rest) \div Block
      body == [i \in 1..whole |-> SubSeq(rest, (i - 1) * Block + 1, i * Block)]
      tail == SubSeq(rest, whole * Block + 1, Len(rest))
  IN IF input = <<>> THEN ctx
     ELSE [total |-> Counted(ctx.total, Len(input)),
           buffer |-> Overwritten(buffer, RestAt(filled, left), tail),
           blocks |-> ctx.blocks \o (IF filled THEN <<buffer>> ELSE <<>>) \o body]

(* The bytes of n, most significant first, as PUT_UINT32 writes them.      *)
BytesOf(n) == [i \in 1..LenBytes |-> (n \div ByteSize ^ (LenBytes - i)) % ByteSize]

(* sha256_padding is 0x80 and then zeros.                                  *)
Padding(n) == [i \in 1..n |-> IF i = 1 THEN ByteSize \div 2 ELSE 0]

(* sha256_finish; the length is that of the message in bits.               *)
Finish(ctx) ==
  LET bits == 8 * (ctx.total[2] * TotalWord + ctx.total[1])
      last == ctx.total[1] % Block
      padn == IF last < Block - LenBytes THEN Block - LenBytes - last
              ELSE 2 * Block - LenBytes - last
  IN Update(Update(ctx, Padding(padn)), BytesOf(bits)).blocks

(* The digest of a message that arrives in these pieces.                   *)
Digest(pieces) ==
  LET ctx[i \in 0..Len(pieces)] == IF i = 0 THEN Starts ELSE Update(ctx[i - 1], pieces[i])
  IN Finish(ctx[Len(pieces)])

-----------------------------------------------------------------------------
(* The reference: the message, 0x80, as few zeros as end a block, and the  *)
(* length, cut into blocks.                                                *)
Padded(m) ==
  LET zeros == CHOOSE n \in 0..Block - 1 : (Len(m) + 1 + n + LenBytes) % Block = 0
  IN m \o Padding(1 + zeros) \o BytesOf(8 * Len(m))
BlocksOf(m) ==
  [i \in 1..Len(Padded(m)) \div Block |-> SubSeq(Padded(m), (i - 1) * Block + 1, i * Block)]
Reference(pieces) == BlocksOf(FlattenSeq(pieces))
==============================================================================
