------------------------------- MODULE Blocks -------------------------------
(***************************************************************************)
(* The chains of blocks (struct connection_buffer of net.h) in which a     *)
(* connection keeps what it has read and what it has to write, from the    *)
(* head to the tail.  The bytes of a stream are numbered in their order,   *)
(* so that one that is lost, doubled or moved shows.                       *)
(***************************************************************************)
EXTENDS Integers, Sequences, SequencesExt

CONSTANT BlockSize   \* the size of a block, 1 << 20 in the code

ASSUME BlockSizeAssumption == BlockSize \in Nat \ {0}

Bytes == Nat \ {0}

(* What lies between rptr and wptr, and the room behind wptr. *)
Block == [data : Seq(Bytes), room : 0 .. BlockSize]
new_connection_buffer == [data |-> <<>>, room |-> BlockSize]

(* What the first n blocks hold, and what all of them hold. *)
Flat(blocks, n) == FlattenSeq([i \in 1 .. n |-> blocks[i].data])
Held(blocks) == Flat(blocks, Len(blocks))

(* The chain that is written to: there is a block in it. *)
Chain(blocks) == IF blocks = <<>> THEN <<new_connection_buffer>> ELSE blocks

Fill(chain, bytes) ==
  [chain EXCEPT ![Len(chain)] = [data |-> @.data \o bytes,
                                 room |-> @.room - Len(bytes)]]

(* The place of a byte: the block that it is in, and how far it is in it.  *)
IsPlace(blocks, k, r) == k \in 1 .. Len(blocks) /\ r \in 1 .. Len(blocks[k].data)

(* What the blocks hold up to a place, and the chain when that is gone: a  *)
(* block that is used to its end is freed, also when it is the last one.   *)
Upto(blocks, k, r) == Flat(blocks, k - 1) \o SubSeq(blocks[k].data, 1, r)
From(blocks, k, r) ==
  IF r = Len(blocks[k].data) THEN SubSeq(blocks, k + 1, Len(blocks))
  ELSE [SubSeq(blocks, k, Len(blocks)) EXCEPT ![1].data = SubSeq(@, r + 1, Len(@))]

=============================================================================
