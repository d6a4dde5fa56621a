------------------------------ MODULE OutBuffer ------------------------------
(***************************************************************************)
(* The outgoing buffer of a connection (net.c: write_out and try_write) as *)
(* rpc_send_message of mtproto-client.c fills it: a chain of blocks, of    *)
(* which the last is written to and the first is sent from, and out_bytes, *)
(* by which the poll loop decides to ask for POLLOUT and alarm_query       *)
(* decides to send again.                                                  *)
(*                                                                         *)
(* Bytes are numbered in the order rpc_send_message is given them, so that *)
(* what the other end reads shows which of them were lost or moved.        *)
(***************************************************************************)
EXTENDS Blocks

CONSTANTS
  Lengths,      \* the packets that are sent: their lengths in bytes
  LongLength,   \* from this length on a packet has a long header
  LongHeader,   \* the length of that header, 4 in the code
  MaxBytes,     \* bound: bytes written to one connection
  MaxLosses     \* bound: times the connection is lost

(* The longest packet is a part of a file, 512 KB and its envelope.        *)
ASSUME SizesAssumption ==
  /\ LongHeader \in 1 .. BlockSize /\ Lengths \subseteq 1 .. BlockSize
  /\ {LongLength, MaxBytes, MaxLosses} \subseteq Nat

VARIABLES
  out,        \* the blocks from out_head to out_tail
  out_bytes,
  accepted,   \* bytes written to this connection so far
  wire,       \* those the kernel has taken, in the order it took them
  fitted,     \* history: each write fitted into the last block
  losses

out_vars == <<out, out_bytes, accepted, wire, fitted, losses>>

OutTypeOK == /\ out \in Seq(Block)
             /\ out_bytes \in Int
             /\ accepted \in 0 .. MaxBytes
             /\ wire \in Seq(Bytes)
             /\ fitted \in BOOLEAN
             /\ losses \in 0 .. MaxLosses

OutInit == /\ out = <<>> /\ out_bytes = 0
           /\ accepted = 0 /\ wire = <<>> /\ fitted = TRUE /\ losses = 0

-----------------------------------------------------------------------------
(* The bytes that follow the first k accepted ones. *)
Numbered(k, len) == [i \in 1 .. len |-> k + i]

(* write_out.  When the bytes do not fit, the first of them are copied     *)
(* into the last block, but its wptr stays where it is; the rest go into a *)
(* new block.                                                              *)
write_out(chain, bytes) ==
  LET y == Last(chain).room
  IN IF Len(bytes) <= y THEN Fill(chain, bytes)
     ELSE Fill(Append(chain, new_connection_buffer),
               SubSeq(bytes, y + 1, Len(bytes)))

Header(len) == IF len < LongLength THEN 1 ELSE LongHeader

(* write_out counts every byte, also those that it lost.                   *)
rpc_send_message(len) ==
  LET h == Header(len) IN
  /\ accepted + h + len <= MaxBytes
  /\ out' = write_out(write_out(Chain(out), Numbered(accepted, h)),
                      Numbered(accepted + h, len))
  /\ out_bytes' = out_bytes + h + len
  /\ accepted' = accepted + h + len
  /\ fitted' = (fitted /\ h + len <= Last(Chain(out)).room)
  /\ UNCHANGED <<wire, losses>>

(* Seeded faults of try_write: the pointer of a block that the kernel took *)
(* in part stays; only the last block is counted.                          *)
try_write_resends(k, r) ==
  /\ out_bytes > 0 /\ IsPlace(out, k, r)
  /\ wire' = wire \o Upto(out, k, r)
  /\ out_bytes' = out_bytes - Len(Upto(out, k, r))
  /\ out' = SubSeq(out, IF r = Len(out[k].data) THEN k + 1 ELSE k, Len(out))
  /\ UNCHANGED <<accepted, fitted, losses>>
try_write_uncounted(k, r) ==
  /\ out_bytes > 0 /\ IsPlace(out, k, r)
  /\ wire' = wire \o Upto(out, k, r)
  /\ out_bytes' = out_bytes - r
  /\ out' = From(out, k, r)
  /\ UNCHANGED <<accepted, fitted, losses>>

(* try_write: block after block, until the kernel takes no more.  The poll *)
(* loop calls it while out_bytes is not 0.                                 *)
try_write_out(k, r) ==
  /\ out_bytes > 0 /\ IsPlace(out, k, r)
  /\ wire' = wire \o Upto(out, k, r)
  /\ out_bytes' = out_bytes - Len(Upto(out, k, r))
  /\ out' = From(out, k, r)
  /\ UNCHANGED <<accepted, fitted, losses>>

(* fail_connection frees the blocks; the next connection starts anew.      *)
fail_connection_out ==
  /\ losses < MaxLosses /\ losses' = losses + 1
  /\ out' = <<>> /\ out_bytes' = 0
  /\ accepted' = 0 /\ wire' = <<>> /\ fitted' = TRUE

OutNext == \/ \E len \in Lengths : rpc_send_message(len)
           \/ \E k \in 1 .. Len(out), r \in 1 .. BlockSize : try_write_out(k, r)
           \/ fail_connection_out

OutSpec == OutInit /\ [][OutNext]_out_vars

-----------------------------------------------------------------------------
(* Properties. *)

Pending == Held(out)

(* Nothing that write_out was given is lost: it reports that it has taken  *)
(* every byte (the assertions in rpc_send_message), so what has been sent  *)
(* and what is buffered are together what was written, in its order.       *)
NothingLost == wire \o Pending = Numbered(0, accepted)

(* It is so as long as each write fits into what is left of the last       *)
(* block, however little the kernel takes at a time.                       *)
FittingIsKept == fitted => NothingLost

(* Whatever write_out loses, what is sent and buffered is in order and     *)
(* holds no byte twice, across block ends and partial writes.              *)
InOrder == \A i, j \in 1 .. Len(wire \o Pending) :
             i < j => (wire \o Pending)[i] < (wire \o Pending)[j]

(* out_bytes counts the bytes accepted and not sent.  So a byte that was   *)
(* lost stays counted until the connection fails, and the poll loop asks   *)
(* for POLLOUT all that time.                                              *)
BytesCounted == out_bytes = accepted - Len(wire)

(* InOrderAndCounted: what the stream still is and what the poll loop knows *)
(* of it, whatever write_out loses.                                        *)
InOrderAndCounted == OutTypeOK /\ InOrder /\ BytesCounted

=============================================================================
