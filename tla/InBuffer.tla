------------------------------ MODULE InBuffer ------------------------------
(***************************************************************************)
(* The incoming buffer of a connection and the packets read from it:       *)
(* try_read, try_rpc_read, read_in and read_in_lookup of net.c, and        *)
(* rpc_execute of mtproto-client.c.                                        *)
(*                                                                         *)
(* The server sends packets; a packet is a length in words, in a header of *)
(* one byte or of a word, and that many words.  However the stream is cut, *)
(* by read() and by the ends of the blocks, each packet has to be handed   *)
(* on whole and as soon as its last byte is there.                         *)
(***************************************************************************)
EXTENDS Blocks

CONSTANTS
  Word,        \* bytes to a word, 4 in the code
  LongPacket,  \* 0x7f words: from here on the header is a word
  TooLong,     \* MAX_RESPONSE_SIZE, in words
  Packets,     \* the packets the server sends: their lengths in words
  MaxPackets   \* bound: packets sent

ASSUME PacketsAssumption ==
  /\ Word \in Nat \ {0} /\ Packets \subseteq Nat \ {0}
  /\ {LongPacket, TooLong, MaxPackets} \subseteq Nat

VARIABLES
  packets,   \* the lengths of the packets sent
  taken,     \* bytes that read() has returned
  buf        \* the buffer, and what has been made of its contents

in_vars == <<packets, taken, buf>>

HeaderSize(len) == IF len < LongPacket THEN 1 ELSE Word
Size(len) == HeaderSize(len) + Word * len

(* Where the ith packet ends, and the bytes behind a place up to another.  *)
End(i) ==
  LET end[n \in 0 .. Len(packets)] ==
        IF n = 0 THEN 0 ELSE end[n - 1] + Size(packets[n])
  IN end[i]
Stream(from, to) == [i \in 1 .. to - from |-> from + i]

(* blocks, from in_head to in_tail; in_bytes; executed: what the execute   *)
(* method was given; in_step: what is read next begins a packet.           *)
Buffer == [blocks : Seq(Block), in_bytes : Nat, executed : Seq(Seq(Bytes)),
           in_step : BOOLEAN]
Empty == [blocks |-> <<>>, in_bytes |-> 0, executed |-> <<>>, in_step |-> TRUE]

InTypeOK == /\ packets \in Seq(Packets) /\ Len(packets) <= MaxPackets
            /\ taken \in 0 .. End(Len(packets))
            /\ buf \in Buffer

InInit == packets = <<>> /\ taken = 0 /\ buf = Empty

-----------------------------------------------------------------------------
(* The loop of try_read: read() fills the last block; when it is full to   *)
(* the end there is a new one.  A byte at a time, since nothing depends on *)
(* how many read() returns at once.                                        *)
Put(chain, byte) ==
  LET filled == Fill(chain, <<byte>>)
  IN IF Last(filled).room > 0 THEN filled ELSE Append(filled, new_connection_buffer)
Receive(blocks, bytes) ==
  LET after[n \in 0 .. Len(bytes)] ==
        IF n = 0 THEN Chain(blocks) ELSE Put(after[n - 1], bytes[n])
  IN after[Len(bytes)]

(* read_in: the blocks are read up to the place of the last byte wanted.   *)
read_in(d, len) ==
  LET last == CHOOSE p \in (1 .. Len(d.blocks)) \X (1 .. len) :
                /\ IsPlace(d.blocks, p[1], p[2])
                /\ Len(Upto(d.blocks, p[1], p[2])) = len
  IN IF len = 0 THEN d
     ELSE [d EXCEPT !.blocks = From(@, last[1], last[2]), !.in_bytes = @ - len]

read_in_lookup(d, len) == SubSeq(Held(d.blocks), 1, len)

(* Seeded fault of rpc_execute: the limit is one too low.                  *)
rpc_execute_low(d, len) ==
  IF len >= TooLong - 1 THEN d
  ELSE [read_in(d, Word * len) EXCEPT
          !.executed = Append(@, read_in_lookup(d, Word * len))]

(* rpc_execute: the packet is read into Response; one that is too long is  *)
(* reported and left where it is.                                          *)
rpc_execute(d, len) ==
  IF len >= TooLong THEN d
  ELSE [read_in(d, Word * len) EXCEPT
          !.executed = Append(@, read_in_lookup(d, Word * len))]

(* The packets whose header the next byte begins: one of them, or none.    *)
PacketsAt(d) ==
  {i \in 1 .. Len(packets) : read_in_lookup(d, 1)[1] = End(i - 1) + 1}

(* Seeded fault of the loop of try_rpc_read: one byte more is waited for.  *)
try_one_late(d) ==
  LET here == IF d.in_bytes = 0 THEN {} ELSE PacketsAt(d)
      len == packets[CHOOSE i \in here : TRUE]
  IN CASE d.in_bytes = 0 -> d
       [] d.in_bytes > 0 /\ here = {} -> [d EXCEPT !.in_step = FALSE]
       [] here # {} -> IF d.in_bytes <= Size(len) THEN d
                       ELSE rpc_execute(read_in(d, HeaderSize(len)), len)

(* The loop of try_rpc_read, once: when there is a whole packet its header *)
(* is taken off and it is executed, else nothing happens from here on.     *)
(* Out of step, the length is whatever the data say.                       *)
try_one(d) ==
  LET here == IF d.in_bytes = 0 THEN {} ELSE PacketsAt(d)
      len == packets[CHOOSE i \in here : TRUE]
  IN CASE d.in_bytes = 0 -> d
       [] d.in_bytes > 0 /\ here = {} -> [d EXCEPT !.in_step = FALSE]
       [] here # {} -> IF d.in_bytes < Size(len) THEN d
                       ELSE rpc_execute(read_in(d, HeaderSize(len)), len)

(* Each time a byte is taken at least, so there is nothing left to do when *)
(* it went round as often as there were bytes.                             *)
try_rpc_read(d) ==
  LET after[n \in 0 .. d.in_bytes] == IF n = 0 THEN d ELSE try_one(after[n - 1])
  IN after[d.in_bytes]

-----------------------------------------------------------------------------
ServerSends(len) ==
  /\ Len(packets) < MaxPackets
  /\ packets' = Append(packets, len)
  /\ UNCHANGED <<taken, buf>>

(* read() has returned m bytes when it says EAGAIN or the stream ends; with *)
(* none, try_rpc_read is not called.                                        *)
try_read_in(m) ==
  /\ buf.in_step
  /\ taken' = taken + m
  /\ LET read == [buf EXCEPT !.blocks = Receive(@, Stream(taken, taken + m)),
                             !.in_bytes = @ + m]
     IN buf' = IF m = 0 THEN read ELSE try_rpc_read(read)
  /\ UNCHANGED packets

(* fail_connection frees the blocks; the next connection starts anew.       *)
fail_connection_in == packets' = <<>> /\ taken' = 0 /\ buf' = Empty

InNext == \/ \E len \in Packets : ServerSends(len)
          \/ \E m \in 0 .. End(Len(packets)) - taken : try_read_in(m)
          \/ fail_connection_in

InSpec == InInit /\ [][InNext]_in_vars

-----------------------------------------------------------------------------
(* Properties. *)

Payload(i) == Stream(End(i - 1) + HeaderSize(packets[i]), End(i))
Arrived == {i \in 0 .. Len(packets) : End(i) <= taken}

(* Each packet is handed on as soon as it has arrived whole, once, in       *)
(* order, with exactly its own bytes, wherever the blocks end.              *)
ExecutedAsArrived ==
  buf.executed = [i \in 1 .. Max(Arrived) |-> Payload(i)]

(* in_bytes, on which read_in and try_rpc_read rely without looking at the  *)
(* blocks, is what the blocks hold, and that is the rest of the stream.     *)
BlocksHoldTheRest ==
  /\ buf.in_bytes = Len(Held(buf.blocks))
  /\ Held(buf.blocks) = Stream(End(Max(Arrived)), taken)

(* The reader never takes data for the header of a packet: one that is too *)
(* long is skipped, as rpc_execute reports it.                             *)
InStep == buf.in_step

(* ReaderInStep: between two calls of try_rpc_read the blocks hold exactly *)
(* what has come of the packets not handed on, also after an error.        *)
ReaderInStep == InTypeOK /\ InStep /\ BlocksHoldTheRest

=============================================================================
