----------------------------- MODULE WireFormat ------------------------------
(***************************************************************************)
(* Integers and lists as they are in a datagram: the byte order of a user  *)
(* id, the size of a list, and what the client makes of the bytes that fit *)
(* its buffer.                                                             *)
(***************************************************************************)
EXTENDS Integers

CONSTANT BufferSize  \* bytes of the client's buffer: 2048 in the code

HeaderSize == 8  \* PacketHeader: a byte, and a length that is aligned

(* A login response fits.  The entries of a list that is cut do not fill   *)
(* the buffer to its end, which is how the client notices the cut.         *)
ASSUME BufferAssumption ==
  /\ BufferSize \in Nat /\ BufferSize >= HeaderSize + 5
  /\ (BufferSize - (HeaderSize + 1)) % 5 # 0
  /\ (BufferSize - (HeaderSize + 1)) % 8 # 0

-----------------------------------------------------------------------------
(* ntohl and htonl: the four bytes of an int in reverse.                   *)
Signed(b) == IF b >= 128 THEN b - 256 ELSE b

ntohl(x) ==
  (Signed(x % 256) * 16777216) + (((x \div 256) % 256) * 65536)
    + (((x \div 65536) % 256) * 256) + ((x \div 16777216) % 256)

-----------------------------------------------------------------------------
(* A list is a status byte and its entries: an id and a byte for a friend, *)
(* two ids for a request.                                                  *)
EntrySize(type) == IF type = "FRIEND_LIST_RESP" THEN 5 ELSE 8

ListSize(type, count) == HeaderSize + 1 + count * EntrySize(type)

(* recvfrom keeps what fits.                                               *)
Received(size) == IF size <= BufferSize THEN size ELSE BufferSize

Refused == -1

(* Mutant: the bytes left over are not looked at.                          *)
ShownUnchecked(type, n) == (n - (HeaderSize + 1)) \div EntrySize(type)

(* The number of entries the client shows of n bytes, or that it refuses.  *)
Shown(type, n) ==
  LET remaining == n - (HeaderSize + 1) IN
    IF remaining % EntrySize(type) # 0 THEN Refused
    ELSE remaining \div EntrySize(type)

(* A list of count entries is shown entry for entry if it fits the buffer, *)
(* and refused otherwise.                                                  *)
ShownWhole(type, count) ==
  Shown(type, Received(ListSize(type, count))) =
    IF ListSize(type, count) <= BufferSize THEN count ELSE Refused
=============================================================================
