--------------------------- MODULE WireFormatProofs ---------------------------
(***************************************************************************)
(* Lists of any length in a buffer of any size that BufferAssumption       *)
(* allows, and every positive id in both byte orders.                      *)
(***************************************************************************)
EXTENDS WireFormat, TLAPS

LEMMA WholeFriends ==
  ASSUME NEW count \in Nat
  PROVE  ShownWhole("FRIEND_LIST_RESP", count)
<1>1. EntrySize("FRIEND_LIST_RESP") = 5  BY DEF EntrySize
<1>2. CASE 9 + count * 5 <= BufferSize
  <2>1. (9 + count * 5 - 9) % 5 = 0 /\ (9 + count * 5 - 9) \div 5 = count
    OBVIOUS
  <2> QED  BY <1>1, <1>2, <2>1 DEF ShownWhole, Shown, Received, ListSize, HeaderSize, Refused
<1>3. CASE ~(9 + count * 5 <= BufferSize)
  BY <1>1, <1>3, BufferAssumption
  DEF ShownWhole, Shown, Received, ListSize, HeaderSize, Refused
<1> QED  BY <1>2, <1>3

LEMMA WholeRequests ==
  ASSUME NEW count \in Nat
  PROVE  ShownWhole("FRIEND_REQUEST_LIST_RESP", count)
<1>1. EntrySize("FRIEND_REQUEST_LIST_RESP") = 8  BY DEF EntrySize
<1>2. CASE 9 + count * 8 <= BufferSize
  <2>1. (9 + count * 8 - 9) % 8 = 0 /\ (9 + count * 8 - 9) \div 8 = count
    OBVIOUS
  <2> QED  BY <1>1, <1>2, <2>1 DEF ShownWhole, Shown, Received, ListSize, HeaderSize, Refused
<1>3. CASE ~(9 + count * 8 <= BufferSize)
  BY <1>1, <1>3, BufferAssumption
  DEF ShownWhole, Shown, Received, ListSize, HeaderSize, Refused
<1> QED  BY <1>2, <1>3

(* A list of any length is shown whole or refused, never shown in part     *)
(* (TestClient.cpp, 87 and 114).                                           *)
THEOREM ListNeverCut ==
  \A count \in Nat :
    ShownWhole("FRIEND_LIST_RESP", count) /\ ShownWhole("FRIEND_REQUEST_LIST_RESP", count)
BY WholeFriends, WholeRequests

-----------------------------------------------------------------------------
(* An int that is no negative one.                                         *)
NonNegativeInt == {x \in Nat : x < 128 * 16777216}

Byte == 0..255
SignedByte == -128..127

(* Its bytes, lowest first.                                                *)
LEMMA Bytes ==
  ASSUME NEW x \in NonNegativeInt,
         NEW y, y = x \div 256, NEW z, z = y \div 256, NEW b3, b3 = z \div 256
  PROVE  /\ x % 256 \in Byte /\ y % 256 \in Byte /\ z % 256 \in Byte
         /\ b3 \in 0..127
         /\ x = (x % 256) + 256 * (y % 256) + 65536 * (z % 256) + 16777216 * b3
<1>1. x % 256 \in Byte /\ y \in Nat /\ x = (x % 256) + 256 * y
  BY SMT DEF Byte, SignedByte, NonNegativeInt
<1>2. y % 256 \in Byte /\ z \in Nat /\ y = (y % 256) + 256 * z
  BY SMT, <1>1 DEF Byte, SignedByte, NonNegativeInt
<1>3. z % 256 \in Byte /\ b3 \in Nat /\ z = (z % 256) + 256 * b3
  BY SMT, <1>2 DEF Byte, SignedByte, NonNegativeInt
<1>4. x = (x % 256) + 256 * (y % 256) + 65536 * (z % 256) + 16777216 * b3
  BY SMT, <1>1, <1>2, <1>3 DEF Byte, SignedByte, NonNegativeInt
<1>5. b3 \in 0..127
  BY SMT, <1>1, <1>2, <1>3, <1>4 DEF Byte, SignedByte, NonNegativeInt
<1> QED  BY SMT, <1>1, <1>2, <1>3, <1>4, <1>5 DEF Byte, SignedByte, NonNegativeInt

(* x has the bytes b0, b1, b2, b3, the last one with the sign.             *)
HasBytes(x, b0, b1, b2, b3) == x = b0 + 256 * b1 + 65536 * b2 + 16777216 * b3

(* The number that is in the same bytes read the other way round.          *)
Turned(b0, b1, b2, b3) ==
  (Signed(b0) * 16777216) + (b1 * 65536) + (b2 * 256) + (IF b3 < 0 THEN b3 + 256 ELSE b3)

(* ntohl turns the bytes round; the byte that comes first has the sign.    *)
LEMMA Reversed ==
  ASSUME NEW b0 \in Byte, NEW b1 \in Byte, NEW b2 \in Byte, NEW b3 \in SignedByte,
         NEW x, HasBytes(x, b0, b1, b2, b3)
  PROVE  ntohl(x) = Turned(b0, b1, b2, b3)
<1>1. x % 256 = b0 /\ (x \div 256) = b1 + 256 * b2 + 65536 * b3
  BY SMT DEF Byte, SignedByte, HasBytes
<1>2. (x \div 256) % 256 = b1
  BY SMT, <1>1 DEF Byte, SignedByte, NonNegativeInt
<1>3. (x \div 65536) = b2 + 256 * b3
  BY SMT DEF Byte, SignedByte, HasBytes
<1>4. (x \div 65536) % 256 = b2
  BY SMT, <1>3 DEF Byte, SignedByte, NonNegativeInt
<1>5. (x \div 16777216) = b3
  BY SMT DEF Byte, SignedByte, HasBytes
<1>6. (x \div 16777216) % 256 = (IF b3 < 0 THEN b3 + 256 ELSE b3)
  BY SMT, <1>5 DEF Byte, SignedByte, NonNegativeInt
<1> QED  BY SMT, <1>1, <1>2, <1>4, <1>6 DEF Byte, SignedByte, ntohl, Turned

(* Bytes turned round twice are as they were.                              *)
LEMMA TurnedTwice ==
  ASSUME NEW b0 \in Byte, NEW b1 \in Byte, NEW b2 \in Byte, NEW b3 \in SignedByte, ~(b3 < 0),
         NEW x, HasBytes(x, b0, b1, b2, b3)
  PROVE  ntohl(ntohl(x)) = x
<1>1. b3 \in Byte /\ Signed(b3) = b3 /\ Signed(b0) \in SignedByte
  BY SMT DEF Byte, SignedByte, Signed
<1>2. (IF Signed(b0) < 0 THEN Signed(b0) + 256 ELSE Signed(b0)) = b0
  BY SMT DEF Byte, Signed
<1>3. ntohl(x) = Turned(b0, b1, b2, b3)
  BY Reversed
<1>4. HasBytes(ntohl(x), b3, b2, b1, Signed(b0))
  <2> HIDE DEF HasBytes
  <2>1. HasBytes(Turned(b0, b1, b2, b3), b3, b2, b1, Signed(b0))
    BY SMT, <1>1 DEF Byte, SignedByte, HasBytes, Turned
  <2> QED  BY <1>3, <2>1, Zenon
<1>5. ntohl(ntohl(x)) = Turned(b3, b2, b1, Signed(b0))
  BY <1>1, <1>4, Reversed
<1> QED  BY SMT, <1>1, <1>2, <1>5 DEF Byte, SignedByte, HasBytes, Turned

(* Converting twice gives the id back: what a client does with a login     *)
(* undoes what the server does (TestClient.cpp:55, ChatServer.cpp:126).    *)
THEOREM ConvertsBack == \A x \in NonNegativeInt : ntohl(ntohl(x)) = x
<1> SUFFICES ASSUME NEW x \in NonNegativeInt  PROVE ntohl(ntohl(x)) = x
  OBVIOUS
<1> DEFINE y == x \div 256
           z == y \div 256
<1>1. PICK b0 \in Byte, b1 \in Byte, b2 \in Byte, b3 \in 0..127 :
        x = b0 + 256 * b1 + 65536 * b2 + 16777216 * b3
  BY SMT, Bytes
<1>2. b3 \in SignedByte /\ ~(b3 < 0)  BY SMT, <1>1 DEF SignedByte
<1>3. HasBytes(x, b0, b1, b2, b3)  BY <1>1 DEF HasBytes
<1> QED  BY <1>2, <1>3, TurnedTwice
=============================================================================
