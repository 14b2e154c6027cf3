------------------------------ MODULE KeySlot ------------------------------
(***************************************************************************)
(* ngx.redis_slot (ngx_stream_lua_redis.c): the slot of a key, from the     *)
(* CRC of the key or of its hash tag.  The proxy picks the node by it and   *)
(* splits MGET, MSET, DEL and EXISTS by it, so it must be the slot the      *)
(* nodes compute.                                                           *)
(*                                                                          *)
(* A key is built byte by byte; every key of the bounded set is a state.    *)
(***************************************************************************)
EXTENDS Integers, SequencesExt, Bitwise, HashTag

CONSTANTS
    First,    \* the bytes a key may start with
    Byte,     \* and those that may follow
    MaxLen,   \* bound on their length
    Nil       \* no key; and the "" ngx.redis_slot returns for it, which is no slot

crc16tab == <<
    \h0000, \h1021, \h2042, \h3063, \h4084, \h50a5, \h60c6, \h70e7,
    \h8108, \h9129, \ha14a, \hb16b, \hc18c, \hd1ad, \he1ce, \hf1ef,
    \h1231, \h0210, \h3273, \h2252, \h52b5, \h4294, \h72f7, \h62d6,
    \h9339, \h8318, \hb37b, \ha35a, \hd3bd, \hc39c, \hf3ff, \he3de,
    \h2462, \h3443, \h0420, \h1401, \h64e6, \h74c7, \h44a4, \h5485,
    \ha56a, \hb54b, \h8528, \h9509, \he5ee, \hf5cf, \hc5ac, \hd58d,
    \h3653, \h2672, \h1611, \h0630, \h76d7, \h66f6, \h5695, \h46b4,
    \hb75b, \ha77a, \h9719, \h8738, \hf7df, \he7fe, \hd79d, \hc7bc,
    \h48c4, \h58e5, \h6886, \h78a7, \h0840, \h1861, \h2802, \h3823,
    \hc9cc, \hd9ed, \he98e, \hf9af, \h8948, \h9969, \ha90a, \hb92b,
    \h5af5, \h4ad4, \h7ab7, \h6a96, \h1a71, \h0a50, \h3a33, \h2a12,
    \hdbfd, \hcbdc, \hfbbf, \heb9e, \h9b79, \h8b58, \hbb3b, \hab1a,
    \h6ca6, \h7c87, \h4ce4, \h5cc5, \h2c22, \h3c03, \h0c60, \h1c41,
    \hedae, \hfd8f, \hcdec, \hddcd, \had2a, \hbd0b, \h8d68, \h9d49,
    \h7e97, \h6eb6, \h5ed5, \h4ef4, \h3e13, \h2e32, \h1e51, \h0e70,
    \hff9f, \hefbe, \hdfdd, \hcffc, \hbf1b, \haf3a, \h9f59, \h8f78,
    \h9188, \h81a9, \hb1ca, \ha1eb, \hd10c, \hc12d, \hf14e, \he16f,
    \h1080, \h00a1, \h30c2, \h20e3, \h5004, \h4025, \h7046, \h6067,
    \h83b9, \h9398, \ha3fb, \hb3da, \hc33d, \hd31c, \he37f, \hf35e,
    \h02b1, \h1290, \h22f3, \h32d2, \h4235, \h5214, \h6277, \h7256,
    \hb5ea, \ha5cb, \h95a8, \h8589, \hf56e, \he54f, \hd52c, \hc50d,
    \h34e2, \h24c3, \h14a0, \h0481, \h7466, \h6447, \h5424, \h4405,
    \ha7db, \hb7fa, \h8799, \h97b8, \he75f, \hf77e, \hc71d, \hd73c,
    \h26d3, \h36f2, \h0691, \h16b0, \h6657, \h7676, \h4615, \h5634,
    \hd94c, \hc96d, \hf90e, \he92f, \h99c8, \h89e9, \hb98a, \ha9ab,
    \h5844, \h4865, \h7806, \h6827, \h18c0, \h08e1, \h3882, \h28a3,
    \hcb7d, \hdb5c, \heb3f, \hfb1e, \h8bf9, \h9bd8, \habbb, \hbb9a,
    \h4a75, \h5a54, \h6a37, \h7a16, \h0af1, \h1ad0, \h2ab3, \h3a92,
    \hfd2e, \hed0f, \hdd6c, \hcd4d, \hbdaa, \had8b, \h9de8, \h8dc9,
    \h7c26, \h6c07, \h5c64, \h4c45, \h3ca2, \h2c83, \h1ce0, \h0cc1,
    \hef1f, \hff3e, \hcf5d, \hdf7c, \haf9b, \hbfba, \h8fd9, \h9ff8,
    \h6e17, \h7e36, \h4e55, \h5e74, \h2e93, \h3eb2, \h0ed1, \h1ef0
>>

\* Variant: the byte is not combined with the high byte of the sum.
crc16Low(buf) ==
    FoldLeft(LAMBDA crc, b : ((crc * 256) % 65536) ^^ crc16tab[1 + ((crc % 256) ^^ b)], 0, buf)

\* uint16_t: crc << 8 keeps the low 16 bits.
crc16(buf) ==
    FoldLeft(LAMBDA crc, b : ((crc * 256) % 65536) ^^ crc16tab[1 + ((crc \div 256) ^^ b)], 0, buf)

key_hash_slot(key) == crc16(HashedBytes(key)) % 16384

-----------------------------------------------------------------------------

VARIABLES
    key,    \* the argument
    slot    \* the result

Init == key = <<>> /\ slot = key_hash_slot(<<>>)

\* ngx.redis_slot of the next key.
redis_slot ==
    /\ key # Nil
    /\ \E b \in IF key = <<>> THEN First ELSE Byte :
          /\ Len(key) < MaxLen
          /\ key' = Append(key, b)
          /\ slot' = key_hash_slot(key')

\* ngx.redis_slot(nil), for a request that has no key.
redis_slot_nil == key = <<>> /\ key' = Nil /\ slot' = Nil

Next == redis_slot \/ redis_slot_nil

Spec == Init /\ [][Next]_<<key, slot>>

-----------------------------------------------------------------------------
(* What the nodes compute: the CRC, from its definition, of the bytes the   *)
(* rule on hash tags gives.                                                 *)

\* XMODEM: the remainder of the message, followed by 16 zero bits, by
\* x^16 + x^12 + x^5 + 1, one bit at a time.
Shift(rem, bit) ==
    LET s == 2 * rem + bit
    IN  IF s >= 65536 THEN (s - 65536) ^^ \h1021 ELSE s

ShiftByte(rem, b) ==
    LET R[j \in 0 .. 8] ==
            IF j = 0 THEN rem ELSE Shift(R[j - 1], (b \div 2 ^ (8 - j)) % 2)
    IN  R[8]

\* The singleton has each byte's remainder computed before the next byte's.
XMODEM(buf) ==
    LET bytes == buf \o <<0, 0>>
        R[i \in 0 .. Len(bytes)] ==
            IF i = 0 THEN 0
            ELSE CHOOSE r \in {ShiftByte(rem, bytes[i]) : rem \in {R[i - 1]}} : TRUE
    IN  R[Len(bytes)]

\* The table of the file computes the CRC its head comment names, for every
\* key whether or not it has a tag.
CrcIsXmodem == key # Nil => crc16(key) = XMODEM(key)

\* The slot is the one the nodes assign to the key, at all the edges of the
\* hash tag: none, empty, unclosed, closed before it opens, nested.  Only the
\* request without a key has none: the empty key has the slot 0.
SlotOfNode == slot = IF key = Nil THEN Nil ELSE XMODEM(Hashed(key)) % 16384

\* The reference gives the head comment's "Output for "123456789": 31C3".
ASSUME CheckValue == XMODEM(<<49, 50, 51, 52, 53, 54, 55, 56, 57>>) = \h31C3
=============================================================================
