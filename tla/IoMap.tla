------------------------------- MODULE IoMap -------------------------------
(***************************************************************************)
(* createIOMap(): each IOItem gets a byte offset and a bit position in the *)
(* process image.  A list is the bit lengths of its items, head first;     *)
(* Startup has the list that a program builds.                             *)
(***************************************************************************)
EXTENDS Naturals, Sequences, SequencesExt

\* The counters of createIOMap(), and the addresses given so far.
NoItems == [bits |-> 0, bit_offset |-> 0, bytes |-> 0, byte_offset |-> 0, at |-> <<>>]

\* Mutated form of PlaceBit: a new byte is not reserved for the first bit.
PlaceBitUnreserved(map) ==
    LET offset == IF map.bits = 0 THEN map.byte_offset ELSE map.bit_offset
        bits == (map.bits + 1) % 8
    IN  [map EXCEPT !.bits = bits,
                    !.bit_offset = IF bits = 0 THEN offset + 1 ELSE offset,
                    !.byte_offset = IF bits = 0 THEN @ + 1 ELSE @,
                    !.at = Append(@, [io_offset |-> offset, io_bitpos |-> map.bits % 8])]

\* Mutated form of PlaceBit: the eighth bit does not end the byte.
PlaceBitUnended(map) ==
    LET offset == IF map.bits = 0 THEN map.byte_offset ELSE map.bit_offset
    IN  [map EXCEPT !.bits = @ + 1,
                    !.bit_offset = offset,
                    !.byte_offset = IF map.bits = 0 THEN @ + 1 ELSE @,
                    !.at = Append(@, [io_offset |-> offset, io_bitpos |-> map.bits % 8])]

\* Bits share a byte, taken when the first of them comes; the eighth ends it.
PlaceBit(map) ==
    LET offset == IF map.bits = 0 THEN map.byte_offset ELSE map.bit_offset
        bits == (map.bits + 1) % 8
    IN  [map EXCEPT !.bits = bits,
                    !.bit_offset = IF bits = 0 THEN offset + 1 ELSE offset,
                    !.byte_offset = IF map.bits = 0 THEN @ + 1 ELSE @,
                    !.at = Append(@, [io_offset |-> offset, io_bitpos |-> map.bits % 8])]

PlaceBytes(map, n) ==
    [map EXCEPT !.bytes = @ + n, !.byte_offset = @ + n,
                !.at = Append(@, [io_offset |-> map.byte_offset, io_bitpos |-> 0])]

Place(map, bitlen) == IF bitlen = 1 THEN PlaceBit(map) ELSE PlaceBytes(map, bitlen \div 8)

\* The length of io_map in bytes.
MapLength(map) == map.bits \div 8 + 1 + map.bytes

-----------------------------------------------------------------------------
\* The bits of the process image that item i of a list takes.
FirstBit(map, i) == 8 * map.at[i].io_offset + map.at[i].io_bitpos
LastBit(list, map, i) == FirstBit(map, i) + list[i] - 1

\* The single bits among the first n items, and among all of them.
OnesUpTo(list, n) == Cardinality({i \in 1..n : list[i] = 1})
Ones(list) == OnesUpTo(list, Len(list))

-----------------------------------------------------------------------------
(***************************************************************************)
(* What createIOMap() keeps true while it goes through the list: no byte   *)
(* is taken in vain, each item lies below byte_offset, the byte of single  *)
(* bits is in use up to bits, and no two items meet.                       *)
(***************************************************************************)
Address == [io_offset : Nat, io_bitpos : 0..7]

Layout ==
    [bits : 0..7, bit_offset : Nat, bytes : Nat, byte_offset : Nat, at : Seq(Address)]

Tight(list, map) ==
    LET ones == OnesUpTo(list, Len(map.at))
    IN  map.bits = ones % 8 /\ map.byte_offset = map.bytes + (ones + 7) \div 8

SharedByte(list, map) ==
    map.bits > 0 =>
        /\ map.bit_offset < map.byte_offset
        /\ \A i \in DOMAIN map.at : \/ LastBit(list, map, i) < 8 * map.bit_offset + map.bits
                                    \/ FirstBit(map, i) >= 8 * map.bit_offset + 8

Apart(list, map) ==
    \A i, j \in DOMAIN map.at :
        i < j => \/ LastBit(list, map, i) < FirstBit(map, j)
                 \/ LastBit(list, map, j) < FirstBit(map, i)

GoodLayout(list, map) ==
    /\ map \in Layout /\ Len(map.at) <= Len(list)
    /\ Tight(list, map) /\ SharedByte(list, map) /\ Apart(list, map)
    /\ \A i \in DOMAIN map.at : LastBit(list, map, i) < 8 * map.byte_offset
=============================================================================
