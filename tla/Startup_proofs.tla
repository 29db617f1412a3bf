---------------------------- MODULE Startup_proofs ----------------------------
(***************************************************************************)
(* Proofs about Startup and IoMap, for programs with any number of items:  *)
(* the addresses createIOMap gives do not meet, and no task uses what      *)
(* another has not made.                                                   *)
(***************************************************************************)
EXTENDS Startup, FiniteSetTheorems, TLAPS

\* Of the bits counted, a single bit is one more, and another item none.
LEMMA OnesNext ==
  ASSUME NEW list \in Seq({1, 16}), NEW n \in Nat, n < Len(list)
  PROVE  /\ OnesUpTo(list, n) \in Nat
         /\ OnesUpTo(list, n + 1) = OnesUpTo(list, n) + (IF list[n + 1] = 1 THEN 1 ELSE 0)
<1> DEFINE Bits(k) == {i \in 1..k : list[i] = 1}
<1>1. IsFiniteSet(Bits(n))
  <2>1. Bits(n) \in SUBSET (1..n) /\ IsFiniteSet(1..n)
    BY FS_Interval
  <2> QED  BY <2>1, FS_Subset
<1>2. n + 1 \notin Bits(n)
  OBVIOUS
<1>3. OnesUpTo(list, n) = Cardinality(Bits(n))
      /\ OnesUpTo(list, n + 1) = Cardinality(Bits(n + 1))
  BY DEF OnesUpTo
<1>4. list[n + 1] = 1 => Bits(n + 1) = Bits(n) \cup {n + 1}
  OBVIOUS
<1>5. list[n + 1] # 1 => Bits(n + 1) = Bits(n)
  OBVIOUS
<1> HIDE DEF Bits
<1>6. Cardinality(Bits(n)) \in Nat
  BY <1>1, FS_CardinalityType
<1>7. Cardinality(Bits(n) \cup {n + 1}) = Cardinality(Bits(n)) + 1
  BY <1>1, <1>2, FS_AddElement
<1>8. CASE list[n + 1] = 1
  BY <1>3, <1>4, <1>6, <1>7, <1>8
<1>9. CASE list[n + 1] # 1
  BY <1>3, <1>5, <1>6, <1>9
<1> QED  BY <1>8, <1>9

\* Before the first item nothing is laid out.
LEMMA EmptyLayout ==
  ASSUME NEW list \in Seq({1, 16})
  PROVE  GoodLayout(list, NoItems)
<1>1. OnesUpTo(list, 0) = 0
  <2>1. {i \in 1..0 : list[i] = 1} = {}
    OBVIOUS
  <2> QED  BY <2>1, FS_EmptySet DEF OnesUpTo
<1>2. Len(NoItems.at) = 0 /\ NoItems.bits = 0 /\ NoItems.bytes = 0 /\ NoItems.byte_offset = 0
      /\ NoItems \in Layout /\ DOMAIN NoItems.at = {}
  BY DEF NoItems, Layout
<1> QED
  BY <1>1, <1>2 DEF GoodLayout, Tight, SharedByte, Apart

\* What the next item adds: its address, where the others keep theirs.
LEMMA PlacedItem ==
  ASSUME NEW list \in Seq({1, 16}), NEW map \in Layout, Len(map.at) < Len(list)
  PROVE  LET n == Len(map.at) + 1
             new == Place(map, list[n])
         IN  /\ new \in Layout
             /\ Len(new.at) = n
             /\ DOMAIN new.at = DOMAIN map.at \cup {n} /\ n \notin DOMAIN map.at
             /\ \A i \in DOMAIN map.at : new.at[i] = map.at[i]
             /\ list[n] = 1 =>
                  LET offset == IF map.bits = 0 THEN map.byte_offset ELSE map.bit_offset
                  IN  /\ new.at[n] = [io_offset |-> offset, io_bitpos |-> map.bits % 8]
                      /\ new.bits = (map.bits + 1) % 8
                      /\ new.bit_offset = IF new.bits = 0 THEN offset + 1 ELSE offset
                      /\ new.byte_offset = IF map.bits = 0 THEN map.byte_offset + 1
                                           ELSE map.byte_offset
                      /\ new.bytes = map.bytes
             /\ list[n] = 16 =>
                  /\ new.at[n] = [io_offset |-> map.byte_offset, io_bitpos |-> 0]
                  /\ new.bits = map.bits /\ new.bit_offset = map.bit_offset
                  /\ new.byte_offset = map.byte_offset + 2
                  /\ new.bytes = map.bytes + 2
<1> DEFINE n == Len(map.at) + 1
<1>1. map.at \in Seq(Address) /\ map.bits \in 0..7
      /\ map.bit_offset \in Nat /\ map.byte_offset \in Nat /\ map.bytes \in Nat
      /\ map = [bits |-> map.bits, bit_offset |-> map.bit_offset, bytes |-> map.bytes,
                byte_offset |-> map.byte_offset, at |-> map.at]
  BY DEF Layout
<1>2. list[n] \in {1, 16} /\ n \in 1..Len(list)
  BY <1>1
<1>3. CASE list[n] = 1
  <2> DEFINE offset == IF map.bits = 0 THEN map.byte_offset ELSE map.bit_offset
             addr == [io_offset |-> offset, io_bitpos |-> map.bits % 8]
             at2 == Append(map.at, addr)
             bits2 == (map.bits + 1) % 8
             offset2 == IF bits2 = 0 THEN offset + 1 ELSE offset
             bytes2 == IF map.bits = 0 THEN map.byte_offset + 1 ELSE map.byte_offset
  <2>1. addr \in Address
    BY <1>1 DEF Address
  <2> HIDE DEF addr
  <2>2. /\ at2 \in Seq(Address)
        /\ Len(at2) = n /\ at2[n] = addr
        /\ \A i \in DOMAIN map.at : at2[i] = map.at[i]
        /\ DOMAIN at2 = DOMAIN map.at \cup {n} /\ n \notin DOMAIN map.at
    BY <1>1, <2>1
  <2>3. Place(map, list[n]) =
          [bits |-> bits2, bit_offset |-> offset2, bytes |-> map.bytes,
           byte_offset |-> bytes2, at |-> at2]
    BY <1>1, <1>3 DEF Place, PlaceBit, addr
  <2>4. bits2 \in 0..7 /\ offset2 \in Nat /\ bytes2 \in Nat
    BY <1>1
  <2> HIDE DEF at2, bits2, offset2, bytes2
  <2>5. Place(map, list[n]) \in Layout
    BY <1>1, <2>2, <2>3, <2>4 DEF Layout
  <2> DEFINE new == Place(map, list[n])
  <2>6. /\ new.at = at2 /\ new.bits = bits2 /\ new.bit_offset = offset2
        /\ new.bytes = map.bytes /\ new.byte_offset = bytes2
    BY <2>3
  <2> HIDE DEF new
  <2>7. new.at[n] = [io_offset |-> offset, io_bitpos |-> map.bits % 8]
    BY <2>2, <2>6 DEF addr
  <2>8. /\ new.bits = (map.bits + 1) % 8
        /\ new.bit_offset = IF new.bits = 0 THEN offset + 1 ELSE offset
        /\ new.byte_offset = IF map.bits = 0 THEN map.byte_offset + 1 ELSE map.byte_offset
    BY <2>6 DEF bits2, offset2, bytes2
  <2>9. /\ Len(new.at) = n /\ DOMAIN new.at = DOMAIN map.at \cup {n} /\ n \notin DOMAIN map.at
        /\ \A i \in DOMAIN map.at : new.at[i] = map.at[i]
    BY <2>2, <2>6
  <2> HIDE DEF n, offset
  <2> QED  BY <1>3, <2>5, <2>6, <2>7, <2>8, <2>9 DEF new, n, offset
<1>4. CASE list[n] = 16
  <2> DEFINE addr == [io_offset |-> map.byte_offset, io_bitpos |-> 0]
             at2 == Append(map.at, addr)
  <2>1. addr \in Address
    BY <1>1 DEF Address
  <2> HIDE DEF addr
  <2>2. /\ at2 \in Seq(Address)
        /\ Len(at2) = n /\ at2[n] = addr
        /\ \A i \in DOMAIN map.at : at2[i] = map.at[i]
        /\ DOMAIN at2 = DOMAIN map.at \cup {n} /\ n \notin DOMAIN map.at
    BY <1>1, <2>1
  <2>3. Place(map, list[n]) =
          [bits |-> map.bits, bit_offset |-> map.bit_offset, bytes |-> map.bytes + 2,
           byte_offset |-> map.byte_offset + 2, at |-> at2]
    <3>1. 16 \div 8 = 2 /\ 16 # 1
      OBVIOUS
    <3>2. Place(map, list[n]) =
            [map EXCEPT !.bytes = @ + 2, !.byte_offset = @ + 2, !.at = Append(@, addr)]
      BY <1>4, <3>1 DEF Place, PlaceBytes, addr
    <3> QED  BY <1>1, <3>2
  <2> HIDE DEF at2
  <2>5. Place(map, list[n]) \in Layout
    BY <1>1, <2>2, <2>3 DEF Layout
  <2> DEFINE new == Place(map, list[n])
  <2>6. /\ new.at = at2 /\ new.bits = map.bits /\ new.bit_offset = map.bit_offset
        /\ new.bytes = map.bytes + 2 /\ new.byte_offset = map.byte_offset + 2
    BY <2>3
  <2> HIDE DEF new
  <2>7. new.at[n] = [io_offset |-> map.byte_offset, io_bitpos |-> 0]
    BY <2>2, <2>6 DEF addr
  <2>9. /\ Len(new.at) = n /\ DOMAIN new.at = DOMAIN map.at \cup {n} /\ n \notin DOMAIN map.at
        /\ \A i \in DOMAIN map.at : new.at[i] = map.at[i]
    BY <2>2, <2>6
  <2> QED  BY <1>4, <2>5, <2>6, <2>7, <2>9 DEF new
<1> QED  BY <1>2, <1>3, <1>4

\* The step of createIOMap keeps the layout good: a bit goes into the shared
\* byte or a new one, other items to the end.
LEMMA PlaceKeepsLayout ==
  ASSUME NEW list \in Seq({1, 16}), NEW map, GoodLayout(list, map), Len(map.at) < Len(list)
  PROVE  GoodLayout(list, Place(map, list[Len(map.at) + 1]))
<1> DEFINE n == Len(map.at) + 1
           new == Place(map, list[n])
           ones == OnesUpTo(list, Len(map.at))
           bits == map.bits
           low == map.bit_offset
           end == map.byte_offset
           bytes == map.bytes
<1>1. /\ map \in Layout /\ bits \in 0..7 /\ low \in Nat
      /\ end \in Nat /\ bytes \in Nat
      /\ map.at \in Seq(Address)
      /\ n \in 1..Len(list) /\ list[n] \in {1, 16} /\ n \in Nat
      /\ DOMAIN map.at = 1..(n - 1) /\ n - 1 = Len(map.at)
  BY DEF GoodLayout, Layout
<1>2. /\ new \in Layout
      /\ Len(new.at) = n
      /\ DOMAIN new.at = DOMAIN map.at \cup {n} /\ n \notin DOMAIN map.at
      /\ \A i \in DOMAIN map.at : new.at[i] = map.at[i]
  BY <1>1, PlacedItem
<1>b. list[n] = 1 =>
        LET offset == IF bits = 0 THEN end ELSE low
        IN  /\ new.at[n] = [io_offset |-> offset, io_bitpos |-> bits % 8]
            /\ new.bits = (bits + 1) % 8
            /\ new.bit_offset = IF new.bits = 0 THEN offset + 1 ELSE offset
            /\ new.byte_offset = IF bits = 0 THEN end + 1
                                 ELSE end
            /\ new.bytes = bytes
  BY <1>1, PlacedItem
<1>w. list[n] = 16 =>
        /\ new.at[n] = [io_offset |-> end, io_bitpos |-> 0]
        /\ new.bits = bits /\ new.bit_offset = low
        /\ new.byte_offset = end + 2
        /\ new.bytes = bytes + 2
  BY <1>1, PlacedItem
<1>4. /\ ones \in Nat /\ bits = ones % 8
      /\ end = bytes + (ones + 7) \div 8
      /\ OnesUpTo(list, n) = ones + (IF list[n] = 1 THEN 1 ELSE 0)
  <2>1. Len(map.at) \in Nat
    BY <1>1
  <2> QED  BY <1>1, <2>1, OnesNext DEF GoodLayout, Tight
<1> SUFFICES GoodLayout(list, new)
  OBVIOUS
<1> HIDE DEF new, ones, n, bits, low, end, bytes
<1>3. \A i \in DOMAIN map.at : /\ FirstBit(new, i) = FirstBit(map, i)
                               /\ LastBit(list, new, i) = LastBit(list, map, i)
                               /\ FirstBit(map, i) \in Nat /\ LastBit(list, map, i) \in Int
                               /\ LastBit(list, map, i) < 8 * end
  <2> SUFFICES ASSUME NEW i \in DOMAIN map.at
               PROVE  /\ FirstBit(new, i) = FirstBit(map, i)
                      /\ LastBit(list, new, i) = LastBit(list, map, i)
                      /\ FirstBit(map, i) \in Nat /\ LastBit(list, map, i) \in Int
                      /\ LastBit(list, map, i) < 8 * end
    OBVIOUS
  <2>1. i \in 1..Len(map.at) /\ i \in 1..Len(list)
    BY <1>1
  <2>2. map.at[i] \in Address
    BY <1>1, <2>1
  <2>x. list[i] \in {1, 16}
    BY <2>1
  <2>3. map.at[i].io_offset \in Nat /\ map.at[i].io_bitpos \in Nat /\ list[i] \in Nat
    BY <2>2, <2>x DEF Address
  <2>4. FirstBit(map, i) \in Nat /\ LastBit(list, map, i) \in Int
    <3> DEFINE o == map.at[i].io_offset
               b == map.at[i].io_bitpos
    <3>1. FirstBit(map, i) = 8 * o + b /\ LastBit(list, map, i) = 8 * o + b + list[i] - 1
      BY DEF FirstBit, LastBit
    <3>2. o \in Nat /\ b \in Nat
      BY <2>3
    <3> HIDE DEF o, b
    <3> QED  BY <2>3, <3>1, <3>2
  <2> QED  BY <1>2, <2>4 DEF FirstBit, LastBit, GoodLayout, end
<1>5. \A i, j \in DOMAIN map.at :
        i < j => \/ LastBit(list, map, i) < FirstBit(map, j)
                 \/ LastBit(list, map, j) < FirstBit(map, i)
  BY DEF GoodLayout, Apart
<1>n. \A i \in DOMAIN map.at : i < n /\ i \in Int
  BY <1>1
<1>a. ASSUME \A i \in DOMAIN map.at : \/ LastBit(list, new, i) < FirstBit(new, n)
                                        \/ LastBit(list, new, n) < FirstBit(new, i)
      PROVE  Apart(list, new)
  <2> SUFFICES ASSUME NEW i \in DOMAIN new.at, NEW j \in DOMAIN new.at, i < j
               PROVE  \/ LastBit(list, new, i) < FirstBit(new, j)
                      \/ LastBit(list, new, j) < FirstBit(new, i)
    BY DEF Apart
  <2>1. i \in DOMAIN map.at
    BY <1>1, <1>2, <1>n
  <2> QED  BY <1>2, <1>3, <1>5, <1>a, <2>1
<1>l. Len(new.at) <= Len(list)
  BY <1>1, <1>2
<1>6. CASE list[n] = 1
  <2> DEFINE offset == IF bits = 0 THEN end ELSE low
  <2>1. /\ new.at[n] = [io_offset |-> offset, io_bitpos |-> bits % 8]
        /\ new.bits = (bits + 1) % 8
        /\ new.bit_offset = IF new.bits = 0 THEN offset + 1 ELSE offset
        /\ new.byte_offset = IF bits = 0 THEN end + 1 ELSE end
        /\ new.bytes = bytes
    BY <1>6, <1>b
  <2>2. /\ FirstBit(new, n) = 8 * offset + bits
        /\ LastBit(list, new, n) = 8 * offset + bits
    <3>1. bits % 8 = bits /\ offset \in Nat
      BY <1>1
    <3>2. new.at[n].io_offset = offset /\ new.at[n].io_bitpos = bits
      BY <2>1, <3>1
    <3> QED  BY <1>1, <1>6, <3>1, <3>2 DEF FirstBit, LastBit
  <2>3. bits > 0 =>
          /\ low < end
          /\ \A i \in DOMAIN map.at : \/ LastBit(list, map, i) < 8 * low + bits
                                      \/ FirstBit(map, i) >= 8 * low + 8
    BY DEF GoodLayout, SharedByte, bits, low, end
  <2>4. \A i \in DOMAIN map.at : \/ LastBit(list, new, i) < FirstBit(new, n)
                                 \/ LastBit(list, new, n) < FirstBit(new, i)
    <3> SUFFICES ASSUME NEW i \in DOMAIN map.at
                 PROVE  \/ LastBit(list, new, i) < FirstBit(new, n)
                        \/ LastBit(list, new, n) < FirstBit(new, i)
      OBVIOUS
    <3>1. CASE bits = 0
      BY <1>1, <1>3, <2>2, <3>1
    <3>2. CASE bits > 0
      BY <1>1, <1>3, <2>2, <2>3, <3>2
    <3> QED  BY <1>1, <3>1, <3>2
  <2>5. Apart(list, new)
    BY <1>a, <2>4
  <2>6. \A i \in DOMAIN new.at : LastBit(list, new, i) < 8 * new.byte_offset
    <3>1. new.byte_offset \in Nat /\ new.byte_offset >= end
      BY <1>1, <2>1
    <3>2. LastBit(list, new, n) < 8 * new.byte_offset
      BY <1>1, <2>1, <2>2, <2>3
    <3>3. \A i \in DOMAIN map.at : LastBit(list, new, i) < 8 * new.byte_offset
      BY <1>1, <1>3, <3>1
    <3> QED  BY <1>2, <3>2, <3>3
  <2>7. Tight(list, new)
    <3>1. OnesUpTo(list, n) = ones + 1
      BY <1>4, <1>6
    <3>2. (ones + 1) % 8 = ((ones % 8) + 1) % 8
          /\ (ones + 8) \div 8 = (ones + 7) \div 8 + (IF ones % 8 = 0 THEN 1 ELSE 0)
      BY <1>4
    <3>3. new.bits = (ones + 1) % 8
      BY <1>4, <2>1, <3>2
    <3>4. new.byte_offset = new.bytes + (ones + 8) \div 8
      BY <1>1, <1>4, <2>1, <3>2
    <3> QED  BY <1>2, <1>4, <3>1, <3>3, <3>4 DEF Tight
  <2>8. SharedByte(list, new)
    <3> SUFFICES ASSUME new.bits > 0
                 PROVE  /\ new.bit_offset < new.byte_offset
                        /\ \A i \in DOMAIN new.at :
                             \/ LastBit(list, new, i) < 8 * new.bit_offset + new.bits
                             \/ FirstBit(new, i) >= 8 * new.bit_offset + 8
      BY DEF SharedByte
    <3>1. new.bit_offset = offset /\ new.bits = bits + 1 /\ offset \in Nat
      BY <1>1, <2>1
    <3>2. new.bit_offset < new.byte_offset
      BY <1>1, <2>1, <2>3, <3>1
    <3>3. ASSUME NEW i \in DOMAIN map.at
          PROVE  \/ LastBit(list, new, i) < 8 * new.bit_offset + new.bits
                 \/ FirstBit(new, i) >= 8 * new.bit_offset + 8
      <4>1. CASE bits = 0
        BY <1>1, <1>3, <3>1, <4>1
      <4>2. CASE bits > 0
        BY <1>1, <1>3, <2>3, <3>1, <4>2
      <4> QED  BY <1>1, <4>1, <4>2
    <3>4. LastBit(list, new, n) < 8 * new.bit_offset + new.bits
      <4> HIDE DEF offset
      <4> QED  BY <1>1, <2>2, <3>1
    <3> QED  BY <1>2, <3>2, <3>3, <3>4
  <2> QED  BY <1>2, <1>l, <2>5, <2>6, <2>7, <2>8 DEF GoodLayout
<1>7. CASE list[n] = 16
  <2>1. /\ new.at[n] = [io_offset |-> end, io_bitpos |-> 0]
        /\ new.bits = bits /\ new.bit_offset = low
        /\ new.byte_offset = end + 2
        /\ new.bytes = bytes + 2
    BY <1>7, <1>w
  <2>2. /\ FirstBit(new, n) = 8 * end
        /\ LastBit(list, new, n) = 8 * end + 15
    BY <1>1, <1>7, <2>1 DEF FirstBit, LastBit
  <2>3. Apart(list, new)
    <3>1. \A i \in DOMAIN map.at : LastBit(list, new, i) < FirstBit(new, n)
      BY <1>3, <2>2
    <3> QED  BY <1>a, <3>1
  <2>4. \A i \in DOMAIN new.at : LastBit(list, new, i) < 8 * new.byte_offset
    <3>1. LastBit(list, new, n) < 8 * new.byte_offset
      BY <1>1, <2>1, <2>2
    <3>2. \A i \in DOMAIN map.at : LastBit(list, new, i) < 8 * new.byte_offset
      BY <1>1, <1>3, <2>1
    <3> QED  BY <1>2, <3>1, <3>2
  <2>5. Tight(list, new)
    BY <1>1, <1>2, <1>4, <1>7, <2>1 DEF Tight
  <2>6. SharedByte(list, new)
    <3> SUFFICES ASSUME bits > 0
                 PROVE  /\ low < end + 2
                        /\ \A i \in DOMAIN new.at :
                             \/ LastBit(list, new, i) < 8 * low + bits
                             \/ FirstBit(new, i) >= 8 * low + 8
      BY <2>1 DEF SharedByte
    <3>1. /\ low < end
          /\ \A i \in DOMAIN map.at : \/ LastBit(list, map, i) < 8 * low + bits
                                      \/ FirstBit(map, i) >= 8 * low + 8
      BY DEF GoodLayout, SharedByte, bits, low, end
    <3>2. FirstBit(new, n) >= 8 * low + 8
      BY <1>1, <2>2, <3>1
    <3> QED  BY <1>1, <1>2, <1>3, <3>1, <3>2
  <2> QED  BY <1>2, <1>l, <2>3, <2>4, <2>5, <2>6 DEF GoodLayout
<1> QED  BY <1>1, <1>6, <1>7

-----------------------------------------------------------------------------
\* The five semaphores, and their number.
LEMMA SemaphoreCount ==
  ASSUME NEW k \in 0..5
  PROVE  /\ Len(Semaphores) = 5
         /\ Cardinality({Semaphores[i] : i \in 1..k}) = k
         /\ k < 5 => /\ {Semaphores[i] : i \in 1..k} \cup {Semaphores[k + 1]}
                          = {Semaphores[i] : i \in 1..(k + 1)}
         /\ {Semaphores[i] : i \in 1..k} \subseteq ToSet(Semaphores)
<1> DEFINE made == {Semaphores[i] : i \in 1..k}
<1>1. /\ Len(Semaphores) = 5 /\ DOMAIN Semaphores = 1..5
      /\ \A i, j \in 1..5 : Semaphores[i] = Semaphores[j] => i = j
  BY DEF Semaphores
<1>2. Cardinality(made) = k
  <2> DEFINE f == [i \in 1..k |-> Semaphores[i]]
  <2>0. /\ f \in [1..k -> made]
        /\ \A i \in 1..k : f[i] = Semaphores[i]
        /\ \A i, j \in 1..k : f[i] = f[j] => i = j
        /\ \A x \in made : \E i \in 1..k : f[i] = x
    BY <1>1
  <2> HIDE DEF f, made
  <2>1. f \in Bijection(1..k, made)
    BY <2>0 DEF Bijection, Injection, Surjection, IsInjective
  <2>2. IsFiniteSet(1..k) /\ Cardinality(1..k) = k
    <3>1. k \in Int /\ 1 \in Int /\ (IF 1 > k THEN 0 ELSE k - 1 + 1) = k
      OBVIOUS
    <3> QED  BY ONLY <3>1, FS_Interval
  <2> QED  BY <2>1, <2>2, FS_Bijection DEF ExistsBijection
<1>3. made \subseteq ToSet(Semaphores)
  BY <1>1 DEF ToSet
<1>4. k < 5 => made \cup {Semaphores[k + 1]} = {Semaphores[i] : i \in 1..(k + 1)}
  OBVIOUS
<1> QED  BY <1>1, <1>2, <1>3, <1>4

\* app_main has done nothing yet.
THEOREM InitStartInv == Init => StartInv
<1> SUFFICES ASSUME Init PROVE StartInv
  OBVIOUS
<1>0. /\ app = "start" /\ sch_pc = "none" /\ io_pc = "none" /\ cwrt_pc = "none"
      /\ wifi = "off" /\ CONNECTED_BIT = FALSE /\ system = "none"
      /\ scheduler = FALSE /\ io_interface = FALSE /\ io_map = FALSE /\ holder = FALSE
      /\ sems = {} /\ bitlen = 0 /\ items = <<>> /\ layout = NoItems /\ fault = {}
  BY DEF Init
<1>1. GoodLayout(items, layout)
  <2>1. <<>> \in Seq({1, 16})
    OBVIOUS
  <2> QED  BY <2>1, EmptyLayout DEF Init
<1>2. SemaphoresMade
  <2>1. {Semaphores[i] : i \in 1..0} = {}
    OBVIOUS
  <2> QED  BY <2>1, SemaphoreCount DEF Init, SemaphoresMade
<1>3. items \in Seq({1, 16}) /\ sems \subseteq ToSet(Semaphores)
  BY DEF Init
<1>4. TypeOK
  <2>1. layout.bits = 0 /\ layout.bytes = 0
    BY <1>0 DEF NoItems
  <2>2. cwrt_pc \notin {"release", "process"}
    BY <1>0
  <2>3. /\ app \in {"start", "wait", "sch_task", "i/o_task", "cwrt_task", "idle"}
        /\ CONNECTED_BIT \in BOOLEAN /\ (CONNECTED_BIT <=> wifi = "connected")
        /\ system \in {"none", "pending", "ready"} /\ ~holder
    BY <1>0
  <2>4. bitlen \in {0, 1, 16} /\ layout.bits \in 0..7 /\ layout.bytes \in Nat
    BY <1>0, <2>1
  <2> QED  BY <1>3, <2>2, <2>3, <2>4 DEF TypeOK
<1>5. TasksInOrder
  BY <1>0 DEF TasksInOrder
<1>6. MadeInTime
  BY <1>0 DEF MadeInTime
<1>7. LaidOut
  BY <1>0, <1>1 DEF LaidOut
<1> QED  BY <1>0, <1>2, <1>4, <1>5, <1>6, <1>7 DEF StartInv, NothingMissing

\* A part of the invariant is kept by a step that leaves alone what it is about.
LEMMA Undisturbed ==
  ASSUME StartInv
  PROVE  /\ UNCHANGED <<app, wifi, CONNECTED_BIT, sems, bitlen, items, layout, cwrt_pc, system,
                        holder, io_interface>> => TypeOK'
         /\ UNCHANGED <<app, wifi, places>> => TasksInOrder'
         /\ UNCHANGED <<sems, cwrt_pc>> => SemaphoresMade'
         /\ UNCHANGED <<scheduler, io_interface, io_map, places, hurried>> => MadeInTime'
         /\ UNCHANGED <<items, layout, cwrt_pc>> => LaidOut'
         /\ UNCHANGED <<fault, hurried>> => NothingMissing'
<1> USE DEF StartInv, places
<1>1. UNCHANGED <<app, wifi, CONNECTED_BIT, sems, bitlen, items, layout, cwrt_pc, system,
                  holder, io_interface>> => TypeOK'
  BY DEF TypeOK
<1>2. UNCHANGED <<app, wifi, places>> => TasksInOrder'
  BY DEF TasksInOrder
<1>3. UNCHANGED <<sems, cwrt_pc>> => SemaphoresMade'
  BY DEF SemaphoresMade
<1>4. UNCHANGED <<scheduler, io_interface, io_map, places, hurried>> => MadeInTime'
  BY DEF MadeInTime
<1>5. UNCHANGED <<items, layout, cwrt_pc>> => LaidOut'
  BY DEF LaidOut
<1>6. UNCHANGED <<fault, hurried>> => NothingMissing'
  BY DEF NothingMissing
<1> QED  BY <1>1, <1>2, <1>3, <1>4, <1>5, <1>6

\* Once rt_init is over every semaphore is there.
LEMMA AllSemaphores ==
  ASSUME StartInv, cwrt_pc \notin {"none", "delay", "rt_init"}
  PROVE  "runtime_mutex" \in sems
<1>1. PICK k \in 0..Len(Semaphores) : /\ sems = {Semaphores[i] : i \in 1..k}
                                      /\ k = Len(Semaphores)
  BY DEF StartInv, SemaphoresMade
<1>2. Len(Semaphores) = 5 /\ Semaphores[4] = "runtime_mutex"
  BY DEF Semaphores
<1> QED  BY <1>1, <1>2

\* Every step of every task leaves things in order.
THEOREM NextStartInv == StartInv /\ [Next]_vars => StartInv'
<1> SUFFICES ASSUME StartInv, [Next]_vars PROVE StartInv'
  OBVIOUS
<1>0. /\ TypeOK /\ TasksInOrder /\ SemaphoresMade /\ MadeInTime /\ LaidOut /\ NothingMissing
      /\ items \in Seq({1, 16})
  BY DEF StartInv, TypeOK, NothingMissing
<1>1. CASE StartWifi
  <2>1. TypeOK' /\ TasksInOrder'
    BY <1>0, <1>1 DEF StartWifi, Rest, board, TypeOK, TasksInOrder
  <2> QED  BY <1>1, <2>1, Undisturbed DEF StartWifi, Rest, board, places, StartInv
<1>2. CASE GotIp
  <2>1. TypeOK' /\ TasksInOrder'
    BY <1>0, <1>2 DEF GotIp, Rest, board, TypeOK, TasksInOrder
  <2> QED  BY <1>2, <2>1, Undisturbed DEF GotIp, Rest, board, places, StartInv
<1>3. CASE StaDisconnected
  <2>1. TypeOK'
    BY <1>0, <1>3 DEF StaDisconnected, Rest, board, TypeOK
  <2>2. TasksInOrder'
    BY <1>0, <1>3 DEF StaDisconnected, Rest, TasksInOrder
  <2> QED  BY <1>3, <2>1, <2>2, Undisturbed DEF StaDisconnected, Rest, board, places, StartInv
<1>4. CASE CreateTasks
  <2>1. TypeOK' /\ LaidOut'
    BY <1>0, <1>4 DEF CreateTasks, board, TypeOK, LaidOut, TasksInOrder
  <2>2. TasksInOrder'
    BY <1>0, <1>4 DEF CreateTasks, TasksInOrder
  <2>3. SemaphoresMade'
    <3>1. cwrt_pc' = cwrt_pc \/ (cwrt_pc = "none" /\ cwrt_pc' = "delay")
      BY <1>0, <1>4 DEF CreateTasks, TasksInOrder
    <3> QED  BY <1>0, <1>4, <3>1 DEF CreateTasks, SemaphoresMade
  <2>4. MadeInTime'
    BY <1>0, <1>4 DEF CreateTasks, board, MadeInTime, TasksInOrder
  <2> QED  BY <1>4, <2>1, <2>2, <2>3, <2>4, Undisturbed DEF CreateTasks, StartInv
<1>5. CASE RTScheduler_create
  <2>1. TasksInOrder' /\ MadeInTime'
    BY <1>0, <1>5 DEF RTScheduler_create, network, board, TasksInOrder, MadeInTime
  <2> QED  BY <1>5, <2>1, Undisturbed DEF RTScheduler_create, network, board, StartInv
<1>6. CASE SchedulerStarts
  <2>1. TasksInOrder' /\ MadeInTime'
    BY <1>0, <1>6 DEF SchedulerStarts, network, board, TasksInOrder, MadeInTime
  <2> QED  BY <1>6, <2>1, Undisturbed DEF SchedulerStarts, network, board, StartInv
<1>7. CASE RTIOInterface_create
  <2>1. TasksInOrder' /\ MadeInTime'
    BY <1>0, <1>7 DEF RTIOInterface_create, network, board, TasksInOrder, MadeInTime
  <2>2. TypeOK'
    BY <1>0, <1>7 DEF RTIOInterface_create, network, board, TypeOK
  <2> QED  BY <1>7, <2>1, <2>2, Undisturbed DEF RTIOInterface_create, network, board, StartInv
<1>8. CASE WaitSemaphores
  <2>1. TasksInOrder' /\ MadeInTime'
    BY <1>0, <1>8 DEF WaitSemaphores, network, board, TasksInOrder, MadeInTime
  <2> QED  BY <1>8, <2>1, Undisturbed DEF WaitSemaphores, network, board, StartInv
<1>9. CASE WaitMap
  <2>1. TasksInOrder' /\ MadeInTime'
    BY <1>0, <1>9 DEF WaitMap, network, board, TasksInOrder, MadeInTime
  <2> QED  BY <1>9, <2>1, Undisturbed DEF WaitMap, network, board, StartInv
\* The I/O task is in its loop, so cwrt_task is past rt_init.
<1>10. CASE IoPass
  <2>1. cwrt_pc \in {"release", "process"}
    BY <1>0, <1>10 DEF IoPass, MadeInTime
  <2>2. fault' = fault
    BY <1>10, <2>1, AllSemaphores DEF IoPass, Asserts
  <2> QED  BY <1>10, <2>2, Undisturbed DEF IoPass, network, places, board, StartInv
\* What the delay waited for is known from here on.
<1>11. CASE Running /\ Delay
  <2>1. TypeOK'
    BY <1>0, <1>11 DEF Delay, network, board, TypeOK
  <2>5. LaidOut'
    BY <1>0, <1>11 DEF Delay, board, LaidOut
  <2>6. TasksInOrder'
    BY <1>0, <1>11 DEF Delay, network, TasksInOrder
  <2>2. MadeInTime'
    BY <1>0, <1>11 DEF Delay, network, board, MadeInTime, TasksInOrder
  <2>3. SemaphoresMade'
    BY <1>0, <1>11 DEF Delay, Semaphores, SemaphoresMade
  <2>4. NothingMissing'
    BY <1>11 DEF Delay, Running, NothingMissing
  <2> QED  BY <2>1, <2>2, <2>3, <2>4, <2>5, <2>6 DEF StartInv
<1>12. CASE rt_init
  <2>0. Len(Semaphores) = 5
    BY DEF Semaphores
  <2>1. PICK k \in 0..4 : sems = {Semaphores[i] : i \in 1..k}
    BY <1>0, <1>12, <2>0 DEF rt_init, SemaphoresMade
  <2>2. /\ sems' = {Semaphores[i] : i \in 1..(k + 1)}
        /\ cwrt_pc' = IF k + 1 = 5 THEN "system" ELSE "rt_init"
    <3>1. k \in 0..5 /\ k < 5 /\ Cardinality(sems) = k
      BY <2>1, SemaphoreCount
    <3>2. sems \cup {Semaphores[k + 1]} = {Semaphores[i] : i \in 1..(k + 1)}
      BY <2>1, <3>1, SemaphoreCount
    <3> QED  BY <1>12, <2>0, <3>1, <3>2 DEF rt_init
  <2>3. SemaphoresMade'
    <3>1. k + 1 \in 0..Len(Semaphores)
      BY <2>0
    <3> QED  BY <2>0, <2>2, <3>1 DEF SemaphoresMade
  <2>4. sems' \subseteq ToSet(Semaphores)
    <3>1. k + 1 \in 0..5
      OBVIOUS
    <3> QED  BY <2>2, <3>1, SemaphoreCount
  <2>5. TypeOK'
    BY <1>0, <1>12, <2>2, <2>4 DEF rt_init, network, board, TypeOK
  <2>7. LaidOut'
    BY <1>0, <1>12, <2>2 DEF rt_init, board, LaidOut
  <2>8. TasksInOrder'
    BY <1>0, <1>12, <2>2 DEF rt_init, network, TasksInOrder
  <2>6. MadeInTime'
    BY <1>0, <1>12, <2>2 DEF rt_init, network, board, MadeInTime
  <2> QED  BY <1>12, <2>3, <2>5, <2>6, <2>7, <2>8, Undisturbed DEF rt_init, StartInv
<1>13. CASE create_cw_SYSTEMSETTINGS
  <2>1. fault' = fault
    BY <1>13, AllSemaphores DEF create_cw_SYSTEMSETTINGS, Asserts
  <2>2. TypeOK'
    BY <1>0, <1>13 DEF create_cw_SYSTEMSETTINGS, network, board, TypeOK
  <2>3. LaidOut'
    BY <1>0, <1>13 DEF create_cw_SYSTEMSETTINGS, network, board, LaidOut
  <2>4. TasksInOrder'
    BY <1>0, <1>13 DEF create_cw_SYSTEMSETTINGS, network, board, TasksInOrder
  <2>5. MadeInTime'
    BY <1>0, <1>13 DEF create_cw_SYSTEMSETTINGS, network, board, MadeInTime
  <2>6. SemaphoresMade'
    BY <1>0, <1>13 DEF create_cw_SYSTEMSETTINGS, network, board, SemaphoresMade
  <2> QED
    BY <1>13, <2>1, <2>2, <2>3, <2>4, <2>5, <2>6, Undisturbed
       DEF create_cw_SYSTEMSETTINGS, StartInv
<1>14. CASE RTIOInterface_get
  <2>1. NothingMissing'
    BY <1>0, <1>14 DEF RTIOInterface_get, Asserts, MadeInTime, NothingMissing
  <2>2. TypeOK'
    BY <1>0, <1>14 DEF RTIOInterface_get, network, board, TypeOK
  <2>3. LaidOut'
    BY <1>0, <1>14 DEF RTIOInterface_get, network, board, LaidOut
  <2>4. TasksInOrder'
    BY <1>0, <1>14 DEF RTIOInterface_get, network, board, TasksInOrder
  <2>5. MadeInTime'
    BY <1>0, <1>14 DEF RTIOInterface_get, network, board, MadeInTime
  <2>6. SemaphoresMade'
    BY <1>0, <1>14 DEF RTIOInterface_get, network, board, SemaphoresMade
  <2> QED  BY <2>1, <2>2, <2>3, <2>4, <2>5, <2>6 DEF StartInv
<1>15. ASSUME NEW bits \in {1, 16}, NewDevice(bits)
       PROVE  StartInv'
  <2>1. fault' = fault
    BY <1>15, AllSemaphores DEF NewDevice, Asserts
  <2>2. TypeOK' /\ MadeInTime'
    BY <1>0, <1>15 DEF NewDevice, network, places, TypeOK, MadeInTime
  <2> QED  BY <1>15, <2>1, <2>2, Undisturbed DEF NewDevice, network, places, StartInv
\* Before createIOMap there is no layout that the longer list could upset.
<1>16. CASE RTIOInterface_add
  <2>1. items' \in Seq({1, 16})
    <3>1. bitlen \in {1, 16}
      BY <1>0, <1>16 DEF RTIOInterface_add, TypeOK
    <3> QED  BY <1>0, <1>16, <3>1 DEF RTIOInterface_add
  <2>2. LaidOut'
    <3>1. layout' = NoItems /\ cwrt_pc' = "setup"
      BY <1>0, <1>16 DEF RTIOInterface_add, places, LaidOut
    <3> QED  BY <2>1, <3>1, EmptyLayout DEF LaidOut
  <2>3. TypeOK' /\ MadeInTime'
    BY <1>0, <1>16, <2>1 DEF RTIOInterface_add, network, places, TypeOK, MadeInTime
  <2> QED  BY <1>16, <2>2, <2>3, Undisturbed DEF RTIOInterface_add, network, places, StartInv
<1>17. CASE createIOMap
  <2>1. layout' = layout
    BY <1>0, <1>17 DEF createIOMap, LaidOut
  <2>2. TypeOK'
    BY <1>0, <1>17, <2>1 DEF createIOMap, network, board, TypeOK
  <2>3. LaidOut'
    BY <1>0, <1>17, <2>1 DEF createIOMap, network, board, LaidOut
  <2>4. TasksInOrder'
    BY <1>0, <1>17, <2>1 DEF createIOMap, network, board, TasksInOrder
  <2>5. MadeInTime'
    BY <1>0, <1>17, <2>1 DEF createIOMap, network, board, MadeInTime
  <2>6. SemaphoresMade'
    BY <1>0, <1>17, <2>1 DEF createIOMap, network, board, SemaphoresMade
  <2> QED  BY <1>17, <2>2, <2>3, <2>4, <2>5, <2>6, Undisturbed DEF createIOMap, StartInv
<1>18. CASE PlaceItem
  <2>1. GoodLayout(items, layout')
    BY <1>0, <1>18, PlaceKeepsLayout DEF PlaceItem, LaidOut
  <2>2. layout'.bits \in 0..7 /\ layout'.bytes \in Nat
    BY <2>1 DEF GoodLayout, Layout
  <2>3. LaidOut' /\ TypeOK' /\ MadeInTime'
    BY <1>0, <1>18, <2>1, <2>2 DEF PlaceItem, network, places, LaidOut, TypeOK, MadeInTime
  <2> QED  BY <1>18, <2>3, Undisturbed DEF PlaceItem, network, places, StartInv
<1>19. CASE AllocateMap
  <2>1. \A i \in DOMAIN items : layout.at[i].io_offset \in Nat
                               /\ layout.at[i].io_bitpos \in 0..7
    <3> SUFFICES ASSUME NEW i \in DOMAIN items
                 PROVE  layout.at[i] \in Address
      BY DEF Address
    <3>1. layout.at \in Seq(Address) /\ i \in 1..Len(layout.at)
      BY <1>0, <1>19 DEF AllocateMap, LaidOut, GoodLayout, Layout
    <3> QED  BY <3>1
  <2>2. TypeOK'
    BY <1>0, <1>19, <2>1 DEF AllocateMap, network, TypeOK
  <2>3. LaidOut'
    BY <1>0, <1>19 DEF AllocateMap, network, LaidOut
  <2>4. TasksInOrder'
    BY <1>0, <1>19 DEF AllocateMap, network, TasksInOrder
  <2>5. MadeInTime'
    BY <1>0, <1>19 DEF AllocateMap, network, MadeInTime
  <2>6. SemaphoresMade'
    BY <1>0, <1>19 DEF AllocateMap, network, SemaphoresMade
  <2> QED  BY <1>19, <2>2, <2>3, <2>4, <2>5, <2>6, Undisturbed DEF AllocateMap, StartInv
<1>20. CASE RTIOInterface_release
  <2>1. NothingMissing'
    BY <1>0, <1>20 DEF RTIOInterface_release, Asserts, MadeInTime, NothingMissing
  <2>2. TypeOK'
    BY <1>0, <1>20 DEF RTIOInterface_release, network, board, TypeOK
  <2>3. LaidOut'
    BY <1>0, <1>20 DEF RTIOInterface_release, network, board, LaidOut
  <2>4. TasksInOrder'
    BY <1>0, <1>20 DEF RTIOInterface_release, network, board, TasksInOrder
  <2>5. MadeInTime'
    BY <1>0, <1>20 DEF RTIOInterface_release, network, board, MadeInTime
  <2>6. SemaphoresMade'
    BY <1>0, <1>20 DEF RTIOInterface_release, network, board, SemaphoresMade
  <2> QED  BY <2>1, <2>2, <2>3, <2>4, <2>5, <2>6 DEF StartInv
<1>21. CASE cwrt_process
  <2>1. NothingMissing'
    BY <1>0, <1>21 DEF cwrt_process, Asserts, MadeInTime, NothingMissing
  <2>2. TypeOK'
    BY <1>0, <1>21 DEF cwrt_process, network, places, board, TypeOK
  <2> QED
    BY <1>21, <2>1, <2>2, Undisturbed DEF cwrt_process, network, places, board, StartInv
<1>22. CASE UNCHANGED vars
  BY <1>22, Undisturbed DEF vars, network, places, board, StartInv
<1> QED
  BY <1>1, <1>2, <1>3, <1>4, <1>5, <1>6, <1>7, <1>8, <1>9, <1>10, <1>11, <1>12, <1>13, <1>14,
     <1>15, <1>16, <1>17, <1>18, <1>19, <1>20, <1>21, <1>22
     DEF Next, AppMain, RTSchedulerTask, RTIOInterface, cwrt_task, cwrt_setup, cw_setup,
     Init_PointInput, Init_PointOutput, Init_cw_ANALOGINPUT, Init_cw_ANALOGOUTPUT

THEOREM AlwaysStartInv == Spec => []StartInv
<1> QED  BY InitStartInv, NextStartInv, PTL DEF Spec

\* Types.
THEOREM StartupTypeOK == Spec => []TypeOK
<1>1. StartInv => TypeOK
  BY DEF StartInv
<1> QED  BY <1>1, AlwaysStartInv, PTL

\* Unless the delay of cwrt_task was over before i/o_task and sch_task had run,
\* every pointer and mutex is there when it is asserted.
THEOREM NothingIsMissing == Spec => []NothingMissing
<1>1. StartInv => NothingMissing
  BY DEF StartInv
<1> QED  BY <1>1, AlwaysStartInv, PTL

\* The I/O task begins its passes when the list of items is complete.
THEOREM ListIsComplete == Spec => []ListComplete
<1>1. StartInv => ListComplete
  BY DEF StartInv, MadeInTime, LaidOut, ListComplete
<1> QED  BY <1>1, AlwaysStartInv, PTL

\* What a layout of the whole list comes to: the items are apart, no byte is
\* taken in vain, and up to eight single bits the image has room for all.
LEMMA WholeLayout ==
  ASSUME items \in Seq({1, 16}), GoodLayout(items, layout), Len(layout.at) = Len(items)
  PROVE  Disjoint /\ Dense /\ (Ones(items) <= 8 => InMap)
<1>1. layout \in Layout /\ DOMAIN items = DOMAIN layout.at
  BY DEF GoodLayout, Layout
<1>2. Disjoint
  BY <1>1 DEF GoodLayout, Apart, Disjoint
<1> DEFINE ones == OnesUpTo(items, Len(items))
<1>3. layout.bits = ones % 8 /\ layout.byte_offset = layout.bytes + (ones + 7) \div 8
  BY DEF GoodLayout, Tight
<1>4. Dense
  BY <1>3 DEF Dense, Ones
<1>5. ones \in Nat
  <2> DEFINE single == {i \in 1..Len(items) : items[i] = 1}
  <2>1. single \in SUBSET (1..Len(items)) /\ IsFiniteSet(1..Len(items))
    BY FS_Interval
  <2> HIDE DEF single
  <2>2. Cardinality(single) \in Nat
    BY <2>1, FS_Subset, FS_CardinalityType
  <2> QED  BY <2>2 DEF OnesUpTo, single
<1>6. ASSUME ones <= 8
      PROVE  InMap
  <2> DEFINE bytes == layout.bytes
             bits == layout.bits
             end == layout.byte_offset
  <2>1. bytes \in Nat /\ bits = ones % 8 /\ end = bytes + (ones + 7) \div 8
    BY <1>1, <1>3 DEF Layout
  <2>2. MapLength(layout) = bits \div 8 + 1 + bytes
    BY DEF MapLength
  <2>3. \A i \in DOMAIN items : LastBit(items, layout, i) < 8 * end
    BY <1>1 DEF GoodLayout
  <2> HIDE DEF ones, bytes, bits, end
  <2>4. end <= MapLength(layout) /\ end \in Nat /\ MapLength(layout) \in Nat
    BY <1>5, <1>6, <2>1, <2>2
  <2>5. \A i \in DOMAIN items : LastBit(items, layout, i) \in Int
    <3> SUFFICES ASSUME NEW i \in DOMAIN items
                 PROVE  LastBit(items, layout, i) \in Int
      OBVIOUS
    <3>1. i \in 1..Len(layout.at) /\ layout.at \in Seq(Address) /\ items[i] \in {1, 16}
      BY <1>1 DEF Layout
    <3>2. layout.at[i] \in Address
      BY <3>1
    <3> DEFINE offset == layout.at[i].io_offset
               pos == layout.at[i].io_bitpos
    <3>3. offset \in Nat /\ pos \in Nat
      BY <3>2 DEF Address
    <3>4. LastBit(items, layout, i) = 8 * offset + pos + items[i] - 1
      BY DEF LastBit, FirstBit
    <3> HIDE DEF offset, pos
    <3> QED  BY <3>1, <3>3, <3>4
  <2> QED  BY <2>3, <2>4, <2>5 DEF InMap
<1> QED  BY <1>2, <1>4, <1>6 DEF Ones

\* createIOMap gives the items of every program addresses that do not meet and
\* leave no byte out; its map is long enough for up to eight single bits.
THEOREM AddressesAreApart == Spec => []Addresses
<1>1. StartInv => Addresses
  <2> SUFFICES ASSUME StartInv, io_map
               PROVE  Disjoint /\ Dense /\ (Ones(items) <= 8 => InMap)
    BY DEF Addresses
  <2>1. items \in Seq({1, 16}) /\ GoodLayout(items, layout) /\ Len(layout.at) = Len(items)
    BY DEF StartInv, TypeOK, MadeInTime, LaidOut
  <2> QED  BY <2>1, WholeLayout
<1> QED  BY <1>1, AlwaysStartInv, PTL
=============================================================================
