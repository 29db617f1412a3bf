---------------------------- MODULE Lists_proofs ----------------------------
(***************************************************************************)
(* Proofs about Lists: for any number of lists and items, under a mutex    *)
(* the lists of list.h are the sequences their operations promise; a walk  *)
(* of a growing list with no lock sees what it should; and the command     *)
(* queue keeps its commands unless a push meets the pop of the last one.   *)
(***************************************************************************)
EXTENDS Lists, SequenceTheorems, TLAPS

-----------------------------------------------------------------------------
(***************************************************************************)
(* Sequences: one item more at place k, one less, and another one there.   *)
(***************************************************************************)
Insertion(seq, k, n) ==
    [i \in 1..(Len(seq) + 1) |-> IF i < k THEN seq[i] ELSE IF i = k THEN n ELSE seq[i - 1]]
Removal(seq, k) == [i \in 1..(Len(seq) - 1) |-> IF i < k THEN seq[i] ELSE seq[i + 1]]

\* What adds an item at the head, at the end or between is an insertion.
LEMMA Insertions ==
  ASSUME NEW S, NEW seq \in Seq(S), NEW n \in S, NEW k \in 1..(Len(seq) + 1)
  PROVE  /\ Insertion(seq, k, n) \in Seq(S)
         /\ Len(Insertion(seq, k, n)) = Len(seq) + 1
         /\ InsertAt(seq, k, n) = Insertion(seq, k, n)
         /\ <<n>> \o seq = Insertion(seq, 1, n)
         /\ Append(seq, n) = Insertion(seq, Len(seq) + 1, n)
<1>1. \A l \in 1..(Len(seq) + 1) :
        Insertion(seq, l, n) \in Seq(S) /\ Len(Insertion(seq, l, n)) = Len(seq) + 1
  <2> TAKE l \in 1..(Len(seq) + 1)
  <2>1. \A i \in 1..(Len(seq) + 1) : Insertion(seq, l, n)[i] \in S
    BY DEF Insertion
  <2> QED  BY <2>1 DEF Insertion
<1>2. InsertAt(seq, k, n) = Insertion(seq, k, n)
  <2> DEFINE first == SubSeq(seq, 1, k - 1)
             rest == SubSeq(seq, k, Len(seq))
             some == first \o <<n>>
  <2>1. /\ first \in Seq(S) /\ Len(first) = k - 1
        /\ \A i \in 1..(k - 1) : first[i] = seq[i]
    BY SubSeqProperties
  <2>2. /\ rest \in Seq(S) /\ Len(rest) = Len(seq) + 1 - k
        /\ \A i \in 1..(Len(seq) + 1 - k) : rest[i] = seq[k + i - 1]
    BY SubSeqProperties, SMTT(30)
  <2> HIDE DEF first, rest
  <2>3. /\ some \in Seq(S) /\ Len(some) = k /\ some[k] = n
        /\ \A i \in 1..(k - 1) : some[i] = seq[i]
    BY <2>1, SMTT(30)
  <2> HIDE DEF some
  <2>4. /\ some \o rest \in Seq(S) /\ Len(some \o rest) = Len(seq) + 1
        /\ \A i \in 1..(Len(seq) + 1) :
             (some \o rest)[i] = IF i <= k THEN some[i] ELSE rest[i - k]
    BY <2>2, <2>3
  <2>5. ASSUME NEW i \in 1..(Len(seq) + 1)
        PROVE  (some \o rest)[i] = Insertion(seq, k, n)[i]
    <3>1. Insertion(seq, k, n)[i] = IF i < k THEN seq[i] ELSE IF i = k THEN n ELSE seq[i - 1]
      BY DEF Insertion
    <3>2. (some \o rest)[i] = IF i <= k THEN some[i] ELSE rest[i - k]
      BY <2>4
    <3>3. CASE i < k
      <4>1. i \in 1..(k - 1) /\ i <= k
        BY <3>3
      <4> QED  BY ONLY <2>3, <3>1, <3>2, <3>3, <4>1
    <3>4. CASE i = k
      <4>1. i <= k /\ ~(i < k)
        BY <3>4
      <4> QED  BY ONLY <2>3, <3>1, <3>2, <3>4, <4>1
    <3>5. CASE i > k
      <4>1. /\ ~(i <= k) /\ ~(i < k) /\ i # k
            /\ i - k \in 1..(Len(seq) + 1 - k) /\ k + (i - k) - 1 = i - 1
        BY <3>5
      <4>2. rest[i - k] = seq[k + (i - k) - 1]
        BY ONLY <2>2, <4>1
      <4> QED  BY ONLY <3>1, <3>2, <4>1, <4>2
    <3>6. i < k \/ i = k \/ i > k
      <4>1. i \in Int /\ k \in Int
        OBVIOUS
      <4> QED  BY ONLY <4>1
    <3> QED  BY ONLY <3>3, <3>4, <3>5, <3>6, Zenon
  <2>6. some \o rest = Insertion(seq, k, n)
    <3> DEFINE whole == some \o rest
               ins == Insertion(seq, k, n)
    <3>1. /\ whole \in Seq(S) /\ ins \in Seq(S) /\ Len(whole) = Len(ins)
          /\ \A i \in 1..Len(whole) : whole[i] = ins[i]
      BY <1>1, <2>4, <2>5
    <3> HIDE DEF whole, ins
    <3>2. whole = ins
      BY ONLY <3>1, SeqEqual
    <3> QED  BY <3>2 DEF whole, ins
  <2> QED  BY <2>6 DEF InsertAt, some, first, rest
<1>3. <<n>> \o seq = Insertion(seq, 1, n)
  <2>1. /\ <<n>> \o seq \in Seq(S) /\ Len(<<n>> \o seq) = Len(seq) + 1
        /\ \A i \in 1..(Len(seq) + 1) : (<<n>> \o seq)[i] = Insertion(seq, 1, n)[i]
    BY SMTT(30) DEF Insertion
  <2> QED  BY <1>1, <2>1, SeqEqual, SMTT(30)
<1>4. Append(seq, n) = Insertion(seq, Len(seq) + 1, n)
  <2>1. /\ Append(seq, n) \in Seq(S) /\ Len(Append(seq, n)) = Len(seq) + 1
        /\ \A i \in 1..(Len(seq) + 1) :
             Append(seq, n)[i] = Insertion(seq, Len(seq) + 1, n)[i]
    BY SMTT(30) DEF Insertion
  <2> QED  BY <1>1, <2>1, SeqEqual, SMTT(30)
<1> QED  BY <1>1, <1>2, <1>3, <1>4

\* What takes an item off is a removal.
LEMMA Removals ==
  ASSUME NEW S, NEW seq \in Seq(S), NEW k \in 1..Len(seq)
  PROVE  /\ Removal(seq, k) \in Seq(S)
         /\ Len(Removal(seq, k)) = Len(seq) - 1
         /\ RemoveAt(seq, k) = Removal(seq, k)
         /\ Tail(seq) = Removal(seq, 1)
<1>1. \A l \in 1..Len(seq) :
        Removal(seq, l) \in Seq(S) /\ Len(Removal(seq, l)) = Len(seq) - 1
  <2> TAKE l \in 1..Len(seq)
  <2>1. \A i \in 1..(Len(seq) - 1) : Removal(seq, l)[i] \in S
    BY DEF Removal
  <2> QED  BY <2>1 DEF Removal
<1>2. RemoveAt(seq, k) = Removal(seq, k)
  <2> DEFINE first == SubSeq(seq, 1, k - 1)
             rest == SubSeq(seq, k + 1, Len(seq))
  <2>1. /\ first \in Seq(S) /\ Len(first) = k - 1
        /\ \A i \in 1..(k - 1) : first[i] = seq[i]
    BY SubSeqProperties
  <2>2. /\ rest \in Seq(S) /\ Len(rest) = Len(seq) - k
        /\ \A i \in 1..(Len(seq) - k) : rest[i] = seq[k + 1 + i - 1]
    BY SubSeqProperties
  <2> HIDE DEF first, rest
  <2>4. /\ first \o rest \in Seq(S) /\ Len(first \o rest) = Len(seq) - 1
        /\ \A i \in 1..(Len(seq) - 1) :
             (first \o rest)[i] = IF i <= k - 1 THEN first[i] ELSE rest[i - (k - 1)]
    <3>1. Len(first) + Len(rest) = Len(seq) - 1
      BY <2>1, <2>2
    <3>2. /\ first \o rest \in Seq(S) /\ Len(first \o rest) = Len(first) + Len(rest)
          /\ \A i \in 1..Len(first) + Len(rest) :
               (first \o rest)[i] = IF i <= Len(first) THEN first[i] ELSE rest[i - Len(first)]
      BY <2>1, <2>2, ConcatProperties
    <3> QED  BY <2>1, <3>1, <3>2
  <2>5. ASSUME NEW i \in 1..(Len(seq) - 1)
        PROVE  (first \o rest)[i] = Removal(seq, k)[i]
    <3>1. i >= k => /\ i - (k - 1) \in 1..(Len(seq) - k)
                    /\ k + 1 + (i - (k - 1)) - 1 = i + 1
      OBVIOUS
    <3>2. (first \o rest)[i] = IF i <= k - 1 THEN first[i] ELSE rest[i - (k - 1)]
      BY <2>4
    <3>3. Removal(seq, k)[i] = IF i < k THEN seq[i] ELSE seq[i + 1]
      BY DEF Removal
    <3>4. CASE i < k
      <4>1. i <= k - 1 /\ i \in 1..(k - 1)
        BY <3>4
      <4> QED  BY ONLY <2>1, <3>2, <3>3, <3>4, <4>1
    <3>5. CASE i >= k
      <4>1. /\ ~(i <= k - 1) /\ ~(i < k)
            /\ i - (k - 1) \in 1..(Len(seq) - k) /\ k + 1 + (i - (k - 1)) - 1 = i + 1
        BY <3>1, <3>5
      <4>2. rest[i - (k - 1)] = seq[k + 1 + (i - (k - 1)) - 1]
        BY ONLY <2>2, <4>1
      <4> QED  BY ONLY <3>2, <3>3, <4>1, <4>2
    <3>6. i < k \/ i >= k
      <4>1. i \in Int /\ k \in Int
        OBVIOUS
      <4> QED  BY ONLY <4>1
    <3> QED  BY ONLY <3>4, <3>5, <3>6, Zenon
  <2>6. first \o rest = Removal(seq, k)
    BY <1>1, <2>4, <2>5, SeqEqual
  <2> QED  BY <2>6 DEF RemoveAt, first, rest
<1>3. Tail(seq) = Removal(seq, 1)
  <2>1. /\ Tail(seq) \in Seq(S) /\ Len(Tail(seq)) = Len(seq) - 1
        /\ \A i \in 1..(Len(seq) - 1) : Tail(seq)[i] = Removal(seq, 1)[i]
    BY DEF Removal
  <2>2. 1 \in 1..Len(seq)
    OBVIOUS
  <2> QED  BY <1>1, <2>1, <2>2, SeqEqual
<1> QED  BY <1>1, <1>2, <1>3

-----------------------------------------------------------------------------
(***************************************************************************)
(* Rings: x, the items of seq, and x again.                                *)
(***************************************************************************)
Fits(x, seq) ==
    /\ x \in Cells /\ seq \in Seq(Cells)
    /\ \A i \in DOMAIN seq : seq[i] # x
    /\ \A i, j \in DOMAIN seq : seq[i] = seq[j] => i = j

\* Round a ring a cell is met once.
LEMMA Round ==
  ASSUME NEW x, NEW seq, Fits(x, seq)
  PROVE  /\ \A k \in Int : At(x, seq, k) \in Cells
         /\ \A j, k \in 0..Len(seq) : At(x, seq, j) = At(x, seq, k) => j = k
         /\ \A j, k \in 1..(Len(seq) + 1) : At(x, seq, j) = At(x, seq, k) => j = k
<1>1. seq \in Seq(Cells) /\ DOMAIN seq = 1..Len(seq) /\ Len(seq) \in Nat
  BY DEF Fits
<1> QED  BY <1>1 DEF Fits, At

\* The links where n comes between a and b, or where b comes to follow a.
LinkedIn(m, r, a, n, b) ==
    /\ r \in Links
    /\ \A c \in Cells :
         /\ r.next[c] = IF c = a THEN n ELSE IF c = n THEN b ELSE m.next[c]
         /\ r.prev[c] = IF c = b THEN n ELSE IF c = n THEN a ELSE m.prev[c]
LinkedPast(m, r, a, b) ==
    /\ r \in Links
    /\ \A c \in Cells : /\ r.next[c] = IF c = a THEN b ELSE m.next[c]
                        /\ r.prev[c] = IF c = b THEN a ELSE m.prev[c]

\* One cell more on a ring.
LEMMA RingInsertion ==
  ASSUME NEW m \in Links, NEW r, NEW x, NEW seq, Fits(x, seq), list_check_node(m, x, seq),
         NEW k \in 1..(Len(seq) + 1), NEW n \in Cells,
         n # x, \A i \in DOMAIN seq : seq[i] # n,
         LinkedIn(m, r, At(x, seq, k - 1), n, At(x, seq, k))
  PROVE  list_check_node(r, x, Insertion(seq, k, n)) /\ Fits(x, Insertion(seq, k, n))
<1> DEFINE new == Insertion(seq, k, n)
           A(j) == At(x, seq, j)
           B(j) == At(x, new, j)
<1>1. seq \in Seq(Cells) /\ DOMAIN seq = 1..Len(seq) /\ Len(seq) \in Nat
  BY DEF Fits
<1>2. new \in Seq(Cells) /\ Len(new) = Len(seq) + 1 /\ DOMAIN new = 1..(Len(seq) + 1)
  <2>1. new \in Seq(Cells) /\ Len(new) = Len(seq) + 1
    BY <1>1, Insertions
  <2> QED  BY <2>1 DEF Insertion
<1>3. \A j \in 0..(Len(seq) + 2) :
        B(j) = IF j < k THEN A(j) ELSE IF j = k THEN n ELSE A(j - 1)
  BY <1>1, <1>2 DEF At, Insertion
<1>4. \A j \in 0..(Len(seq) + 1) : A(j) \in Cells /\ A(j) # n
  BY <1>1, Round DEF At
<1>5. /\ \A i, j \in 0..Len(seq) : A(i) = A(j) => i = j
      /\ \A i, j \in 1..(Len(seq) + 1) : A(i) = A(j) => i = j
  BY Round
<1>6. \A j \in 0..Len(seq) : m.next[A(j)] = A(j + 1) /\ m.prev[A(j + 1)] = A(j)
  BY DEF list_check_node, list_for_each, list_for_each_rev
<1>7. Fits(x, new)
  <2>1. \A i \in DOMAIN new : new[i] = IF i < k THEN seq[i] ELSE IF i = k THEN n ELSE seq[i - 1]
    BY DEF Insertion
  <2>2. \A i \in DOMAIN new : /\ i \in Int /\ (i < k => i \in DOMAIN seq)
                              /\ (i > k => i - 1 \in DOMAIN seq)
    BY <1>1, <1>2
  <2> HIDE DEF new
  <2>3. \A i \in DOMAIN new : new[i] # x
    BY <2>1, <2>2 DEF Fits
  <2>4. ASSUME NEW i \in DOMAIN new, NEW j \in DOMAIN new, new[i] = new[j]
        PROVE  i = j
    BY <2>1, <2>2, <2>4 DEF Fits
  <2> QED  BY <1>2, <2>3, <2>4 DEF Fits
<1> HIDE DEF new, A, B
<1>8. ASSUME NEW j \in 0..(Len(seq) + 1) PROVE r.next[B(j)] = B(j + 1)
  <2>1. CASE j < k - 1
    <3>1. B(j) = A(j) /\ B(j + 1) = A(j + 1) /\ A(j) # A(k - 1) /\ A(j) \in Cells /\ A(j) # n
      BY <1>1, <1>3, <1>4, <1>5, <2>1
    <3> QED  BY <1>1, <1>6, <2>1, <3>1 DEF LinkedIn, A
  <2>2. CASE j = k - 1
    <3>1. B(j) = A(j) /\ B(j + 1) = n /\ A(j) \in Cells
      BY <1>1, <1>3, <1>4, <2>2
    <3> QED  BY <2>2, <3>1 DEF LinkedIn, A
  <2>3. CASE j = k
    <3>1. B(j) = n /\ B(j + 1) = A(k) /\ A(k - 1) # n
      BY <1>1, <1>3, <1>4, <2>3
    <3> QED  BY <2>3, <3>1 DEF LinkedIn, A
  <2>4. CASE j > k
    <3>1. /\ B(j) = A(j - 1) /\ B(j + 1) = A(j) /\ A(j - 1) # A(k - 1)
          /\ A(j - 1) \in Cells /\ A(j - 1) # n
      BY <1>1, <1>3, <1>4, <1>5, <2>4
    <3>2. m.next[A(j - 1)] = A(j)
      BY <1>1, <1>6, <2>4, SMTT(30)
    <3> QED  BY <3>1, <3>2 DEF LinkedIn, A
  <2> QED  BY <2>1, <2>2, <2>3, <2>4
<1>9. ASSUME NEW j \in 0..(Len(seq) + 1) PROVE r.prev[B(j + 1)] = B(j)
  <2>1. CASE j < k - 1
    <3>1. /\ B(j) = A(j) /\ B(j + 1) = A(j + 1) /\ A(j + 1) # A(k)
          /\ A(j + 1) \in Cells /\ A(j + 1) # n
      BY <1>1, <1>3, <1>4, <1>5, <2>1
    <3> QED  BY <1>1, <1>6, <2>1, <3>1 DEF LinkedIn, A
  <2>2. CASE j = k - 1
    <3>1. B(j) = A(k - 1) /\ B(j + 1) = n /\ A(k) # n
      BY <1>1, <1>3, <1>4, <2>2
    <3> QED  BY <2>2, <3>1 DEF LinkedIn, A
  <2>3. CASE j = k
    <3>1. B(j) = n /\ B(j + 1) = A(k) /\ A(k) \in Cells
      BY <1>1, <1>3, <1>4, <2>3
    <3> QED  BY <2>3, <3>1 DEF LinkedIn, A
  <2>4. CASE j > k
    <3>1. B(j) = A(j - 1) /\ B(j + 1) = A(j) /\ A(j) # A(k) /\ A(j) \in Cells /\ A(j) # n
      BY <1>1, <1>3, <1>4, <1>5, <2>4
    <3>2. m.prev[A(j)] = A(j - 1)
      <4>1. j - 1 \in 0..Len(seq) /\ (j - 1) + 1 = j
        BY <1>1, <2>4
      <4> QED  BY <1>6, <4>1
    <3> QED  BY <3>1, <3>2 DEF LinkedIn, A
  <2> QED  BY <2>1, <2>2, <2>3, <2>4
<1>10. list_for_each(r, x, new) /\ list_for_each_rev(r, x, new)
  BY <1>2, <1>8, <1>9 DEF list_for_each, list_for_each_rev, B
<1> QED  BY <1>7, <1>10 DEF list_check_node, new

\* One cell less on a ring.
LEMMA RingRemoval ==
  ASSUME NEW m \in Links, NEW r, NEW x, NEW seq, Fits(x, seq), list_check_node(m, x, seq),
         NEW k \in 1..Len(seq),
         LinkedPast(m, r, At(x, seq, k - 1), At(x, seq, k + 1))
  PROVE  list_check_node(r, x, Removal(seq, k)) /\ Fits(x, Removal(seq, k))
<1> DEFINE new == Removal(seq, k)
           A(j) == At(x, seq, j)
           B(j) == At(x, new, j)
<1>1. seq \in Seq(Cells) /\ DOMAIN seq = 1..Len(seq) /\ Len(seq) \in Nat
  BY DEF Fits
<1>2. new \in Seq(Cells) /\ Len(new) = Len(seq) - 1 /\ DOMAIN new = 1..(Len(seq) - 1)
  <2>1. new \in Seq(Cells) /\ Len(new) = Len(seq) - 1
    BY <1>1, Removals
  <2> QED  BY <2>1 DEF Removal
<1>3. \A j \in 0..Len(seq) : B(j) = IF j < k THEN A(j) ELSE A(j + 1)
  BY <1>1, <1>2 DEF At, Removal
<1>4. \A j \in 0..(Len(seq) + 1) : A(j) \in Cells
  BY <1>1, Round
<1>5. /\ \A i, j \in 0..Len(seq) : A(i) = A(j) => i = j
      /\ \A i, j \in 1..(Len(seq) + 1) : A(i) = A(j) => i = j
  BY Round
<1>6. \A j \in 0..Len(seq) : m.next[A(j)] = A(j + 1) /\ m.prev[A(j + 1)] = A(j)
  BY DEF list_check_node, list_for_each, list_for_each_rev
<1>7. Fits(x, new)
  <2>1. \A i \in DOMAIN new : new[i] = IF i < k THEN seq[i] ELSE seq[i + 1]
    BY DEF Removal
  <2>2. \A i \in DOMAIN new : i \in Int /\ i \in DOMAIN seq /\ i + 1 \in DOMAIN seq
    BY <1>1, <1>2
  <2> HIDE DEF new
  <2>3. \A i \in DOMAIN new : new[i] # x
    BY <2>1, <2>2 DEF Fits
  <2>4. ASSUME NEW i \in DOMAIN new, NEW j \in DOMAIN new, new[i] = new[j]
        PROVE  i = j
    BY <2>1, <2>2, <2>4 DEF Fits
  <2> QED  BY <1>2, <2>3, <2>4 DEF Fits
<1> HIDE DEF new, A, B
<1>8. ASSUME NEW j \in 0..(Len(seq) - 1) PROVE r.next[B(j)] = B(j + 1)
  <2>1. CASE j < k - 1
    <3>1. B(j) = A(j) /\ B(j + 1) = A(j + 1) /\ A(j) # A(k - 1) /\ A(j) \in Cells
      BY <1>1, <1>3, <1>4, <1>5, <2>1
    <3> QED  BY <1>1, <1>6, <3>1 DEF LinkedPast, A
  <2>2. CASE j = k - 1
    <3>1. B(j) = A(k - 1) /\ B(j + 1) = A(k + 1) /\ A(k - 1) \in Cells
      BY <1>1, <1>3, <1>4, <2>2
    <3> QED  BY <3>1 DEF LinkedPast, A
  <2>3. CASE j > k - 1
    <3>1. /\ B(j) = A(j + 1) /\ B(j + 1) = A(j + 1 + 1) /\ A(j + 1) # A(k - 1)
          /\ A(j + 1) \in Cells
      BY <1>1, <1>3, <1>4, <1>5, <2>3
    <3> QED  BY <1>1, <1>6, <3>1 DEF LinkedPast, A
  <2> QED  BY <2>1, <2>2, <2>3
<1>9. ASSUME NEW j \in 0..(Len(seq) - 1) PROVE r.prev[B(j + 1)] = B(j)
  <2>1. CASE j < k - 1
    <3>1. B(j) = A(j) /\ B(j + 1) = A(j + 1) /\ A(j + 1) # A(k + 1) /\ A(j + 1) \in Cells
      BY <1>1, <1>3, <1>4, <1>5, <2>1
    <3> QED  BY <1>1, <1>6, <3>1 DEF LinkedPast, A
  <2>2. CASE j = k - 1
    <3>1. B(j) = A(k - 1) /\ B(j + 1) = A(k + 1) /\ A(k + 1) \in Cells
      BY <1>1, <1>3, <1>4, <2>2
    <3> QED  BY <3>1 DEF LinkedPast, A
  <2>3. CASE j > k - 1
    <3>1. /\ B(j) = A(j + 1) /\ B(j + 1) = A(j + 1 + 1) /\ A(j + 1 + 1) # A(k + 1)
          /\ A(j + 1 + 1) \in Cells
      BY <1>1, <1>3, <1>4, <1>5, <2>3
    <3> QED  BY <1>1, <1>6, <3>1 DEF LinkedPast, A
  <2> QED  BY <2>1, <2>2, <2>3
<1>10. list_for_each(r, x, new) /\ list_for_each_rev(r, x, new)
  BY <1>2, <1>8, <1>9 DEF list_for_each, list_for_each_rev, B
<1> QED  BY <1>7, <1>10 DEF list_check_node, new

\* Another cell in the place of one.
LEMMA RingReplacement ==
  ASSUME NEW m \in Links, NEW r, NEW x, NEW seq, Fits(x, seq), list_check_node(m, x, seq),
         NEW k \in 1..Len(seq), NEW n \in Cells,
         n # x, \A i \in DOMAIN seq : seq[i] # n,
         LinkedIn(m, r, At(x, seq, k - 1), n, At(x, seq, k + 1))
  PROVE  list_check_node(r, x, ReplaceAt(seq, k, n)) /\ Fits(x, ReplaceAt(seq, k, n))
<1> DEFINE new == ReplaceAt(seq, k, n)
           A(j) == At(x, seq, j)
           B(j) == At(x, new, j)
<1>1. seq \in Seq(Cells) /\ DOMAIN seq = 1..Len(seq) /\ Len(seq) \in Nat
  BY DEF Fits
<1>2. new \in Seq(Cells) /\ Len(new) = Len(seq) /\ DOMAIN new = DOMAIN seq
      /\ \A j \in DOMAIN seq : new[j] = IF j = k THEN n ELSE seq[j]
  <2>1. new \in Seq(Cells) /\ Len(new) = Len(seq)
        /\ \A j \in 1..Len(seq) : new[j] = IF j = k THEN n ELSE seq[j]
    BY <1>1, ExceptSeq DEF ReplaceAt
  <2> HIDE DEF new
  <2> QED  BY <1>1, <2>1
<1> HIDE DEF new
<1>3. \A j \in 0..(Len(seq) + 1) : B(j) = IF j = k THEN n ELSE A(j)
  BY <1>1, <1>2 DEF At
<1>4. \A j \in 0..(Len(seq) + 1) : A(j) \in Cells /\ A(j) # n
  BY <1>1, Round DEF At
<1>5. /\ \A i, j \in 0..Len(seq) : A(i) = A(j) => i = j
      /\ \A i, j \in 1..(Len(seq) + 1) : A(i) = A(j) => i = j
  BY Round
<1>6. \A j \in 0..Len(seq) : m.next[A(j)] = A(j + 1) /\ m.prev[A(j + 1)] = A(j)
  BY DEF list_check_node, list_for_each, list_for_each_rev
<1>7. Fits(x, new)
  BY <1>1, <1>2 DEF Fits
<1> HIDE DEF A, B
<1>8. ASSUME NEW j \in 0..Len(seq) PROVE r.next[B(j)] = B(j + 1)
  <2>1. CASE j = k - 1
    <3>1. B(j) = A(k - 1) /\ B(j + 1) = n /\ A(k - 1) \in Cells
      BY <1>1, <1>3, <1>4, <2>1
    <3> QED  BY <3>1 DEF LinkedIn, A
  <2>2. CASE j = k
    <3>1. B(j) = n /\ B(j + 1) = A(k + 1) /\ A(k - 1) # n
      BY <1>1, <1>3, <1>4, <2>2
    <3> QED  BY <3>1 DEF LinkedIn, A
  <2>3. CASE j \notin {k - 1, k}
    <3>1. /\ B(j) = A(j) /\ B(j + 1) = A(j + 1) /\ A(j) # A(k - 1)
          /\ A(j) \in Cells /\ A(j) # n
      BY <1>1, <1>3, <1>4, <1>5, <2>3
    <3> QED  BY <1>1, <1>6, <3>1 DEF LinkedIn, A
  <2> QED  BY <2>1, <2>2, <2>3
<1>9. ASSUME NEW j \in 0..Len(seq) PROVE r.prev[B(j + 1)] = B(j)
  <2>1. CASE j = k - 1
    <3>1. B(j) = A(k - 1) /\ B(j + 1) = n /\ A(k + 1) # n
      BY <1>1, <1>3, <1>4, <2>1
    <3> QED  BY <3>1 DEF LinkedIn, A
  <2>2. CASE j = k
    <3>1. B(j) = n /\ B(j + 1) = A(k + 1) /\ A(k + 1) \in Cells
      BY <1>1, <1>3, <1>4, <2>2
    <3> QED  BY <3>1 DEF LinkedIn, A
  <2>3. CASE j \notin {k - 1, k}
    <3>1. /\ B(j) = A(j) /\ B(j + 1) = A(j + 1) /\ A(j + 1) # A(k + 1)
          /\ A(j + 1) \in Cells /\ A(j + 1) # n
      BY <1>1, <1>3, <1>4, <1>5, <2>3
    <3> QED  BY <1>1, <1>6, <3>1 DEF LinkedIn, A
  <2> QED  BY <2>1, <2>2, <2>3
<1>10. list_for_each(r, x, new) /\ list_for_each_rev(r, x, new)
  BY <1>2, <1>8, <1>9 DEF list_for_each, list_for_each_rev, B
<1> QED  BY <1>7, <1>10 DEF list_check_node, new

\* A ring whose cells are left alone.
LEMMA RingFrame ==
  ASSUME NEW m, NEW r, NEW x, NEW seq, Fits(x, seq), list_check_node(m, x, seq),
         \A k \in 0..Len(seq) : r.next[At(x, seq, k)] = m.next[At(x, seq, k)],
         \A k \in 0..Len(seq) : r.prev[At(x, seq, k + 1)] = m.prev[At(x, seq, k + 1)]
  PROVE  list_check_node(r, x, seq)
BY DEF list_check_node, list_for_each, list_for_each_rev

\* The items of A, and from and those of B as of place k.
Splice(A, k, from, B) ==
    [i \in 1..(Len(A) + 1 + Len(B)) |->
        IF i < k THEN A[i] ELSE IF i = k THEN from
        ELSE IF i <= k + Len(B) THEN B[i - k] ELSE A[i - Len(B) - 1]]

\* The two rings have no cell in common.
Separate(to, A, from, B) ==
    /\ from # to
    /\ \A i \in DOMAIN A : A[i] # from
    /\ \A i \in DOMAIN B : B[i] # to
    /\ \A i \in DOMAIN A, j \in DOMAIN B : A[i] # B[j]

\* The links from the cell c of a ring to from, and from its last to d.
JoinedIn(m, r, c, d, from, last) ==
    /\ r \in Links
    /\ \A e \in Cells :
         /\ r.next[e] = IF e = c THEN from ELSE IF e = last THEN d ELSE m.next[e]
         /\ r.prev[e] = IF e = d THEN last ELSE IF e = from THEN c ELSE m.prev[e]

\* What is where in it.
LEMMA Splices ==
  ASSUME NEW to, NEW A, Fits(to, A), NEW from, NEW B, Fits(from, B),
         Separate(to, A, from, B),
         NEW k \in 1..(Len(A) + 1)
  PROVE  LET new == Splice(A, k, from, B)
         IN  /\ Fits(to, new)
             /\ Len(new) = Len(A) + 1 + Len(B)
             /\ \A j \in 0..(k - 1) : At(to, new, j) = At(to, A, j)
             /\ \A j \in 0..Len(B) : At(to, new, k + j) = At(from, B, j)
             /\ \A j \in k..(Len(A) + 1) :
                  At(to, new, j + 1 + Len(B)) = At(to, A, j)
<1> DEFINE new == Splice(A, k, from, B)
           a == Len(A)
           b == Len(B)
<1>1. /\ A \in Seq(Cells) /\ DOMAIN A = 1..a /\ a \in Nat
      /\ B \in Seq(Cells) /\ DOMAIN B = 1..b /\ b \in Nat
      /\ to \in Cells /\ from \in Cells
      /\ \A i \in 1..a : A[i] \in Cells /\ A[i] # to
      /\ \A i \in 1..b : B[i] \in Cells /\ B[i] # from
      /\ \A i, j \in 1..a : A[i] = A[j] => i = j
      /\ \A i, j \in 1..b : B[i] = B[j] => i = j
      /\ from # to /\ \A i \in 1..a : A[i] # from
      /\ \A i \in 1..b : B[i] # to
      /\ \A i \in 1..a, j \in 1..b : A[i] # B[j]
      /\ k \in Int /\ k \in 1..(a + 1)
  BY DEF Fits, Separate
<1> HIDE DEF a, b
<1>2. /\ \A i \in 1..(k - 1) : i \in 1..a /\ i \in 1..(a + 1 + b) /\ new[i] = A[i]
      /\ k \in 1..(a + 1 + b) /\ new[k] = from
      /\ \A i \in 1..b : k + i \in 1..(a + 1 + b) /\ new[k + i] = B[i]
      /\ \A i \in k..a : /\ i \in 1..a /\ i + 1 + b \in 1..(a + 1 + b)
                         /\ new[i + 1 + b] = A[i]
  <2>1. /\ \A i \in 1..(k - 1) : i \in 1..a /\ i \in 1..(a + 1 + b)
        /\ k \in 1..(a + 1 + b)
        /\ \A i \in 1..b : k + i \in 1..(a + 1 + b) /\ (k + i) - k = i
        /\ \A i \in k..a : /\ i \in 1..a /\ i + 1 + b \in 1..(a + 1 + b)
                           /\ (i + 1 + b) - b - 1 = i
    BY <1>1 DEF a, b
  <2> QED  BY <1>1, <2>1 DEF Splice, a, b
<1>3. \A i \in 1..(a + 1 + b) :
        \/ i \in 1..(k - 1)
        \/ i = k
        \/ \E j \in 1..b : i = k + j
        \/ \E j \in k..a : i = j + 1 + b
  <2> TAKE i \in 1..(a + 1 + b)
  <2>1. CASE i <= k
    BY <1>1, <2>1 DEF a
  <2>2. CASE i > k /\ i <= k + b
    <3>1. i - k \in 1..b /\ i = k + (i - k)
      BY <1>1, <2>2 DEF a
    <3> QED  BY <3>1
  <2>3. CASE i > k + b
    <3>1. i - 1 - b \in k..a /\ i = (i - 1 - b) + 1 + b
      BY <1>1, <2>3 DEF a
    <3> QED  BY <3>1
  <2> QED  BY <1>1, <2>1, <2>2, <2>3 DEF a
<1>4. \A i \in 1..(a + 1 + b) : new[i] \in Cells /\ new[i] # to
  <2> HIDE DEF new
  <2>1. \A i \in 1..(k - 1) : new[i] \in Cells /\ new[i] # to
    BY <1>1, <1>2
  <2>2. \A i \in 1..b : new[k + i] \in Cells /\ new[k + i] # to
    BY <1>1, <1>2
  <2>3. \A i \in k..a : new[i + 1 + b] \in Cells /\ new[i + 1 + b] # to
    <3>1. \A i \in k..a : new[i + 1 + b] = A[i] /\ i \in 1..a
      BY <1>2
    <3> QED  BY <1>1, <3>1
  <2>4. new[k] \in Cells /\ new[k] # to
    BY <1>1, <1>2
  <2> QED  BY <1>3, <2>1, <2>2, <2>3, <2>4
<1>5. new \in Seq(Cells) /\ Len(new) = a + 1 + b /\ DOMAIN new = 1..(a + 1 + b)
  <2>1. new = [i \in 1..(a + 1 + b) |-> new[i]]
    BY DEF Splice, a, b
  <2> DEFINE n == a + 1 + b
  <2>2. n \in Nat
    BY <1>1
  <2> HIDE DEF new, n
  <2>3. new \in Seq(Cells) /\ Len(new) = n /\ DOMAIN new = 1..n
    BY <1>4, <2>1, <2>2 DEF n
  <2> QED  BY <2>3 DEF n
<1> HIDE DEF new
<1>6. ASSUME NEW i \in 1..(a + 1 + b), NEW j \in 1..(a + 1 + b), new[i] = new[j]
      PROVE  i = j
  <2>1. /\ \A p \in 1..(k - 1) : p \in 1..a /\ new[p] = A[p] /\ \A q \in k..a : p # q
        /\ \A p \in k..a : p \in 1..a /\ new[p + 1 + b] = A[p]
        /\ \A p \in 1..b : new[k + p] = B[p]
        /\ new[k] = from
    BY <1>1, <1>2
  <2>2. CASE i \in 1..(k - 1)
    <3>1. new[i] # from /\ \A p \in 1..b : new[i] # B[p]
      BY <1>1, <2>1, <2>2
    <3>2. \A p \in k..a : new[i] # A[p]
      BY <1>1, <2>1, <2>2
    <3>3. j \in 1..(k - 1)
      BY <1>3, <1>6, <2>1, <3>1, <3>2
    <3>4. new[i] = A[i] /\ new[j] = A[j] /\ i \in 1..a /\ j \in 1..a
      BY <2>1, <2>2, <3>3
    <3>5. \A p, q \in 1..a : A[p] = A[q] => p = q
      BY <1>1
    <3> QED  BY ONLY <1>6, <3>4, <3>5
  <2>3. CASE i = k
    <3>1. (\A p \in 1..a : A[p] # from) /\ (\A p \in 1..b : from # B[p])
      BY <1>1
    <3> QED  BY <1>3, <1>6, <2>1, <2>3, <3>1
  <2>4. ASSUME NEW l \in 1..b, i = k + l PROVE i = j
    <3>1. (\A p \in 1..a : A[p] # B[l]) /\ B[l] # from /\ new[i] = B[l]
      BY <1>1, <2>1, <2>4
    <3>2. PICK p \in 1..b : j = k + p
      <4>1. /\ \A p \in 1..(k - 1) : new[i] # new[p]
            /\ \A p \in k..a : new[i] # new[p + 1 + b]
            /\ new[i] # new[k]
        BY <2>1, <3>1
      <4> QED  BY ONLY <1>3, <1>6, <4>1
    <3>3. new[j] = B[p]
      BY <2>1, <3>2
    <3> QED  BY <1>1, <1>6, <2>4, <3>1, <3>2, <3>3
  <2>5. ASSUME NEW l \in k..a, i = l + 1 + b PROVE i = j
    <3>0. new[i] = A[l] /\ l \in 1..a
      BY <2>1, <2>5
    <3>1. new[i] # from /\ \A p \in 1..b : new[i] # B[p]
      BY <1>1, <3>0
    <3>2. \A p \in 1..(k - 1) : new[i] # new[p]
      BY <1>1, <2>1, <3>0
    <3>3. PICK p \in k..a : j = p + 1 + b
      <4>1. j \notin 1..(k - 1)
        BY <1>6, <3>2
      <4>2. ASSUME NEW p \in 1..b PROVE j # k + p
        <5>1. new[k + p] = B[p] /\ new[i] # B[p]
          BY <2>1, <3>1
        <5> QED  BY <1>6, <5>1
      <4>3. j # k
        BY <1>6, <2>1, <3>1
      <4> QED  BY <1>3, <4>1, <4>2, <4>3
    <3>4. new[j] = A[p] /\ p \in 1..a
      BY <2>1, <3>3
    <3> QED  BY <1>1, <1>6, <2>5, <3>0, <3>3, <3>4
  <2> QED  BY <1>3, <2>2, <2>3, <2>4, <2>5
<1>7. Fits(to, new)
  BY <1>1, <1>4, <1>5, <1>6 DEF Fits
<1>8. \A j \in 0..(k - 1) : At(to, new, j) = At(to, A, j)
  BY <1>1, <1>2, <1>5 DEF At, a
<1>9. \A j \in 0..b : At(to, new, k + j) = At(from, B, j)
  <2> TAKE j \in 0..b
  <2>1. CASE j = 0
    <3>1. k + j = k /\ k \in DOMAIN new /\ j \notin DOMAIN B
      BY <1>1, <1>2, <1>5, <2>1
    <3> QED  BY <1>2, <3>1 DEF At
  <2>2. CASE j \in 1..b
    BY <1>1, <1>2, <1>5, <2>2 DEF At
  <2> QED  BY <1>1, <2>1, <2>2
<1>10. \A j \in k..(a + 1) : At(to, new, j + 1 + b) = At(to, A, j)
  <2> TAKE j \in k..(a + 1)
  <2>1. CASE j = a + 1
    <3>1. j \notin DOMAIN A /\ j + 1 + b \notin DOMAIN new
      BY <1>1, <1>5, <2>1
    <3> QED  BY <3>1 DEF At
  <2>2. CASE j \in k..a
    BY <1>1, <1>2, <1>5, <2>2 DEF At
  <2> QED  BY <1>1, <2>1, <2>2 DEF a
<1> QED  BY <1>5, <1>7, <1>8, <1>9, <1>10 DEF new, a, b

\* Two rings joined: from and its items come before the cell k of the other.
LEMMA RingJoin ==
  ASSUME NEW m, NEW r, NEW to, NEW A, Fits(to, A), list_check_node(m, to, A),
         NEW from, NEW B, Fits(from, B), list_check_node(m, from, B),
         Separate(to, A, from, B),
         NEW k \in 1..(Len(A) + 1),
         JoinedIn(m, r, At(to, A, k - 1), At(to, A, k), from, At(from, B, Len(B)))
  PROVE  list_check_node(r, to, Splice(A, k, from, B)) /\ Fits(to, Splice(A, k, from, B))
<1> DEFINE new == Splice(A, k, from, B)
           a == Len(A)
           b == Len(B)
           P(j) == At(to, A, j)
           Q(j) == At(from, B, j)
           N(j) == At(to, new, j)
           Linked(c, d) == r.next[c] = d /\ r.prev[d] = c
<1>1. /\ DOMAIN A = 1..a /\ a \in Nat /\ DOMAIN B = 1..b /\ b \in Nat
      /\ to \in Cells /\ from \in Cells
  BY DEF Fits
<1>2. /\ Fits(to, new) /\ Len(new) = a + 1 + b
      /\ \A j \in 0..(k - 1) : N(j) = P(j)
      /\ \A j \in 0..b : N(k + j) = Q(j)
      /\ \A j \in k..(a + 1) : N(j + 1 + b) = P(j)
  <2> HIDE DEF new
  <2> QED  BY Splices DEF new
<1>3. /\ \A j \in 0..(a + 1) : P(j) \in Cells
      /\ \A j \in 0..(b + 1) : Q(j) \in Cells
      /\ \A i \in 0..(a + 1), j \in 0..(b + 1) : P(i) # Q(j)
      /\ Q(0) = from
  <2>1. /\ \A j \in 0..(a + 1) : P(j) \in Cells
        /\ \A j \in 0..(b + 1) : Q(j) \in Cells
    BY <1>1, Round
  <2> QED  BY <1>1, <2>1 DEF At, Separate
<1>4. /\ \A i, j \in 0..a : P(i) = P(j) => i = j
      /\ \A i, j \in 1..(a + 1) : P(i) = P(j) => i = j
      /\ \A i, j \in 0..b : Q(i) = Q(j) => i = j
  BY Round
<1>5. /\ \A j \in 0..a : m.next[P(j)] = P(j + 1) /\ m.prev[P(j + 1)] = P(j)
      /\ \A j \in 0..b : m.next[Q(j)] = Q(j + 1) /\ m.prev[Q(j + 1)] = Q(j)
  BY DEF list_check_node, list_for_each, list_for_each_rev
<1>6. \A c \in Cells :
        /\ r.next[c] = IF c = P(k - 1) THEN Q(0)
                       ELSE IF c = Q(b) THEN P(k) ELSE m.next[c]
        /\ r.prev[c] = IF c = P(k) THEN Q(b)
                       ELSE IF c = Q(0) THEN P(k - 1) ELSE m.prev[c]
  BY <1>3 DEF JoinedIn
<1> HIDE DEF P, Q, N, new, a, b
<1>7. \A j \in (0..(k - 2)) \cup (k..a) : Linked(P(j), P(j + 1))
  <2> TAKE j \in (0..(k - 2)) \cup (k..a)
  <2>1. /\ j \in 0..a /\ j + 1 \in 0..(a + 1) /\ 0 \in 0..(b + 1) /\ b \in 0..(b + 1)
        /\ k - 1 \in 0..a /\ k \in 1..(a + 1) /\ j + 1 \in 1..(a + 1) /\ j # k - 1
        /\ j + 1 # k
    BY <1>1 DEF a
  <2>2. P(j) # P(k - 1) /\ P(j + 1) # P(k)
    BY <1>4, <2>1
  <2>3. P(j) # Q(b) /\ P(j + 1) # Q(0)
    <3>1. j \in 0..(a + 1)
      BY <1>1, <2>1
    <3> QED  BY <1>3, <2>1, <3>1
  <2>4. P(j) \in Cells /\ P(j + 1) \in Cells
    BY <1>1, <1>3, <2>1
  <2>5. r.next[P(j)] = m.next[P(j)] /\ r.prev[P(j + 1)] = m.prev[P(j + 1)]
    BY <1>6, <2>2, <2>3, <2>4
  <2> QED  BY <1>5, <2>1, <2>5
<1>8. Linked(P(k - 1), Q(0)) /\ Linked(Q(b), P(k))
  <2>1. k - 1 \in 0..(a + 1) /\ k \in 0..(a + 1) /\ 0 \in 0..(b + 1) /\ b \in 0..(b + 1)
    BY <1>1 DEF a
  <2> QED  BY <1>3, <1>6, <2>1
<1>9. \A j \in 0..(b - 1) : Linked(Q(j), Q(j + 1))
  <2> TAKE j \in 0..(b - 1)
  <2>1. /\ j \in 0..b /\ j + 1 \in 0..b /\ 0 \in 0..b /\ b \in 0..b /\ j # b /\ j + 1 # 0
        /\ j \in 0..(b + 1) /\ j + 1 \in 0..(b + 1)
        /\ k - 1 \in 0..(a + 1) /\ k \in 0..(a + 1)
    BY <1>1 DEF a
  <2>2. Q(j) # Q(b) /\ Q(j + 1) # Q(0) /\ Q(j) # P(k - 1) /\ Q(j + 1) # P(k)
    BY <1>3, <1>4, <2>1
  <2> QED  BY <1>3, <1>5, <1>6, <2>1, <2>2
<1>10. ASSUME NEW j \in 0..(a + 1 + b)
      PROVE  Linked(N(j), N(j + 1))
  <2> HIDE DEF Linked
  <2>1. CASE j < k - 1
    <3>1. j \in 0..(k - 2) /\ j \in 0..(k - 1) /\ j + 1 \in 0..(k - 1)
      BY <1>1, <2>1
    <3> QED  BY <1>2, <1>7, <3>1
  <2>2. CASE j = k - 1
    <3>1. j \in 0..(k - 1) /\ j + 1 = k + 0 /\ 0 \in 0..b
      BY <1>1, <2>2
    <3> QED  BY <1>2, <1>8, <2>2, <3>1
  <2>3. CASE j >= k /\ j < k + b
    <3> DEFINE i == j - k
    <3>1. i \in 0..(b - 1) /\ i \in 0..b /\ i + 1 \in 0..b /\ j = k + i /\ j + 1 = k + (i + 1)
      BY <1>1, <2>3
    <3> QED  BY <1>2, <1>9, <3>1
  <2>4. CASE j = k + b
    <3>1. b \in 0..b /\ j + 1 = k + 1 + b /\ k \in k..(a + 1)
      BY <1>1, <2>4 DEF a
    <3> QED  BY <1>2, <1>8, <2>4, <3>1
  <2>5. CASE j > k + b
    <3> DEFINE i == j - 1 - b
    <3>1. /\ i \in k..a /\ i \in k..(a + 1) /\ i + 1 \in k..(a + 1)
          /\ j = i + 1 + b /\ j + 1 = (i + 1) + 1 + b
      BY <1>1, <2>5 DEF a
    <3> QED  BY <1>2, <1>7, <3>1
  <2>6. j \in Int /\ k \in Int /\ b \in Nat
    BY <1>1
  <2> QED  BY <2>1, <2>2, <2>3, <2>4, <2>5, <2>6
<1>11. list_for_each(r, to, new) /\ list_for_each_rev(r, to, new)
  BY <1>1, <1>2, <1>10 DEF list_for_each, list_for_each_rev, N
<1> QED  BY <1>2, <1>11 DEF list_check_node, new

-----------------------------------------------------------------------------
(***************************************************************************)
(* The operations: the links they leave.                                   *)
(***************************************************************************)
LEMMA LinksOfAdd ==
  ASSUME NEW m \in Links, NEW p \in Cells, NEW n \in Cells, n # p
  PROVE  /\ m.next[p] \in Cells /\ m.next[p] # n
              => LinkedIn(m, list_add_after(m, p, n), p, n, m.next[p])
         /\ m.prev[p] \in Cells /\ m.prev[p] # n
              => LinkedIn(m, list_add_before(m, p, n), m.prev[p], n, p)
<1>1. m.next \in [Cells -> Cells \cup {NoNode}] /\ m.prev \in [Cells -> Cells \cup {NoNode}]
  BY DEF Links
<1> QED  BY <1>1 DEF list_add_after, list_add_before, LinkedIn, Links

LEMMA LinksOfDelete ==
  ASSUME NEW m \in Links, NEW n \in Cells, m.next[n] \in Cells, m.prev[n] \in Cells
  PROVE  LinkedPast(m, list_del(m, n), m.prev[n], m.next[n])
<1>1. m.next \in [Cells -> Cells \cup {NoNode}] /\ m.prev \in [Cells -> Cells \cup {NoNode}]
  BY DEF Links
<1> QED  BY <1>1 DEF list_del, LinkedPast, Links

LEMMA LinksOfInit ==
  ASSUME NEW m \in Links, NEW n \in Cells
  PROVE  LET r == list_node_init(m, n)
         IN  /\ r \in Links /\ r.next[n] = n /\ r.prev[n] = n
             /\ \A c \in Cells : c # n => r.next[c] = m.next[c] /\ r.prev[c] = m.prev[c]
<1>1. m.next \in [Cells -> Cells \cup {NoNode}] /\ m.prev \in [Cells -> Cells \cup {NoNode}]
  BY DEF Links
<1> QED  BY <1>1 DEF list_node_init, Links

LEMMA LinksOfSwap ==
  ASSUME NEW m \in Links, NEW o \in Cells, NEW n \in Cells,
         m.next[o] \in Cells, m.prev[o] \in Cells, n # m.next[o], n # m.prev[o]
  PROVE  LinkedIn(m, list_swap(m, o, n), m.prev[o], n, m.next[o])
<1>1. m.next \in [Cells -> Cells \cup {NoNode}] /\ m.prev \in [Cells -> Cells \cup {NoNode}]
  BY DEF Links
<1> QED  BY <1>1 DEF list_swap, LinkedIn, Links

\* list_append_list and list_prepend_list before they delete from.
Appended(m, to, from) ==
    [next |-> [m.next EXCEPT ![m.prev[from]] = to, ![m.prev[to]] = from],
     prev |-> [m.prev EXCEPT ![to] = m.prev[from], ![from] = m.prev[to]]]
Prepended(m, to, from) ==
    [next |-> [m.next EXCEPT ![to] = from, ![m.prev[from]] = m.next[to]],
     prev |-> [m.prev EXCEPT ![from] = to, ![m.next[to]] = m.prev[from]]]

LEMMA LinksOfJoin ==
  ASSUME NEW m \in Links, NEW to \in Cells, NEW from \in Cells, to # from,
         m.prev[from] \in Cells, m.prev[to] \in Cells, m.next[to] \in Cells,
         m.prev[from] # m.prev[to], m.prev[from] # to
  PROVE  /\ JoinedIn(m, Appended(m, to, from), m.prev[to], to, from, m.prev[from])
         /\ JoinedIn(m, Prepended(m, to, from), to, m.next[to], from, m.prev[from])
         /\ list_append_list(m, to, from)
              = list_node_init(list_del(Appended(m, to, from), from), from)
         /\ list_prepend_list(m, to, from)
              = list_node_init(list_del(Prepended(m, to, from), from), from)
<1>1. /\ m = [next |-> m.next, prev |-> m.prev]
      /\ m.next \in [Cells -> Cells \cup {NoNode}] /\ m.prev \in [Cells -> Cells \cup {NoNode}]
  BY DEF Links
<1>2. JoinedIn(m, Appended(m, to, from), m.prev[to], to, from, m.prev[from])
  BY <1>1 DEF Appended, JoinedIn, Links
<1>3. JoinedIn(m, Prepended(m, to, from), to, m.next[to], from, m.prev[from])
  BY <1>1 DEF Prepended, JoinedIn, Links
<1>4. list_append_list(m, to, from)
        = list_node_init(list_del(Appended(m, to, from), from), from)
  <2>1. [[[[m EXCEPT !.prev[to] = m.prev[from]]
             EXCEPT !.next[m.prev[from]] = to]
             EXCEPT !.next[m.prev[to]] = from]
             EXCEPT !.prev[from] = m.prev[to]] = Appended(m, to, from)
    <3> DEFINE N1 == [m.next EXCEPT ![m.prev[from]] = to]
               P1 == [m.prev EXCEPT ![to] = m.prev[from]]
    <3>1. [m EXCEPT !.prev[to] = m.prev[from]] = [next |-> m.next, prev |-> P1]
      BY <1>1
    <3>2. [[next |-> m.next, prev |-> P1] EXCEPT !.next[m.prev[from]] = to]
            = [next |-> N1, prev |-> P1]
      OBVIOUS
    <3>3. [[next |-> N1, prev |-> P1] EXCEPT !.next[m.prev[to]] = from]
            = [next |-> [N1 EXCEPT ![m.prev[to]] = from], prev |-> P1]
      OBVIOUS
    <3>4. [[next |-> [N1 EXCEPT ![m.prev[to]] = from], prev |-> P1]
             EXCEPT !.prev[from] = m.prev[to]]
            = [next |-> [N1 EXCEPT ![m.prev[to]] = from],
               prev |-> [P1 EXCEPT ![from] = m.prev[to]]]
      OBVIOUS
    <3> QED  BY <3>1, <3>2, <3>3, <3>4 DEF Appended
  <2> QED  BY <2>1 DEF list_append_list
<1>5. list_prepend_list(m, to, from)
        = list_node_init(list_del(Prepended(m, to, from), from), from)
  <2>1. [[[[m EXCEPT !.next[to] = from]
             EXCEPT !.prev[from] = to]
             EXCEPT !.prev[m.next[to]] = m.prev[from]]
             EXCEPT !.next[m.prev[from]] = m.next[to]] = Prepended(m, to, from)
    <3> DEFINE N1 == [m.next EXCEPT ![to] = from]
               P1 == [m.prev EXCEPT ![from] = to]
               P2 == [P1 EXCEPT ![m.next[to]] = m.prev[from]]
    <3>1. [m EXCEPT !.next[to] = from] = [next |-> N1, prev |-> m.prev]
      BY <1>1
    <3>2. [[next |-> N1, prev |-> m.prev] EXCEPT !.prev[from] = to]
            = [next |-> N1, prev |-> P1]
      OBVIOUS
    <3>3. [[next |-> N1, prev |-> P1] EXCEPT !.prev[m.next[to]] = m.prev[from]]
            = [next |-> N1, prev |-> P2]
      OBVIOUS
    <3>4. [[next |-> N1, prev |-> P2] EXCEPT !.next[m.prev[from]] = m.next[to]]
            = [next |-> [N1 EXCEPT ![m.prev[from]] = m.next[to]], prev |-> P2]
      OBVIOUS
    <3> QED  BY <3>1, <3>2, <3>3, <3>4 DEF Prepended
  <2> QED  BY <2>1 DEF list_prepend_list
<1> QED  BY <1>2, <1>3, <1>4, <1>5

-----------------------------------------------------------------------------
(***************************************************************************)
(* Lists that are sound: each is the sequence c says, with an item once on *)
(* one list, and what list_del_init left is a list of its own.             *)
(***************************************************************************)
Distinct(c, o) ==
    /\ c \in [Heads -> Seq(Nodes)] /\ o \subseteq Nodes
    /\ \A x, y \in Heads : \A i \in DOMAIN c[x], j \in DOMAIN c[y] :
         c[x][i] = c[y][j] => x = y /\ i = j
    /\ \A x \in Heads : \A i \in DOMAIN c[x] : c[x][i] \notin o

Sound(m, c, o) ==
    /\ m \in Links
    /\ Distinct(c, o)
    /\ \A x \in Heads : list_check_node(m, x, c[x])
    /\ \A n \in o : list_check_node(m, n, <<>>)

\* On no list, and no list of its own.
Loose(c, o, n) == n \in Nodes \ o /\ \A x \in Heads : \A i \in DOMAIN c[x] : c[x][i] # n

LEMMA DistinctFits ==
  ASSUME NEW c, NEW o, Distinct(c, o)
  PROVE  /\ \A x \in Heads : /\ c[x] \in Seq(Nodes) /\ DOMAIN c[x] = 1..Len(c[x])
                             /\ Len(c[x]) \in Nat
                             /\ Fits(x, c[x])
                             /\ \A i \in DOMAIN c[x] : c[x][i] \in Nodes
         /\ \A n \in o : Fits(n, <<>>)
<1>1. Heads \cap Nodes = {}
  BY ListsAssumption
<1>2. ASSUME NEW x \in Heads
      PROVE  /\ c[x] \in Seq(Nodes) /\ DOMAIN c[x] = 1..Len(c[x]) /\ Len(c[x]) \in Nat
             /\ Fits(x, c[x])
             /\ \A i \in DOMAIN c[x] : c[x][i] \in Nodes
  <2>1. c[x] \in Seq(Nodes)
    BY DEF Distinct
  <2>2. DOMAIN c[x] = 1..Len(c[x]) /\ Len(c[x]) \in Nat
    BY <2>1
  <2>3. \A i \in DOMAIN c[x] : c[x][i] \in Nodes
    BY <2>1
  <2>4. c[x] \in Seq(Cells)
    BY <2>1, SeqMonotonic DEF Cells
  <2> QED  BY <1>1, <2>1, <2>2, <2>3, <2>4 DEF Fits, Distinct, Cells
<1>3. \A n \in o : Fits(n, <<>>)
  BY DEF Fits, Distinct, Cells
<1> QED  BY <1>2, <1>3

\* The links of a list whose cells are left alone, and of a cell on its own.
LEMMA ListFrame ==
  ASSUME NEW m, NEW r, NEW x \in Cells, NEW seq \in Seq(Nodes), list_check_node(m, x, seq),
         r.next[x] = m.next[x], r.prev[x] = m.prev[x],
         \A i \in DOMAIN seq : r.next[seq[i]] = m.next[seq[i]] /\ r.prev[seq[i]] = m.prev[seq[i]]
  PROVE  list_check_node(r, x, seq)
<1>1. \A k \in Int : /\ r.next[At(x, seq, k)] = m.next[At(x, seq, k)]
                     /\ r.prev[At(x, seq, k)] = m.prev[At(x, seq, k)]
  BY DEF At
<1> QED  BY <1>1 DEF list_check_node, list_for_each, list_for_each_rev

\* An operation on the list x and the node n.
LEMMA OneList ==
  ASSUME NEW m, NEW c, NEW o, Sound(m, c, o),
         NEW x \in Heads, NEW n \in Nodes, NEW seq \in Seq(Nodes), NEW r \in Links,
         NEW q \in SUBSET (o \cup {n}),
         Fits(x, seq), list_check_node(r, x, seq),
         \A y \in Heads : \A i \in DOMAIN c[y] : c[y][i] = n => y = x,
         \A i \in DOMAIN seq : seq[i] = n \/ \E j \in DOMAIN c[x] : seq[i] = c[x][j],
         n \in o => n \notin q,
         n \in q => list_check_node(r, n, <<>>) /\ \A i \in DOMAIN seq : seq[i] # n,
         \A d \in Cells : d # x /\ d # n /\ (\A i \in DOMAIN c[x] : c[x][i] # d)
                            => r.next[d] = m.next[d] /\ r.prev[d] = m.prev[d]
  PROVE  Sound(r, [c EXCEPT ![x] = seq], q)
<1> DEFINE new == [c EXCEPT ![x] = seq]
<1>1. Distinct(c, o) /\ Heads \cap Nodes = {}
  BY ListsAssumption DEF Sound
<1>2. /\ new \in [Heads -> Seq(Nodes)] /\ new[x] = seq
      /\ \A y \in Heads : y # x => new[y] = c[y]
  BY <1>1 DEF Distinct
<1> HIDE DEF new
<1>3. \A y \in Heads : \A i \in DOMAIN c[y] : c[y][i] \in Nodes
  BY <1>1, DistinctFits
<1>4. \A y \in Heads : y # x => \A i \in DOMAIN c[y], j \in DOMAIN seq : c[y][i] # seq[j]
  BY <1>1 DEF Distinct
<1>5. Distinct(new, q)
  <2>1. q \subseteq Nodes
    BY <1>1 DEF Distinct
  <2>2. ASSUME NEW y \in Heads, NEW z \in Heads, NEW i \in DOMAIN new[y],
               NEW j \in DOMAIN new[z], new[y][i] = new[z][j]
        PROVE  y = z /\ i = j
    <3>1. CASE y = x /\ z = x
      BY <1>2, <2>2, <3>1 DEF Fits
    <3>2. CASE y = x /\ z # x
      BY <1>2, <1>4, <2>2, <3>2
    <3>3. CASE y # x /\ z = x
      BY <1>2, <1>4, <2>2, <3>3
    <3>4. CASE y # x /\ z # x
      BY <1>1, <1>2, <2>2, <3>4 DEF Distinct
    <3> QED  BY <3>1, <3>2, <3>3, <3>4
  <2>3. ASSUME NEW y \in Heads, NEW i \in DOMAIN new[y] PROVE new[y][i] \notin q
    <3>1. CASE y = x
      BY <1>1, <1>2, <3>1 DEF Distinct
    <3>2. CASE y # x
      BY <1>1, <1>2, <3>2 DEF Distinct
    <3> QED  BY <3>1, <3>2
  <2> QED  BY <1>2, <2>1, <2>2, <2>3 DEF Distinct
<1>6. ASSUME NEW y \in Heads PROVE list_check_node(r, y, new[y])
  <2>1. CASE y = x
    BY <1>2, <2>1
  <2>2. CASE y # x
    <3>1. r.next[y] = m.next[y] /\ r.prev[y] = m.prev[y]
      BY <1>1, <1>3, <2>2 DEF Cells
    <3>2. \A i \in DOMAIN c[y] : /\ c[y][i] \in Cells /\ c[y][i] # x /\ c[y][i] # n
                                 /\ \A j \in DOMAIN c[x] : c[x][j] # c[y][i]
      <4> TAKE i \in DOMAIN c[y]
      <4>1. c[y][i] \in Nodes /\ c[y][i] # n
        BY <1>3, <2>2
      <4>2. \A j \in DOMAIN c[x] : c[x][j] # c[y][i]
        BY <1>1, <2>2 DEF Distinct
      <4> QED  BY <1>1, <4>1, <4>2 DEF Cells
    <3>3. \A i \in DOMAIN c[y] : /\ r.next[c[y][i]] = m.next[c[y][i]]
                                 /\ r.prev[c[y][i]] = m.prev[c[y][i]]
      BY <3>2
    <3>4. list_check_node(m, y, c[y]) /\ c[y] \in Seq(Nodes) /\ y \in Cells
      <4>1. list_check_node(m, y, c[y])
        BY DEF Sound
      <4> QED  BY <1>1, <4>1 DEF Distinct, Cells
    <3>5. list_check_node(r, y, c[y])
      BY ONLY <3>1, <3>3, <3>4, ListFrame
    <3> QED  BY <1>2, <2>2, <3>5
  <2> QED  BY <2>1, <2>2
<1>7. ASSUME NEW p \in q PROVE list_check_node(r, p, <<>>)
  <2>1. CASE p = n
    BY <2>1
  <2>2. CASE p # n
    <3>1. p \in o /\ p \in Cells /\ p # x /\ \A i \in DOMAIN c[x] : c[x][i] # p
      BY <1>1, <2>2 DEF Distinct, Cells
    <3>2. list_check_node(m, p, <<>>) /\ r.next[p] = m.next[p] /\ r.prev[p] = m.prev[p]
      BY <2>2, <3>1 DEF Sound
    <3>3. <<>> \in Seq(Nodes) /\ DOMAIN <<>> = {}
      OBVIOUS
    <3> QED  BY <3>1, <3>2, <3>3, ListFrame
  <2> QED  BY <2>1, <2>2
<1> QED  BY <1>5, <1>6, <1>7 DEF Sound, new

\* What a sound list is made of.
LEMMA SoundCells ==
  ASSUME NEW m, NEW c, NEW o, Sound(m, c, o), NEW x \in Heads
  PROVE  /\ c[x] \in Seq(Nodes) /\ Len(c[x]) \in Nat /\ DOMAIN c[x] = 1..Len(c[x])
         /\ Fits(x, c[x]) /\ list_check_node(m, x, c[x])
         /\ At(x, c[x], 0) = x /\ At(x, c[x], Len(c[x]) + 1) = x
         /\ \A k \in 1..Len(c[x]) : At(x, c[x], k) = c[x][k]
         /\ \A k \in Int : /\ At(x, c[x], k) \in Cells
                           /\ \/ At(x, c[x], k) = x
                              \/ \E i \in DOMAIN c[x] : At(x, c[x], k) = c[x][i]
         /\ \A k \in 0..Len(c[x]) : /\ m.next[At(x, c[x], k)] = At(x, c[x], k + 1)
                                    /\ m.prev[At(x, c[x], k + 1)] = At(x, c[x], k)
<1>1. /\ c[x] \in Seq(Nodes) /\ Len(c[x]) \in Nat /\ DOMAIN c[x] = 1..Len(c[x])
      /\ Fits(x, c[x])
  BY DistinctFits DEF Sound
<1>2. list_check_node(m, x, c[x])
  BY DEF Sound
<1>3. \A k \in Int : /\ At(x, c[x], k) \in Cells
                     /\ \/ At(x, c[x], k) = x
                        \/ \E i \in DOMAIN c[x] : At(x, c[x], k) = c[x][i]
  <2>1. \A k \in Int : At(x, c[x], k) \in Cells
    BY <1>1, Round
  <2> QED  BY <2>1 DEF At
<1>4. \A k \in 0..Len(c[x]) : /\ m.next[At(x, c[x], k)] = At(x, c[x], k + 1)
                              /\ m.prev[At(x, c[x], k + 1)] = At(x, c[x], k)
  BY <1>2 DEF list_check_node, list_for_each, list_for_each_rev
<1>5. /\ At(x, c[x], 0) = x /\ At(x, c[x], Len(c[x]) + 1) = x
      /\ \A k \in 1..Len(c[x]) : At(x, c[x], k) = c[x][k]
  BY <1>1 DEF At
<1> QED  BY <1>1, <1>2, <1>3, <1>4, <1>5

\* list_add_before, list_add_after.
LEMMA SoundAdd ==
  ASSUME NEW m, NEW c, NEW o, Sound(m, c, o), NEW x \in Heads, NEW n, Loose(c, o, n),
         NEW k \in 1..(Len(c[x]) + 1), NEW r,
         LinkedIn(m, r, At(x, c[x], k - 1), n, At(x, c[x], k))
  PROVE  Sound(r, [c EXCEPT ![x] = Insertion(c[x], k, n)], o)
<1> DEFINE seq == Insertion(c[x], k, n)
<1>1. /\ c[x] \in Seq(Nodes) /\ Len(c[x]) \in Nat /\ DOMAIN c[x] = 1..Len(c[x])
      /\ Fits(x, c[x]) /\ list_check_node(m, x, c[x]) /\ k - 1 \in Int /\ k \in Int
  BY SoundCells
<1>2. n \in Nodes /\ n \in Cells /\ n # x /\ n \notin o /\ m \in Links /\ r \in Links
  BY ListsAssumption DEF Loose, Cells, Sound, LinkedIn
<1>3. \A y \in Heads : \A i \in DOMAIN c[y] : c[y][i] # n
  BY DEF Loose
<1>4. seq \in Seq(Nodes) /\ DOMAIN seq = 1..(Len(c[x]) + 1)
      /\ \A i \in DOMAIN seq : seq[i] = n \/ \E j \in DOMAIN c[x] : seq[i] = c[x][j]
  <2>1. seq \in Seq(Nodes)
    BY <1>1, <1>2, Insertions
  <2>2. DOMAIN seq = 1..(Len(c[x]) + 1)
    BY DEF Insertion
  <2>3. ASSUME NEW i \in DOMAIN seq
        PROVE  seq[i] = n \/ \E j \in DOMAIN c[x] : seq[i] = c[x][j]
    <3>1. seq[i] = IF i < k THEN c[x][i] ELSE IF i = k THEN n ELSE c[x][i - 1]
      BY <2>2 DEF Insertion
    <3>2. (i < k => i \in DOMAIN c[x]) /\ (i > k => i - 1 \in DOMAIN c[x]) /\ i \in Int
      BY <1>1, <2>2
    <3> HIDE DEF seq
    <3> QED  BY <1>1, <3>1, <3>2
  <2> QED  BY <2>1, <2>2, <2>3
<1>5. list_check_node(r, x, seq) /\ Fits(x, seq)
  BY <1>1, <1>2, <1>3, RingInsertion
<1>6. ASSUME NEW d \in Cells, d # x, d # n, \A i \in DOMAIN c[x] : c[x][i] # d
      PROVE  r.next[d] = m.next[d] /\ r.prev[d] = m.prev[d]
  <2>0. \A j \in Int : At(x, c[x], j) = x \/ \E i \in DOMAIN c[x] : At(x, c[x], j) = c[x][i]
    BY SoundCells
  <2>1. d # At(x, c[x], k - 1) /\ d # At(x, c[x], k)
    BY <1>1, <1>6, <2>0
  <2> QED  BY <1>6, <2>1 DEF LinkedIn
<1> HIDE DEF seq
<1>7. o \in SUBSET (o \cup {n})
  OBVIOUS
<1>8. Sound(r, [c EXCEPT ![x] = seq], o)
  BY <1>2, <1>3, <1>4, <1>5, <1>6, <1>7, OneList
<1> QED  BY <1>8 DEF seq

\* list_del; the node is then loose.
LEMMA SoundDelete ==
  ASSUME NEW m, NEW c, NEW o, Sound(m, c, o), NEW x \in Heads, NEW k \in 1..Len(c[x])
  PROVE  LET n == c[x][k]
             new == [c EXCEPT ![x] = Removal(c[x], k)]
         IN  Sound(list_del(m, n), new, o) /\ Loose(new, o, n)
<1> DEFINE n == c[x][k]
           seq == Removal(c[x], k)
           new == [c EXCEPT ![x] = seq]
           r == list_del(m, n)
<1>1. /\ c[x] \in Seq(Nodes) /\ Len(c[x]) \in Nat /\ DOMAIN c[x] = 1..Len(c[x])
      /\ Fits(x, c[x]) /\ list_check_node(m, x, c[x])
      /\ k - 1 \in Int /\ k \in Int /\ k + 1 \in Int
  BY SoundCells
<1>2. n \in Nodes /\ n \in Cells /\ n # x /\ m \in Links /\ Distinct(c, o)
  BY <1>1, ListsAssumption DEF Cells, Sound
<1>3. \A y \in Heads : \A i \in DOMAIN c[y] : c[y][i] = n => y = x /\ i = k
  BY <1>1, <1>2 DEF Distinct
<1>4. n \notin o
  BY <1>1, <1>2 DEF Distinct
<1>5. seq \in Seq(Nodes) /\ DOMAIN seq = 1..(Len(c[x]) - 1)
      /\ \A i \in DOMAIN seq : seq[i] # n /\ \E j \in DOMAIN c[x] : seq[i] = c[x][j]
  <2>1. seq \in Seq(Nodes)
    BY <1>1, Removals
  <2>2. DOMAIN seq = 1..(Len(c[x]) - 1)
    BY DEF Removal
  <2>3. ASSUME NEW i \in DOMAIN seq
        PROVE  seq[i] # n /\ \E j \in DOMAIN c[x] : seq[i] = c[x][j]
    <3>1. seq[i] = IF i < k THEN c[x][i] ELSE c[x][i + 1]
      BY <2>2 DEF Removal
    <3>2. i \in DOMAIN c[x] /\ i + 1 \in DOMAIN c[x] /\ i \in Int
      BY <1>1, <2>2
    <3> HIDE DEF seq, n
    <3> QED  BY <1>1, <1>3, <3>1, <3>2
  <2> QED  BY <2>1, <2>2, <2>3
<1>6. LinkedPast(m, r, At(x, c[x], k - 1), At(x, c[x], k + 1))
  <2>1. /\ n = At(x, c[x], k)
        /\ m.next[n] = At(x, c[x], k + 1) /\ m.prev[n] = At(x, c[x], k - 1)
        /\ m.next[n] \in Cells /\ m.prev[n] \in Cells
    <3>1. n = At(x, c[x], k)
      BY SoundCells
    <3>2. k \in 0..Len(c[x]) /\ k - 1 \in 0..Len(c[x]) /\ (k - 1) + 1 = k
      BY <1>1
    <3>3. m.next[At(x, c[x], k)] = At(x, c[x], k + 1)
      BY <3>2, SoundCells
    <3>4. m.prev[At(x, c[x], (k - 1) + 1)] = At(x, c[x], k - 1)
      BY <3>2, SoundCells
    <3>5. At(x, c[x], k + 1) \in Cells /\ At(x, c[x], k - 1) \in Cells
      BY <1>1, SoundCells
    <3> QED  BY <3>1, <3>2, <3>3, <3>4, <3>5
  <2> HIDE DEF n
  <2>2. LinkedPast(m, list_del(m, n), m.prev[n], m.next[n])
    BY <1>2, <2>1, LinksOfDelete
  <2> QED  BY <2>1, <2>2
<1>7. list_check_node(r, x, seq) /\ Fits(x, seq)
  BY <1>1, <1>2, <1>6, RingRemoval
<1>8. ASSUME NEW d \in Cells, d # x, d # n, \A i \in DOMAIN c[x] : c[x][i] # d
      PROVE  r.next[d] = m.next[d] /\ r.prev[d] = m.prev[d]
  <2>0. \A j \in Int : At(x, c[x], j) = x \/ \E i \in DOMAIN c[x] : At(x, c[x], j) = c[x][i]
    BY SoundCells
  <2>1. d # At(x, c[x], k - 1) /\ d # At(x, c[x], k + 1)
    BY <1>1, <1>8, <2>0
  <2> QED  BY <1>6, <1>8, <2>1 DEF LinkedPast
<1>9. r \in Links /\ o \in SUBSET (o \cup {n})
  BY <1>6 DEF LinkedPast
<1> HIDE DEF seq, n, r
<1>10. Sound(r, new, o)
  <2>1. \A y \in Heads : \A i \in DOMAIN c[y] : c[y][i] = n => y = x
    BY <1>3
  <2>2. \A i \in DOMAIN seq : seq[i] = n \/ \E j \in DOMAIN c[x] : seq[i] = c[x][j]
    BY <1>5
  <2>3. n \in Nodes /\ seq \in Seq(Nodes)
    BY <1>2, <1>5
  <2> QED  BY <1>4, <1>7, <1>8, <1>9, <2>1, <2>2, <2>3, OneList
<1>11. Loose(new, o, n)
  <2>1. \A y \in Heads : new[y] = IF y = x THEN seq ELSE c[y]
    BY <1>2 DEF Distinct
  <2> QED  BY <1>2, <1>3, <1>4, <1>5, <2>1 DEF Loose
<1> QED  BY <1>10, <1>11 DEF seq, n, r

\* list_node_init of a loose node, and of a head that has no items.
LEMMA SoundInit ==
  ASSUME NEW m, NEW c, NEW o, Sound(m, c, o), NEW n, Loose(c, o, n)
  PROVE  Sound(list_node_init(m, n), c, o \cup {n})
<1> DEFINE r == list_node_init(m, n)
<1>1. n \in Nodes /\ n \in Cells /\ m \in Links /\ Distinct(c, o) /\ Heads \cap Nodes = {}
  BY ListsAssumption DEF Loose, Cells, Sound
<1>2. /\ r \in Links /\ r.next[n] = n /\ r.prev[n] = n
      /\ \A d \in Cells : d # n => r.next[d] = m.next[d] /\ r.prev[d] = m.prev[d]
  BY <1>1, LinksOfInit
<1> HIDE DEF r
<1>3. Distinct(c, o \cup {n})
  BY <1>1 DEF Distinct, Loose
<1>4. ASSUME NEW y \in Heads PROVE list_check_node(r, y, c[y])
  <2>1. \A i \in DOMAIN c[y] : c[y][i] \in Cells /\ c[y][i] # n
    BY <1>1, DistinctFits DEF Loose, Cells
  <2>2. y \in Cells /\ y # n
    BY <1>1 DEF Cells
  <2>3. c[y] \in Seq(Nodes) /\ list_check_node(m, y, c[y])
    BY SoundCells
  <2> QED  BY <1>2, <2>1, <2>2, <2>3, ListFrame
<1>5. ASSUME NEW p \in o \cup {n} PROVE list_check_node(r, p, <<>>)
  <2>1. CASE p = n
    BY <1>2, <2>1 DEF list_check_node, list_for_each, list_for_each_rev, At
  <2>2. CASE p # n
    <3>1. p \in o /\ p \in Cells /\ list_check_node(m, p, <<>>)
      BY <1>1, <2>2 DEF Sound, Distinct, Cells
    <3>2. <<>> \in Seq(Nodes) /\ DOMAIN <<>> = {}
      OBVIOUS
    <3> QED  BY <1>2, <2>2, <3>1, <3>2, ListFrame
  <2> QED  BY <2>1, <2>2
<1> QED  BY <1>2, <1>3, <1>4, <1>5 DEF Sound, r

\* list_del of a node that is a list of its own.
LEMMA SoundDeleteAgain ==
  ASSUME NEW m, NEW c, NEW o, Sound(m, c, o), NEW n \in o
  PROVE  Sound(list_del(m, n), c, o \ {n})
<1> DEFINE r == list_del(m, n)
<1>1. n \in Cells /\ m \in Links /\ Distinct(c, o)
  BY DEF Sound, Distinct, Cells
<1>2. m.next[n] = n /\ m.prev[n] = n
  BY DEF Sound, list_check_node, list_for_each, list_for_each_rev, At
<1>3. LinkedPast(m, r, n, n)
  BY <1>1, <1>2, LinksOfDelete
<1>4. r \in Links /\ \A d \in Cells : r.next[d] = m.next[d] /\ r.prev[d] = m.prev[d]
  BY <1>2, <1>3 DEF LinkedPast
<1> HIDE DEF r
<1>5. Distinct(c, o \ {n})
  BY <1>1 DEF Distinct
<1>6. ASSUME NEW y \in Heads PROVE list_check_node(r, y, c[y])
  <2>1. \A i \in DOMAIN c[y] : c[y][i] \in Cells
    BY <1>1, DistinctFits DEF Cells
  <2>2. y \in Cells /\ c[y] \in Seq(Nodes) /\ list_check_node(m, y, c[y])
    BY SoundCells DEF Cells
  <2> QED  BY <1>4, <2>1, <2>2, ListFrame
<1>7. ASSUME NEW p \in o \ {n} PROVE list_check_node(r, p, <<>>)
  <2>1. p \in Cells /\ list_check_node(m, p, <<>>)
    BY <1>1 DEF Sound, Distinct, Cells
  <2>2. <<>> \in Seq(Nodes) /\ DOMAIN <<>> = {}
    OBVIOUS
  <2> QED  BY <1>4, <2>1, <2>2, ListFrame
<1> QED  BY <1>4, <1>5, <1>6, <1>7 DEF Sound, r

\* list_swap.
LEMMA SoundSwap ==
  ASSUME NEW m, NEW c, NEW o, Sound(m, c, o), NEW x \in Heads, NEW k \in 1..Len(c[x]),
         NEW n, Loose(c, o, n)
  PROVE  Sound(list_swap(m, c[x][k], n), [c EXCEPT ![x] = ReplaceAt(c[x], k, n)], o)
<1> DEFINE seq == ReplaceAt(c[x], k, n)
           r == list_swap(m, c[x][k], n)
<1>1. /\ c[x] \in Seq(Nodes) /\ Len(c[x]) \in Nat /\ DOMAIN c[x] = 1..Len(c[x])
      /\ Fits(x, c[x]) /\ list_check_node(m, x, c[x])
      /\ k - 1 \in Int /\ k \in Int /\ k + 1 \in Int
  BY SoundCells
<1>2. n \in Nodes /\ n \in Cells /\ n # x /\ n \notin o /\ m \in Links
  BY ListsAssumption DEF Loose, Cells, Sound
<1>3. \A y \in Heads : \A i \in DOMAIN c[y] : c[y][i] # n
  BY DEF Loose
<1>4. seq \in Seq(Nodes) /\ DOMAIN seq = 1..Len(c[x])
      /\ \A i \in DOMAIN seq : seq[i] = n \/ \E j \in DOMAIN c[x] : seq[i] = c[x][j]
  <2>1. /\ seq \in Seq(Nodes) /\ Len(seq) = Len(c[x])
        /\ \A j \in 1..Len(c[x]) : seq[j] = IF j = k THEN n ELSE c[x][j]
    BY <1>1, <1>2, ExceptSeq, SMTT(30) DEF ReplaceAt
  <2> HIDE DEF seq
  <2>2. DOMAIN seq = 1..Len(c[x])
    BY <2>1
  <2> QED  BY ONLY <1>1, <2>1, <2>2
<1>5. LinkedIn(m, r, At(x, c[x], k - 1), n, At(x, c[x], k + 1))
  <2> DEFINE p == c[x][k]
  <2>1. /\ m.next[p] = At(x, c[x], k + 1) /\ m.prev[p] = At(x, c[x], k - 1)
        /\ m.next[p] \in Cells /\ m.prev[p] \in Cells /\ p \in Cells
        /\ n # m.next[p] /\ n # m.prev[p]
    <3>1. p = At(x, c[x], k)
      BY SoundCells
    <3>2. k \in 0..Len(c[x]) /\ k - 1 \in 0..Len(c[x]) /\ (k - 1) + 1 = k
      BY <1>1
    <3>3. m.next[At(x, c[x], k)] = At(x, c[x], k + 1)
      BY <3>2, SoundCells
    <3>4. m.prev[At(x, c[x], (k - 1) + 1)] = At(x, c[x], k - 1)
      BY <3>2, SoundCells
    <3>5. At(x, c[x], k + 1) \in Cells /\ At(x, c[x], k - 1) \in Cells /\ p \in Cells
      BY <1>1, <3>1, SoundCells
    <3>6. At(x, c[x], k + 1) # n /\ At(x, c[x], k - 1) # n
      BY <1>1, <1>2, <1>3, SoundCells
    <3> QED  BY <3>1, <3>2, <3>3, <3>4, <3>5, <3>6
  <2> HIDE DEF p
  <2>2. LinkedIn(m, list_swap(m, p, n), m.prev[p], n, m.next[p])
    BY <1>2, <2>1, LinksOfSwap
  <2> QED  BY <2>1, <2>2 DEF p
<1>6. list_check_node(r, x, seq) /\ Fits(x, seq)
  BY <1>1, <1>2, <1>3, <1>5, RingReplacement
<1>7. ASSUME NEW d \in Cells, d # x, d # n, \A i \in DOMAIN c[x] : c[x][i] # d
      PROVE  r.next[d] = m.next[d] /\ r.prev[d] = m.prev[d]
  <2>0. \A j \in Int : At(x, c[x], j) = x \/ \E i \in DOMAIN c[x] : At(x, c[x], j) = c[x][i]
    BY SoundCells
  <2>1. d # At(x, c[x], k - 1) /\ d # At(x, c[x], k + 1)
    BY ONLY <1>1, <1>7, <2>0
  <2> HIDE DEF r
  <2> QED  BY ONLY <1>5, <1>7, <2>1 DEF LinkedIn
<1>8. r \in Links /\ o \in SUBSET (o \cup {n})
  BY <1>5 DEF LinkedIn
<1> HIDE DEF seq, r
<1>9. Sound(r, [c EXCEPT ![x] = seq], o)
  BY <1>2, <1>3, <1>4, <1>6, <1>7, <1>8, OneList, SMTT(30)
<1> QED  BY <1>9 DEF seq, r

\* The items of from go after those of to, or before them.
LEMMA SpliceRemoval ==
  ASSUME NEW A \in Seq(Nodes), NEW B \in Seq(Nodes), NEW from
  PROVE  /\ Removal(Splice(A, Len(A) + 1, from, B), Len(A) + 1) = A \o B
         /\ Removal(Splice(A, 1, from, B), 1) = B \o A
<1> DEFINE a == Len(A)
           b == Len(B)
<1>1. a \in Nat /\ b \in Nat
  OBVIOUS
<1>2. ASSUME NEW k \in 1..(a + 1)
      PROVE  LET r == Removal(Splice(A, k, from, B), k)
             IN  r = [i \in 1..(a + b) |-> IF i < k THEN A[i]
                                           ELSE IF i < k + b THEN B[i + 1 - k] ELSE A[i - b]]
  <2> DEFINE s == Splice(A, k, from, B)
  <2>1. /\ Len(s) - 1 = a + b
        /\ \A i \in 1..(a + 1 + b) :
             s[i] = IF i < k THEN A[i] ELSE IF i = k THEN from
                    ELSE IF i <= k + b THEN B[i - k] ELSE A[i - b - 1]
    <3>1. Len(s) = a + 1 + b
      <4>1. DOMAIN s = 1..(a + 1 + b)
        BY DEF Splice
      <4>2. a + 1 + b \in Nat
        BY <1>1
      <4> HIDE DEF s, a, b
      <4> QED  BY <4>1, <4>2
    <3> QED  BY <1>1, <3>1 DEF Splice
  <2> HIDE DEF s
  <2>2. ASSUME NEW i \in 1..(a + b)
        PROVE  (IF i < k THEN s[i] ELSE s[i + 1])
                 = IF i < k THEN A[i] ELSE IF i < k + b THEN B[i + 1 - k] ELSE A[i - b]
    <3>1. i \in 1..(a + 1 + b) /\ i + 1 \in 1..(a + 1 + b) /\ (i + 1) - b - 1 = i - b
      BY <1>1
    <3> QED  BY <1>1, <2>1, <3>1
  <2> HIDE DEF a, b
  <2> QED  BY <2>1, <2>2 DEF Removal, s
<1>3. Removal(Splice(A, a + 1, from, B), a + 1) = A \o B
  <2>1. a + 1 \in 1..(a + 1)
    BY <1>1
  <2>2. \A i \in 1..(a + b) :
          (IF i < a + 1 THEN A[i] ELSE IF i < a + 1 + b THEN B[i + 1 - (a + 1)] ELSE A[i - b])
            = IF i <= a THEN A[i] ELSE B[i - a]
    BY <1>1
  <2>3. A \o B = [i \in 1..(a + b) |-> IF i <= a THEN A[i] ELSE B[i - a]]
    <3> DEFINE both == A \o B
    <3>1. /\ both \in Seq(Nodes) /\ Len(both) = a + b
          /\ \A i \in 1..(a + b) : both[i] = IF i <= a THEN A[i] ELSE B[i - a]
      BY ConcatProperties
    <3> HIDE DEF both, a, b
    <3>2. both = [i \in 1..(a + b) |-> both[i]]
      BY <3>1
    <3> QED  BY <3>1, <3>2 DEF both
  <2> HIDE DEF a, b
  <2> QED  BY <1>2, <2>1, <2>2, <2>3
<1>4. Removal(Splice(A, 1, from, B), 1) = B \o A
  <2>1. 1 \in 1..(a + 1)
    BY <1>1
  <2>2. \A i \in 1..(a + b) :
          (IF i < 1 THEN A[i] ELSE IF i < 1 + b THEN B[i + 1 - 1] ELSE A[i - b])
            = IF i <= b THEN B[i] ELSE A[i - b]
    BY <1>1
  <2>3. B \o A = [i \in 1..(b + a) |-> IF i <= b THEN B[i] ELSE A[i - b]]
    <3> DEFINE both == B \o A
    <3>1. /\ both \in Seq(Nodes) /\ Len(both) = b + a
          /\ \A i \in 1..(b + a) : both[i] = IF i <= b THEN B[i] ELSE A[i - b]
      BY ConcatProperties
    <3> HIDE DEF both, a, b
    <3>2. both = [i \in 1..(b + a) |-> both[i]]
      BY <3>1
    <3> QED  BY <3>1, <3>2 DEF both
  <2>4. b + a = a + b
    BY <1>1
  <2> HIDE DEF a, b
  <2> QED  BY <1>2, <2>1, <2>2, <2>3, <2>4
<1> QED  BY <1>3, <1>4

\* list_append_list, list_prepend_list.
LEMMA SoundJoin ==
  ASSUME NEW m, NEW c, NEW o, Sound(m, c, o), NEW to \in Heads, NEW from \in Heads,
         to # from, NEW k \in 1..(Len(c[to]) + 1), NEW j,
         JoinedIn(m, j, At(to, c[to], k - 1), At(to, c[to], k), from,
                  At(from, c[from], Len(c[from])))
  PROVE  Sound(list_node_init(list_del(j, from), from),
               [c EXCEPT ![to] = Removal(Splice(c[to], k, from, c[from]), k), ![from] = <<>>],
               o)
<1> DEFINE A == c[to]
           B == c[from]
           S == Splice(A, k, from, B)
           R == Removal(S, k)
           new == [c EXCEPT ![to] = R, ![from] = <<>>]
           d == list_del(j, from)
           r == list_node_init(d, from)
           Both(e) == \/ e \in {to, from}
                      \/ \E i \in DOMAIN A : A[i] = e
                      \/ \E i \in DOMAIN B : B[i] = e
<1>1. /\ A \in Seq(Nodes) /\ DOMAIN A = 1..Len(A) /\ Len(A) \in Nat
      /\ Fits(to, A) /\ list_check_node(m, to, A)
      /\ B \in Seq(Nodes) /\ DOMAIN B = 1..Len(B) /\ Len(B) \in Nat
      /\ Fits(from, B) /\ list_check_node(m, from, B)
      /\ k \in 1..(Len(A) + 1) /\ k \in Int
  BY SoundCells
<1>2. /\ to \in Cells /\ from \in Cells /\ Heads \cap Nodes = {} /\ Distinct(c, o)
      /\ j \in Links
  BY ListsAssumption DEF Cells, Sound, JoinedIn
<1>3. Separate(to, A, from, B)
  <2>1. \A i \in DOMAIN A, l \in DOMAIN B : A[i] # B[l]
    BY <1>2 DEF Distinct
  <2> QED  BY <1>1, <1>2, <2>1 DEF Separate
<1>4. list_check_node(j, to, S) /\ Fits(to, S)
  BY <1>1, <1>3, RingJoin
<1>5. Len(S) = Len(A) + 1 + Len(B) /\ At(to, S, k) = from /\ k \in 1..Len(S)
  <2>1. /\ Len(S) = Len(A) + 1 + Len(B)
        /\ \A l \in 0..Len(B) : At(to, S, k + l) = At(from, B, l)
    <3> HIDE DEF A, B, S
    <3> QED  BY <1>1, <1>3, Splices DEF S
  <2> HIDE DEF A, B, S
  <2>2. At(to, S, k + 0) = At(from, B, 0) /\ At(from, B, 0) = from /\ k + 0 = k
    BY <1>1, <2>1 DEF At
  <2>3. k \in 1..Len(S)
    BY <1>1, <2>1
  <2> QED  BY <2>1, <2>2, <2>3
<1>6. /\ j.next[from] = At(to, S, k + 1) /\ j.prev[from] = At(to, S, k - 1)
      /\ At(to, S, k + 1) \in Cells /\ At(to, S, k - 1) \in Cells
  <2> HIDE DEF A, B, S
  <2>1. /\ k \in 0..Len(S) /\ k - 1 \in 0..Len(S) /\ (k - 1) + 1 = k
        /\ k + 1 \in Int /\ k - 1 \in Int
    BY <1>1, <1>5
  <2>2. At(to, S, k + 1) \in Cells /\ At(to, S, k - 1) \in Cells
    BY <1>4, <2>1, Round
  <2>3. j.next[At(to, S, k)] = At(to, S, k + 1)
    BY <1>4, <2>1 DEF list_check_node, list_for_each
  <2>4. j.prev[At(to, S, (k - 1) + 1)] = At(to, S, k - 1)
    BY <1>4, <2>1 DEF list_check_node, list_for_each_rev
  <2> QED  BY <1>5, <2>1, <2>2, <2>3, <2>4
<1>7. LinkedPast(j, d, At(to, S, k - 1), At(to, S, k + 1))
  <2>1. LinkedPast(j, d, j.prev[from], j.next[from])
    BY <1>2, <1>6, LinksOfDelete
  <2> QED  BY <1>6, <2>1
<1>8. list_check_node(d, to, R) /\ Fits(to, R)
  BY <1>2, <1>4, <1>5, <1>7, RingRemoval
<1>9. d \in Links /\ r \in Links /\ r.next[from] = from /\ r.prev[from] = from
      /\ \A e \in Cells : e # from => r.next[e] = d.next[e] /\ r.prev[e] = d.prev[e]
  <2>1. d \in Links
    BY <1>7 DEF LinkedPast
  <2> QED  BY <1>2, <2>1, LinksOfInit
<1>10. \A l \in Int : Both(At(to, A, l)) /\ Both(At(from, B, l))
  BY DEF At
<1>11. ASSUME NEW e \in Cells, ~Both(e)
       PROVE  r.next[e] = m.next[e] /\ r.prev[e] = m.prev[e]
  <2>1. /\ Both(At(to, A, k - 1)) /\ Both(At(to, A, k)) /\ Both(At(from, B, Len(B)))
        /\ Both(At(from, B, 1)) /\ Both(from)
    <3>1. k - 1 \in Int /\ k \in Int /\ Len(B) \in Int /\ 1 \in Int /\ 0 \in Int
      BY <1>1
    <3>2. Both(from)
      OBVIOUS
    <3> HIDE DEF Both, A, B
    <3> QED  BY <1>10, <3>1, <3>2
  <2>2. Both(j.next[from]) /\ Both(j.prev[from])
    <3>1. m.next[from] = At(from, B, 1)
      <4>1. At(from, B, 0) = from /\ 0 \in 0..Len(B) /\ 0 + 1 = 1
        BY <1>1 DEF At
      <4>2. m.next[At(from, B, 0)] = At(from, B, 0 + 1)
        BY <1>1, <4>1 DEF list_check_node, list_for_each
      <4> QED  BY <4>1, <4>2
    <3>2. At(to, A, k - 1) # from /\ At(to, A, k) # from
      BY <1>3 DEF At, Separate
    <3> HIDE DEF Both, A, B
    <3> QED  BY <1>2, <2>1, <3>1, <3>2 DEF JoinedIn, A, B
  <2> HIDE DEF Both, A, B, d, r
  <2>3. j.next[e] = m.next[e] /\ j.prev[e] = m.prev[e]
    <3>1. e # At(to, A, k - 1) /\ e # At(to, A, k) /\ e # At(from, B, Len(B)) /\ e # from
      BY <1>11, <2>1
    <3> QED  BY <3>1 DEF JoinedIn, A, B
  <2>4. d.next[e] = j.next[e] /\ d.prev[e] = j.prev[e]
    BY <1>6, <1>7, <1>11, <2>2 DEF LinkedPast
  <2> QED  BY <1>9, <1>11, <2>1, <2>3, <2>4
<1>12. \A i \in DOMAIN R : (\E l \in DOMAIN A : R[i] = A[l]) \/ (\E l \in DOMAIN B : R[i] = B[l])
  <2> TAKE i \in DOMAIN R
  <2>1. i \in 1..(Len(A) + Len(B)) /\ R[i] = IF i < k THEN S[i] ELSE S[i + 1]
    <3> HIDE DEF A, B, S
    <3>1. Len(S) - 1 = Len(A) + Len(B)
      BY <1>1, <1>5
    <3> QED  BY <3>1 DEF Removal
  <2>2. \A l \in 1..(Len(A) + 1 + Len(B)) :
          S[l] = IF l < k THEN A[l] ELSE IF l = k THEN from
                 ELSE IF l <= k + Len(B) THEN B[l - k] ELSE A[l - Len(B) - 1]
    BY DEF Splice
  <2> HIDE DEF R, S, A, B
  <2>3. CASE i < k
    <3>1. i \in 1..Len(A) /\ i \in 1..(Len(A) + 1 + Len(B))
      BY <1>1, <2>1, <2>3 DEF A
    <3> QED  BY <1>1, <2>1, <2>2, <2>3, <3>1, SMTT(30)
  <2>4. CASE i >= k /\ i + 1 <= k + Len(B)
    <3>1. /\ i + 1 - k \in 1..Len(B) /\ i + 1 \in 1..(Len(A) + 1 + Len(B)) /\ i + 1 > k
          /\ ~(i < k)
      BY <1>1, <2>1, <2>4, SMTT(30)
    <3> QED  BY <1>1, <2>1, <2>2, <2>4, <3>1, SMTT(30)
  <2>5. CASE i >= k /\ i + 1 > k + Len(B)
    <3>1. /\ (i + 1) - Len(B) - 1 \in 1..Len(A) /\ i + 1 \in 1..(Len(A) + 1 + Len(B))
          /\ i + 1 > k /\ ~(i < k)
      BY <1>1, <2>1, <2>5, SMTT(30)
    <3> QED  BY <1>1, <2>1, <2>2, <2>5, <3>1, SMTT(30)
  <2> QED  BY <1>1, <2>1, <2>3, <2>4, <2>5
<1>13. R \in Seq(Nodes)
  <2>1. R \in Seq(Cells)
    BY <1>8 DEF Fits
  <2>2. \A i \in DOMAIN R : R[i] \in Nodes
    BY <1>1, <1>12
  <2> HIDE DEF R
  <2>3. Len(R) \in Nat /\ DOMAIN R = 1..Len(R) /\ R = [i \in 1..Len(R) |-> R[i]]
    BY <2>1
  <2> QED  BY <2>2, <2>3
<1>14. new \in [Heads -> Seq(Nodes)]
       /\ \A y \in Heads : new[y] = IF y = from THEN <<>> ELSE IF y = to THEN R ELSE c[y]
  <2>1. c \in [Heads -> Seq(Nodes)] /\ <<>> \in Seq(Nodes)
    BY <1>2 DEF Distinct
  <2> HIDE DEF R
  <2> QED  BY <1>13, <2>1
<1> HIDE DEF new
<1>15. Distinct(new, o)
  <2>1. ASSUME NEW y \in Heads, NEW i \in DOMAIN new[y]
        PROVE  /\ y # from
               /\ y # to => new[y][i] = c[y][i] /\ i \in DOMAIN c[y]
               /\ y = to => new[y][i] = R[i] /\ i \in DOMAIN R
    BY <1>14
  <2>2. ASSUME NEW y \in Heads, NEW i \in DOMAIN c[y], y # to, y # from, NEW l \in DOMAIN R
        PROVE  c[y][i] # R[l]
    <3>1. \A q \in DOMAIN A : c[y][i] # A[q]
      BY <1>2, <2>2 DEF Distinct
    <3>2. \A q \in DOMAIN B : c[y][i] # B[q]
      BY <1>2, <2>2 DEF Distinct
    <3> HIDE DEF A, B, R
    <3> QED  BY <1>12, <3>1, <3>2
  <2>3. ASSUME NEW y \in Heads, NEW z \in Heads, NEW i \in DOMAIN new[y],
               NEW l \in DOMAIN new[z], new[y][i] = new[z][l]
        PROVE  y = z /\ i = l
    <3> HIDE DEF R
    <3>1. CASE y = to /\ z = to
      BY <1>8, <2>1, <2>3, <3>1 DEF Fits
    <3>2. CASE y = to /\ z # to
      BY <2>1, <2>2, <2>3, <3>2
    <3>3. CASE y # to /\ z = to
      BY <2>1, <2>2, <2>3, <3>3
    <3>4. CASE y # to /\ z # to
      BY <1>2, <2>1, <2>3, <3>4 DEF Distinct
    <3> QED  BY <3>1, <3>2, <3>3, <3>4
  <2>4. ASSUME NEW y \in Heads, NEW i \in DOMAIN new[y] PROVE new[y][i] \notin o
    <3>1. (\A q \in DOMAIN A : A[q] \notin o) /\ \A q \in DOMAIN B : B[q] \notin o
      BY <1>2 DEF Distinct
    <3> HIDE DEF A, B, R
    <3>2. CASE y = to
      BY <1>12, <2>1, <3>1, <3>2
    <3>3. CASE y # to
      BY <1>2, <2>1, <3>3 DEF Distinct
    <3> QED  BY <3>2, <3>3
  <2>5. o \subseteq Nodes
    BY <1>2 DEF Distinct
  <2> QED  BY <1>14, <2>3, <2>4, <2>5 DEF Distinct
<1>16. ASSUME NEW y \in Heads PROVE list_check_node(r, y, new[y])
  <2>1. CASE y = from
    <3>1. new[y] = <<>>
      BY <1>14, <2>1
    <3> QED  BY <1>9, <2>1, <3>1 DEF list_check_node, list_for_each, list_for_each_rev, At
  <2>2. CASE y = to
    <3>1. new[y] = R
      BY <1>14, <2>2
    <3>2. \A i \in DOMAIN R : R[i] \in Nodes /\ R[i] \in Cells /\ R[i] # from
      <4>1. \A i \in DOMAIN R : R[i] \in Nodes
        BY <1>1, <1>12
      <4> QED  BY <1>2, <4>1 DEF Cells
    <3> HIDE DEF R, r, d
    <3>3. \A i \in DOMAIN R : r.next[R[i]] = d.next[R[i]] /\ r.prev[R[i]] = d.prev[R[i]]
      BY <1>9, <3>2
    <3>4. r.next[to] = d.next[to] /\ r.prev[to] = d.prev[to]
      BY <1>2, <1>9
    <3>5. list_check_node(r, to, R)
      BY ONLY <1>2, <1>8, <1>13, <3>3, <3>4, ListFrame
    <3> QED  BY <2>2, <3>1, <3>5
  <2>3. CASE y # from /\ y # to
    <3>1. new[y] = c[y] /\ c[y] \in Seq(Nodes) /\ list_check_node(m, y, c[y]) /\ y \in Cells
      BY <1>14, <2>3, SoundCells DEF Cells
    <3>2. \A i \in DOMAIN c[y] : c[y][i] \in Cells /\ ~Both(c[y][i])
      <4> TAKE i \in DOMAIN c[y]
      <4>1. c[y][i] \in Nodes
        BY <3>1
      <4>2. \A q \in DOMAIN A : A[q] # c[y][i]
        BY <1>2, <2>3 DEF Distinct
      <4>3. \A q \in DOMAIN B : B[q] # c[y][i]
        BY <1>2, <2>3 DEF Distinct
      <4> HIDE DEF A, B
      <4> QED  BY <1>2, <4>1, <4>2, <4>3 DEF Cells
    <3>3. ~Both(y)
      <4> HIDE DEF A, B
      <4> QED  BY <1>1, <1>2, <2>3
    <3> HIDE DEF Both, r
    <3>4. r.next[y] = m.next[y] /\ r.prev[y] = m.prev[y]
      BY <1>11, <3>1, <3>3
    <3>5. \A i \in DOMAIN c[y] : /\ r.next[c[y][i]] = m.next[c[y][i]]
                                 /\ r.prev[c[y][i]] = m.prev[c[y][i]]
      BY <1>11, <3>2
    <3>6. list_check_node(r, y, c[y])
      BY ONLY <3>1, <3>4, <3>5, ListFrame
    <3> QED  BY <3>1, <3>6
  <2> QED  BY <2>1, <2>2, <2>3
<1>17. ASSUME NEW p \in o PROVE list_check_node(r, p, <<>>)
  <2>1. p \in Cells /\ list_check_node(m, p, <<>>)
    BY <1>2 DEF Sound, Distinct, Cells
  <2>2. ~Both(p)
    BY <1>2 DEF Distinct
  <2>3. <<>> \in Seq(Nodes) /\ DOMAIN <<>> = {}
    OBVIOUS
  <2>4. r.next[p] = m.next[p] /\ r.prev[p] = m.prev[p]
    BY <1>11, <2>1, <2>2
  <2> HIDE DEF r
  <2> QED  BY ONLY <2>1, <2>3, <2>4, ListFrame
<1> QED  BY <1>9, <1>15, <1>16, <1>17 DEF Sound, new

\* What is scrubbed is on no list.
LEMMA SoundScrubbed ==
  ASSUME NEW m, NEW c, NEW o, Sound(m, c, o)
  PROVE  Sound(Scrubbed(m, c, o), c, o)
<1> DEFINE r == Scrubbed(m, c, o)
           live == Heads \cup o \cup UNION {ToSet(c[x]) : x \in Heads}
<1>1. Distinct(c, o) /\ m \in Links
  BY DEF Sound
<1>2. /\ r \in Links
      /\ \A d \in Cells : d \in live => r.next[d] = m.next[d] /\ r.prev[d] = m.prev[d]
  BY <1>1 DEF Scrubbed, Links
<1>3. ASSUME NEW y \in Heads PROVE list_check_node(r, y, c[y])
  <2>1. \A i \in DOMAIN c[y] : c[y][i] \in Cells /\ c[y][i] \in live
    BY <1>1, DistinctFits DEF Cells, ToSet
  <2>2. y \in Cells /\ y \in live /\ c[y] \in Seq(Nodes) /\ list_check_node(m, y, c[y])
    BY SoundCells DEF Cells
  <2> HIDE DEF r, live
  <2> QED  BY <1>2, <2>1, <2>2, ListFrame
<1>4. ASSUME NEW p \in o PROVE list_check_node(r, p, <<>>)
  <2>1. p \in Cells /\ p \in live /\ list_check_node(m, p, <<>>)
    BY <1>1 DEF Sound, Distinct, Cells
  <2>2. <<>> \in Seq(Nodes) /\ DOMAIN <<>> = {}
    OBVIOUS
  <2> HIDE DEF r, live
  <2> QED  BY <1>2, <2>1, <2>2, ListFrame
<1> QED  BY <1>1, <1>2, <1>3, <1>4 DEF Sound

-----------------------------------------------------------------------------
(***************************************************************************)
(* The operations on locked lists.                                         *)
(***************************************************************************)
LEMMA Positions ==
  ASSUME Distinct(contents, own), NEW x \in Heads, NEW i \in ToSet(contents[x])
  PROVE  /\ Position(x, i) \in 1..Len(contents[x])
         /\ contents[x][Position(x, i)] = i
         /\ \A k \in DOMAIN contents[x] : contents[x][k] = i => k = Position(x, i)
<1>1. \E k \in DOMAIN contents[x] : contents[x][k] = i
  BY DEF ToSet
<1>2. Position(x, i) \in DOMAIN contents[x] /\ contents[x][Position(x, i)] = i
  BY <1>1 DEF Position
<1>3. DOMAIN contents[x] = 1..Len(contents[x])
  BY DistinctFits
<1> QED  BY <1>2, <1>3 DEF Distinct

\* list_add_before and list_add_after any cell of a list.
LEMMA SoundAddBeside ==
  ASSUME NEW m, NEW c, NEW o, Sound(m, c, o), NEW x \in Heads, NEW n, Loose(c, o, n),
         NEW k \in 1..(Len(c[x]) + 1)
  PROVE  /\ Sound(list_add_before(m, At(x, c[x], k), n),
                  [c EXCEPT ![x] = Insertion(c[x], k, n)], o)
         /\ Sound(list_add_after(m, At(x, c[x], k - 1), n),
                  [c EXCEPT ![x] = Insertion(c[x], k, n)], o)
<1> DEFINE a == At(x, c[x], k - 1)
           b == At(x, c[x], k)
<1>1. Len(c[x]) \in Nat /\ m \in Links /\ n \in Cells
  BY SoundCells DEF Sound, Loose, Cells
<1>2. k - 1 \in 0..Len(c[x]) /\ (k - 1) + 1 = k /\ k - 1 \in Int /\ k \in Int
  BY <1>1
<1>3. m.next[a] = b /\ m.prev[b] = a
  BY <1>2, SoundCells
<1>4. a \in Cells /\ b \in Cells /\ a # n /\ b # n
  <2>1. /\ a \in Cells /\ b \in Cells
        /\ a = x \/ \E i \in DOMAIN c[x] : a = c[x][i]
        /\ b = x \/ \E i \in DOMAIN c[x] : b = c[x][i]
    BY <1>2, SoundCells
  <2>2. n # x /\ \A i \in DOMAIN c[x] : c[x][i] # n
    BY ListsAssumption DEF Loose
  <2> HIDE DEF a, b
  <2> QED  BY <2>1, <2>2
<1> HIDE DEF a, b
<1>5. /\ LinkedIn(m, list_add_after(m, a, n), a, n, b)
      /\ LinkedIn(m, list_add_before(m, b, n), a, n, b)
  BY <1>1, <1>3, <1>4, LinksOfAdd
<1> QED  BY <1>5, SoundAdd DEF a, b

\* An operation that leaves sound lists keeps the invariant.
LEMMA OperationStep ==
  ASSUME NEW m, NEW c, NEW o, Operation(m, c, o), Sound(m, c, o), Uses
  PROVE  ListsInv'
<1> USE DEF Operation, adder, walker
<1>1. Sound(mem', contents', own')
  BY SoundScrubbed
<1>2. use' = "locked" /\ walk_pc' = "idle"
  OBVIOUS
<1>3. Uses'
  BY <1>1, <1>2 DEF Uses, Sound
<1>4. Apart'
  BY <1>1 DEF Sound, Distinct, Apart
<1>5. LockedInv'
  BY <1>1, <1>2 DEF Sound, LockedInv, Holds, list_check
<1>6. SharedInv' /\ WalkInv'
  BY <1>2 DEF SharedInv, WalkInv
<1> QED  BY <1>3, <1>4, <1>5, <1>6 DEF ListsInv

LEMMA LockedSound ==
  ASSUME ListsInv, use = "locked"
  PROVE  Sound(mem, contents, own) /\ Uses
<1>1. mem \in Links
  BY DEF ListsInv, Uses
<1>2. Distinct(contents, own)
  BY DEF ListsInv, Apart, Distinct
<1>3. /\ \A x \in Heads : list_check_node(mem, x, contents[x])
      /\ \A n \in own : list_check_node(mem, n, <<>>)
  BY DEF ListsInv, LockedInv, Holds, list_check
<1> QED  BY <1>1, <1>2, <1>3 DEF Sound, ListsInv

LEMMA FreshIsLoose ==
  ASSUME Distinct(contents, own), NEW n \in Fresh
  PROVE  Loose(contents, own, n)
BY DEF Fresh, Listed, ToSet, Loose

LEMMA AddStep ==
  ASSUME ListsInv, AddEnds \/ AddBeside
  PROVE  ListsInv'
<1>1. use = "locked"
  BY DEF AddEnds, AddBeside, Operation
<1>2. Sound(mem, contents, own) /\ Uses
  BY <1>1, LockedSound
<1>3. Distinct(contents, own)
  BY <1>2 DEF Sound
<1>4. ASSUME NEW x \in Heads, NEW n \in Fresh
      PROVE  /\ Loose(contents, own, n) /\ n \in Nodes
             /\ contents[x] \in Seq(Nodes) /\ Len(contents[x]) \in Nat
             /\ At(x, contents[x], 0) = x /\ At(x, contents[x], Len(contents[x]) + 1) = x
  BY <1>2, <1>3, FreshIsLoose, SoundCells DEF Loose
<1>5. CASE AddEnds
  <2>1. PICK x \in Heads, n \in Fresh :
          \/ Operation(list_add(mem, x, n), With(x, <<n>> \o contents[x]), own)
          \/ Operation(list_add_tail(mem, x, n), With(x, Append(contents[x], n)), own)
    BY <1>5 DEF AddEnds
  <2> DEFINE L == contents[x]
  <2>2. /\ Loose(contents, own, n) /\ n \in Nodes /\ L \in Seq(Nodes) /\ Len(L) \in Nat
        /\ At(x, L, 0) = x /\ At(x, L, Len(L) + 1) = x
    BY <1>4
  <2>3. 1 \in 1..(Len(L) + 1) /\ Len(L) + 1 \in 1..(Len(L) + 1) /\ 1 - 1 = 0
    BY <2>2
  <2>4. <<n>> \o L = Insertion(L, 1, n) /\ Append(L, n) = Insertion(L, Len(L) + 1, n)
    BY <2>2, <2>3, Insertions
  <2>5. Sound(list_add_after(mem, x, n), With(x, <<n>> \o L), own)
    <3>1. Sound(list_add_after(mem, At(x, L, 1 - 1), n),
                [contents EXCEPT ![x] = Insertion(L, 1, n)], own)
      BY <1>2, <2>2, <2>3, SoundAddBeside
    <3> QED  BY <2>2, <2>3, <2>4, <3>1 DEF With
  <2>6. Sound(list_add_before(mem, x, n), With(x, Append(L, n)), own)
    <3>1. Sound(list_add_before(mem, At(x, L, Len(L) + 1), n),
                [contents EXCEPT ![x] = Insertion(L, Len(L) + 1, n)], own)
      BY <1>2, <2>2, <2>3, SoundAddBeside
    <3> QED  BY <2>2, <2>4, <3>1 DEF With
  <2> QED  BY <1>2, <2>1, <2>5, <2>6, OperationStep DEF list_add, list_add_tail
<1>6. CASE AddBeside
  <2>0. PICK x \in Heads, n \in Fresh : \E p \in ToSet(contents[x]) :
          \/ Operation(list_add_before(mem, p, n),
                       With(x, InsertAt(contents[x], Position(x, p), n)), own)
          \/ Operation(list_add_after(mem, p, n),
                       With(x, InsertAt(contents[x], Position(x, p) + 1, n)), own)
    BY <1>6 DEF AddBeside
  <2>1. PICK p \in ToSet(contents[x]) :
          \/ Operation(list_add_before(mem, p, n),
                       With(x, InsertAt(contents[x], Position(x, p), n)), own)
          \/ Operation(list_add_after(mem, p, n),
                       With(x, InsertAt(contents[x], Position(x, p) + 1, n)), own)
    BY <2>0
  <2> DEFINE L == contents[x]
             k == Position(x, p)
  <2>2. Loose(contents, own, n) /\ n \in Nodes /\ L \in Seq(Nodes) /\ Len(L) \in Nat
    BY <1>4
  <2>3. k \in 1..Len(L) /\ L[k] = p
    BY <1>3, Positions
  <2>4. At(x, L, k) = p
    BY <1>2, <2>3, SoundCells
  <2> HIDE DEF k
  <2>5. k \in 1..(Len(L) + 1) /\ k + 1 \in 1..(Len(L) + 1) /\ (k + 1) - 1 = k
    BY <2>2, <2>3
  <2>6. InsertAt(L, k, n) = Insertion(L, k, n) /\ InsertAt(L, k + 1, n) = Insertion(L, k + 1, n)
    BY ONLY <2>2, <2>5, Insertions, Zenon
  <2>7. Sound(list_add_before(mem, p, n), With(x, InsertAt(L, k, n)), own)
    <3>1. Sound(list_add_before(mem, At(x, L, k), n),
                [contents EXCEPT ![x] = Insertion(L, k, n)], own)
      BY <1>2, <2>2, <2>5, SoundAddBeside
    <3> QED  BY <2>4, <2>6, <3>1 DEF With
  <2>8. Sound(list_add_after(mem, p, n), With(x, InsertAt(L, k + 1, n)), own)
    <3>1. Sound(list_add_after(mem, At(x, L, (k + 1) - 1), n),
                [contents EXCEPT ![x] = Insertion(L, k + 1, n)], own)
      BY <1>2, <2>2, <2>5, SoundAddBeside
    <3> QED  BY <2>4, <2>5, <2>6, <3>1 DEF With
  <2> QED  BY <1>2, <2>1, <2>7, <2>8, OperationStep DEF k
<1> QED  BY <1>5, <1>6

LEMMA WithoutIsRemoval ==
  ASSUME Sound(mem, contents, own), NEW x \in Heads, NEW n \in ToSet(contents[x])
  PROVE  /\ Position(x, n) \in 1..Len(contents[x])
         /\ contents[x][Position(x, n)] = n
         /\ Without(x, n) = [contents EXCEPT ![x] = Removal(contents[x], Position(x, n))]
<1>1. Position(x, n) \in 1..Len(contents[x]) /\ contents[x][Position(x, n)] = n
  BY Positions DEF Sound
<1>2. contents[x] \in Seq(Nodes)
  BY SoundCells
<1>3. RemoveAt(contents[x], Position(x, n)) = Removal(contents[x], Position(x, n))
  BY <1>1, <1>2, Removals
<1> QED  BY <1>1, <1>3 DEF Without, With

LEMMA DeleteStep ==
  ASSUME ListsInv, Delete \/ DeleteAgain \/ Swap \/ \E x \in Heads : list_pop(x)
  PROVE  ListsInv'
<1>1. use = "locked"
  BY DEF Delete, DeleteAgain, Swap, list_pop, Operation
<1>2. Sound(mem, contents, own) /\ Uses
  BY <1>1, LockedSound
<1>3. CASE Delete
  <2>0. PICK x \in Heads : \E n \in ToSet(contents[x]) :
          \/ Operation(list_del_from(mem, x, n), Without(x, n), own)
          \/ Operation(list_del_init(mem, n), Without(x, n), own \cup {n})
    BY <1>3 DEF Delete
  <2>1. PICK n \in ToSet(contents[x]) :
          \/ Operation(list_del_from(mem, x, n), Without(x, n), own)
          \/ Operation(list_del_init(mem, n), Without(x, n), own \cup {n})
    BY <2>0
  <2>2. Sound(list_del(mem, n), Without(x, n), own) /\ Loose(Without(x, n), own, n)
    BY <1>2, WithoutIsRemoval, SoundDelete
  <2>3. Sound(list_del_init(mem, n), Without(x, n), own \cup {n})
    BY <2>2, SoundInit DEF list_del_init
  <2> QED  BY <1>2, <2>1, <2>2, <2>3, OperationStep DEF list_del_from
<1>4. CASE DeleteAgain
  BY <1>2, <1>4, SoundDeleteAgain, OperationStep DEF DeleteAgain
<1>5. CASE Swap
  <2>0. PICK x \in Heads, n \in Fresh : \E o \in ToSet(contents[x]) :
          Operation(list_swap(mem, o, n), With(x, ReplaceAt(contents[x], Position(x, o), n)),
                    own)
    BY <1>5 DEF Swap
  <2>1. PICK o \in ToSet(contents[x]) :
          Operation(list_swap(mem, o, n), With(x, ReplaceAt(contents[x], Position(x, o), n)),
                    own)
    BY <2>0
  <2>2. Position(x, o) \in 1..Len(contents[x]) /\ contents[x][Position(x, o)] = o
    BY <1>2, WithoutIsRemoval
  <2>3. Loose(contents, own, n)
    BY <1>2, FreshIsLoose DEF Sound
  <2>4. Sound(list_swap(mem, o, n), With(x, ReplaceAt(contents[x], Position(x, o), n)), own)
    BY <1>2, <2>2, <2>3, SoundSwap DEF With
  <2> QED  BY <1>2, <2>1, <2>4, OperationStep
<1>6. ASSUME NEW x \in Heads, list_pop(x) PROVE ListsInv'
  <2> DEFINE L == contents[x]
  <2>1. /\ L \in Seq(Nodes) /\ Len(L) \in Nat /\ At(x, L, 0) = x
        /\ At(x, L, Len(L) + 1) = x
        /\ \A k \in 1..Len(L) : At(x, L, k) = L[k]
        /\ \A k \in 0..Len(L) : mem.next[At(x, L, k)] = At(x, L, k + 1)
    BY <1>2, SoundCells
  <2>2. mem.next[x] # x
    BY <1>6 DEF list_pop, list_empty
  <2>3. 1 \in 1..Len(L) /\ list_top(mem, x) = L[1]
    <3>1. mem.next[x] = At(x, L, 1)
      BY <2>1
    <3>2. Len(L) # 0
      BY <2>1, <2>2, <3>1
    <3> QED  BY <2>1, <2>2, <3>1, <3>2 DEF list_top, list_empty
  <2>4. Tail(L) = Removal(L, 1)
    BY <2>1, <2>3, Removals
  <2>5. Sound(list_del(mem, L[1]), [contents EXCEPT ![x] = Removal(L, 1)], own)
    BY <1>2, <2>3, SoundDelete
  <2>6. Operation(list_del(mem, L[1]), [contents EXCEPT ![x] = Removal(L, 1)], own)
    BY <1>6, <2>3, <2>4 DEF list_pop, With
  <2> QED  BY <1>2, <2>5, <2>6, OperationStep
<1> QED  BY <1>3, <1>4, <1>5, <1>6

LEMMA JoinStep ==
  ASSUME ListsInv, Join
  PROVE  ListsInv'
<1>1. use = "locked"
  BY DEF Join, Operation
<1>2. Sound(mem, contents, own) /\ Uses
  BY <1>1, LockedSound
<1> DEFINE Joined(to, from, seq) == [contents EXCEPT ![to] = seq, ![from] = <<>>]
<1>3. PICK to \in Heads, from \in Heads :
        /\ to # from
        /\ \/ Operation(list_append_list(mem, to, from),
                        Joined(to, from, contents[to] \o contents[from]), own)
           \/ Operation(list_prepend_list(mem, to, from),
                        Joined(to, from, contents[from] \o contents[to]), own)
  BY DEF Join
<1> DEFINE A == contents[to]
           B == contents[from]
<1>4. /\ A \in Seq(Nodes) /\ Len(A) \in Nat /\ B \in Seq(Nodes) /\ Len(B) \in Nat
      /\ DOMAIN A = 1..Len(A) /\ DOMAIN B = 1..Len(B)
      /\ mem \in Links /\ to \in Cells /\ from \in Cells /\ Distinct(contents, own)
  BY <1>2, SoundCells DEF Sound, Cells
<1>5. /\ mem.prev[to] = At(to, A, Len(A)) /\ mem.next[to] = At(to, A, 1)
      /\ At(to, A, Len(A)) \in Cells /\ At(to, A, 1) \in Cells
      /\ At(to, A, 0) = to /\ At(to, A, Len(A) + 1) = to
      /\ \A k \in Int : At(to, A, k) = to \/ \E i \in DOMAIN A : At(to, A, k) = A[i]
  BY <1>2, SoundCells
<1>6. /\ mem.prev[from] = At(from, B, Len(B)) /\ At(from, B, Len(B)) \in Cells
      /\ \A k \in Int : At(from, B, k) = from \/ \E i \in DOMAIN B : At(from, B, k) = B[i]
  BY <1>2, SoundCells
<1>7. mem.prev[from] # mem.prev[to] /\ mem.prev[from] # to
  <2>1. (\A i \in DOMAIN A : A[i] \in Nodes) /\ (\A i \in DOMAIN B : B[i] \in Nodes)
    BY <1>4
  <2>2. \A i \in DOMAIN A, l \in DOMAIN B : A[i] # B[l]
    BY <1>3, <1>4 DEF Distinct
  <2>3. to \notin Nodes /\ from \notin Nodes
    BY ListsAssumption
  <2>4. At(from, B, Len(B)) = from \/ \E i \in DOMAIN B : At(from, B, Len(B)) = B[i]
    BY <1>4, <1>6
  <2>5. At(to, A, Len(A)) = to \/ \E i \in DOMAIN A : At(to, A, Len(A)) = A[i]
    BY <1>4, <1>5
  <2> HIDE DEF A, B
  <2> QED  BY <1>3, <1>5, <1>6, <2>1, <2>2, <2>3, <2>4, <2>5
<1> HIDE DEF A, B, Joined
<1>8. /\ JoinedIn(mem, Appended(mem, to, from), mem.prev[to], to, from, mem.prev[from])
      /\ JoinedIn(mem, Prepended(mem, to, from), to, mem.next[to], from, mem.prev[from])
      /\ list_append_list(mem, to, from)
           = list_node_init(list_del(Appended(mem, to, from), from), from)
      /\ list_prepend_list(mem, to, from)
           = list_node_init(list_del(Prepended(mem, to, from), from), from)
  BY <1>3, <1>4, <1>5, <1>6, <1>7, LinksOfJoin
<1>9. Sound(list_append_list(mem, to, from), Joined(to, from, A \o B), own)
  <2>1. Len(A) + 1 \in 1..(Len(A) + 1) /\ (Len(A) + 1) - 1 = Len(A)
    BY <1>4
  <2>2. JoinedIn(mem, Appended(mem, to, from), At(to, A, (Len(A) + 1) - 1),
                 At(to, A, Len(A) + 1), from, At(from, B, Len(B)))
    <3>1. /\ mem.prev[to] = At(to, A, (Len(A) + 1) - 1) /\ to = At(to, A, Len(A) + 1)
          /\ mem.prev[from] = At(from, B, Len(B))
      BY <1>5, <1>6, <2>1
    <3> QED  BY ONLY <1>8, <3>1
  <2>3. Sound(list_append_list(mem, to, from),
              Joined(to, from, Removal(Splice(A, Len(A) + 1, from, B), Len(A) + 1)), own)
    <3> DEFINE j == Appended(mem, to, from)
    <3> HIDE DEF j
    <3>1. JoinedIn(mem, j, At(to, contents[to], (Len(contents[to]) + 1) - 1),
                   At(to, contents[to], Len(contents[to]) + 1), from,
                   At(from, contents[from], Len(contents[from])))
      BY <2>2 DEF A, B, j
    <3>2. Len(contents[to]) + 1 \in 1..(Len(contents[to]) + 1)
      BY <2>1 DEF A
    <3>3. Sound(list_node_init(list_del(j, from), from),
                [contents EXCEPT
                   ![to] = Removal(Splice(contents[to], Len(contents[to]) + 1, from,
                                          contents[from]), Len(contents[to]) + 1),
                   ![from] = <<>>],
                own)
      BY ONLY <1>2, <1>3, <3>1, <3>2, SoundJoin
    <3> QED  BY <1>8, <3>3 DEF A, B, Joined, j
  <2> QED  BY <1>4, <2>3, SpliceRemoval
<1>10. Sound(list_prepend_list(mem, to, from), Joined(to, from, B \o A), own)
  <2>1. 1 \in 1..(Len(A) + 1) /\ 1 - 1 = 0
    BY <1>4
  <2>2. JoinedIn(mem, Prepended(mem, to, from), At(to, A, 1 - 1),
                 At(to, A, 1), from, At(from, B, Len(B)))
    <3>1. /\ to = At(to, A, 1 - 1) /\ mem.next[to] = At(to, A, 1)
          /\ mem.prev[from] = At(from, B, Len(B))
      BY <1>5, <1>6, <2>1
    <3> QED  BY ONLY <1>8, <3>1
  <2>3. Sound(list_prepend_list(mem, to, from),
              Joined(to, from, Removal(Splice(A, 1, from, B), 1)), own)
    <3> DEFINE j == Prepended(mem, to, from)
    <3> HIDE DEF j
    <3>1. JoinedIn(mem, j, At(to, contents[to], 1 - 1),
                   At(to, contents[to], 1), from,
                   At(from, contents[from], Len(contents[from])))
      BY <2>2 DEF A, B, j
    <3>2. 1 \in 1..(Len(contents[to]) + 1)
      BY <2>1 DEF A
    <3>3. Sound(list_node_init(list_del(j, from), from),
                [contents EXCEPT
                   ![to] = Removal(Splice(contents[to], 1, from,
                                          contents[from]), 1),
                   ![from] = <<>>],
                own)
      BY ONLY <1>2, <1>3, <3>1, <3>2, SoundJoin
    <3> QED  BY <1>8, <3>3 DEF A, B, Joined, j
  <2> QED  BY <1>4, <2>3, SpliceRemoval
<1> QED  BY <1>2, <1>3, <1>9, <1>10, OperationStep DEF A, B

LEMMA BeginPassStep ==
  ASSUME ListsInv, BeginPass
  PROVE  ListsInv'
<1> USE DEF BeginPass, adder
<1>1. Sound(mem, contents, own) /\ Uses /\ h \in Heads
  BY LockedSound, ListsAssumption
<1> DEFINE L == contents[h]
<1>2. /\ L \in Seq(Nodes) /\ Len(L) \in Nat
      /\ At(h, L, 0) = h
      /\ \A k \in 1..Len(L) : At(h, L, k) = L[k]
      /\ \A k \in 0..Len(L) : mem.next[At(h, L, k)] = At(h, L, k + 1)
  BY <1>1, SoundCells
<1>3. Passing'
  <2>1. item' = At(h, L, 1)
    <3>1. 0 \in 0..Len(L) /\ 0 + 1 = 1
      BY <1>2
    <3> QED  BY <1>2, <3>1
  <2>2. before' = L /\ seen' = <<>> /\ nxt' = mem'.next[item'] /\ contents'[h] = L
    OBVIOUS
  <2> HIDE DEF L, BeginPass
  <2>3. 1 \in 1..(Len(L) + 1) /\ Len(<<>>) = 0 /\ DOMAIN <<>> = {} /\ <<>> \in Seq(Nodes)
    BY <1>2
  <2>4. Len(L) = 0 + Len(L) + 1 - 1 /\ \A j \in 1..Len(L) : 0 + 1 + j - 1 = j
    BY <1>2
  <2>5. \E p \in 1..(Len(contents'[h]) + 1) :
          /\ item' = At(h, contents'[h], p)
          /\ Len(before') = Len(seen') + Len(contents'[h]) + 1 - p
          /\ \A j \in p..Len(contents'[h]) :
               contents'[h][j] = before'[Len(seen') + 1 + j - p]
    <3> WITNESS 1 \in 1..(Len(contents'[h]) + 1)
    <3> QED  BY <2>1, <2>2, <2>3, <2>4
  <2> QED  BY <1>2, <2>2, <2>3, <2>5 DEF Passing
<1>4. Uses' /\ Apart'
  BY DEF ListsInv, Uses, Apart
<1>5. LockedInv'
  BY <1>1, <1>3 DEF Sound, LockedInv, Holds, list_check
<1>6. SharedInv' /\ WalkInv'
  BY DEF SharedInv, WalkInv
<1> QED  BY <1>4, <1>5, <1>6 DEF ListsInv

LEMMA PassItemStep ==
  ASSUME ListsInv, PassItem
  PROVE  ListsInv'
<1> USE DEF PassItem, adder
<1>0. use = "locked"
  BY DEF ListsInv, Uses
<1>1. Sound(mem, contents, own) /\ Uses /\ h \in Heads /\ Passing
  BY <1>0, LockedSound, ListsAssumption DEF ListsInv, LockedInv
<1> DEFINE L == contents[h]
           s == Len(seen)
<1>2. /\ L \in Seq(Nodes) /\ Len(L) \in Nat /\ DOMAIN L = 1..Len(L)
      /\ At(h, L, Len(L) + 1) = h
      /\ \A k \in 1..Len(L) : At(h, L, k) = L[k]
      /\ \A k \in 0..Len(L) : mem.next[At(h, L, k)] = At(h, L, k + 1)
  BY <1>1, SoundCells
<1>3. PICK p \in 1..(Len(L) + 1) :
        /\ item = At(h, L, p)
        /\ Len(before) = s + Len(L) + 1 - p
        /\ \A j \in p..Len(L) : L[j] = before[s + 1 + j - p]
  BY <1>1 DEF Passing
<1>4. /\ before \in Seq(Nodes) /\ seen \in Seq(Nodes) /\ s \in Nat
      /\ nxt = mem.next[item] /\ \A i \in 1..s : seen[i] = before[i]
  BY <1>1 DEF Passing
<1>5. p \in 1..Len(L) /\ item = L[p] /\ item \in Nodes /\ nxt = At(h, L, p + 1)
  <2>1. p # Len(L) + 1
    BY <1>2, <1>3
  <2>2. p \in 1..Len(L)
    BY <1>2, <2>1
  <2>3. p \in 0..Len(L)
    BY <1>2, <2>2
  <2>4. item = L[p]
    BY <1>2, <1>3, <2>2
  <2> QED  BY <1>2, <1>3, <1>4, <2>2, <2>3, <2>4
<1>6. /\ seen' \in Seq(Nodes) /\ Len(seen') = s + 1 /\ before' = before
      /\ \A i \in 1..(s + 1) : seen'[i] = before'[i]
  <2>1. L[p] = before[s + 1]
    <3>1. p \in p..Len(L) /\ s + 1 + p - p = s + 1
      BY <1>4, <1>5
    <3> QED  BY <1>3, <3>1
  <2>2. /\ seen' = Append(seen, item) /\ seen' \in Seq(Nodes) /\ Len(seen') = s + 1
        /\ \A i \in 1..s : seen'[i] = seen[i]
        /\ seen'[s + 1] = item
    BY <1>4, <1>5
  <2>3. before' = before
    OBVIOUS
  <2> HIDE DEF PassItem
  <2> QED  BY <1>4, <1>5, <2>1, <2>2, <2>3
<1>7. \/ mem' = mem /\ contents' = contents
      \/ /\ contents' = [contents EXCEPT ![h] = Removal(L, p)]
         /\ mem' = Scrubbed(list_del(mem, item), contents', own)
  <2>1. CASE UNCHANGED <<mem, contents>>
    BY <2>1
  <2>2. CASE /\ contents' = Without(h, item)
             /\ mem' = Scrubbed(list_del(mem, item), contents', own)
    <3>1. item \in ToSet(L)
      BY <1>2, <1>5 DEF ToSet
    <3>2. Without(h, item) = [contents EXCEPT ![h] = Removal(L, Position(h, item))]
      BY <1>1, <3>1, WithoutIsRemoval
    <3>3. Position(h, item) = p
      BY <1>1, <1>2, <1>5, <3>1, Positions DEF Sound
    <3> QED  BY <2>2, <3>2, <3>3
  <2> QED  BY <2>1, <2>2
<1>8. Sound(mem', contents', own')
  <2>1. CASE mem' = mem /\ contents' = contents
    BY <1>1, <2>1
  <2>2. CASE /\ contents' = [contents EXCEPT ![h] = Removal(L, p)]
             /\ mem' = Scrubbed(list_del(mem, item), contents', own)
    <3>1. Sound(list_del(mem, item), contents', own)
      BY <1>1, <1>5, <2>2, SoundDelete
    <3> QED  BY <2>2, <3>1, SoundScrubbed
  <2> QED  BY <1>7, <2>1, <2>2
<1>9. \E q \in 1..(Len(contents'[h]) + 1) :
        /\ item' = At(h, contents'[h], q)
        /\ Len(before') = Len(seen') + Len(contents'[h]) + 1 - q
        /\ \A j \in q..Len(contents'[h]) : contents'[h][j] = before'[Len(seen') + 1 + j - q]
  <2>1. item' = At(h, L, p + 1)
    BY <1>5
  <2>2. CASE contents' = contents
    <3>1. p + 1 \in 1..(Len(contents'[h]) + 1) /\ contents'[h] = L
      <4>1. contents'[h] = L /\ p + 1 \in 1..(Len(L) + 1)
        BY <1>2, <1>5, <2>2
      <4> QED  BY <4>1
    <3> HIDE DEF PassItem, L
    <3>2. Len(before') = Len(seen') + Len(contents'[h]) + 1 - (p + 1)
      BY <1>2, <1>3, <1>4, <1>5, <1>6, <3>1
    <3>3. ASSUME NEW j \in (p + 1)..Len(contents'[h])
          PROVE  contents'[h][j] = before'[Len(seen') + 1 + j - (p + 1)]
      <4>1. j \in p..Len(L) /\ Len(seen') + 1 + j - (p + 1) = s + 1 + j - p
        BY <1>2, <1>4, <1>5, <1>6, <3>1
      <4> QED  BY <1>3, <1>6, <3>1, <4>1
    <3> QED  BY <2>1, <3>1, <3>2, <3>3
  <2>3. CASE contents' = [contents EXCEPT ![h] = Removal(L, p)]
    <3> DEFINE R == Removal(L, p)
    <3>1. contents'[h] = R
      BY <1>1, <2>3 DEF Sound, Distinct
    <3>2. /\ R \in Seq(Nodes) /\ Len(R) = Len(L) - 1
          /\ \A i \in 1..(Len(L) - 1) : R[i] = IF i < p THEN L[i] ELSE L[i + 1]
      <4>1. R \in Seq(Nodes) /\ Len(R) = Len(L) - 1
        BY <1>2, <1>5, Removals
      <4> QED  BY <4>1 DEF Removal
    <3> HIDE DEF R, PassItem
    <3>3. p \in 1..(Len(contents'[h]) + 1)
      <4>1. Len(contents'[h]) + 1 = Len(L)
        BY <1>2, <3>1, <3>2
      <4> QED  BY ONLY <1>5, <4>1
    <3>4. Len(before') = Len(seen') + Len(contents'[h]) + 1 - p
      <4>1. Len(contents'[h]) = Len(L) - 1 /\ Len(seen') = s + 1 /\ before' = before
        BY <1>6, <3>1, <3>2
      <4>2. Len(before) = s + Len(L) + 1 - p
        BY <1>3
      <4>3. Len(L) \in Nat /\ s \in Nat /\ p \in 1..Len(L)
        BY <1>2, <1>4, <1>5
      <4> HIDE DEF L, s
      <4> QED  BY ONLY <4>1, <4>2, <4>3
    <3>5. ASSUME NEW j \in p..Len(contents'[h])
          PROVE  contents'[h][j] = before'[Len(seen') + 1 + j - p]
      <4>1. /\ j \in 1..(Len(L) - 1) /\ j + 1 \in p..Len(L) /\ ~(j < p)
            /\ Len(seen') + 1 + j - p = s + 1 + (j + 1) - p
        BY <1>2, <1>4, <1>5, <1>6, <3>1, <3>2
      <4> QED  BY <1>3, <1>6, <3>1, <3>2, <4>1
    <3>6. item' = At(h, R, p)
      <4>1. DOMAIN R = 1..(Len(L) - 1)
        BY <3>2
      <4>2. CASE p = Len(L)
        <5>1. p \notin DOMAIN R /\ p + 1 \notin DOMAIN L
          BY <1>2, <4>1, <4>2
        <5> QED  BY <2>1, <5>1 DEF At
      <4>3. CASE p # Len(L)
        <5>1. p \in DOMAIN R /\ p + 1 \in DOMAIN L /\ R[p] = L[p + 1]
          BY <1>2, <1>5, <3>2, <4>1, <4>3
        <5> QED  BY <2>1, <5>1 DEF At
      <4> QED  BY <4>2, <4>3
    <3> WITNESS p \in 1..(Len(contents'[h]) + 1)
    <3> QED  BY <3>1, <3>4, <3>5, <3>6
  <2> QED  BY <1>7, <2>2, <2>3
<1>10. Passing'
  <2>1. nxt' = mem'.next[item']
    OBVIOUS
  <2>2. \A i \in DOMAIN seen' : seen'[i] = before'[i]
    BY <1>4, <1>6
  <2> HIDE DEF PassItem
  <2> QED  BY <1>4, <1>6, <1>9, <2>1, <2>2 DEF Passing
<1>11. use' = "locked" /\ walk_pc' = "pass" /\ add_pc' = add_pc /\ overlapped' = overlapped
  BY <1>0
<1>12. Uses'
  BY <1>1, <1>8, <1>11 DEF Uses, Sound
<1>13. Apart' /\ LockedInv'
  BY <1>8, <1>10 DEF Sound, Distinct, Apart, LockedInv, Holds, list_check
<1>14. SharedInv' /\ WalkInv'
  BY <1>11 DEF SharedInv, WalkInv
<1> QED  BY <1>12, <1>13, <1>14 DEF ListsInv

-----------------------------------------------------------------------------
(***************************************************************************)
(* The list that tasks share.                                              *)
(***************************************************************************)
LEMMA SharedCells ==
  ASSUME Apart
  PROVE  /\ contents[h] \in Seq(Nodes) /\ DOMAIN contents[h] = 1..Size /\ Size \in Nat
         /\ h \in Heads /\ h \in Cells /\ h \notin Nodes
         /\ Cell(0) = h /\ Cell(Size + 1) = h
         /\ \A k \in 1..Size : Cell(k) = contents[h][k] /\ Cell(k) \in Nodes
         /\ \A k \in Int : Cell(k) \in Cells /\ (k \notin 1..Size => Cell(k) = h)
         /\ \A j, k \in 0..Size : Cell(j) = Cell(k) => j = k
         /\ \A j, k \in 1..(Size + 1) : Cell(j) = Cell(k) => j = k
<1>1. h \in Heads /\ h \in Cells /\ h \notin Nodes
  BY ListsAssumption DEF Cells
<1>2. /\ contents[h] \in Seq(Nodes) /\ DOMAIN contents[h] = 1..Size /\ Size \in Nat
      /\ Fits(h, contents[h]) /\ \A i \in DOMAIN contents[h] : contents[h][i] \in Nodes
  <2>1. Distinct(contents, own)
    BY DEF Apart, Distinct
  <2> QED  BY <1>1, <2>1, DistinctFits DEF Size
<1>3. /\ \A k \in Int : Cell(k) \in Cells
      /\ \A j, k \in 0..Size : Cell(j) = Cell(k) => j = k
      /\ \A j, k \in 1..(Size + 1) : Cell(j) = Cell(k) => j = k
  BY <1>2, Round DEF Cell, Size
<1>4. /\ Cell(0) = h /\ Cell(Size + 1) = h
      /\ \A k \in 1..Size : Cell(k) = contents[h][k] /\ Cell(k) \in Nodes
      /\ \A k \in Int : k \notin 1..Size => Cell(k) = h
  BY <1>2 DEF Cell, At
<1> QED  BY <1>1, <1>2, <1>3, <1>4

\* A step that leaves the sequences alone, and the walk.
LEMMA SameCells ==
  ASSUME contents' = contents
  PROVE  Size' = Size /\ \A k : Cell(k)' = Cell(k)
BY DEF Size, Cell

LEMMA WalkUnchanged ==
  ASSUME WalkInv, UNCHANGED <<contents, walk_pc, item, nxt, before, seen>>
  PROVE  WalkInv'
BY DEF WalkInv, Reaches, UpTo, Precedes

\* A node is taken and linked to its place.
LEMMA LinkStep ==
  ASSUME ListsInv, NEW n \in Nodes, NEW p, BeginAdd(n, p) \/ (push_command(n) /\ p = h)
  PROVE  ListsInv'
<1> USE DEF walker
<1>1. /\ add_pc = "idle" /\ n \in freed /\ node' = n /\ place' = p /\ freed' = freed \ {n}
      /\ mem' = [mem EXCEPT !.next[n] = p, !.prev[n] = mem.prev[p]]
      /\ add_pc' = "load"
      /\ UNCHANGED <<use, contents, own, link, walk_pc, item, nxt, before, seen>>
      /\ use # "locked" /\ ~overlapped
      /\ p \in {h} \cup ToSet(contents[h])
      /\ use = "commands" => p = h /\ overlapped' = (overlapped \/ PopsLast)
      /\ use # "commands" => ~overlapped'
  <2>1. Uses
    BY DEF ListsInv
  <2>2. CASE BeginAdd(n, p)
    <3>1. use = "growing" /\ p \in {h} \cup ToSet(contents[h]) /\ overlapped' = overlapped
      BY <2>2 DEF BeginAdd
    <3>2. ~overlapped
      BY <2>1, <3>1 DEF Uses
    <3> QED  BY <2>2, <3>1, <3>2 DEF BeginAdd, Link
  <2>3. CASE push_command(n) /\ p = h
    BY <2>3 DEF push_command, Link
  <2> QED  BY <2>2, <2>3
<1>2. Apart /\ Uses /\ Ahead /\ Behind /\ PoppingFirst /\ mem \in Links /\ WalkInv
  BY <1>1 DEF ListsInv, SharedInv, Uses
<1>3. /\ Size \in Nat /\ h \in Cells /\ h \notin Nodes /\ Cell(0) = h /\ Cell(Size + 1) = h
      /\ \A k \in 1..Size : Cell(k) = contents[h][k] /\ Cell(k) \in Nodes
      /\ \A k \in Int : Cell(k) \in Cells /\ (k \notin 1..Size => Cell(k) = h)
      /\ DOMAIN contents[h] = 1..Size
  BY <1>2, SharedCells
<1>4. PICK k \in 1..(Size + 1) : p = Cell(k)
  BY <1>1, <1>3 DEF ToSet
<1>5. p \in Cells /\ n \in Cells
  BY <1>3, <1>4 DEF Cells
<1>6. /\ mem' \in Links /\ mem'.next[n] = p /\ mem'.prev[n] = mem.prev[p]
      /\ \A c \in Cells : c # n => mem'.next[c] = mem.next[c] /\ mem'.prev[c] = mem.prev[c]
  BY <1>1, <1>2, <1>5 DEF Links
<1>7. \A j \in Int : Cell(j) # n
  BY <1>1, <1>2, <1>3 DEF Ahead
<1>8. Size' = Size /\ \A j : Cell(j)' = Cell(j)
  BY <1>1, SameCells
<1>9. ASSUME ~overlapped', walk_pc \in {"reload", "unnext"} PROVE k # 2
  <2>1. use = "commands" /\ Popping
    BY <1>2, <1>9 DEF Uses, Popping
  <2>2. k = Size + 1
    BY <1>1, <1>3, <1>4, <2>1
  <2>3. mem.next[Cell(1)] # h
    BY <1>1, <1>2, <1>9, <2>1 DEF PoppingFirst, PopsLast
  <2>4. Size > 0 /\ mem.next[Cell(1)] = Cell(1 + 1)
    BY <1>2, <1>3, <2>1 DEF PoppingFirst, Ahead
  <2>5. Size # 1
    BY <1>3, <2>3, <2>4
  <2> QED  BY <1>3, <2>2, <2>5
<1>10. ASSUME ~overlapped' PROVE mem.prev[p] = Cell(k - 1)
  <2>1. k - 1 \in 0..Size /\ (k - 1) + 1 = k
    BY <1>3
  <2>2. LinkedBack(k - 1)
    BY <1>2, <2>1 DEF Behind
  <2> QED  BY <1>1, <1>4, <1>9, <1>10, <2>1, <2>2 DEF LinkedBack
<1>11. ASSUME ~overlapped' PROVE (Ahead /\ Behind)'
  <2>1. Ahead'
    BY <1>1, <1>2, <1>3, <1>6, <1>7, <1>8 DEF Ahead
  <2>2. ASSUME NEW j \in 0..Size PROVE LinkedBack(j)'
    <3>1. LinkedBack(j) /\ mem'.prev[Cell(j + 1)] = mem.prev[Cell(j + 1)]
      BY <1>2, <1>3, <1>6, <1>7 DEF Behind
    <3> QED  BY <1>1, <1>8, <3>1 DEF LinkedBack
  <2> QED  BY <1>8, <2>1, <2>2 DEF Behind
<1>12. ASSUME ~overlapped' PROVE Adding'
  <2>1. \A j \in 1..Size : Cell(j) # n
    BY <1>7
  <2>2. n \in Nodes \ freed'
    BY <1>1
  <2>3. place' = Cell(k) /\ mem'.prev[node'] = Cell(k - 1)
    BY <1>1, <1>4, <1>6, <1>10, <1>12
  <2> QED  BY <1>1, <1>6, <1>8, <2>1, <2>2, <2>3 DEF Adding
<1>13. ASSUME ~overlapped' PROVE PoppingFirst'
  <2>1. Popping' <=> Popping
    BY <1>1 DEF Popping
  <2>2. walk_pc \in {"unprev", "reload", "unnext"} => Size # 1
    <3> SUFFICES ASSUME walk_pc \in {"unprev", "reload", "unnext"} PROVE Size # 1
      OBVIOUS
    <3>1. Popping /\ use = "commands"
      BY <1>2 DEF Popping, Uses
    <3>2. Size > 0 /\ item = Cell(1) /\ mem.next[item] # h
      BY <1>1, <1>2, <1>13, <3>1 DEF PoppingFirst, PopsLast
    <3>3. mem.next[Cell(1)] = Cell(1 + 1)
      BY <1>2, <1>3, <3>2 DEF Ahead
    <3> QED  BY <1>3, <3>2, <3>3
  <2> QED  BY <1>1, <1>2, <1>8, <2>1, <2>2 DEF PoppingFirst
<1>14. SharedInv'
  BY <1>11, <1>12, <1>13 DEF SharedInv
<1>15. Uses'
  BY <1>1, <1>2, <1>6 DEF Uses
<1>16. Apart' /\ LockedInv'
  BY <1>1, <1>2 DEF Apart, LockedInv
<1>17. WalkInv'
  BY <1>1, <1>2, WalkUnchanged
<1> QED  BY <1>14, <1>15, <1>16, <1>17 DEF ListsInv

LEMMA LoadPrevStep ==
  ASSUME ListsInv, LoadPrev
  PROVE  ListsInv'
<1>1. /\ add_pc = "load" /\ link' = mem.prev[place] /\ add_pc' = "next"
      /\ UNCHANGED <<use, mem, contents, own, node, place, walk_pc, item, nxt, before, seen,
                     freed, overlapped>>
  BY DEF LoadPrev, walker
<1>2. Apart /\ Uses /\ use # "locked" /\ WalkInv
  BY <1>1 DEF ListsInv, Uses
<1>3. Uses' /\ Apart' /\ LockedInv'
  BY <1>1, <1>2 DEF Uses, Apart, LockedInv
<1>4. WalkInv'
  BY <1>1, <1>2, WalkUnchanged
<1>5. ASSUME ~overlapped PROVE Ahead' /\ Behind' /\ Adding' /\ PoppingFirst'
  <2>1. Ahead /\ Behind /\ Adding /\ PoppingFirst
    BY <1>2, <1>5 DEF ListsInv, SharedInv
  <2>2. Size' = Size /\ \A j : Cell(j)' = Cell(j)
    BY <1>1, SameCells
  <2>3. /\ Size \in Nat /\ Cell(0) = h /\ Cell(Size + 1) = h
        /\ \A k \in 1..Size : Cell(k) \in Nodes
        /\ h \notin Nodes
    BY <1>2, SharedCells
  <2>4. PICK k \in 1..(Size + 1) : place = Cell(k) /\ mem.prev[node] = Cell(k - 1)
    BY <1>1, <2>1 DEF Adding
  <2>5. walk_pc \in {"reload", "unnext"} => k # 2
    <3> SUFFICES ASSUME walk_pc \in {"reload", "unnext"}, k = 2 PROVE FALSE
      OBVIOUS
    <3>1. use = "commands" /\ Popping
      BY <1>2 DEF Uses, Popping
    <3>2. place = h /\ Size # 1 /\ Size > 0
      BY <1>1, <2>1, <3>1 DEF Adding, PoppingFirst
    <3> QED  BY <2>3, <2>4, <3>2
  <2>6. link' = Cell(k - 1)
    <3>1. k - 1 \in 0..Size /\ (k - 1) + 1 = k
      BY <2>3
    <3>2. LinkedBack(k - 1)
      BY <2>1, <3>1 DEF Behind
    <3> QED  BY <1>1, <2>4, <2>5, <3>1, <3>2 DEF LinkedBack
  <2>7. Adding'
    BY <1>1, <2>1, <2>2, <2>4, <2>6 DEF Adding
  <2>8. Ahead' /\ PoppingFirst'
    BY <1>1, <2>1, <2>2 DEF Ahead, PoppingFirst, Popping
  <2>9. \A j \in 0..Size : LinkedBack(j)'
    BY <1>1, <2>1, <2>2 DEF Behind, LinkedBack
  <2> QED  BY <2>2, <2>7, <2>8, <2>9 DEF Behind
<1>6. SharedInv'
  BY <1>1, <1>5 DEF SharedInv
<1> QED  BY <1>3, <1>4, <1>6 DEF ListsInv

LEMMA StorePrevStep ==
  ASSUME ListsInv, StorePrev
  PROVE  ListsInv'
<1>1. /\ add_pc = "prev" /\ mem' = [mem EXCEPT !.prev[place] = node] /\ add_pc' = "idle"
      /\ UNCHANGED <<use, contents, own, node, place, link, walk_pc, item, nxt, before, seen,
                     freed, overlapped>>
  BY DEF StorePrev, walker
<1>2. Apart /\ Uses /\ use # "locked" /\ WalkInv
  BY <1>1 DEF ListsInv, Uses
<1>3. Apart' /\ LockedInv'
  BY <1>1, <1>2 DEF Apart, LockedInv
<1>4. WalkInv'
  BY <1>1, <1>2, WalkUnchanged
<1>5. ASSUME ~overlapped
      PROVE  mem' \in Links /\ Ahead' /\ Behind' /\ Adding' /\ PoppingFirst'
  <2>1. Ahead /\ Behind /\ Adding /\ PoppingFirst /\ mem \in Links
    BY <1>2, <1>5 DEF ListsInv, SharedInv, Uses
  <2>2. Size' = Size /\ \A j : Cell(j)' = Cell(j)
    BY <1>1, SameCells
  <2>3. /\ Size \in Nat /\ Cell(0) = h /\ Cell(Size + 1) = h /\ h \notin Nodes
        /\ \A k \in 1..Size : Cell(k) \in Nodes
        /\ \A k \in Int : Cell(k) \in Cells
        /\ \A j, k \in 0..Size : Cell(j) = Cell(k) => j = k
        /\ \A j, k \in 1..(Size + 1) : Cell(j) = Cell(k) => j = k
    BY <1>2, SharedCells
  <2>4. PICK k \in 1..Size : Cell(k) = node
    BY <1>1, <2>1 DEF Adding
  <2>5. k \in 0..Size /\ k + 1 \in 1..(Size + 1)
    BY <2>3
  <2>6. Cell(k + 1) = place
    BY <1>1, <2>1, <2>4, <2>5 DEF Behind, LinkedBack
  <2>7. /\ mem' \in Links /\ mem'.next = mem.next
        /\ \A c \in Cells : mem'.prev[c] = IF c = place THEN node ELSE mem.prev[c]
    <3>1. place \in Cells /\ node \in Cells
      BY <2>3, <2>4, <2>6
    <3> QED  BY <1>1, <2>1, <3>1 DEF Links
  <2>8. ASSUME NEW j \in 0..Size PROVE LinkedBack(j)'
    <3>1. j + 1 \in 1..(Size + 1) /\ Cell(j + 1) \in Cells
      BY <2>3
    <3>2. CASE j = k
      <4>1. mem'.prev[Cell(j + 1)] = Cell(j)
        BY <2>4, <2>6, <2>7, <3>1, <3>2
      <4>2. walk_pc \in {"reload", "unnext"} => k # 1
        <5> SUFFICES ASSUME walk_pc \in {"reload", "unnext"}, k = 1 PROVE FALSE
          OBVIOUS
        <5>1. use = "commands"
          BY <1>2 DEF Uses
        <5>2. place = h /\ Size # 1
          BY <1>1, <2>1, <5>1 DEF Adding, PoppingFirst
        <5>3. k + 1 = Size + 1
          BY <2>3, <2>5, <2>6, <5>2
        <5> QED  BY <2>3, <5>2, <5>3
      <4> QED  BY <1>1, <2>2, <3>2, <4>1, <4>2 DEF LinkedBack
    <3>3. CASE j # k
      <4>1. Cell(j) # node
        BY <2>3, <2>4, <2>5, <3>3
      <4>2. Cell(j + 1) # place
        BY <2>3, <2>5, <2>6, <3>1, <3>3
      <4>3. LinkedBack(j) /\ mem'.prev[Cell(j + 1)] = mem.prev[Cell(j + 1)]
        BY <2>1, <2>7, <3>1, <4>2 DEF Behind
      <4> QED  BY <1>1, <2>2, <4>1, <4>3 DEF LinkedBack
    <3> QED  BY <3>2, <3>3
  <2>9. Ahead' /\ PoppingFirst' /\ Adding'
    BY <1>1, <2>1, <2>2, <2>7 DEF Ahead, PoppingFirst, Popping, Adding
  <2> QED  BY <2>2, <2>7, <2>8, <2>9 DEF Behind
<1>6. SharedInv'
  BY <1>1, <1>5 DEF SharedInv
<1>7. Uses'
  BY <1>1, <1>2, <1>5 DEF Uses
<1> QED  BY <1>3, <1>4, <1>6, <1>7 DEF ListsInv

\* The item is on the list, and everything else where it was.
LEMMA StoreNextCells ==
  ASSUME ListsInv, StoreNext, ~overlapped
  PROVE  \E k \in 1..(Size + 1) :
           /\ place = Cell(k) /\ mem.prev[node] = Cell(k - 1) /\ link = Cell(k - 1)
           /\ Size' = Size + 1
           /\ \A j \in 0..(Size + 2) :
                Cell(j)' = IF j < k THEN Cell(j) ELSE IF j = k THEN node ELSE Cell(j - 1)
           /\ Apart'
           /\ \A x \in Heads \ {h} : contents'[x] = contents[x]
           /\ DOMAIN contents'[h] = 1..Size'
           /\ \A j \in 1..Size' : Cell(j)' = contents'[h][j]
<1>1. /\ add_pc = "next" /\ UNCHANGED <<use, own, overlapped>>
      /\ contents' = With(h, IF place = h THEN Append(contents[h], node)
                             ELSE InsertAt(contents[h], Position(h, place), node))
  BY DEF StoreNext
<1>2. /\ Apart /\ Uses /\ use # "locked" /\ Ahead /\ Adding
  BY <1>1 DEF ListsInv, Uses, SharedInv
<1>3. /\ contents[h] \in Seq(Nodes) /\ DOMAIN contents[h] = 1..Size /\ Size \in Nat
      /\ h \in Heads /\ h \notin Nodes /\ Cell(0) = h /\ Cell(Size + 1) = h
      /\ \A k \in 1..Size : Cell(k) = contents[h][k] /\ Cell(k) \in Nodes
      /\ \A k \in Int : k \notin 1..Size => Cell(k) = h
      /\ Size = Len(contents[h])
  BY <1>2, SharedCells DEF Size
<1>4. /\ node \in Nodes \ freed /\ \A k \in 1..Size : Cell(k) # node
  BY <1>1, <1>2 DEF Adding
<1>5. PICK k \in 1..(Size + 1) :
        place = Cell(k) /\ mem.prev[node] = Cell(k - 1) /\ link = Cell(k - 1)
  BY <1>1, <1>2 DEF Adding
<1> DEFINE new == Insertion(contents[h], k, node)
<1>6. contents' = [contents EXCEPT ![h] = new]
  <2>1. /\ InsertAt(contents[h], k, node) = new
        /\ Append(contents[h], node) = Insertion(contents[h], Size + 1, node)
    <3>1. k \in 1..(Len(contents[h]) + 1) /\ node \in Nodes
      BY <1>3, <1>4, <1>5
    <3>2. /\ InsertAt(contents[h], k, node) = new
          /\ Append(contents[h], node) = Insertion(contents[h], Len(contents[h]) + 1, node)
      <4>1. contents[h] \in Seq(Nodes)
        BY <1>3
      <4> QED  BY ONLY <3>1, <4>1, Insertions, Zenon
    <3> QED  BY <1>3, <3>2
  <2>2. CASE place = h
    <3>1. k = Size + 1
      <4>1. k \in 1..Size => Cell(k) # h
        BY <1>3
      <4> QED  BY <1>3, <1>5, <2>2, <4>1
    <3> QED  BY <1>1, <2>1, <2>2, <3>1 DEF With
  <2>3. CASE place # h
    <3>1. k \in 1..Size /\ place = contents[h][k]
      BY <1>3, <1>5, <2>3
    <3>2. place \in ToSet(contents[h])
      BY <1>3, <3>1 DEF ToSet
    <3>3. Position(h, place) = k
      <4>1. Distinct(contents, own)
        BY <1>2 DEF Apart, Distinct
      <4> QED  BY <1>3, <3>1, <3>2, <4>1, Positions
    <3> QED  BY <1>1, <2>1, <2>3, <3>3 DEF With
  <2> QED  BY <2>2, <2>3
<1>7. new \in Seq(Nodes) /\ Len(new) = Size + 1 /\ DOMAIN new = 1..(Size + 1)
  <2>1. new \in Seq(Nodes) /\ Len(new) = Size + 1
    <3>1. k \in 1..(Len(contents[h]) + 1) /\ node \in Nodes /\ contents[h] \in Seq(Nodes)
      BY <1>3, <1>4, <1>5
    <3>2. new \in Seq(Nodes) /\ Len(new) = Len(contents[h]) + 1
      BY ONLY <3>1, Insertions, Zenon
    <3> QED  BY <1>3, <3>2
  <2> HIDE DEF new
  <2> QED  BY <1>3, <2>1
<1>8. \A j \in 1..(Size + 1) :
        new[j] = IF j < k THEN Cell(j) ELSE IF j = k THEN node ELSE Cell(j - 1)
  <2> TAKE j \in 1..(Size + 1)
  <2>1. new[j] = IF j < k THEN contents[h][j] ELSE IF j = k THEN node ELSE contents[h][j - 1]
    BY <1>3 DEF Insertion
  <2>2. (j < k => j \in 1..Size) /\ (j > k => j - 1 \in 1..Size) /\ j \in Int
    BY <1>3, <1>5
  <2> HIDE DEF new
  <2> QED  BY <1>3, <1>5, <2>1, <2>2
<1> HIDE DEF new
<1>9. /\ contents' \in [Heads -> Seq(Nodes)] /\ contents'[h] = new
      /\ \A x \in Heads \ {h} : contents'[x] = contents[x] /\ contents[x] = <<>>
  BY <1>2, <1>3, <1>6, <1>7 DEF Apart, Uses
<1>10. Size' = Size + 1
  BY <1>7, <1>9 DEF Size
<1>11. ASSUME NEW j \in 0..(Size + 2)
       PROVE  Cell(j)' = IF j < k THEN Cell(j) ELSE IF j = k THEN node ELSE Cell(j - 1)
  <2>1. Cell(j)' = IF j \in 1..(Size + 1) THEN new[j] ELSE h
    BY <1>7, <1>9 DEF Cell, At
  <2>2. CASE j = 0
    BY <1>3, <1>5, <2>1, <2>2
  <2>3. CASE j \in 1..(Size + 1)
    BY <1>8, <2>1, <2>3
  <2>4. CASE j = Size + 2
    <3>1. j \notin 1..(Size + 1) /\ j - 1 = Size + 1 /\ ~(j < k) /\ j # k
      BY <1>3, <1>5, <2>4
    <3> QED  BY <1>3, <2>1, <3>1
  <2> QED  BY <1>3, <2>2, <2>3, <2>4
<1>13. DOMAIN contents'[h] = 1..Size' /\ \A j \in 1..Size' : Cell(j)' = contents'[h][j]
  BY <1>7, <1>9, <1>10 DEF Cell, At
<1>12. Apart'
  <2>1. ASSUME NEW i \in 1..(Size + 1), NEW j \in 1..(Size + 1), new[i] = new[j]
        PROVE  i = j
    <3>1. \A p, q \in 1..Size : Cell(p) = Cell(q) => p = q
      <4> TAKE p \in 1..Size, q \in 1..Size
      <4>1. p \in 1..(Size + 1) /\ q \in 1..(Size + 1)
        BY <1>3
      <4> QED  BY <1>2, <4>1, SharedCells
    <3>2. \A p \in 1..(Size + 1) : /\ p < k => p \in 1..Size
                                   /\ p > k => p - 1 \in 1..Size
                                   /\ p \in Int
      BY <1>3, <1>5
    <3> QED  BY <1>4, <1>5, <1>8, <2>1, <3>1, <3>2
  <2>2. ASSUME NEW x \in Heads, NEW y \in Heads, NEW i \in DOMAIN contents'[x],
               NEW j \in DOMAIN contents'[y], contents'[x][i] = contents'[y][j]
        PROVE  x = y /\ i = j
    <3>1. x = h /\ y = h
      BY <1>9
    <3> QED  BY <1>7, <1>9, <2>1, <2>2, <3>1
  <2>3. own' = {}
    BY <1>1, <1>2 DEF Uses
  <2> QED  BY <1>9, <2>2, <2>3 DEF Apart
<1> QED  BY <1>5, <1>9, <1>10, <1>11, <1>12, <1>13

LEMMA PrecedesCells ==
  ASSUME Apart, NEW i, NEW j
  PROVE  /\ Precedes(i, j) <=> \E k, l \in 1..Size : k < l /\ Cell(k) = i /\ Cell(l) = j
         /\ i \in ToSet(contents[h]) <=> \E k \in 1..Size : Cell(k) = i
<1>1. DOMAIN contents[h] = 1..Size /\ \A k \in 1..Size : Cell(k) = contents[h][k]
  BY SharedCells
<1> QED  BY <1>1 DEF Precedes, ToSet

LEMMA StoreNextStep ==
  ASSUME ListsInv, StoreNext
  PROVE  ListsInv'
<1>1. /\ add_pc = "next" /\ mem' = [mem EXCEPT !.next[link] = node] /\ add_pc' = "prev"
      /\ UNCHANGED <<use, own, node, place, link, walk_pc, item, nxt, before, seen,
                     freed, overlapped>>
      /\ overlapped => contents' = contents
  BY DEF StoreNext, walker
<1>2. Apart /\ Uses /\ use # "locked" /\ WalkInv
  BY <1>1 DEF ListsInv, Uses
<1>3. CASE overlapped
  <2>1. use = "commands" /\ walk_pc \notin {"each", "ahead", "safe"}
    BY <1>2, <1>3 DEF Uses
  <2>2. Uses'
    BY <1>1, <1>2, <1>3 DEF Uses
  <2>3. Apart'
    BY <1>1, <1>2, <1>3 DEF Apart
  <2> QED  BY <1>1, <1>3, <2>1, <2>2, <2>3 DEF ListsInv, LockedInv, SharedInv, WalkInv
<1>4. CASE ~overlapped
  <2>1. Ahead /\ Behind /\ Adding /\ PoppingFirst /\ mem \in Links
    BY <1>2, <1>4 DEF ListsInv, SharedInv, Uses
  <2>2. PICK k \in 1..(Size + 1) :
          /\ place = Cell(k) /\ mem.prev[node] = Cell(k - 1) /\ link = Cell(k - 1)
          /\ Size' = Size + 1
          /\ \A j \in 0..(Size + 2) :
               Cell(j)' = IF j < k THEN Cell(j) ELSE IF j = k THEN node ELSE Cell(j - 1)
          /\ Apart'
          /\ \A x \in Heads \ {h} : contents'[x] = contents[x]
          /\ DOMAIN contents'[h] = 1..Size'
          /\ \A j \in 1..Size' : Cell(j)' = contents'[h][j]
    BY <1>4, StoreNextCells
  <2>3. /\ Size \in Nat /\ Cell(0) = h /\ Cell(Size + 1) = h /\ h \notin Nodes /\ h \in Cells
        /\ \A j \in 1..Size : Cell(j) \in Nodes
        /\ \A j \in Int : Cell(j) \in Cells
        /\ \A i, j \in 0..Size : Cell(i) = Cell(j) => i = j
        /\ \A i, j \in 1..(Size + 1) : Cell(i) = Cell(j) => i = j
    BY <1>2, SharedCells
  <2>4. /\ node \in Nodes \ freed /\ node \in Cells /\ mem.next[node] = place
        /\ \A j \in 0..(Size + 1) : Cell(j) # node
    <3>1. /\ node \in Nodes \ freed /\ mem.next[node] = place
          /\ \A j \in 1..Size : Cell(j) # node
      BY <1>1, <2>1 DEF Adding
    <3>2. node # h /\ node \in Cells
      BY <2>3, <3>1 DEF Cells
    <3> QED  BY <2>3, <3>1, <3>2
  <2>5. k - 1 \in 0..Size /\ (k - 1) + 1 = k /\ k \in Int /\ Cell(k - 1) \in Cells
    BY <2>3
  <2>6. /\ mem' \in Links /\ mem'.prev = mem.prev
        /\ \A c \in Cells : mem'.next[c] = IF c = Cell(k - 1) THEN node ELSE mem.next[c]
    BY <1>1, <2>1, <2>2, <2>4, <2>5 DEF Links
  <2>7. walk_pc \in {"next", "unprev", "reload", "unnext"}
          => use = "commands" /\ k = Size + 1 /\ Size > 0
    <3> SUFFICES ASSUME walk_pc \in {"next", "unprev", "reload", "unnext"}
                 PROVE  use = "commands" /\ k = Size + 1 /\ Size > 0
      OBVIOUS
    <3>1. use = "commands" /\ Popping
      BY <1>2 DEF Uses, Popping
    <3>2. place = h /\ Size > 0
      BY <1>1, <2>1, <3>1 DEF Adding, PoppingFirst
    <3>3. k \in 1..Size => Cell(k) # h
      BY <2>3
    <3> QED  BY <2>2, <2>3, <3>1, <3>2, <3>3
  <2>8. walk_pc \in {"unprev", "reload", "unnext"} => Size > 1
    BY <1>1, <2>1, <2>3, <2>7 DEF PoppingFirst
  <2>9. Ahead'
    <3>1. \A j \in 1..(Size + 1) : Cell(j)' \notin freed
      <4> TAKE j \in 1..(Size + 1)
      <4>1. /\ j \in 0..(Size + 2) /\ (j < k => j \in 1..Size)
            /\ (j > k => j - 1 \in 1..Size) /\ j \in Int
        BY <2>3, <2>5
      <4> QED  BY <2>1, <2>2, <2>4, <2>5, <4>1 DEF Ahead
    <3>2. ASSUME NEW j \in 0..(Size + 1) PROVE mem'.next[Cell(j)'] = Cell(j + 1)'
      <4>1. j \in 0..(Size + 2) /\ j + 1 \in 0..(Size + 2) /\ j \in Int /\ j + 1 - 1 = j
        BY <2>3
      <4>2. CASE j < k - 1
        <5>1. /\ Cell(j)' = Cell(j) /\ Cell(j + 1)' = Cell(j + 1)
              /\ j \in 0..Size /\ j # k - 1
          BY <2>2, <2>3, <2>5, <4>1, <4>2
        <5>2. Cell(j) # Cell(k - 1) /\ Cell(j) \in Cells /\ mem.next[Cell(j)] = Cell(j + 1)
          BY <2>1, <2>3, <2>5, <5>1 DEF Ahead
        <5> QED  BY <2>6, <5>1, <5>2
      <4>3. CASE j = k - 1
        <5>1. Cell(j)' = Cell(k - 1) /\ Cell(j + 1)' = node
          BY <2>2, <2>5, <4>1, <4>3
        <5> QED  BY <2>5, <2>6, <5>1
      <4>4. CASE j = k
        <5>1. Cell(j)' = node /\ Cell(j + 1)' = Cell(k) /\ Cell(k - 1) # node
          <6>1. k - 1 \in 0..(Size + 1)
            BY <2>3
          <6> QED  BY <2>2, <2>4, <2>5, <4>1, <4>4, <6>1
        <5> QED  BY <2>2, <2>4, <2>6, <5>1
      <4>5. CASE j > k
        <5>1. /\ Cell(j)' = Cell(j - 1) /\ Cell(j + 1)' = Cell(j)
              /\ j - 1 \in 0..Size /\ (j - 1) + 1 = j /\ j - 1 # k - 1
          BY <2>2, <2>3, <2>5, <4>1, <4>5
        <5>2. /\ Cell(j - 1) # Cell(k - 1) /\ Cell(j - 1) \in Cells
              /\ mem.next[Cell(j - 1)] = Cell(j)
          BY <2>1, <2>3, <2>5, <5>1 DEF Ahead
        <5> QED  BY <2>6, <5>1, <5>2
      <4> QED  BY <2>5, <4>1, <4>2, <4>3, <4>4, <4>5
    <3> QED  BY <1>1, <2>1, <2>2, <3>1, <3>2 DEF Ahead
  <2>10. Behind'
    <3>1. ASSUME NEW j \in 0..(Size + 1) PROVE LinkedBack(j)'
      <4>1. j \in 0..(Size + 2) /\ j + 1 \in 0..(Size + 2) /\ j \in Int /\ j + 1 - 1 = j
        BY <2>3
      <4>2. CASE j < k - 1
        <5>1. /\ Cell(j)' = Cell(j) /\ Cell(j + 1)' = Cell(j + 1) /\ j \in 0..Size
              /\ Cell(j) # node
          BY <2>2, <2>3, <2>4, <2>5, <4>1, <4>2
        <5>2. LinkedBack(j)
          BY <2>1, <5>1 DEF Behind
        <5> QED  BY <1>1, <2>6, <5>1, <5>2 DEF LinkedBack
      <4>3. CASE j = k - 1
        <5>1. Cell(j)' = Cell(k - 1) /\ Cell(j + 1)' = node /\ Cell(k - 1) # node
          <6>1. k - 1 \in 0..(Size + 1)
            BY <2>3
          <6> QED  BY <2>2, <2>4, <2>5, <4>1, <4>3, <6>1
        <5>2. ~(walk_pc \in {"reload", "unnext"} /\ j = 1)
          BY <2>3, <2>5, <2>7, <2>8, <4>3
        <5>3. mem'.prev[Cell(j + 1)'] = Cell(j)'
          BY <2>2, <2>6, <5>1
        <5> QED  BY <1>1, <5>1, <5>2, <5>3 DEF LinkedBack
      <4>4. CASE j = k
        <5>1. Cell(j)' = node' /\ Cell(j + 1)' = place'
          BY <1>1, <2>2, <2>5, <4>1, <4>4
        <5> QED  BY <1>1, <5>1 DEF LinkedBack
      <4>5. CASE j > k
        <5>1. /\ Cell(j)' = Cell(j - 1) /\ Cell(j + 1)' = Cell(j)
              /\ j - 1 \in 0..Size /\ (j - 1) + 1 = j /\ Cell(j - 1) # node
          BY <2>2, <2>3, <2>4, <2>5, <4>1, <4>5
        <5>2. LinkedBack(j - 1)
          BY <2>1, <5>1 DEF Behind
        <5>3. ~(walk_pc \in {"reload", "unnext"})
          BY <2>3, <2>5, <2>7, <4>1, <4>5
        <5> QED  BY <1>1, <2>6, <5>1, <5>2, <5>3 DEF LinkedBack
      <4> QED  BY <2>5, <4>1, <4>2, <4>3, <4>4, <4>5
    <3> QED  BY <2>2, <3>1 DEF Behind
  <2>11. Adding'
    <3>1. Cell(k)' = node /\ k \in 1..(Size + 1)
      BY <2>2, <2>3, <2>5
    <3> QED  BY <1>1, <2>1, <2>2, <3>1 DEF Adding
  <2>12. PoppingFirst'
    <3>1. Popping' <=> Popping
      BY <1>1 DEF Popping
    <3>2. Popping => k > 1 /\ Size > 0 /\ Size' > 0
      BY <2>2, <2>3, <2>7 DEF Popping
    <3>3. k > 1 => Cell(1)' = Cell(1)
      BY <2>2, <2>3
    <3>4. walk_pc \in {"unprev", "reload", "unnext"} => k > 2 /\ Size > 1 /\ Size' > 1
      BY <2>2, <2>3, <2>7, <2>8
    <3>5. k > 2 => Cell(2)' = Cell(2)
      BY <2>2, <2>3
    <3> QED  BY <1>1, <2>1, <3>1, <3>2, <3>3, <3>4, <3>5 DEF PoppingFirst
  <2>13. Uses'
    BY <1>1, <1>2, <1>4, <2>2, <2>6 DEF Uses
  <2>14. /\ \A i, j : Precedes(i, j) => Precedes(i, j)'
         /\ \A i : i \in ToSet(contents[h]) => i \in ToSet(contents'[h])
    <3>1. ASSUME NEW i \in 1..Size
          PROVE  LET i2 == IF i < k THEN i ELSE i + 1
                 IN  i2 \in 1..Size' /\ Cell(i2)' = Cell(i)
      <4>1. i \in 0..(Size + 2) /\ i + 1 \in 0..(Size + 2) /\ i + 1 - 1 = i
        BY <2>3
      <4> QED  BY <2>2, <2>3, <2>5, <4>1
    <3>2. ASSUME NEW i, NEW j, Precedes(i, j) PROVE Precedes(i, j)'
      <4>1. PICK p, q \in 1..Size : p < q /\ Cell(p) = i /\ Cell(q) = j
        BY <1>2, <3>2, PrecedesCells
      <4> DEFINE p2 == IF p < k THEN p ELSE p + 1
                 q2 == IF q < k THEN q ELSE q + 1
      <4>2. p2 \in 1..Size' /\ Cell(p2)' = i /\ q2 \in 1..Size' /\ Cell(q2)' = j
        BY <3>1, <4>1
      <4>3. p2 < q2
        BY <2>5, <4>1
      <4>4. \E u, v \in 1..Size' : u < v /\ Cell(u)' = i /\ Cell(v)' = j
        <5> HIDE DEF p2, q2
        <5> QED  BY <4>2, <4>3
      <4> QED  BY <2>2, <4>4 DEF Precedes
    <3>3. ASSUME NEW i, i \in ToSet(contents[h]) PROVE i \in ToSet(contents'[h])
      <4>1. PICK p \in 1..Size : Cell(p) = i
        BY <1>2, <3>3, PrecedesCells
      <4>2. \E u \in 1..Size' : Cell(u)' = i
        BY <3>1, <4>1
      <4> QED  BY <2>2, <4>2 DEF ToSet
    <3> QED  BY <3>2, <3>3
  <2>15. WalkInv'
    <3> SUFFICES ASSUME walk_pc \in {"each", "ahead", "safe"} PROVE WalkInv'
      BY <1>1 DEF WalkInv
    <3> QED  BY <1>1, <1>2, <2>14 DEF WalkInv, Reaches, UpTo
  <2>16. SharedInv' /\ LockedInv'
    BY <1>1, <1>2, <2>9, <2>10, <2>11, <2>12 DEF SharedInv, LockedInv
  <2> QED  BY <2>2, <2>13, <2>15, <2>16 DEF ListsInv
<1> QED  BY <1>3, <1>4
-----------------------------------------------------------------------------
(***************************************************************************)
(* The walk of a list that grows.                                          *)
(***************************************************************************)
\* From an item the next link goes to the next item, or back to the head.
LEMMA Following ==
  ASSUME ListsInv, use = "growing"
  PROVE  /\ h \notin ToSet(contents[h]) /\ ToSet(contents[h]) \subseteq Nodes
         /\ \A i, j : Precedes(i, j) => i \in ToSet(contents[h]) /\ j \in ToSet(contents[h])
         /\ \A i : Reaches(i) => Reaches(mem.next[i])
         /\ \A i \in ToSet(contents[h]) : mem.next[i] # h => Precedes(i, mem.next[i])
         /\ \A i \in ToSet(contents[h]) : UpTo(mem.next[h], i)
         /\ \A i, j : Precedes(i, j) => UpTo(mem.next[i], j)
         /\ \A i, j, l : Precedes(i, j) /\ Precedes(j, l) => Precedes(i, l)
<1>1. Apart /\ Ahead
  BY DEF ListsInv, Uses, SharedInv
<1>2. /\ Size \in Nat /\ Cell(0) = h /\ Cell(Size + 1) = h /\ h \notin Nodes
      /\ \A k \in 1..Size : Cell(k) \in Nodes
      /\ \A j, k \in 1..(Size + 1) : Cell(j) = Cell(k) => j = k
  BY <1>1, SharedCells
<1>3. \A k \in 0..Size : mem.next[Cell(k)] = Cell(k + 1)
  BY <1>1 DEF Ahead
<1>4. \A i : i \in ToSet(contents[h]) <=> \E k \in 1..Size : Cell(k) = i
  BY <1>1, PrecedesCells
<1>5. \A i, j : Precedes(i, j) <=> \E k, l \in 1..Size : k < l /\ Cell(k) = i /\ Cell(l) = j
  BY <1>1, PrecedesCells
<1>6. h \notin ToSet(contents[h]) /\ ToSet(contents[h]) \subseteq Nodes
  BY <1>2, <1>4
<1>7. \A i, j : Precedes(i, j) => i \in ToSet(contents[h]) /\ j \in ToSet(contents[h])
  BY <1>4, <1>5
<1>8. ASSUME NEW i, Reaches(i) PROVE Reaches(mem.next[i])
  <2>1. PICK k \in 0..Size : Cell(k) = i
    BY <1>2, <1>4, <1>8 DEF Reaches
  <2>2. CASE k = Size
    BY <1>2, <1>3, <2>1, <2>2 DEF Reaches
  <2>3. CASE k < Size
    <3>1. k + 1 \in 1..Size /\ mem.next[i] = Cell(k + 1)
      BY <1>2, <1>3, <2>1, <2>3
    <3> QED  BY <1>4, <3>1 DEF Reaches
  <2> QED  BY <1>2, <2>2, <2>3
<1>9. ASSUME NEW i \in ToSet(contents[h]), mem.next[i] # h PROVE Precedes(i, mem.next[i])
  <2>1. PICK k \in 1..Size : Cell(k) = i
    BY <1>4, <1>9
  <2>2. k \in 0..Size /\ mem.next[i] = Cell(k + 1)
    BY <1>2, <1>3, <2>1
  <2>3. k + 1 \in 1..Size /\ k < k + 1
    BY <1>2, <1>9, <2>2
  <2> QED  BY <1>5, <2>1, <2>2, <2>3
<1>10. ASSUME NEW i, NEW j, NEW k \in 0..Size, NEW l \in 1..Size, k < l, Cell(k) = i, Cell(l) = j
       PROVE  UpTo(mem.next[i], j)
  <2>1. mem.next[i] = Cell(k + 1)
    BY <1>3, <1>10
  <2>2. CASE k + 1 = l
    BY <1>10, <2>1, <2>2 DEF UpTo
  <2>3. CASE k + 1 < l
    <3>1. k + 1 \in 1..Size
      BY <1>2, <2>3
    <3>2. Precedes(Cell(k + 1), j)
      BY <1>5, <1>10, <2>3, <3>1
    <3> QED  BY <2>1, <3>2 DEF UpTo
  <2> QED  BY <1>2, <1>10, <2>2, <2>3
<1>11. ASSUME NEW i \in ToSet(contents[h]) PROVE UpTo(mem.next[h], i)
  <2>1. PICK l \in 1..Size : Cell(l) = i
    BY <1>4, <1>11
  <2>2. 0 \in 0..Size /\ 0 < l
    BY <1>2
  <2> QED  BY <1>2, <1>10, <2>1, <2>2
<1>12. ASSUME NEW i, NEW j, Precedes(i, j) PROVE UpTo(mem.next[i], j)
  <2>1. PICK k \in 1..Size, l \in 1..Size : k < l /\ Cell(k) = i /\ Cell(l) = j
    BY <1>5, <1>12
  <2>2. k \in 0..Size
    BY <1>2
  <2> QED  BY <1>10, <2>1, <2>2
<1>13. ASSUME NEW i, NEW j, NEW l, Precedes(i, j), Precedes(j, l) PROVE Precedes(i, l)
  <2>1. PICK p \in 1..Size, q \in 1..Size : p < q /\ Cell(p) = i /\ Cell(q) = j
    BY <1>5, <1>13
  <2>2. PICK r \in 1..Size, s \in 1..Size : r < s /\ Cell(r) = j /\ Cell(s) = l
    BY <1>5, <1>13
  <2>3. q = r
    <3>1. q \in 1..(Size + 1) /\ r \in 1..(Size + 1)
      BY <1>2
    <3> QED  BY <1>2, <2>1, <2>2, <3>1
  <2>4. p < s
    BY <1>2, <2>1, <2>2, <2>3
  <2> QED  BY <1>5, <2>1, <2>2, <2>4
<1> HIDE DEF Precedes, Reaches, UpTo
<1> QED  BY <1>6, <1>7, <1>8, <1>9, <1>11, <1>12, <1>13

\* The walk reads the list and changes nothing of it.
LEMMA WalkFrame ==
  ASSUME ListsInv, use # "commands", add_pc = "idle" \/ use = "growing",
         UNCHANGED <<use, mem, contents, own, adder, freed, overlapped>>,
         walk_pc' = "idle" \/ (use = "growing" /\ walk_pc' \in {"each", "ahead", "safe"})
  PROVE  /\ Uses' /\ Apart' /\ LockedInv' /\ SharedInv'
         /\ \A i, j : Precedes(i, j)' <=> Precedes(i, j)
         /\ \A i : Reaches(i)' <=> Reaches(i)
         /\ \A i, j : UpTo(i, j)' <=> UpTo(i, j)
<1> USE DEF adder
<1>1. Uses /\ Apart
  BY DEF ListsInv
<1>2. Uses' /\ Apart'
  BY <1>1 DEF Uses, Apart
<1>3. LockedInv'
  BY DEF ListsInv, LockedInv, Holds
<1>4. walk_pc \notin {"next", "unprev", "reload", "unnext"}
  BY <1>1 DEF Uses
<1>5. SharedInv'
  <2>1. Size' = Size /\ \A k : Cell(k)' = Cell(k)
    BY SameCells
  <2>2. CASE use # "locked" /\ ~overlapped
    <3>1. Ahead /\ Behind /\ Adding
      BY <2>2 DEF ListsInv, SharedInv
    <3>2. Ahead' /\ Adding' /\ Behind'
      BY <1>4, <2>1, <3>1 DEF Ahead, Adding, Behind, LinkedBack
    <3>3. PoppingFirst'
      BY DEF PoppingFirst, Popping
    <3> QED  BY <3>2, <3>3 DEF SharedInv
  <2>3. CASE ~(use # "locked" /\ ~overlapped)
    BY <2>3 DEF SharedInv
  <2> QED  BY <2>2, <2>3
<1>6. \A i, j : Precedes(i, j)' <=> Precedes(i, j)
  BY DEF Precedes
<1> QED  BY <1>2, <1>3, <1>5, <1>6 DEF Reaches, UpTo

LEMMA BeginWalkStep ==
  ASSUME ListsInv, BeginWalk
  PROVE  ListsInv'
<1>1. /\ use = "growing" /\ item' = mem.next[h] /\ before' = contents[h] /\ seen' = <<>>
      /\ walk_pc' \in {"each", "ahead"} /\ h \in Heads
      /\ UNCHANGED <<use, mem, contents, own, adder, freed, overlapped>>
  BY ListsAssumption DEF BeginWalk
<1>2. /\ Uses' /\ Apart' /\ LockedInv' /\ SharedInv'
      /\ \A i : Reaches(i)' <=> Reaches(i)
      /\ \A i, j : UpTo(i, j)' <=> UpTo(i, j)
  BY <1>1, WalkFrame
<1>3. Reaches(item')
  BY <1>1, Following DEF Reaches
<1>4. \A i \in ToSet(before') : UpTo(item', i)
  BY <1>1, Following
<1>5. before' \in Seq(Nodes) /\ seen' \in Seq(Nodes) /\ DOMAIN seen' = {}
  BY <1>1 DEF ListsInv, Apart
<1>6. Reaches(item)' /\ \A i \in ToSet(before') : UpTo(item, i)'
  BY <1>1, <1>3, <1>4 DEF Reaches, UpTo, Precedes
<1>7. WalkInv'
  BY <1>1, <1>5, <1>6 DEF WalkInv
<1> QED  BY <1>2, <1>7 DEF ListsInv

\* The item is seen, and the walk goes on to the next.
LEMMA SeenStep ==
  ASSUME ListsInv, use = "growing", item # h, Reaches(item), walk_pc \in {"each", "ahead", "safe"},
         NEW to, Reaches(to), to # h => Precedes(item, to),
         \A i \in ToSet(before) : i \in ToSet(seen) \/ i = item \/ UpTo(to, i),
         seen' = Append(seen, item), item' = to, before' = before, walk_pc' \in {"each", "ahead"},
         UNCHANGED <<use, mem, contents, own, adder, freed, overlapped>>
  PROVE  ListsInv'
<1>1. Uses' /\ Apart' /\ LockedInv' /\ SharedInv'
  BY WalkFrame
<1>2. /\ before \in Seq(Nodes) /\ seen \in Seq(Nodes)
      /\ \A i \in DOMAIN seen : seen[i] \in ToSet(contents[h]) /\ Precedes(seen[i], item)
      /\ \A i, j \in DOMAIN seen : i < j => Precedes(seen[i], seen[j])
  BY DEF ListsInv, WalkInv
<1>3. item \in ToSet(contents[h]) /\ item \in Nodes
  BY Following DEF Reaches
<1>4. \A i, j, l : Precedes(i, j) /\ Precedes(j, l) => Precedes(i, l)
  BY Following
<1>5. /\ seen' \in Seq(Nodes) /\ DOMAIN seen = 1..Len(seen)
      /\ DOMAIN seen' = 1..(Len(seen) + 1) /\ Len(seen) \in Nat
      /\ \A i \in 1..Len(seen) : seen'[i] = seen[i]
      /\ seen'[Len(seen) + 1] = item
  BY <1>2, <1>3
<1>6. \A i \in DOMAIN seen' : seen'[i] \in ToSet(contents[h]) /\ (to # h => Precedes(seen'[i], to))
  <2> TAKE i \in DOMAIN seen'
  <2>1. CASE i \in 1..Len(seen)
    BY <1>2, <1>4, <1>5, <2>1
  <2>2. CASE i = Len(seen) + 1
    BY <1>3, <1>5, <2>2
  <2> QED  BY <1>5, <2>1, <2>2
<1>7. \A i, j \in DOMAIN seen' : i < j => Precedes(seen'[i], seen'[j])
  <2> TAKE i \in DOMAIN seen', j \in DOMAIN seen'
  <2> HAVE i < j
  <2>1. i \in 1..Len(seen)
    BY <1>5
  <2>2. CASE j \in 1..Len(seen)
    BY <1>2, <1>5, <2>1, <2>2
  <2>3. CASE j = Len(seen) + 1
    BY <1>2, <1>5, <2>1, <2>3
  <2> QED  BY <1>5, <2>2, <2>3
<1>8. \A i : i \in ToSet(seen) \/ i = item => i \in ToSet(seen')
  <2>1. \A i : i \in ToSet(seen) => i \in ToSet(seen')
    <3>1. \A k \in DOMAIN seen : k \in DOMAIN seen' /\ seen'[k] = seen[k]
      BY <1>5
    <3> QED  BY <3>1 DEF ToSet
  <2>2. Len(seen) + 1 \in DOMAIN seen'
    BY <1>5
  <2>3. item \in ToSet(seen')
    BY <1>5, <2>2 DEF ToSet
  <2> QED  BY <2>1, <2>3
<1>9. \A i \in ToSet(before') : i \in ToSet(seen') \/ UpTo(to, i)
  BY <1>8
<1>10. /\ \A i, j : Precedes(i, j) => Precedes(i, j)'
       /\ Reaches(to) => Reaches(item)'
       /\ \A i : UpTo(to, i) => UpTo(item, i)'
  BY DEF Precedes, Reaches, UpTo
<1>11. /\ before' \in Seq(Nodes) /\ Reaches(item)'
       /\ \A i \in DOMAIN seen' : /\ seen'[i] \in ToSet(contents'[h])
                                  /\ item' # h => Precedes(seen[i], item)'
       /\ \A i, j \in DOMAIN seen' : i < j => Precedes(seen[i], seen[j])'
       /\ \A i \in ToSet(before') : i \in ToSet(seen') \/ UpTo(item, i)'
  <2>1. \A i \in DOMAIN seen' : item' # h => Precedes(seen[i], item)'
    BY <1>6 DEF Precedes
  <2>2. \A i, j \in DOMAIN seen' : i < j => Precedes(seen[i], seen[j])'
    BY <1>7 DEF Precedes
  <2> QED  BY <1>2, <1>6, <1>9, <1>10, <2>1, <2>2
<1>12. WalkInv'
  BY <1>5, <1>11 DEF WalkInv
<1> QED  BY <1>1, <1>12 DEF ListsInv

LEMMA WalkStep ==
  ASSUME ListsInv, Visit \/ LookAhead \/ VisitSafe \/ WalkDone
  PROVE  ListsInv'
<1>1. Uses /\ WalkInv
  BY DEF ListsInv
<1>2. CASE Visit
  <2>1. /\ walk_pc = "each" /\ item # h /\ seen' = Append(seen, item) /\ item' = mem.next[item]
        /\ UNCHANGED <<use, mem, contents, own, adder, walk_pc, before, freed, overlapped>>
    BY <1>2 DEF Visit
  <2>2. use = "growing" /\ Reaches(item)
    BY <1>1, <2>1 DEF Uses, WalkInv
  <2>3. item \in ToSet(contents[h])
    BY <2>1, <2>2 DEF Reaches
  <2>4. /\ Reaches(mem.next[item]) /\ (mem.next[item] # h => Precedes(item, mem.next[item]))
        /\ \A i : UpTo(item, i) => i = item \/ UpTo(mem.next[item], i)
    BY <2>2, <2>3, Following DEF UpTo
  <2>5. \A i \in ToSet(before) : i \in ToSet(seen) \/ i = item \/ UpTo(mem.next[item], i)
    BY <1>1, <2>1, <2>4 DEF WalkInv
  <2> QED  BY <2>1, <2>2, <2>4, <2>5, SeenStep
<1>3. CASE LookAhead
  <2>1. /\ walk_pc = "ahead" /\ nxt' = mem.next[item] /\ walk_pc' = "safe"
        /\ UNCHANGED <<use, mem, contents, own, adder, item, before, seen, freed, overlapped>>
    BY <1>3 DEF LookAhead
  <2>2. use = "growing" /\ Reaches(item)
    BY <1>1, <2>1 DEF Uses, WalkInv
  <2>3. /\ Uses' /\ Apart' /\ LockedInv' /\ SharedInv'
        /\ \A i, j : Precedes(i, j)' <=> Precedes(i, j)
        /\ \A i : Reaches(i)' <=> Reaches(i)
        /\ \A i, j : UpTo(i, j)' <=> UpTo(i, j)
    BY <2>1, <2>2, WalkFrame
  <2>4. ASSUME item # h
        PROVE  /\ Reaches(nxt') /\ (nxt' # h => Precedes(item, nxt'))
               /\ \A i \in ToSet(before) : i \in ToSet(seen) \/ i = item \/ UpTo(nxt', i)
    <3>1. item \in ToSet(contents[h])
      BY <2>2, <2>4 DEF Reaches
    <3>2. \A i : UpTo(item, i) => i = item \/ UpTo(nxt', i)
      BY <2>1, <2>2, Following DEF UpTo
    <3> QED  BY <1>1, <2>1, <2>2, <3>1, <3>2, Following DEF WalkInv
  <2>5. item' # h => /\ Reaches(nxt)' /\ (nxt' # h => Precedes(item, nxt)')
                     /\ \A i \in ToSet(before') : i \in ToSet(seen') \/ i = item' \/ UpTo(nxt, i)'
    BY <2>1, <2>4 DEF Reaches, Precedes, UpTo
  <2>6. /\ before' \in Seq(Nodes) /\ seen' \in Seq(Nodes) /\ Reaches(item)'
        /\ \A i \in DOMAIN seen' : /\ seen'[i] \in ToSet(contents'[h])
                                   /\ item' # h => Precedes(seen[i], item)'
        /\ \A i, j \in DOMAIN seen' : i < j => Precedes(seen[i], seen[j])'
        /\ \A i \in ToSet(before') : i \in ToSet(seen') \/ UpTo(item, i)'
    BY <1>1, <2>1 DEF WalkInv, Reaches, Precedes, UpTo
  <2>7. WalkInv'
    BY <2>5, <2>6 DEF WalkInv
  <2> QED  BY <2>3, <2>7 DEF ListsInv
<1>4. CASE VisitSafe
  <2>1. /\ walk_pc = "safe" /\ item # h /\ seen' = Append(seen, item) /\ item' = nxt
        /\ walk_pc' = "ahead"
        /\ UNCHANGED <<use, mem, contents, own, adder, before, freed, overlapped>>
    BY <1>4 DEF VisitSafe
  <2>2. /\ use = "growing" /\ Reaches(item) /\ Reaches(nxt) /\ (nxt # h => Precedes(item, nxt))
        /\ \A i \in ToSet(before) : i \in ToSet(seen) \/ i = item \/ UpTo(nxt, i)
    BY <1>1, <2>1 DEF Uses, WalkInv
  <2> QED  BY <2>1, <2>2, SeenStep
<1>5. CASE WalkDone
  <2>1. /\ walk_pc \in {"pass", "each", "safe"} /\ walk_pc' = "idle"
        /\ UNCHANGED <<use, mem, contents, own, adder, freed, overlapped>>
    BY <1>5 DEF WalkDone
  <2>2. use # "commands" /\ (add_pc = "idle" \/ use = "growing")
    BY <1>1, <2>1 DEF Uses
  <2>3. Uses' /\ Apart' /\ LockedInv' /\ SharedInv'
    BY <2>1, <2>2, WalkFrame
  <2>4. WalkInv'
    BY <2>1 DEF WalkInv
  <2> QED  BY <2>3, <2>4 DEF ListsInv
<1> QED  BY <1>2, <1>3, <1>4, <1>5
-----------------------------------------------------------------------------
(***************************************************************************)
(* Popping a command.                                                      *)
(***************************************************************************)
\* A pop has the list to itself, but for the head's link backwards.
LEMMA PopFrame ==
  ASSUME ListsInv, use = "commands", UNCHANGED <<use, own, adder>>, Apart',
         walk_pc' \in {"idle", "next", "unprev", "reload", "unnext"},
         \A x \in Heads \ {h} : contents'[x] = contents[x],
         ~overlapped' => mem' \in Links /\ Ahead' /\ Behind' /\ Adding' /\ PoppingFirst'
  PROVE  ListsInv'
<1>1. Uses
  BY DEF ListsInv
<1>2. Uses'
  BY <1>1 DEF Uses, adder
<1>3. LockedInv' /\ SharedInv' /\ WalkInv'
  BY DEF LockedInv, SharedInv, WalkInv
<1> QED  BY <1>2, <1>3 DEF ListsInv

\* The first command, while it is popped: what is linked to it and after it.
LEMMA FirstCommand ==
  ASSUME ListsInv, use = "commands", ~overlapped
  PROVE  /\ mem.next[h] # h => Size > 0 /\ mem.next[h] = Cell(1)
         /\ Size > 0 => mem.next[Cell(1)] = Cell(2) /\ mem.prev[Cell(1)] = h
         /\ add_pc = "prev" => /\ \E k \in 1..Size : Cell(k) = node
                               /\ Size > 1 => Cell(1) # node
<1>1. Apart /\ Ahead /\ Behind /\ Adding
  BY DEF ListsInv, SharedInv
<1>2. /\ Size \in Nat /\ Cell(0) = h /\ Cell(Size + 1) = h /\ h \notin Nodes
      /\ \A k \in 1..Size : Cell(k) \in Nodes
      /\ \A k \in 1..Size : Cell(k) # h
  BY <1>1, SharedCells
<1>3. mem.next[h] = Cell(1)
  <2>1. 0 \in 0..Size /\ 0 + 1 = 1
    BY <1>2
  <2> QED  BY <1>1, <1>2, <2>1 DEF Ahead
<1>4. Size = 0 => Cell(1) = h
  BY <1>2
<1>5. ASSUME Size > 0 PROVE mem.next[Cell(1)] = Cell(2) /\ mem.prev[Cell(1)] = h
  <2>1. 0 \in 0..Size /\ 0 + 1 = 1 /\ 1 \in 0..Size /\ 1 + 1 = 2
    BY <1>2, <1>5
  <2>2. mem.next[Cell(1)] = Cell(2)
    BY <1>1, <2>1 DEF Ahead
  <2>3. LinkedBack(0)
    BY <1>1, <2>1 DEF Behind
  <2>4. ~(add_pc = "prev" /\ Cell(0) = node)
    BY <1>1, <1>2 DEF Adding
  <2> QED  BY <1>2, <2>1, <2>2, <2>3, <2>4 DEF LinkedBack
<1>6. ASSUME add_pc = "prev", Size > 1 PROVE Cell(1) # node
  <2>1. place = h
    BY <1>1, <1>6 DEF Adding
  <2>2. 1 \in 0..Size /\ 1 + 1 = 2 /\ 2 \in 1..Size
    BY <1>2, <1>6
  <2>3. LinkedBack(1)
    BY <1>1, <2>2 DEF Behind
  <2> QED  BY <1>2, <1>6, <2>1, <2>2, <2>3 DEF LinkedBack
<1> QED  BY <1>1, <1>2, <1>3, <1>4, <1>5, <1>6 DEF Adding

\* The steps that only read: the first command is picked, and its next link is
\* loaded twice.
LEMMA PopReadStep ==
  ASSUME ListsInv, have_command \/ LoadNext \/ ReloadNext
  PROVE  ListsInv'
<1>1. /\ use = "commands" /\ UNCHANGED <<use, mem, contents, own, adder, freed>>
      /\ overlapped => overlapped'
  <2>1. Uses
    BY DEF ListsInv
  <2>2. CASE have_command
    BY <2>2 DEF have_command
  <2>3. CASE LoadNext
    BY <2>1, <2>3 DEF LoadNext, Uses
  <2>4. CASE ReloadNext
    BY <2>1, <2>4 DEF ReloadNext, Uses
  <2> QED  BY <2>2, <2>3, <2>4
<1>2. Apart'
  BY <1>1 DEF ListsInv, Apart
<1>3. walk_pc' \in {"idle", "next", "unprev", "reload", "unnext"}
  BY DEF have_command, LoadNext, ReloadNext
<1>4. ASSUME ~overlapped'
      PROVE  mem' \in Links /\ Ahead' /\ Behind' /\ Adding' /\ PoppingFirst'
  <2>1. /\ ~overlapped /\ mem \in Links /\ Ahead /\ Behind /\ Adding /\ PoppingFirst /\ Apart
    BY <1>1, <1>4 DEF ListsInv, Uses, SharedInv
  <2>2. Size' = Size /\ \A k : Cell(k)' = Cell(k)
    BY <1>1, SameCells
  <2>3. /\ mem.next[h] # h => Size > 0 /\ mem.next[h] = Cell(1)
        /\ Size > 0 => mem.next[Cell(1)] = Cell(2)
    BY <1>1, <2>1, FirstCommand
  <2>4. Ahead' /\ Adding'
    BY <1>1, <2>1, <2>2 DEF Ahead, Adding, adder
  <2>5. walk_pc' \in {"reload", "unnext"} <=> walk_pc \in {"reload", "unnext"}
    BY DEF have_command, LoadNext, ReloadNext
  <2>6. Behind'
    BY <1>1, <2>1, <2>2, <2>5 DEF Behind, LinkedBack, adder
  <2>7. PoppingFirst'
    <3>1. CASE have_command
      BY <2>2, <2>3, <3>1 DEF have_command, list_empty, PoppingFirst, Popping
    <3>2. CASE LoadNext
      <4>1. /\ walk_pc = "next" /\ walk_pc' = "unprev" /\ nxt' = mem.next[item]
            /\ UNCHANGED <<item, add_pc>> /\ (add_pc # "idle" => nxt' # h)
        BY <1>4, <3>2 DEF LoadNext, adder
      <4>2. Size > 0 /\ item = Cell(1) /\ nxt' = Cell(2)
        BY <2>1, <2>3, <4>1 DEF PoppingFirst, Popping
      <4>3. Size = 1 => Cell(2) = h
        BY <2>1, SharedCells
      <4> QED  BY <2>2, <4>1, <4>2, <4>3 DEF PoppingFirst, Popping
    <3>3. CASE ReloadNext
      <4>1. /\ walk_pc = "reload" /\ walk_pc' = "unnext" /\ nxt' = mem.next[item]
            /\ UNCHANGED <<item, add_pc>>
        BY <3>3 DEF ReloadNext, adder
      <4>2. Size > 0 /\ item = Cell(1) /\ nxt' = Cell(2) /\ (Size = 1 => add_pc = "idle")
        BY <2>1, <2>3, <4>1 DEF PoppingFirst, Popping
      <4> QED  BY <2>2, <4>1, <4>2 DEF PoppingFirst, Popping
    <3> QED  BY <3>1, <3>2, <3>3
  <2> QED  BY <1>1, <2>1, <2>4, <2>6, <2>7
<1> QED  BY <1>1, <1>2, <1>3, <1>4, PopFrame

LEMMA UnlinkPrevStep ==
  ASSUME ListsInv, UnlinkPrev
  PROVE  ListsInv'
<1>1. /\ walk_pc = "unprev" /\ mem' = [mem EXCEPT !.prev[nxt] = mem.prev[item]]
      /\ walk_pc' = "reload" /\ use = "commands"
      /\ UNCHANGED <<use, contents, own, adder, item, freed, overlapped>>
  <2>1. Uses
    BY DEF ListsInv
  <2> QED  BY <2>1 DEF UnlinkPrev, Uses
<1>2. Apart'
  BY <1>1 DEF ListsInv, Apart
<1>3. ASSUME ~overlapped
      PROVE  mem' \in Links /\ Ahead' /\ Behind' /\ Adding' /\ PoppingFirst'
  <2>1. mem \in Links /\ Ahead /\ Behind /\ Adding /\ PoppingFirst /\ Apart
    BY <1>1, <1>3 DEF ListsInv, Uses, SharedInv
  <2>2. Size' = Size /\ \A k : Cell(k)' = Cell(k)
    BY <1>1, SameCells
  <2>3. /\ Size > 0 /\ item = Cell(1) /\ nxt = Cell(2) /\ (Size = 1 => add_pc = "idle")
    BY <1>1, <2>1 DEF PoppingFirst, Popping
  <2>4. mem.prev[item] = h
    BY <1>1, <1>3, <2>3, FirstCommand
  <2>5. /\ Size \in Nat /\ h \in Cells /\ h \notin Nodes
        /\ \A k \in Int : Cell(k) \in Cells
        /\ \A j, k \in 1..(Size + 1) : Cell(j) = Cell(k) => j = k
        /\ \A k \in Int : k \notin 1..Size => Cell(k) = h
    BY <2>1, SharedCells
  <2>6. /\ mem' \in Links /\ mem'.next = mem.next
        /\ \A c \in Cells : mem'.prev[c] = IF c = Cell(2) THEN h ELSE mem.prev[c]
    BY <1>1, <2>1, <2>3, <2>4, <2>5 DEF Links
  <2>7. Ahead' /\ PoppingFirst'
    BY <1>1, <2>1, <2>2, <2>3, <2>6 DEF Ahead, PoppingFirst, Popping, adder
  <2>8. ASSUME NEW j \in 0..Size PROVE LinkedBack(j)'
    <3>1. LinkedBack(j) /\ j + 1 \in 1..(Size + 1) /\ Cell(j + 1) \in Cells
      BY <2>1, <2>5 DEF Behind
    <3>2. CASE j = 1
      <4>1. mem'.prev[Cell(j + 1)] = h
        BY <2>6, <3>1, <3>2
      <4>2. CASE add_pc = "prev" /\ Cell(j) = node
        BY <1>1, <2>2, <3>1, <4>2 DEF LinkedBack, adder
      <4>3. CASE ~(add_pc = "prev" /\ Cell(j) = node)
        BY <1>1, <2>2, <3>2, <4>1, <4>3 DEF LinkedBack, adder
      <4> QED  BY <4>2, <4>3
    <3>3. CASE j # 1
      <4>1. Cell(j + 1) # Cell(2)
        <5>1. 2 \in 1..(Size + 1) /\ j + 1 # 2
          BY <2>3, <2>5, <3>3
        <5> QED  BY <2>5, <3>1, <5>1
      <4>2. mem'.prev[Cell(j + 1)] = mem.prev[Cell(j + 1)]
        BY <2>6, <3>1, <4>1
      <4> QED  BY <1>1, <2>2, <3>1, <3>3, <4>2 DEF LinkedBack, adder
    <3> QED  BY <3>2, <3>3
  <2>9. Adding'
    <3>1. add_pc \in {"load", "next"} => mem'.prev[node] = mem.prev[node]
      <4> SUFFICES ASSUME add_pc \in {"load", "next"} PROVE mem'.prev[node] = mem.prev[node]
        OBVIOUS
      <4>1. node \in Nodes /\ \A k \in 1..Size : Cell(k) # node
        BY <2>1 DEF Adding
      <4>2. node \in Cells /\ Cell(2) # node
        BY <2>5, <4>1 DEF Cells
      <4> QED  BY <2>6, <4>2
    <3> QED  BY <1>1, <2>1, <2>2, <2>6, <3>1 DEF Adding, adder
  <2> QED  BY <2>2, <2>6, <2>7, <2>8, <2>9 DEF Behind
<1> QED  BY <1>1, <1>2, <1>3, PopFrame

\* The command is off the list, and what follows it comes one place earlier.
LEMMA UnlinkNextCells ==
  ASSUME ListsInv, UnlinkNext, ~overlapped
  PROVE  /\ Size > 0 /\ Size' = Size - 1 /\ Cell(0)' = h
         /\ \A j \in 1..Size : Cell(j)' = Cell(j + 1)
         /\ Apart'
         /\ \A x \in Heads \ {h} : contents'[x] = contents[x]
<1>1. /\ walk_pc = "unnext" /\ UNCHANGED <<use, own>>
      /\ contents' = With(h, Tail(contents[h]))
  BY DEF UnlinkNext
<1>2. Apart /\ Uses /\ use = "commands"
  BY <1>1 DEF ListsInv, Uses
<1>3. Size > 0
  BY <1>1, <1>2 DEF ListsInv, SharedInv, PoppingFirst, Popping
<1>4. /\ contents[h] \in Seq(Nodes) /\ Size \in Nat /\ h \in Heads
      /\ Cell(Size + 1) = h /\ Size = Len(contents[h])
      /\ \A k \in 1..Size : Cell(k) = contents[h][k]
  BY <1>2, SharedCells DEF Size
<1> DEFINE rest == Tail(contents[h])
<1>5. /\ rest \in Seq(Nodes) /\ Len(rest) = Size - 1 /\ DOMAIN rest = 1..(Size - 1)
      /\ \A j \in 1..(Size - 1) : rest[j] = contents[h][j + 1]
  <2>1. contents[h] # <<>>
    BY <1>3, <1>4
  <2> QED  BY <1>3, <1>4, <2>1
<1> HIDE DEF rest
<1>6. /\ contents' \in [Heads -> Seq(Nodes)] /\ contents'[h] = rest
      /\ \A x \in Heads \ {h} : contents'[x] = contents[x] /\ contents[x] = <<>>
  BY <1>1, <1>2, <1>4, <1>5 DEF Apart, Uses, With, rest
<1>7. Size' = Size - 1
  BY <1>5, <1>6 DEF Size
<1>8. \A j : Cell(j)' = IF j \in 1..(Size - 1) THEN rest[j] ELSE h
  BY <1>5, <1>6 DEF Cell, At
<1>9. ASSUME NEW j \in 1..Size PROVE Cell(j)' = Cell(j + 1)
  <2>1. CASE j = Size
    BY <1>4, <1>8, <2>1
  <2>2. CASE j # Size
    <3>1. j \in 1..(Size - 1) /\ j + 1 \in 1..Size
      BY <1>4, <2>2
    <3> QED  BY <1>4, <1>5, <1>8, <3>1
  <2> QED  BY <2>1, <2>2
<1>10. Cell(0)' = h
  BY <1>4, <1>8
<1>11. Apart'
  <2>1. ASSUME NEW i \in 1..(Size - 1), NEW j \in 1..(Size - 1), rest[i] = rest[j]
        PROVE  i = j
    <3>1. i + 1 \in DOMAIN contents[h] /\ j + 1 \in DOMAIN contents[h]
      BY <1>4
    <3>2. i + 1 = j + 1
      <4>1. contents[h][i + 1] = contents[h][j + 1]
        BY ONLY <1>5, <2>1
      <4> QED  BY ONLY <1>2, <1>4, <3>1, <4>1 DEF Apart
    <3> QED  BY <3>2
  <2>2. ASSUME NEW x \in Heads, NEW y \in Heads, NEW i \in DOMAIN contents'[x],
               NEW j \in DOMAIN contents'[y], contents'[x][i] = contents'[y][j]
        PROVE  x = y /\ i = j
    <3>1. x = h /\ y = h
      BY <1>6
    <3> QED  BY <1>5, <1>6, <2>1, <2>2, <3>1
  <2>3. own' = {}
    BY <1>1, <1>2 DEF Uses
  <2> QED  BY <1>6, <2>2, <2>3 DEF Apart
<1> QED  BY <1>3, <1>6, <1>7, <1>9, <1>10, <1>11

LEMMA UnlinkNextStep ==
  ASSUME ListsInv, UnlinkNext
  PROVE  ListsInv'
<1>1. /\ walk_pc = "unnext" /\ mem' = [mem EXCEPT !.next[mem.prev[item]] = nxt]
      /\ freed' = freed \cup {item} /\ walk_pc' = "idle" /\ use = "commands"
      /\ UNCHANGED <<use, own, adder, overlapped>> /\ (overlapped => contents' = contents)
  <2>1. Uses
    BY DEF ListsInv
  <2> QED  BY <2>1 DEF UnlinkNext, Uses
<1>2. CASE overlapped
  <2>1. Apart'
    BY <1>1, <1>2 DEF ListsInv, Apart
  <2> QED  BY <1>1, <1>2, <2>1, PopFrame
<1>3. CASE ~overlapped
  <2>1. mem \in Links /\ Ahead /\ Behind /\ Adding /\ PoppingFirst /\ Apart
    BY <1>1, <1>3 DEF ListsInv, Uses, SharedInv
  <2>2. /\ Size > 0 /\ Size' = Size - 1 /\ Cell(0)' = h
        /\ \A j \in 1..Size : Cell(j)' = Cell(j + 1)
        /\ Apart'
        /\ \A x \in Heads \ {h} : contents'[x] = contents[x]
    BY <1>3, UnlinkNextCells
  <2>3. item = Cell(1) /\ nxt = Cell(2) /\ (Size = 1 => add_pc = "idle")
    BY <1>1, <2>1 DEF PoppingFirst, Popping
  <2>4. /\ mem.prev[item] = h /\ mem.next[Cell(1)] = Cell(2)
        /\ add_pc = "prev" => /\ \E k \in 1..Size : Cell(k) = node
                              /\ Size > 1 => Cell(1) # node
    BY <1>1, <1>3, <2>2, <2>3, FirstCommand
  <2>5. /\ Size \in Nat /\ h \in Cells /\ h \notin Nodes /\ Cell(0) = h /\ Cell(Size + 1) = h
        /\ \A k \in Int : Cell(k) \in Cells
        /\ \A k \in 1..Size : Cell(k) \in Nodes
        /\ \A j, k \in 1..(Size + 1) : Cell(j) = Cell(k) => j = k
    BY <2>1, SharedCells
  <2>6. /\ mem' \in Links /\ mem'.prev = mem.prev
        /\ \A c \in Cells : mem'.next[c] = IF c = h THEN Cell(2) ELSE mem.next[c]
    BY <1>1, <2>1, <2>3, <2>4, <2>5 DEF Links
  <2>7. Ahead'
    <3>1. ASSUME NEW k \in 1..(Size - 1) PROVE Cell(k)' \notin freed'
      <4>1. k \in 1..Size /\ k + 1 \in 1..Size /\ k + 1 \in 1..(Size + 1) /\ 1 \in 1..(Size + 1)
            /\ k + 1 # 1
        BY <2>5
      <4>2. Cell(k + 1) # Cell(1) /\ Cell(k + 1) \notin freed
        BY <2>1, <2>5, <4>1 DEF Ahead
      <4> QED  BY <1>1, <2>2, <2>3, <4>1, <4>2
    <3>2. ASSUME NEW k \in 0..(Size - 1) PROVE mem'.next[Cell(k)'] = Cell(k + 1)'
      <4>1. k + 1 \in 1..Size /\ (k + 1) + 1 = k + 2 /\ k + 1 \in 0..Size
        BY <2>5
      <4>2. Cell(k + 1)' = Cell(k + 2)
        BY <2>2, <4>1
      <4>3. CASE k = 0
        BY <2>2, <2>5, <2>6, <4>2, <4>3
      <4>4. CASE k # 0
        <5>1. Cell(k)' = Cell(k + 1)
          BY <2>2, <2>5, <4>4
        <5>2. Cell(k + 1) # h /\ Cell(k + 1) \in Cells
          BY <2>5, <4>1
        <5>3. mem.next[Cell(k + 1)] = Cell(k + 2)
          BY <2>1, <4>1 DEF Ahead
        <5> QED  BY <2>6, <4>2, <5>1, <5>2, <5>3
      <4> QED  BY <4>3, <4>4
    <3>3. freed' \subseteq Nodes
      <4>1. 1 \in 1..Size
        BY <2>2, <2>5
      <4> QED  BY <1>1, <2>1, <2>3, <2>5, <4>1 DEF Ahead
    <3> QED  BY <2>2, <3>1, <3>2, <3>3 DEF Ahead
  <2>8. ASSUME NEW j \in 0..(Size - 1) PROVE LinkedBack(j)'
    <3>1. /\ j + 1 \in 0..Size /\ j + 1 \in 1..Size /\ (j + 1) + 1 = j + 2
          /\ Cell(j + 1)' = Cell(j + 2)
      <4>1. j + 1 \in 0..Size /\ j + 1 \in 1..Size /\ (j + 1) + 1 = j + 2
        BY <2>5
      <4> QED  BY <2>2, <4>1
    <3>2. LinkedBack(j + 1)
      BY <2>1, <3>1 DEF Behind
    <3>3. CASE j = 0
      <4>1. ~(add_pc = "prev" /\ Cell(1) = node)
        BY <2>2, <2>3, <2>4, <2>5
      <4>2. mem.prev[Cell(2)] = h
        BY <1>1, <3>1, <3>2, <3>3, <4>1 DEF LinkedBack
      <4>3. add_pc = "prev" => node # h
        BY <2>4, <2>5
      <4> QED  BY <1>1, <2>2, <2>6, <3>1, <3>3, <4>2, <4>3 DEF LinkedBack, adder
    <3>4. CASE j # 0
      <4>1. Cell(j)' = Cell(j + 1)
        BY <2>2, <2>5, <3>4
      <4>2. j + 1 # 1
        BY <3>4
      <4> QED  BY <1>1, <2>6, <3>1, <3>2, <4>1, <4>2 DEF LinkedBack, adder
    <3> QED  BY <3>3, <3>4
  <2>9. Adding'
    <3>1. ASSUME add_pc \in {"load", "next"}
          PROVE  /\ node \in Nodes \ freed'
                 /\ \A k \in 1..Size' : Cell(k)' # node
                 /\ mem'.next[node] = place
                 /\ \E k \in 1..(Size' + 1) :
                      /\ place = Cell(k)' /\ mem'.prev[node] = Cell(k - 1)'
                      /\ add_pc = "next" => link = Cell(k - 1)'
      <4>1. /\ node \in Nodes \ freed /\ \A k \in 1..Size : Cell(k) # node
            /\ mem.next[node] = place /\ place = h /\ Size > 1
        BY <1>1, <2>1, <2>2, <2>3, <2>5, <3>1 DEF Adding
      <4>2. PICK k \in 1..(Size + 1) :
              /\ place = Cell(k) /\ mem.prev[node] = Cell(k - 1)
              /\ add_pc = "next" => link = Cell(k - 1)
        BY <2>1, <3>1 DEF Adding
      <4>3. k = Size + 1
        <5>1. Size + 1 \in 1..(Size + 1)
          BY <2>5
        <5> QED  BY <2>5, <4>1, <4>2, <5>1
      <4>4. 1 \in 1..Size /\ node # h /\ node \in Cells
        BY <2>5, <4>1 DEF Cells
      <4>5. node \in Nodes \ freed' /\ mem'.next[node] = place
        BY <1>1, <2>3, <2>6, <4>1, <4>4
      <4>6. ASSUME NEW i \in 1..Size' PROVE Cell(i)' # node
        <5>1. i \in 1..Size /\ i + 1 \in 1..Size
          BY <2>2, <2>5
        <5> QED  BY <2>2, <4>1, <5>1
      <4>7. /\ k - 1 \in 1..Size /\ k - 2 \in 1..Size /\ k - 1 \in 1..(Size' + 1)
            /\ (k - 1) + 1 = k /\ (k - 2) + 1 = k - 1 /\ (k - 1) - 1 = k - 2
        BY <2>2, <2>5, <4>1, <4>3
      <4>8. Cell(k - 1)' = place /\ Cell((k - 1) - 1)' = Cell(k - 1)
        <5>1. Cell(k - 1)' = Cell(k) /\ Cell(k - 2)' = Cell(k - 1)
          BY <2>2, <4>7
        <5> QED  BY <4>2, <4>7, <5>1
      <4>9. /\ mem'.prev[node] = Cell((k - 1) - 1)'
            /\ add_pc = "next" => link = Cell((k - 1) - 1)'
        BY <2>6, <4>2, <4>8
      <4> QED  BY <4>5, <4>6, <4>7, <4>8, <4>9
    <3>2. ASSUME add_pc = "prev" PROVE \E k \in 1..Size' : Cell(k)' = node
      <4>1. PICK k \in 1..Size : Cell(k) = node
        BY <2>4, <3>2
      <4>2. k # 1
        BY <2>2, <2>3, <2>4, <2>5, <3>2, <4>1
      <4>3. k - 1 \in 1..Size' /\ k - 1 \in 1..Size /\ (k - 1) + 1 = k
        BY <2>2, <2>5, <4>2
      <4> QED  BY <2>2, <4>1, <4>3
    <3>3. add_pc # "idle" => place = h
      BY <1>1, <2>1 DEF Adding
    <3> QED  BY <1>1, <3>1, <3>2, <3>3 DEF Adding, adder
  <2>10. PoppingFirst'
    BY <1>1 DEF PoppingFirst, Popping
  <2>11. Behind'
    BY <2>2, <2>8 DEF Behind
  <2> QED  BY <1>1, <2>2, <2>6, <2>7, <2>9, <2>10, <2>11, PopFrame
<1> QED  BY <1>2, <1>3
-----------------------------------------------------------------------------
(***************************************************************************)
(* The invariant, and what follows from it.                                *)
(***************************************************************************)
LEMMA InitLists == Init => ListsInv
<1> SUFFICES ASSUME Init PROVE ListsInv
  OBVIOUS
<1>1. /\ use \in {"locked", "growing", "commands"} /\ own = {} /\ freed = Nodes
      /\ contents = [x \in Heads |-> <<>>]
      /\ add_pc = "idle" /\ walk_pc = "idle" /\ overlapped = FALSE
      /\ mem = [next |-> [c \in Cells |-> IF c \in Heads THEN c ELSE NoNode],
                prev |-> [c \in Cells |-> IF c \in Heads THEN c ELSE NoNode]]
  BY DEF Init
<1>2. /\ mem \in Links
      /\ \A x \in Heads : mem.next[x] = x /\ mem.prev[x] = x
  <2>1. \A c \in Cells : c \in Heads => c \in Cells \cup {NoNode}
    OBVIOUS
  <2> QED  BY <1>1, <2>1 DEF Links, Cells
<1>3. Uses
  BY <1>1, <1>2 DEF Uses
<1>4. Apart
  BY <1>1 DEF Apart
<1>5. LockedInv
  <2>1. ASSUME NEW x \in Heads PROVE Holds(x)
    <3>1. contents[x] = <<>> /\ Len(contents[x]) = 0 /\ \A k : At(x, contents[x], k) = x
      BY <1>1 DEF At
    <3> QED
      BY <1>2, <3>1 DEF Holds, list_check, list_check_node, list_for_each, list_for_each_rev
  <2> QED  BY <1>1, <2>1 DEF LockedInv
<1>6. SharedInv
  <2>1. h \in Heads /\ Size = 0 /\ \A k : Cell(k) = h
    BY <1>1, ListsAssumption DEF Size, Cell, At
  <2> QED  BY <1>1, <1>2, <2>1 DEF SharedInv, Ahead, Behind, LinkedBack, Adding, PoppingFirst, Popping
<1>7. WalkInv
  BY <1>1 DEF WalkInv
<1> QED  BY <1>3, <1>4, <1>5, <1>6, <1>7 DEF ListsInv

\* What depends on the variables only stays when they do.
LEMMA SameState ==
  ASSUME ListsInv, UNCHANGED vars
  PROVE  ListsInv'
<1> USE DEF vars, adder, walker
<1>1. Uses' /\ Apart' /\ LockedInv'
  BY DEF ListsInv, Uses, Apart, LockedInv, Holds, Passing
<1>2. Size' = Size /\ \A k : Cell(k)' = Cell(k)
  BY SameCells
<1>3. SharedInv'
  BY <1>2 DEF ListsInv, SharedInv, Ahead, Behind, LinkedBack, Adding, PoppingFirst, Popping
<1>4. WalkInv'
  BY WalkUnchanged DEF ListsInv
<1> QED  BY <1>1, <1>3, <1>4 DEF ListsInv

LEMMA NextLists == ListsInv /\ [Next]_vars => ListsInv'
<1> SUFFICES ASSUME ListsInv, [Next]_vars PROVE ListsInv'
  OBVIOUS
<1>1. CASE AddEnds \/ AddBeside
  BY <1>1, AddStep
<1>2. CASE Delete \/ DeleteAgain \/ Swap \/ \E x \in Heads : list_pop(x)
  BY <1>2, DeleteStep
<1>3. CASE Join
  BY <1>3, JoinStep
<1>4. CASE BeginPass
  BY <1>4, BeginPassStep
<1>5. CASE PassItem
  BY <1>5, PassItemStep
<1>6. CASE \E n \in Nodes : push_command(n) \/ \E p \in Cells : BeginAdd(n, p)
  BY <1>6, LinkStep
<1>7. CASE FinishAdd
  BY <1>7, LoadPrevStep, StoreNextStep, StorePrevStep DEF FinishAdd
<1>8. CASE BeginWalk
  BY <1>8, BeginWalkStep
<1>9. CASE Visit \/ LookAhead \/ VisitSafe \/ WalkDone
  BY <1>9, WalkStep
<1>10. CASE pop_command
  BY <1>10, PopReadStep, UnlinkPrevStep, UnlinkNextStep DEF pop_command
<1>11. CASE UNCHANGED vars
  BY <1>11, SameState
<1> QED
  BY <1>1, <1>2, <1>3, <1>4, <1>5, <1>6, <1>7, <1>8, <1>9, <1>10, <1>11 DEF Next, Locked

\* Who is where, that the lists keep apart, the links of h in each use, and how
\* far a walk of it has got: an invariant that every step of the three uses keeps
\* (list.h:177-691, runtime.c:365-380, cw_LEDSTRIP.c:40 and 127).
THEOREM ListsInvariant == Spec => []ListsInv
<1> QED  BY InitLists, NextLists, PTL DEF Spec

LEMMA SequencesFollow == ListsInv => ListsAreSequences
<1> SUFFICES ASSUME ListsInv, use = "locked" PROVE ListsAreSequences
  BY DEF ListsAreSequences
<1>1. /\ \A x \in Heads : Holds(x)
      /\ \A n \in own : list_check_node(mem, n, <<>>)
      /\ walk_pc = "pass" => Passing
      /\ Apart
  BY DEF ListsInv, LockedInv
<1>2. ASSUME NEW x \in Heads
      PROVE  /\ contents[x] \in Seq(Nodes) /\ Len(contents[x]) \in Nat
             /\ \A k \in 1..Len(contents[x]) : /\ At(x, contents[x], k) = contents[x][k]
                                               /\ contents[x][k] # x
             /\ At(x, contents[x], 0) = x
             /\ At(x, contents[x], Len(contents[x]) + 1) = x
             /\ \A k \in 0..Len(contents[x]) :
                  /\ mem.next[At(x, contents[x], k)] = At(x, contents[x], k + 1)
                  /\ mem.prev[At(x, contents[x], k + 1)] = At(x, contents[x], k)
  <2>1. contents[x] \in Seq(Nodes) /\ x \notin Nodes
    BY <1>1, ListsAssumption DEF Apart
  <2>2. Holds(x)
    BY <1>1
  <2>3. \A k \in 1..Len(contents[x]) : contents[x][k] \in Nodes
    BY <2>1
  <2>4. /\ \A k \in 1..Len(contents[x]) : At(x, contents[x], k) = contents[x][k]
        /\ At(x, contents[x], 0) = x /\ At(x, contents[x], Len(contents[x]) + 1) = x
    BY <2>1 DEF At
  <2> QED  BY <2>1, <2>2, <2>3, <2>4
           DEF Holds, list_check, list_check_node, list_for_each, list_for_each_rev
<1>3. ASSUME NEW x \in Heads, contents[x] # <<>>
      PROVE  list_top(mem, x) = Head(contents[x]) /\ list_tail(mem, x) = Last(contents[x])
  <2> DEFINE s == contents[x]
  <2>1. Len(s) \in 1..Len(s) /\ 1 \in 1..Len(s) /\ 0 \in 0..Len(s) /\ Len(s) \in 0..Len(s)
    BY <1>2, <1>3
  <2>2. /\ mem.next[At(x, s, 0)] = At(x, s, 0 + 1)
        /\ mem.prev[At(x, s, Len(s) + 1)] = At(x, s, Len(s))
    BY <1>2, <2>1
  <2>3. mem.next[x] = s[1] /\ s[1] # x /\ mem.prev[x] = s[Len(s)]
    BY <1>2, <2>1, <2>2
  <2>4. Head(s) = s[1] /\ Last(s) = s[Len(s)]
    BY <1>2, <1>3 DEF Last
  <2> QED  BY <2>3, <2>4 DEF list_top, list_tail, list_empty
<1>4. ASSUME NEW x \in Heads, NEW k \in 1..(Len(contents[x]) - 1)
      PROVE  /\ list_next(mem, x, contents[x][k]) = contents[x][k + 1]
             /\ list_prev(mem, x, contents[x][k + 1]) = contents[x][k]
  <2>1. k \in 0..Len(contents[x]) /\ k \in 1..Len(contents[x]) /\ k + 1 \in 1..Len(contents[x])
    BY <1>2
  <2>2. /\ mem.next[contents[x][k]] = contents[x][k + 1] /\ contents[x][k + 1] # x
        /\ mem.prev[contents[x][k + 1]] = contents[x][k] /\ contents[x][k] # x
    BY <1>2, <2>1
  <2> QED  BY <2>2 DEF list_next, list_prev
<1>5. ASSUME walk_pc = "pass"
      PROVE  IF item = h THEN seen = before ELSE IsPrefix(Append(seen, item), before)
  <2>1. /\ before \in Seq(Nodes) /\ seen \in Seq(Nodes)
        /\ \A i \in DOMAIN seen : seen[i] = before[i]
    BY <1>1, <1>5 DEF Passing
  <2>2. PICK p \in 1..(Len(contents[h]) + 1) :
          /\ item = At(h, contents[h], p)
          /\ Len(before) = Len(seen) + Len(contents[h]) + 1 - p
          /\ \A j \in p..Len(contents[h]) :
               contents[h][j] = before[Len(seen) + 1 + j - p]
    BY <1>1, <1>5 DEF Passing
  <2>3. /\ contents[h] \in Seq(Nodes) /\ Len(contents[h]) \in Nat
        /\ \A k \in 1..Len(contents[h]) : /\ At(h, contents[h], k) = contents[h][k]
                                          /\ contents[h][k] # h
        /\ At(h, contents[h], Len(contents[h]) + 1) = h
    BY <1>2, ListsAssumption
  <2>4. CASE item = h
    <3>1. p = Len(contents[h]) + 1
      <4>1. p \notin 1..Len(contents[h])
        BY <2>2, <2>3, <2>4
      <4>2. Len(contents[h]) \in Nat
        BY <2>3
      <4> QED  BY ONLY <4>1, <4>2, p \in 1..(Len(contents[h]) + 1)
    <3>2. Len(before) = Len(seen) /\ Len(seen) \in Nat
      BY <2>1, <2>2, <2>3, <3>1
    <3>3. \A i \in 1..Len(seen) : seen[i] = before[i]
      BY <2>1
    <3>4. seen = before
      BY <2>1, <3>2, <3>3, SeqEqual
    <3> QED  BY <2>4, <3>4
  <2>5. CASE item # h
    <3>1. p \in 1..Len(contents[h]) /\ p \in p..Len(contents[h])
      BY <2>2, <2>3, <2>5
    <3> DEFINE n == Len(seen) + 1
               some == Append(seen, item)
    <3>2. item = before[n] /\ n <= Len(before) /\ Len(seen) \in Nat
      <4>1. item = contents[h][p] /\ Len(seen) + 1 + p - p = n /\ Len(seen) \in Nat
        BY <2>1, <2>2, <2>3, <3>1
      <4>2. contents[h][p] = before[Len(seen) + 1 + p - p]
        BY <2>2, <3>1
      <4>3. Len(before) \in Nat
        BY <2>1
      <4> QED  BY <2>2, <2>3, <3>1, <4>1, <4>2, <4>3
    <3>3. item \in Nodes /\ n \in 1..Len(before)
      BY <2>1, <3>2
    <3>4. /\ some \in Seq(Nodes) /\ Len(some) = n
          /\ \A i \in 1..n : some[i] = before[i]
      BY <2>1, <3>2, <3>3
    <3> HIDE DEF some
    <3>5. SubSeq(some, 1, n) = SubSeq(before, 1, n)
      <4>1. /\ SubSeq(some, 1, n) \in Seq(Nodes) /\ Len(SubSeq(some, 1, n)) = n
            /\ \A i \in 1..n : SubSeq(some, 1, n)[i] = some[i]
        BY <3>3, <3>4
      <4>2. /\ SubSeq(before, 1, n) \in Seq(Nodes) /\ Len(SubSeq(before, 1, n)) = n
            /\ \A i \in 1..n : SubSeq(before, 1, n)[i] = before[i]
        BY <2>1, <3>3
      <4> QED  BY <3>4, <4>1, <4>2, SeqEqual
    <3>6. IsPrefix(some, before)
      BY <3>2, <3>4, <3>5 DEF IsPrefix
    <3> QED  BY <2>5, <3>6 DEF some
  <2> QED  BY <2>4, <2>5
<1> QED  BY <1>1, <1>3, <1>4, <1>5 DEF ListsAreSequences

\* Whatever sequence of operations is done under the mutex, on however many
\* lists and items, each list is the sequence they promise, both ways round, and
\* a pass that deletes the item it is at sees each item once, in order (list.h,
\* rtscheduler.c:138-152).
THEOREM AlwaysSequences == Spec => []ListsAreSequences
<1> QED  BY ListsInvariant, SequencesFollow, PTL

LEMMA WalkFollows == ListsInv => WalkSeesList
<1> SUFFICES ASSUME ListsInv, walk_pc \in {"each", "ahead", "safe"} PROVE WalkSeesList
  BY DEF WalkSeesList
<1>1. use = "growing" /\ WalkInv
  BY DEF ListsInv, Uses
<1>2. /\ before \in Seq(Nodes) /\ seen \in Seq(Nodes) /\ Reaches(item)
      /\ \A i \in DOMAIN seen : seen[i] \in ToSet(contents[h])
      /\ \A i, j \in DOMAIN seen : i < j => Precedes(seen[i], seen[j])
      /\ \A i \in ToSet(before) : i \in ToSet(seen) \/ UpTo(item, i)
  BY <1>1 DEF WalkInv
<1>3. item \in {h} \cup ToSet(contents[h])
  BY <1>2 DEF Reaches
<1>4. ToSet(seen) \subseteq ToSet(contents[h])
  <2>1. ASSUME NEW i \in ToSet(seen) PROVE i \in ToSet(contents[h])
    <3>1. \E k \in DOMAIN seen : seen[k] = i
      BY <2>1 DEF ToSet
    <3> QED  BY <1>2, <3>1
  <2> QED  BY <2>1
<1>5. ASSUME item = h, NEW i \in ToSet(before) PROVE i \in ToSet(seen)
  <2>1. i \in Nodes /\ h \notin Nodes
    BY <1>2, ListsAssumption DEF ToSet
  <2>2. ~Precedes(h, i)
    BY <1>1, <2>1, Following
  <2> QED  BY <1>2, <1>5, <2>1, <2>2 DEF UpTo
<1> QED  BY <1>2, <1>3, <1>4, <1>5 DEF WalkSeesList

\* A walk with no lock, of a list of any length that any number of items are
\* being added to anywhere in it, sees every item that was there when it began,
\* in order and once (cw_LEDSTRIP.c:40 and 127, cw_MQTTBROKER.c:83 and 221).
THEOREM AlwaysSeesList == Spec => []WalkSeesList
<1> QED  BY ListsInvariant, WalkFollows, PTL

LEMMA CommandsFollow == ListsInv => CommandsKept
<1> SUFFICES ASSUME ListsInv, use = "commands", ~overlapped PROVE CommandsKept
  BY DEF CommandsKept
<1>1. Apart /\ Ahead /\ Behind /\ Adding
  BY DEF ListsInv, SharedInv
<1>2. /\ Size \in Nat /\ h \notin Nodes /\ Cell(0) = h /\ Cell(Size + 1) = h
      /\ DOMAIN contents[h] = 1..Size /\ \A k \in Int : k \notin 1..Size => Cell(k) = h
      /\ \A k \in 1..Size : Cell(k) = contents[h][k]
  BY <1>1, SharedCells
<1>3. list_for_each(mem, h, contents[h])
  BY <1>1 DEF Ahead, Cell, Size, list_for_each
<1>4. ASSUME add_pc = "idle", walk_pc = "idle" PROVE Holds(h)
  <2>1. \A k \in 0..Size : mem.prev[Cell(k + 1)] = Cell(k)
    BY <1>1, <1>4 DEF Behind, LinkedBack
  <2>2. list_for_each_rev(mem, h, contents[h])
    BY <2>1 DEF Cell, Size, list_for_each_rev
  <2> QED  BY <1>3, <2>2 DEF Holds, list_check, list_check_node
<1>5. ASSUME add_pc = "next" PROVE link \notin freed
  <2>1. PICK k \in 1..(Size + 1) : link = Cell(k - 1)
    BY <1>1, <1>5 DEF Adding
  <2>2. CASE k - 1 \in 1..Size
    BY <1>1, <2>1, <2>2 DEF Ahead
  <2>3. CASE k - 1 \notin 1..Size
    BY <1>1, <1>2, <2>1, <2>3 DEF Ahead
  <2> QED  BY <2>2, <2>3
<1>6. ToSet(contents[h]) \cap freed = {}
  BY <1>1, <1>2 DEF Ahead, ToSet
<1> QED  BY <1>3, <1>4, <1>5, <1>6 DEF CommandsKept

\* The command list needs no lock but for one case: unless a push begins or is
\* under way when a pop is at the last command, no command is lost, the order
\* is kept, and no link is stored in freed memory (runtime.c:365-380).
THEOREM AlwaysCommandsKept == Spec => []CommandsKept
<1> QED  BY ListsInvariant, CommandsFollow, PTL
=============================================================================
