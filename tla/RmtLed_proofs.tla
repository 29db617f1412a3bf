--------------------------- MODULE RmtLed_proofs ---------------------------
(***************************************************************************)
(* Proofs about RmtLed: its types, and that the line carries the frame     *)
(* whatever the size of a half, as long as no refill is a whole half late. *)
(***************************************************************************)
EXTENDS RmtLed, SequenceTheorems, TLAPS

-----------------------------------------------------------------------------
(***************************************************************************)
(* The numbers and the frame.                                              *)
(***************************************************************************)
\* A frame is longer than a half, and a half holds a byte at least.
LEMMA Lengths ==
  /\ NumPixels \in Nat /\ FrameLength \in Nat
  /\ BytesPerHalf \in Nat /\ BytesPerHalf >= 1 /\ FrameLength > BytesPerHalf
BY FrameAssumption, BytesPerPixelAssumption DEF FrameLength

\* A position is cut off at the end of the frame.
LEMMA Cut ==
  ASSUME NEW k \in Nat
  PROVE  /\ Upto(k) \in 0..FrameLength /\ Upto(k) <= k
         /\ k <= FrameLength => Upto(k) = k
         /\ k >= FrameLength => Upto(k) = FrameLength
BY Lengths DEF Upto

\* The buffer is a sequence of bytes as long as the frame.
LEMMA BufferIsSequence ==
  ASSUME NEW data \in [1..FrameLength -> Byte]
  PROVE  data \in Seq(Byte) /\ Len(data) = FrameLength
BY Lengths, IsASeq, LenProperties

\* The packing writes every byte of the buffer.
LEMMA PackedIsBuffer ==
  ASSUME NEW frame \in Frame
  PROVE  Packed(frame) \in [1..FrameLength -> Byte]
<1> SUFFICES ASSUME NEW k \in 1..FrameLength
             PROVE  Packed(frame)[k] \in Byte
  BY DEF Packed
<1> DEFINE i == (k - 1) \div BytesPerPixel
           j == (k - 1) % BytesPerPixel
           p == frame[i]
<1>1. i \in 0..(NumPixels - 1) /\ j \in {0, 1, 2, 3}
  <2>1. CASE BytesPerPixel = 3
    BY <2>1, Lengths DEF FrameLength
  <2>2. CASE BytesPerPixel = 4
    BY <2>2, Lengths DEF FrameLength
  <2> QED  BY <2>1, <2>2, BytesPerPixelAssumption
<1>2. p \in Pixel
  BY <1>1 DEF Frame
<1>3. <<p.g, p.r, p.b, p.w>>[j + 1] \in Byte
  <2> HIDE DEF j, p
  <2>1. p.g \in Byte /\ p.r \in Byte /\ p.b \in Byte /\ p.w \in Byte
    BY <1>2 DEF Pixel
  <2> QED  BY <1>1, <2>1
<1> QED  BY <1>3 DEF Packed

\* Black is a pixel, and a strip of black pixels a frame.
LEMMA BlackFrame == [i \in 0..(NumPixels - 1) |-> Black] \in Frame
BY DEF Frame, Pixel, Black, Byte

-----------------------------------------------------------------------------
(***************************************************************************)
(* Pieces of the buffer.                                                   *)
(***************************************************************************)
\* A piece is a sequence of bytes, a half long until the frame ends.
LEMMA PieceProperties ==
  ASSUME NEW data \in [1..FrameLength -> Byte], NEW i \in 0..FrameLength
  PROVE  /\ Piece(data, i) \in Seq(Byte)
         /\ Len(Piece(data, i)) = Upto(i + BytesPerHalf) - i
<1>1. data \in Seq(Byte) /\ Len(data) = FrameLength
  BY BufferIsSequence
<1>2. Upto(i + BytesPerHalf) \in i..FrameLength
  BY Lengths DEF Upto
<1>3. \A k \in (i + 1)..Upto(i + BytesPerHalf) : k \in 1..Len(data)
  BY <1>1, <1>2, Lengths
<1> QED  BY <1>1, <1>2, <1>3, Lengths, SubSeqProperties DEF Piece

\* What was sent, with the next piece, is what is sent then.
LEMMA NextPiece ==
  ASSUME NEW data \in [1..FrameLength -> Byte], NEW n \in 0..FrameLength
  PROVE  SubSeq(data, 1, n) \o Piece(data, n) = SubSeq(data, 1, Upto(n + BytesPerHalf))
<1>1. data \in Seq(Byte) /\ Len(data) = FrameLength
  BY BufferIsSequence
<1>2. Upto(n + BytesPerHalf) \in n..FrameLength
  BY Lengths DEF Upto
<1>3. /\ 1 \in 1..(Len(data) + 1) /\ n \in (1 - 1)..Len(data)
      /\ Upto(n + BytesPerHalf) \in n..Len(data)
  BY <1>1, <1>2, Lengths
<1>4. SubSeq(data, 1, n) \o SubSeq(data, n + 1, Upto(n + BytesPerHalf))
        = SubSeq(data, 1, Upto(n + BytesPerHalf))
  BY <1>1, <1>3, ConcatAdjacentSubSeq
<1> QED  BY <1>4 DEF Piece

\* What was sent, up to n, has n bytes; and all of it is the buffer.
LEMMA Sent ==
  ASSUME NEW data \in [1..FrameLength -> Byte], NEW n \in 0..FrameLength
  PROVE  /\ SubSeq(data, 1, n) \in Seq(Byte) /\ Len(SubSeq(data, 1, n)) = n
         /\ SubSeq(data, 1, 0) = <<>>
         /\ SubSeq(data, 1, FrameLength) = data
<1>1. data \in Seq(Byte) /\ Len(data) = FrameLength
  BY BufferIsSequence
<1>2. \A k \in 1..n : k \in 1..Len(data)
  BY <1>1, Lengths
<1> QED  BY <1>1, <1>2, Lengths, SubSeqProperties, SubSeqEmpty, SubSeqFull

\* copyToRmtBlock_half() with a frame in the buffer: the types, the half that
\* is filled and the place it fills it from.
LEMMA CopyProperties ==
  ASSUME NEW st \in StateData, st.buf_data \in [1..FrameLength -> Byte],
         NEW blk \in [0..1 -> Seq(Byte)]
  PROVE  /\ Filled(st, blk) \in [0..1 -> Seq(Byte)]
         /\ Filled(st, blk)[1 - st.buf_half] = blk[1 - st.buf_half]
         /\ st.buf_pos < FrameLength \/ st.buf_isDirty =>
              Filled(st, blk)[st.buf_half] = Piece(st.buf_data, st.buf_pos)
         /\ Advanced(st) \in StateData
         /\ Advanced(st).buf_data = st.buf_data /\ Advanced(st).sem = st.sem
         /\ Advanced(st).buf_pos = Upto(st.buf_pos + BytesPerHalf)
         /\ Advanced(st).buf_half = 1 - st.buf_half
         /\ Advanced(st).buf_isDirty <=> st.buf_pos < FrameLength
<1>1. st.buf_pos \in 0..FrameLength /\ st.buf_half \in 0..1
  BY DEF StateData
<1>2. NextPos(st) = Upto(st.buf_pos + BytesPerHalf) /\ NextPos(st) \in 0..FrameLength
  BY <1>1, Lengths DEF NextPos, Upto
<1>3. Chunk(st) = Piece(st.buf_data, st.buf_pos) /\ Chunk(st) \in Seq(Byte)
  BY <1>1, <1>2, PieceProperties DEF Chunk, Piece
<1>4. /\ Filled(st, blk) \in [0..1 -> Seq(Byte)]
      /\ Filled(st, blk)[1 - st.buf_half] = blk[1 - st.buf_half]
  BY <1>1, <1>3 DEF Filled
<1>5. st.buf_pos < FrameLength \/ st.buf_isDirty =>
        Filled(st, blk)[st.buf_half] = Piece(st.buf_data, st.buf_pos)
  BY <1>1, <1>3 DEF Filled
<1>6. /\ Advanced(st) \in StateData
      /\ Advanced(st).buf_data = st.buf_data /\ Advanced(st).sem = st.sem
      /\ Advanced(st).buf_pos = Upto(st.buf_pos + BytesPerHalf)
      /\ Advanced(st).buf_half = 1 - st.buf_half
  <2>1. 1 - st.buf_half \in 0..1 /\ (st.buf_pos < FrameLength) \in BOOLEAN
    BY <1>1
  <2> QED  BY <1>2, <2>1 DEF Advanced, StateData
<1>7. Advanced(st).buf_isDirty <=> st.buf_pos < FrameLength
  BY <1>1, Lengths DEF Advanced, StateData
<1> QED  BY <1>4, <1>5, <1>6, <1>7

\* updatePixels() leaves the first two pieces in the two halves.
LEMMA UpdateStarts ==
  ASSUME TypeOK, NEW s \in Strips, NEW frame \in Frame, StartUpdate(s, frame)
  PROVE  /\ block' \in [0..1 -> Seq(Byte)]
         /\ block'[0] = Piece(Packed(frame), 0)
         /\ block'[1] = Piece(Packed(frame), BytesPerHalf)
         /\ state' = [state EXCEPT ![s] = state'[s]] /\ state'[s] \in StateData
         /\ state'[s].buf_data = Packed(frame) /\ state'[s].sem = "empty"
         /\ state'[s].buf_pos = Upto(2 * BytesPerHalf) /\ state'[s].buf_half = 0
         /\ state'[s].buf_isDirty
<1> DEFINE first == [state[s] EXCEPT !.buf_data = Packed(frame), !.buf_pos = 0,
                                     !.buf_half = 0]
           second == Advanced(first)
           filled == Filled(first, block)
           third == Advanced(second)
<1>1. /\ block' = Filled(second, filled)
      /\ state' = [state EXCEPT ![s] = [third EXCEPT !.sem = "empty"]]
  BY DEF StartUpdate
<1>2. Packed(frame) \in [1..FrameLength -> Byte]
  BY PackedIsBuffer
<1>3. /\ first \in StateData /\ first.buf_data = Packed(frame)
      /\ first.buf_pos = 0 /\ first.buf_half = 0
  <2>1. state[s] \in StateData /\ 0 \in 0..FrameLength /\ 0 \in 0..1
    BY Lengths DEF TypeOK
  <2>2. Packed(frame) \in {<<>>} \cup [1..FrameLength -> Byte]
    BY <1>2
  <2> QED  BY <2>1, <2>2 DEF StateData
<1> HIDE DEF first
<1>4. /\ filled \in [0..1 -> Seq(Byte)] /\ filled[0] = Piece(Packed(frame), 0)
      /\ second \in StateData /\ second.buf_data = Packed(frame)
      /\ second.buf_pos = Upto(BytesPerHalf) /\ second.buf_half = 1
  <2>1. block \in [0..1 -> Seq(Byte)] /\ first.buf_data \in [1..FrameLength -> Byte]
    BY <1>2, <1>3 DEF TypeOK
  <2>2. 0 < FrameLength /\ 0 + BytesPerHalf = BytesPerHalf /\ 1 - 0 = 1
    BY Lengths
  <2>3. filled \in [0..1 -> Seq(Byte)] /\ filled[0] = Piece(Packed(frame), 0)
    BY <1>3, <2>1, <2>2, CopyProperties
  <2>4. /\ second \in StateData /\ second.buf_data = Packed(frame)
        /\ second.buf_pos = Upto(0 + BytesPerHalf) /\ second.buf_half = 1 - 0
    BY <1>3, <2>1, CopyProperties
  <2> QED  BY <2>2, <2>3, <2>4
<1>5. Upto(BytesPerHalf) = BytesPerHalf /\ BytesPerHalf < FrameLength
  BY Lengths, Cut
<1> HIDE DEF second, filled
<1>6. /\ block' \in [0..1 -> Seq(Byte)]
      /\ block'[1] = Piece(Packed(frame), BytesPerHalf)
      /\ block'[0] = filled[0]
  BY <1>1, <1>2, <1>4, <1>5, CopyProperties
<1>7. /\ third \in StateData /\ third.buf_data = Packed(frame)
      /\ third.buf_pos = Upto(2 * BytesPerHalf) /\ third.buf_half = 0
      /\ third.buf_isDirty
  <2>1. 1 - 1 = 0 /\ BytesPerHalf + BytesPerHalf = 2 * BytesPerHalf
    BY Lengths
  <2>2. /\ third \in StateData /\ third.buf_data = Packed(frame)
        /\ third.buf_pos = Upto(second.buf_pos + BytesPerHalf)
        /\ third.buf_half = 1 - second.buf_half
    BY <1>2, <1>4, CopyProperties
  <2>3. third.buf_isDirty <=> second.buf_pos < FrameLength
    BY <1>2, <1>4, CopyProperties
  <2>4. second.buf_pos = BytesPerHalf /\ second.buf_half = 1
    BY <1>4, <1>5
  <2> QED  BY <1>5, <2>1, <2>2, <2>3, <2>4
<1> HIDE DEF third
<1>8. state'[s] = [third EXCEPT !.sem = "empty"]
  BY <1>1 DEF TypeOK
<1>9. /\ state'[s] \in StateData
      /\ state'[s].buf_data = Packed(frame) /\ state'[s].sem = "empty"
      /\ state'[s].buf_pos = Upto(2 * BytesPerHalf) /\ state'[s].buf_half = 0
      /\ state'[s].buf_isDirty
  BY <1>7, <1>8 DEF StateData
<1> QED  BY <1>1, <1>4, <1>6, <1>8, <1>9

-----------------------------------------------------------------------------
(***************************************************************************)
(* The invariant.                                                          *)
(***************************************************************************)
\* Nothing is in use, and nothing is sent, before the first initStrands().
THEOREM InitDriverInv == Init => TypeOK /\ DriverInv
<1> SUFFICES ASSUME Init PROVE TypeOK /\ DriverInv
  OBVIOUS
<1>1. NoState \in StateData
  BY Lengths DEF NoState, StateData
<1>2. TypeOK
  <2>1. pixels \in [Strips -> Frame]
    BY BlackFrame DEF Init
  <2>2. state \in [Strips -> StateData]
    BY <1>1 DEF Init
  <2>3. block \in [0..1 -> Seq(Byte)] /\ line \in Seq(Byte) /\ rd_half \in 0..1
    BY DEF Init
  <2> QED  BY <2>1, <2>2, <2>3 DEF Init, TypeOK
<1> QED  BY <1>2 DEF Init, DriverInv, WaitsWhileSent, LineInv

\* updatePixels(), however it is called, keeps the invariant: nobody waits.
LEMMA UpdateKeepsInv ==
  ASSUME TypeOK, DriverInv, Quiet, NEW s \in Strips, NEW frame \in Frame,
         localStrands \subseteq {s}, localStrands' = {s},
         pixels' \in [Strips -> Frame], StartUpdate(s, frame)
  PROVE  TypeOK' /\ DriverInv'
<1>1. ~thr_event /\ ~tx_end
  <2>1. CASE localStrands = {}
    BY <2>1 DEF DriverInv, WaitsWhileSent
  <2>2. CASE localStrands = {s}
    BY <2>2 DEF Quiet, Updating, DriverInv, WaitsWhileSent
  <2> QED  BY <2>1, <2>2
<1>2. /\ rd_half' = 0 /\ sending' = TRUE /\ line' = <<>> /\ late' = FALSE
      /\ thr_event' = FALSE /\ tx_end' = FALSE
  BY <1>1 DEF StartUpdate, TypeOK
<1>3. /\ block' \in [0..1 -> Seq(Byte)]
      /\ block'[0] = Piece(Packed(frame), 0)
      /\ block'[1] = Piece(Packed(frame), BytesPerHalf)
      /\ state' = [state EXCEPT ![s] = state'[s]] /\ state'[s] \in StateData
      /\ state'[s].buf_data = Packed(frame) /\ state'[s].sem = "empty"
      /\ state'[s].buf_pos = Upto(2 * BytesPerHalf) /\ state'[s].buf_half = 0
      /\ state'[s].buf_isDirty
  BY UpdateStarts
<1>4. TypeOK'
  <2>1. state' \in [Strips -> StateData]
    BY <1>3 DEF TypeOK
  <2>2. line' \in Seq(Byte) /\ rd_half' \in 0..1
    BY <1>2
  <2> QED  BY <1>2, <1>3, <2>1, <2>2 DEF TypeOK
<1>5. Packed(frame) \in [1..FrameLength -> Byte]
  BY PackedIsBuffer
<1>6. WaitsWhileSent'
  <2>1. \A t \in Strips \ {s} : state'[t] = state[t] /\ state[t] = NoState
    BY <1>3 DEF TypeOK, DriverInv, WaitsWhileSent
  <2> QED  BY <1>2, <1>3, <1>5, <2>1 DEF WaitsWhileSent
<1>7. LineInv'
  <2>1. Len(line') = 0 /\ line' = SubSeq(Packed(frame), 1, 0)
    BY <1>2, <1>5, Lengths, Sent
  <2>2. /\ 0 + BytesPerHalf = BytesPerHalf /\ 0 + 2 * BytesPerHalf = 2 * BytesPerHalf
        /\ BytesPerHalf < FrameLength /\ 1 - 0 = 1
    BY Lengths
  <2>3. TwoHalvesAhead(state[s], 0)'
    BY <1>2, <1>3, <2>2 DEF TwoHalvesAhead
  <2> QED  BY <1>2, <1>3, <2>1, <2>2, <2>3, Lengths DEF LineInv
<1> QED  BY <1>4, <1>6, <1>7 DEF DriverInv

\* The strand in use is the only one there is to handle.
LEMMA OneStrand ==
  ASSUME TypeOK, DriverInv, NEW s \in localStrands
  PROVE  /\ s \in Strips /\ localStrands = {s}
         /\ state[s] \in StateData /\ state[s].buf_data \in [1..FrameLength -> Byte]
         /\ \A t \in Strips \ {s} : state[t] = NoState
BY DEF TypeOK, DriverInv, WaitsWhileSent

\* The hardware goes on to the other half.
LEMMA SendHalfKeepsInv ==
  ASSUME TypeOK, DriverInv, SendHalf
  PROVE  TypeOK' /\ DriverInv'
<1>1. PICK s \in localStrands : TRUE
  BY DEF SendHalf, DriverInv, WaitsWhileSent
<1> DEFINE data == state[s].buf_data
           n == Len(line)
<1>2. /\ s \in Strips /\ localStrands = {s} /\ data \in [1..FrameLength -> Byte]
      /\ state[s].sem = "empty" /\ ~tx_end
  BY OneStrand DEF SendHalf, DriverInv, WaitsWhileSent
<1>3. /\ rd_half \in 0..1 /\ line \in Seq(Byte) /\ block[rd_half] \in Seq(Byte)
      /\ n \in Nat
  BY DEF TypeOK
<1>4. line' \in Seq(Byte)
  BY <1>3 DEF SendHalf
<1>5. late' \in BOOLEAN /\ rd_half' \in 0..1 /\ thr_event' = TRUE
  BY <1>3 DEF SendHalf, TypeOK
<1>6. TypeOK'
  BY <1>4, <1>5 DEF SendHalf, TypeOK
<1>7. WaitsWhileSent'
  BY <1>2, <1>5 DEF SendHalf, DriverInv, WaitsWhileSent
<1>8. ASSUME ~late'
      PROVE  /\ Len(line') <= FrameLength
             /\ line' = SubSeq(data, 1, Len(line'))
             /\ TwoHalvesAhead(state[s], Len(line))'
  <2>1. ~late /\ ~thr_event /\ sending
    BY <1>8 DEF SendHalf
  <2>2. /\ n <= FrameLength /\ line = SubSeq(data, 1, n)
        /\ TwoHalvesAhead(state[s], n)
    BY <2>1 DEF DriverInv, LineInv
  <2>3. n \in 0..FrameLength
    BY <1>3, <2>2, Lengths
  <2>4. block[rd_half] = Piece(data, n) /\ Len(block[rd_half]) = BytesPerHalf
    BY <2>2 DEF TwoHalvesAhead, SendHalf
  <2>5. Upto(n + BytesPerHalf) - n = BytesPerHalf
    BY <1>2, <2>3, <2>4, PieceProperties
  <2>6. n + BytesPerHalf <= FrameLength /\ Upto(n + BytesPerHalf) = n + BytesPerHalf
    BY <2>3, <2>5, Lengths DEF Upto
  <2>7. line' = line \o block[rd_half]
    BY <1>8 DEF SendHalf
  <2>8. line' = SubSeq(data, 1, n + BytesPerHalf)
    BY <1>2, <2>2, <2>3, <2>4, <2>6, <2>7, NextPiece
  <2>9. n + BytesPerHalf \in 0..FrameLength
    BY <2>3, <2>6, Lengths
  <2>10. Len(line') = n + BytesPerHalf
    BY <1>2, <2>8, <2>9, Sent
  <2>11. TwoHalvesAhead(state[s], Len(line))'
    <3>1. /\ block' = block /\ state' = state /\ rd_half' = 1 - rd_half
          /\ 1 - rd_half' = rd_half
      BY <1>3 DEF SendHalf
    <3>2. /\ block[1 - rd_half] = Piece(data, n + BytesPerHalf)
          /\ state[s].buf_pos = Upto(n + 2 * BytesPerHalf)
          /\ state[s].buf_half = rd_half
          /\ state[s].buf_isDirty = (n + BytesPerHalf < FrameLength)
      BY <2>1, <2>2, <2>6 DEF TwoHalvesAhead
    <3>3. (n + BytesPerHalf) + BytesPerHalf = n + 2 * BytesPerHalf
      BY <2>3, Lengths
    <3> QED  BY <1>5, <2>10, <3>1, <3>2, <3>3 DEF TwoHalvesAhead
  <2> QED  BY <2>6, <2>8, <2>10, <2>11
<1>9. LineInv'
  BY <1>2, <1>8 DEF SendHalf, LineInv
<1> QED  BY <1>6, <1>7, <1>9 DEF DriverInv
\* The hardware finds the end: the whole frame was sent.
LEMMA SendRestKeepsInv ==
  ASSUME TypeOK, DriverInv, SendRest
  PROVE  TypeOK' /\ DriverInv'
<1>1. PICK s \in localStrands : TRUE
  BY DEF SendRest, DriverInv, WaitsWhileSent
<1> DEFINE data == state[s].buf_data
           n == Len(line)
<1>2. /\ s \in Strips /\ localStrands = {s} /\ data \in [1..FrameLength -> Byte]
      /\ state[s].sem = "empty"
  BY OneStrand DEF SendRest, DriverInv, WaitsWhileSent
<1>3. /\ rd_half \in 0..1 /\ line \in Seq(Byte) /\ block[rd_half] \in Seq(Byte)
      /\ n \in Nat
  BY DEF TypeOK
<1>4. line' \in Seq(Byte)
  BY <1>3 DEF SendRest
<1>5. TypeOK'
  BY <1>4 DEF SendRest, TypeOK
<1>6. WaitsWhileSent'
  BY <1>2 DEF SendRest, DriverInv, WaitsWhileSent
<1>7. ASSUME ~late'
      PROVE  line' = data
  <2>1. ~late /\ sending /\ line' = line \o block[rd_half]
    BY <1>7 DEF SendRest
  <2>2. /\ n <= FrameLength /\ line = SubSeq(data, 1, n)
        /\ block[rd_half] = Piece(data, n)
    BY <2>1 DEF DriverInv, LineInv, TwoHalvesAhead
  <2>3. n \in 0..FrameLength
    BY <1>3, <2>2, Lengths
  <2>4. Upto(n + BytesPerHalf) - n < BytesPerHalf
    BY <1>2, <2>2, <2>3, PieceProperties DEF SendRest
  <2>5. Upto(n + BytesPerHalf) = FrameLength
    BY <2>3, <2>4, Lengths DEF Upto
  <2>6. line' = SubSeq(data, 1, n) \o Piece(data, n)
    BY <2>1, <2>2
  <2>7. SubSeq(data, 1, n) \o Piece(data, n) = SubSeq(data, 1, FrameLength)
    BY <1>2, <2>3, <2>5, NextPiece
  <2>8. SubSeq(data, 1, FrameLength) = data
    BY <1>2, <2>3, Sent
  <2> QED  BY <2>6, <2>7, <2>8
<1>8. LineInv'
  <2>1. Len(data) = FrameLength /\ SubSeq(data, 1, FrameLength) = data
    BY <1>2, BufferIsSequence, Lengths, Sent
  <2>2. ASSUME ~late'
        PROVE  /\ Len(line') <= FrameLength /\ Len(line') = FrameLength
               /\ line' = SubSeq(data, 1, Len(line'))
    BY <1>7, <2>1, <2>2, Lengths
  <2>3. localStrands' = {s} /\ state' = state /\ ~sending'
    BY <1>2 DEF SendRest
  <2> QED  BY <2>2, <2>3 DEF LineInv
<1> QED  BY <1>5, <1>6, <1>8 DEF DriverInv

\* The handler refills the half that was sent.
LEMMA HandleThresholdKeepsInv ==
  ASSUME TypeOK, DriverInv, NEW s \in Strips, HandleThreshold(s)
  PROVE  TypeOK' /\ DriverInv'
<1> DEFINE st == state[s]
           data == st.buf_data
           n == Len(line)
<1>1. /\ localStrands = {s} /\ st \in StateData /\ data \in [1..FrameLength -> Byte]
      /\ thr_event /\ st.sem = "empty"
  BY OneStrand DEF HandleThreshold, DriverInv, WaitsWhileSent
<1>2. block \in [0..1 -> Seq(Byte)] /\ rd_half \in 0..1 /\ n \in Nat
  BY DEF TypeOK
<1>3. /\ block' = Filled(st, block) /\ state' = [state EXCEPT ![s] = Advanced(st)]
      /\ state'[s] = Advanced(st)
  BY DEF HandleThreshold, TypeOK
<1>4. /\ Filled(st, block) \in [0..1 -> Seq(Byte)]
      /\ Filled(st, block)[1 - st.buf_half] = block[1 - st.buf_half]
      /\ st.buf_pos < FrameLength \/ st.buf_isDirty =>
           Filled(st, block)[st.buf_half] = Piece(data, st.buf_pos)
  BY <1>1, <1>2, CopyProperties
<1>5. /\ Advanced(st) \in StateData
      /\ Advanced(st).buf_data = data /\ Advanced(st).sem = st.sem
      /\ Advanced(st).buf_pos = Upto(st.buf_pos + BytesPerHalf)
      /\ Advanced(st).buf_half = 1 - st.buf_half
      /\ Advanced(st).buf_isDirty <=> st.buf_pos < FrameLength
  BY <1>1, <1>2, CopyProperties
<1>6. TypeOK'
  <2>1. state' \in [Strips -> StateData]
    BY <1>3, <1>5 DEF TypeOK
  <2> QED  BY <1>3, <1>4, <2>1 DEF HandleThreshold, TypeOK
<1>7. WaitsWhileSent'
  <2>1. \A t \in Strips \ {s} : state'[t] = state[t]
    BY <1>3
  <2> QED  BY <1>1, <1>3, <1>5, <2>1 DEF HandleThreshold, DriverInv, WaitsWhileSent
<1>8. ASSUME ~late', sending
      PROVE  TwoHalvesAhead(state[s], Len(line))'
  <2>1. n \in 0..FrameLength /\ TwoHalvesAhead(st, n)
    BY <1>1, <1>2, <1>8, Lengths DEF HandleThreshold, DriverInv, LineInv
  <2>2. /\ block[rd_half] = Piece(data, n)
        /\ st.buf_pos = Upto(n + BytesPerHalf) /\ st.buf_half = 1 - rd_half
        /\ st.buf_isDirty <=> n < FrameLength
    BY <1>1, <2>1 DEF TwoHalvesAhead
  <2>3. /\ 1 - st.buf_half = rd_half /\ Advanced(st).buf_half = rd_half
        /\ block'[rd_half] = Piece(data, n)
    BY <1>2, <1>3, <1>4, <1>5, <2>2
  <2>4. Upto(Upto(n + BytesPerHalf) + BytesPerHalf) = Upto(n + 2 * BytesPerHalf)
    BY <2>1, Lengths DEF Upto
  <2>5. Upto(n + BytesPerHalf) < FrameLength <=> n + BytesPerHalf < FrameLength
    BY <2>1, Lengths DEF Upto
  <2>6. ASSUME n + BytesPerHalf <= FrameLength
        PROVE  block'[1 - rd_half] = Piece(data, n + BytesPerHalf)
    <3>1. n < FrameLength /\ Upto(n + BytesPerHalf) = n + BytesPerHalf
      BY <2>1, <2>6, Lengths DEF Upto
    <3> QED  BY <1>3, <1>4, <2>2, <3>1
  <2>7. Advanced(st).buf_isDirty = (n + BytesPerHalf < FrameLength)
    <3>1. Advanced(st).buf_isDirty \in BOOLEAN
      BY <1>5 DEF StateData
    <3>2. Advanced(st).buf_isDirty <=> n + BytesPerHalf < FrameLength
      BY <1>5, <2>2, <2>5
    <3> QED  BY <3>1, <3>2
  <2> QED  BY <1>3, <1>5, <2>2, <2>3, <2>4, <2>6, <2>7 DEF HandleThreshold, TwoHalvesAhead
<1>9. LineInv'
  BY <1>1, <1>3, <1>5, <1>8 DEF HandleThreshold, DriverInv, LineInv
<1> QED  BY <1>6, <1>7, <1>9 DEF DriverInv

\* The handler gives the semaphore, and xSemaphoreTake() takes it.
LEMMA SemaphoreKeepsInv ==
  ASSUME TypeOK, DriverInv, NEW s \in Strips, HandleEnd(s) \/ UpdateReturns(s)
  PROVE  TypeOK' /\ DriverInv'
<1>1. s \in localStrands
  BY DEF HandleEnd, UpdateReturns, TypeOK, DriverInv, WaitsWhileSent, NoState
<1>2. /\ localStrands = {s} /\ state[s] \in StateData
      /\ state[s].buf_data \in [1..FrameLength -> Byte]
  BY <1>1, OneStrand
<1>3. PICK sem \in {"none", "given"} : state' = [state EXCEPT ![s].sem = sem]
  BY DEF HandleEnd, UpdateReturns
<1>4. /\ state'[s] \in StateData /\ state'[s].buf_data = state[s].buf_data
      /\ state'[s].sem = sem
  BY <1>2, <1>3 DEF TypeOK, StateData
<1>5. \A t \in Strips \ {s} : state'[t] = state[t]
  BY <1>3
<1>6. ~sending /\ ~thr_event /\ tx_end' = FALSE
  BY <1>1 DEF HandleEnd, UpdateReturns, hardware, TypeOK, DriverInv, WaitsWhileSent
<1>7. state' \in [Strips -> StateData]
  BY <1>3, <1>4 DEF TypeOK
<1>8. TypeOK'
  BY <1>6, <1>7 DEF HandleEnd, UpdateReturns, hardware, TypeOK
<1>9. WaitsWhileSent'
  BY <1>2, <1>4, <1>5, <1>6
     DEF HandleEnd, UpdateReturns, hardware, DriverInv, WaitsWhileSent
<1>10. LineInv'
  BY <1>2, <1>4, <1>6 DEF HandleEnd, UpdateReturns, hardware, DriverInv, LineInv
<1> QED  BY <1>8, <1>9, <1>10 DEF DriverInv

-----------------------------------------------------------------------------
\* Every step of the tasks, the hardware and the handler keeps the invariant.
THEOREM NextDriverInv == TypeOK /\ DriverInv /\ [Next]_vars => TypeOK' /\ DriverInv'
<1> SUFFICES ASSUME TypeOK, DriverInv, [Next]_vars PROVE TypeOK' /\ DriverInv'
  OBVIOUS
<1>1. ASSUME NEW s \in Strips, Quiet, localStrands \subseteq {s},
             digitalLeds_initStrands(s)
      PROVE  TypeOK' /\ DriverInv'
  <2>1. pixels' \in [Strips -> Frame] /\ pixels'[s] \in Frame
    BY <1>1, BlackFrame DEF digitalLeds_initStrands, TypeOK
  <2> QED  BY <1>1, <2>1, UpdateKeepsInv DEF digitalLeds_initStrands
<1>2. ASSUME NEW s \in Strips, Quiet, localStrands = {s}, digitalLeds_updatePixels(s)
      PROVE  TypeOK' /\ DriverInv'
  <2>1. pixels' \in [Strips -> Frame] /\ pixels[s] \in Frame
    BY <1>2 DEF digitalLeds_updatePixels, TypeOK
  <2> QED  BY <1>2, <2>1, UpdateKeepsInv DEF digitalLeds_updatePixels
<1>3. ASSUME NEW s \in Strips, Quiet, localStrands = {s}, digitalLeds_resetPixels(s)
      PROVE  TypeOK' /\ DriverInv'
  <2>1. pixels' \in [Strips -> Frame] /\ pixels'[s] \in Frame
    BY <1>3, BlackFrame DEF digitalLeds_resetPixels, TypeOK
  <2> QED  BY <1>3, <2>1, UpdateKeepsInv DEF digitalLeds_resetPixels
<1>4. ASSUME NEW s \in Strips, HandleEnd(s) \/ UpdateReturns(s)
      PROVE  TypeOK' /\ DriverInv'
  BY <1>4, SemaphoreKeepsInv
<1>5. ASSUME NEW s \in Strips, SetPixels(s)
      PROVE  TypeOK' /\ DriverInv'
  BY <1>5 DEF SetPixels, hardware, TypeOK, DriverInv, WaitsWhileSent, LineInv,
              TwoHalvesAhead
<1>6. CASE Send
  BY <1>6, SendHalfKeepsInv, SendRestKeepsInv DEF Send
<1>7. ASSUME NEW s \in Strips, HandleThreshold(s)
      PROVE  TypeOK' /\ DriverInv'
  BY <1>7, HandleThresholdKeepsInv
<1>8. CASE UNCHANGED vars
  BY <1>8 DEF vars, hardware, TypeOK, DriverInv, WaitsWhileSent, LineInv, TwoHalvesAhead
<1> QED
  BY <1>1, <1>2, <1>3, <1>4, <1>5, <1>6, <1>7, <1>8 DEF Next, handleInterrupt

\* The driver's data keep their types.
THEOREM DriverTypes == Spec => []TypeOK
BY InitDriverInv, NextDriverInv, PTL DEF Spec

\* The invariant implies the property: a strand that does not wait has its
\* whole frame on the line.
LEMMA InvImpliesLineCarriesFrame == TypeOK /\ DriverInv => LineCarriesFrame
<1> SUFFICES ASSUME TypeOK, DriverInv, NEW s \in localStrands, ~late
             PROVE  /\ Len(line) <= Len(state[s].buf_data)
                    /\ line = SubSeq(state[s].buf_data, 1, Len(line))
                    /\ state[s].sem # "empty" => line = state[s].buf_data
  BY DEF LineCarriesFrame
<1>1. state[s].buf_data \in [1..FrameLength -> Byte]
  BY OneStrand
<1>2. /\ Len(state[s].buf_data) = FrameLength
      /\ SubSeq(state[s].buf_data, 1, FrameLength) = state[s].buf_data
  BY <1>1, BufferIsSequence, Lengths, Sent
<1>3. state[s].sem # "empty" => ~sending
  BY DEF DriverInv, WaitsWhileSent
<1> QED  BY <1>2, <1>3 DEF DriverInv, LineInv

\* While the refills are in time the line carries the frame, each byte once
\* and in order, whatever the sizes of frame and half; and updatePixels()
\* does not return before all of it was sent.
THEOREM FramesArrive == Spec => []LineCarriesFrame
BY InitDriverInv, NextDriverInv, InvImpliesLineCarriesFrame, PTL DEF Spec
=============================================================================
