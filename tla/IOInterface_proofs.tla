------------------------ MODULE IOInterface_proofs ------------------------
(***************************************************************************)
(* Proofs about IOInterface, for every list of items, any values and any   *)
(* number of commands, whether or not output pads read back.               *)
(***************************************************************************)
EXTENDS IOInterface, TLAPS

\* NextItem leaves the list of the I/O task with an item.
LEMMA NextItemType ==
  ASSUME NEW pass \in IoPcs, NEW other \in IoPcs, todo \in Seq(Items), todo # <<>>,
         NextItem(pass, other)
  PROVE  /\ todo' \in Seq(Items) /\ todo' # <<>>
         /\ io_pc' \in {pass, other}
<1>1. CASE Len(todo) > 1
  <2>1. Tail(todo) \in Seq(Items) /\ Len(Tail(todo)) = Len(todo) - 1 /\ Len(todo) \in Nat
    OBVIOUS
  <2>2. Len(Tail(todo)) > 0
    BY <1>1, <2>1
  <2>3. Tail(todo) # <<>>
    <3> SUFFICES ASSUME Tail(todo) = <<>> PROVE FALSE
      OBVIOUS
    <3>1. Len(Tail(todo)) = Len(<<>>) /\ Len(<<>>) = 0
      OBVIOUS
    <3> QED  BY <2>2, <3>1
  <2> QED  BY <1>1, <2>1, <2>3 DEF NextItem
<1>2. CASE ~(Len(todo) > 1)
  BY <1>2, OrderAssumption DEF NextItem
<1> QED  BY <1>1, <1>2

\* The item the I/O task is at is an item.
LEMMA AtType == ASSUME todo \in Seq(Items), todo # <<>> PROVE At \in Items
BY DEF At

\* What a uint8_t keeps is a word.
LEMMA UInt8IsWord == ASSUME NEW n \in Nat PROVE UInt8(n) \in Words
BY DEF UInt8, Words

\* The values the model uses are words.
LEMMA WordTypes ==
  /\ 0 \in Words /\ 1 \in Words
  /\ \A w \in Words : UInt8(w) \in Words
  /\ \A i \in Items : \A v \in Values[i] : v \in Words
<1>1. 0 \in Words /\ 1 \in Words
  BY DEF Words
<1>2. \A w \in Words : UInt8(w) \in Words
  <2>1. \A w \in Words : w \in Nat
    BY DEF Words
  <2> QED  BY <2>1, UInt8IsWord
<1>3. \A i \in Items : \A v \in Values[i] : v \in Words
  BY ValuesAssumption
<1> QED  BY <1>1, <1>2, <1>3

-----------------------------------------------------------------------------
\* What malloc() and the devices leave in the fields are words.
THEOREM InitTypeOK == Init => TypeOK
<1> SUFFICES ASSUME Init PROVE TypeOK
  OBVIOUS
<1>1. level \in [Items -> Words]
  <2>1. {0} \cup UNION {Values[i] : i \in Items} \subseteq Words
    BY ValuesAssumption, WordTypes
  <2> QED  BY <2>1 DEF Init
<1>2. word \in [Items -> Words] /\ VALUE \in [Items -> Words] /\ seen \in [Items -> Words]
  BY ValuesAssumption DEF Init
<1>3. commands \in [Items -> Seq(Words)] /\ \A i \in Items : commands[i] = <<>>
  BY DEF Init
<1>4. /\ pending \in [Items -> BOOLEAN] /\ clean \in [Items -> BOOLEAN]
      /\ changes \in [Items -> Nat]
      /\ status \in [Items -> {"IO_STABLE", "IO_PENDING", "IO_DONE"}]
      /\ program_pending \in BOOLEAN
  BY DEF Init
<1>5. /\ todo \in Seq(Items) /\ todo # <<>> /\ io_pc = "write" /\ pc = "idle" /\ cur = NoItem
      /\ val \in Words /\ cw_val \in Words
  BY OrderAssumption, WordTypes DEF Init
<1> QED  BY <1>1, <1>2, <1>3, <1>4, <1>5 DEF TypeOK, IoPcs, Pcs

\* Both tasks keep the types; in particular neither takes an IO_PENDING or an
\* IO_DONE from the other while it relies on it.
THEOREM NextTypeOK == TypeOK /\ [Next]_vars => TypeOK'
<1> SUFFICES ASSUME TypeOK, [Next]_vars PROVE TypeOK'
  OBVIOUS
<1>at. At \in Items
  BY AtType DEF TypeOK
<1>pcs. /\ {"write", "read"} \subseteq IoPcs
        /\ Outputs \subseteq Items /\ Inputs \subseteq Items /\ Digital \subseteq Items
        /\ Inputs \cap Outputs = {}
  BY DEF IoPcs, Outputs, Inputs, Digital
<1> USE DEF vars, shared, machine, program, io, process, history
<1>n1. ASSUME NextItem("write", "read") \/ NextItem("read", "write")
       PROVE  todo' \in Seq(Items) /\ todo' # <<>> /\ io_pc' \in {"write", "read"}
  BY <1>n1, <1>pcs, NextItemType DEF TypeOK
\* The I/O task.
<1>1. CASE WriteSkip
  BY <1>1, <1>n1 DEF WriteSkip, TypeOK, IoPcs
<1>2. CASE WriteStatus
  BY <1>2 DEF WriteStatus, TypeOK, IoPcs, At
<1>3. CASE WriteGetWord
  BY <1>3, <1>at DEF WriteGetWord, TypeOK, IoPcs, At
<1>4. CASE WriteLevel
  BY <1>4, <1>at DEF WriteLevel, TypeOK, IoPcs, At
<1>5. CASE WriteDone
  BY <1>5, <1>at DEF WriteDone, TypeOK, IoPcs, At
<1>6. CASE WriteMark
  BY <1>6, <1>n1 DEF WriteMark, TypeOK, IoPcs
<1>7. CASE ReadSkip
  BY <1>7, <1>n1 DEF ReadSkip, TypeOK, IoPcs
<1>8. CASE ReadLevel
  BY <1>8, <1>at, WordTypes DEF ReadLevel, TypeOK, IoPcs, At
<1>9. CASE ReadGetWord
  BY <1>9, <1>at, WordTypes DEF ReadGetWord, TypeOK, IoPcs, At
<1>10. CASE ReadCompare
  <2>1. CASE Changed /\ io_pc' = "read_set" /\ UNCHANGED todo
    BY <1>10, <2>1 DEF ReadCompare, Changed, TypeOK, IoPcs, At
  <2>2. CASE Completed /\ io_pc' = "read_done" /\ UNCHANGED todo
    BY <1>10, <2>2 DEF ReadCompare, Completed, TypeOK, IoPcs, At
  <2>3. CASE NextItem("read", "write")
    BY <1>10, <2>3, <1>n1 DEF ReadCompare, TypeOK, IoPcs
  <2> QED  BY <1>10, <2>1, <2>2, <2>3 DEF ReadCompare
<1>11. CASE ReadSetWord
  BY <1>11, <1>at, <1>pcs DEF ReadSetWord, TypeOK, IoPcs, At
<1>12. CASE ReadDone
  BY <1>12, <1>at, ReadsBackAssumption DEF ReadDone, TypeOK, IoPcs, At
<1>13. CASE SetValue
  BY <1>13, <1>at DEF SetValue, TypeOK, IoPcs, At
<1>14. CASE ReadMark
  BY <1>14, <1>at DEF ReadMark, TypeOK, IoPcs, At
<1>15. CASE NotifyDependents
  BY <1>15, <1>n1 DEF NotifyDependents, TypeOK, IoPcs
\* The processing task.
<1>16. ASSUME NEW i \in Items, DispatchOutput(i) PROVE TypeOK'
  BY <1>16 DEF DispatchOutput, TypeOK, Pcs, At, Outputs
<1>17. ASSUME NEW i \in Items, DispatchCheck(i) PROVE TypeOK'
  BY <1>17 DEF DispatchCheck, TypeOK, Pcs, At
<1>18. CASE CheckStatus
  BY <1>18 DEF CheckStatus, TypeOK, Pcs, At
<1>19. CASE CheckClear
  BY <1>19 DEF CheckClear, TypeOK, Pcs, At
<1>20. CASE CheckUpdate
  BY <1>20 DEF CheckUpdate, TypeOK, Pcs, At
<1>21. CASE TurnSetBit
  BY <1>21 DEF TurnSetBit, TypeOK, Pcs, At
<1>22. CASE SetWord
  BY <1>22 DEF SetWord, TypeOK, Pcs, At
<1>23. CASE SetStatus
  BY <1>23 DEF SetStatus, TypeOK, Pcs, At
<1>24. CASE DispatchProgram
  BY <1>24 DEF DispatchProgram, TypeOK, Pcs, At
\* The program and the devices.
<1>25. ASSUME NEW i \in Items, SendCommand(i) PROVE TypeOK'
  <2> PICK v \in Values[i] : commands' = [commands EXCEPT ![i] = Append(@, v)]
    BY <1>25 DEF SendCommand
  <2>1. v \in Words
    BY WordTypes
  <2>2. Append(commands[i], v) \in Seq(Words)
    BY <2>1 DEF TypeOK
  <2>3. commands' \in [Items -> Seq(Words)]
    BY <2>2 DEF TypeOK
  <2>4. \A j \in Items : commands'[j] # <<>> => IoType[j] = "digout"
    BY <1>25 DEF SendCommand, TypeOK
  <2>5. changes' \in [Items -> Nat] /\ pending' \in [Items -> BOOLEAN]
    BY <1>25 DEF SendCommand, TypeOK
  <2> QED  BY <1>25, <2>3, <2>4, <2>5 DEF SendCommand, TypeOK, At
<1>26. ASSUME NEW i \in Items, SetVALUE(i) PROVE TypeOK'
  <2> PICK v \in Values[i] : VALUE' = [VALUE EXCEPT ![i] = v]
    BY <1>26 DEF SetVALUE
  <2>1. VALUE' \in [Items -> Words]
    BY WordTypes DEF TypeOK
  <2>2. changes' \in [Items -> Nat]
    BY <1>26 DEF SetVALUE, TypeOK
  <2> QED  BY <1>26, <2>1, <2>2 DEF SetVALUE, TypeOK, Pcs, At, Outputs
<1>27. ASSUME NEW i \in Items, DeviceChanges(i) PROVE TypeOK'
  <2> PICK v \in Values[i] : level' = [level EXCEPT ![i] = v]
    BY <1>27 DEF DeviceChanges
  <2>1. level' \in [Items -> Words]
    BY WordTypes DEF TypeOK
  <2>2. changes' \in [Items -> Nat]
    BY <1>27 DEF DeviceChanges, TypeOK
  <2> QED  BY <1>27, <2>1, <2>2 DEF DeviceChanges, TypeOK, At
<1>28. CASE UNCHANGED vars
  BY <1>28 DEF TypeOK, At
<1> QED
  BY <1>1, <1>2, <1>3, <1>4, <1>5, <1>6, <1>7, <1>8, <1>9, <1>10, <1>11, <1>12, <1>13,
     <1>14, <1>15, <1>16, <1>17, <1>18, <1>19, <1>20, <1>21, <1>22, <1>23, <1>24, <1>25,
     <1>26, <1>27, <1>28
     DEF Next, WriteIO, ReadIO, Dispatch, Working, Environment

\* Type correctness of the interface, for every board and program.
THEOREM InterfaceTypes == Spec => []TypeOK
BY InitTypeOK, NextTypeOK, PTL DEF Spec

-----------------------------------------------------------------------------
\* No command has been given, so none is clean.
THEOREM InitWriteInv == Init => WriteInv
BY DEF Init, WriteInv, WrittenUnlessOverlapped, CopiesInv, Outputs

\* A step of the I/O task that leaves the outputs' fields alone and moves to the
\* next item carries nothing of it.
LEMMA MoveKeepsWriteInv ==
  ASSUME TypeOK, WriteInv, NextItem("write", "read") \/ NextItem("read", "write"),
         UNCHANGED <<level, word, status, clean, pc, cur>>
  PROVE  WriteInv'
<1>1. io_pc' \in {"write", "read"}
  BY DEF NextItem
<1> QED  BY <1>1 DEF WriteInv, WrittenUnlessOverlapped, CopiesInv, Outputs

\* Every step leaves what the I/O task carries as it is in the item, or makes the
\* command overlapped.
THEOREM NextWriteInv == TypeOK /\ WriteInv /\ [Next]_vars => WriteInv'
<1> SUFFICES ASSUME TypeOK, WriteInv, [Next]_vars PROVE WriteInv'
  OBVIOUS
<1>at. At \in Items /\ Outputs \subseteq Items /\ Inputs \cap Outputs = {}
  BY AtType DEF TypeOK, Inputs, Outputs
<1> USE DEF vars, shared, machine, program, io, process, history
\* The I/O task.
<1>1. CASE WriteSkip
  BY <1>1, MoveKeepsWriteInv DEF WriteSkip
<1>2. CASE WriteStatus
  BY <1>2 DEF WriteStatus, WriteInv, WrittenUnlessOverlapped, CopiesInv, At
<1>3. CASE WriteGetWord
  BY <1>3 DEF WriteGetWord, WriteInv, WrittenUnlessOverlapped, CopiesInv, At
<1>4. CASE WriteLevel
  BY <1>4, <1>at DEF WriteLevel, WriteInv, WrittenUnlessOverlapped, CopiesInv, At, TypeOK
\* The step that can wipe out an IO_PENDING: the level is the word's by now.
<1>5. CASE WriteDone
  BY <1>5, <1>at DEF WriteDone, WriteInv, WrittenUnlessOverlapped, CopiesInv, At, TypeOK
<1>6. CASE WriteMark
  BY <1>6, MoveKeepsWriteInv DEF WriteMark
<1>7. CASE ReadSkip
  BY <1>7, MoveKeepsWriteInv DEF ReadSkip
<1>8. CASE ReadLevel
  BY <1>8, <1>at DEF ReadLevel, WriteInv, WrittenUnlessOverlapped, CopiesInv, At
<1>9. CASE ReadGetWord
  BY <1>9, <1>at DEF ReadGetWord, WriteInv, WrittenUnlessOverlapped, CopiesInv, At, Outputs
<1>10. CASE ReadCompare
  <2>1. CASE Changed /\ io_pc' = "read_set" /\ UNCHANGED todo
    BY <1>10, <2>1 DEF ReadCompare, WriteInv, WrittenUnlessOverlapped, CopiesInv, At
  <2>2. CASE Completed /\ io_pc' = "read_done" /\ UNCHANGED todo
    BY <1>10, <2>2
       DEF ReadCompare, Completed, WriteInv, WrittenUnlessOverlapped, CopiesInv, At
  <2>3. CASE NextItem("read", "write")
    BY <1>10, <2>3, MoveKeepsWriteInv DEF ReadCompare
  <2> QED  BY <1>10, <2>1, <2>2, <2>3 DEF ReadCompare
\* The word that changes is an input's.
<1>11. CASE ReadSetWord
  BY <1>11, <1>at DEF ReadSetWord, WriteInv, WrittenUnlessOverlapped, CopiesInv, At, TypeOK
<1>12. CASE ReadDone
  BY <1>12, <1>at DEF ReadDone, WriteInv, WrittenUnlessOverlapped, CopiesInv, At, TypeOK
<1>13. CASE SetValue
  BY <1>13 DEF SetValue, WriteInv, WrittenUnlessOverlapped, CopiesInv, At
<1>14. CASE ReadMark
  BY <1>14 DEF ReadMark, WriteInv, WrittenUnlessOverlapped, CopiesInv, At
<1>15. CASE NotifyDependents
  BY <1>15, MoveKeepsWriteInv DEF NotifyDependents
\* The processing task.
<1>16. ASSUME NEW i \in Items, DispatchOutput(i) PROVE WriteInv'
  BY <1>16 DEF DispatchOutput, WriteInv, WrittenUnlessOverlapped, CopiesInv, At
<1>17. ASSUME NEW i \in Items, DispatchCheck(i) PROVE WriteInv'
  BY <1>17 DEF DispatchCheck, WriteInv, WrittenUnlessOverlapped, CopiesInv, At
<1>18. CASE CheckStatus
  BY <1>18 DEF CheckStatus, WriteInv, WrittenUnlessOverlapped, CopiesInv, At
\* What is cleared is an IO_DONE.
<1>19. CASE CheckClear
  BY <1>19, <1>at DEF CheckClear, WriteInv, WrittenUnlessOverlapped, CopiesInv, At, TypeOK, Pcs
<1>20. CASE CheckUpdate
  BY <1>20 DEF CheckUpdate, WriteInv, WrittenUnlessOverlapped, CopiesInv, At
\* A write or a read-back that is under way no longer has the word: overlapped.
<1>21. CASE TurnSetBit
  BY <1>21, <1>at
     DEF TurnSetBit, AtWork, WriteInv, WrittenUnlessOverlapped, CopiesInv, At, TypeOK
<1>22. CASE SetWord
  BY <1>22, <1>at
     DEF SetWord, AtWork, WriteInv, WrittenUnlessOverlapped, CopiesInv, At, TypeOK
<1>23. CASE SetStatus
  BY <1>23, <1>at
     DEF SetStatus, AtWork, WriteInv, WrittenUnlessOverlapped, CopiesInv, At, TypeOK
<1>24. CASE DispatchProgram
  BY <1>24 DEF DispatchProgram, WriteInv, WrittenUnlessOverlapped, CopiesInv, At
\* The program and the devices.
<1>25. ASSUME NEW i \in Items, SendCommand(i) PROVE WriteInv'
  BY <1>25 DEF SendCommand, WriteInv, WrittenUnlessOverlapped, CopiesInv, At
<1>26. ASSUME NEW i \in Items, SetVALUE(i) PROVE WriteInv'
  BY <1>26 DEF SetVALUE, WriteInv, WrittenUnlessOverlapped, CopiesInv, At
<1>27. ASSUME NEW i \in Items, DeviceChanges(i) PROVE WriteInv'
  <2>1. \A j \in Outputs : level'[j] = level[j]
    BY <1>27, <1>at DEF DeviceChanges, TypeOK
  <2> QED  BY <1>27, <2>1 DEF DeviceChanges, WriteInv, WrittenUnlessOverlapped, CopiesInv, At
<1>28. CASE UNCHANGED vars
  BY <1>28 DEF WriteInv, WrittenUnlessOverlapped, CopiesInv, At
<1> QED
  BY <1>1, <1>2, <1>3, <1>4, <1>5, <1>6, <1>7, <1>8, <1>9, <1>10, <1>11, <1>12, <1>13,
     <1>14, <1>15, <1>16, <1>17, <1>18, <1>19, <1>20, <1>21, <1>22, <1>23, <1>24, <1>25,
     <1>26, <1>27, <1>28
     DEF Next, WriteIO, ReadIO, Dispatch, Working, Environment

\* However the two tasks interleave, a command that is no longer pending has
\* reached its device, unless it overlapped or its pad does not read back.
THEOREM OutputsAreWritten == Spec => []WrittenUnlessOverlapped
<1>1. WriteInv => WrittenUnlessOverlapped
  BY DEF WriteInv
<1> QED
  BY <1>1, InitTypeOK, NextTypeOK, InitWriteInv, NextWriteInv, PTL DEF Spec
=============================================================================
