--------------------------- MODULE LedStrip_proofs ---------------------------
(***************************************************************************)
(* Proofs about LedStrip: machines at rest are up to date, pixels are      *)
(* whole colours, and the tasks use the driver the way RmtLed assumes, so  *)
(* that what is proved about the driver holds with them.                   *)
(***************************************************************************)
EXTENDS LedStrip, TLAPS

DriverProofs == INSTANCE RmtLed_proofs

LEMMA TailIs ==
  ASSUME NEW S, NEW seq \in Seq(S), seq # <<>>
  PROVE  /\ Tail(seq) \in Seq(S) /\ Head(seq) = seq[1] /\ Head(seq) \in S
         /\ 1 \in DOMAIN seq
         /\ \A i \in DOMAIN Tail(seq) :
              i \in Nat /\ i + 1 \in DOMAIN seq /\ Tail(seq)[i] = seq[i + 1]
OBVIOUS

\* What is left of a list without duplicates has none, and not its first.
LEMMA TailDistinct ==
  ASSUME NEW S, NEW seq \in Seq(S), seq # <<>>,
         \A i, j \in DOMAIN seq : seq[i] = seq[j] => i = j
  PROVE  /\ \A i, j \in DOMAIN Tail(seq) : Tail(seq)[i] = Tail(seq)[j] => i = j
         /\ \A i \in DOMAIN Tail(seq) : Tail(seq)[i] # Head(seq)
<1>1. \A i \in DOMAIN Tail(seq) :
        i \in Nat /\ i + 1 \in DOMAIN seq /\ Tail(seq)[i] = seq[i + 1] /\ i >= 1
  BY TailIs
<1>2. Head(seq) = seq[1] /\ 1 \in DOMAIN seq
  BY TailIs
<1>3. ASSUME NEW i \in DOMAIN Tail(seq), NEW j \in DOMAIN Tail(seq),
             Tail(seq)[i] = Tail(seq)[j]
      PROVE  i = j
  <2>1. i + 1 = j + 1 /\ i \in Nat /\ j \in Nat
    BY <1>1, <1>3
  <2> QED  BY <2>1
<1>4. ASSUME NEW i \in DOMAIN Tail(seq), Tail(seq)[i] = Head(seq)
      PROVE  FALSE
  <2>1. i + 1 = 1 /\ i \in Nat /\ i >= 1
    BY <1>1, <1>2, <1>4
  <2> QED  BY <2>1
<1> QED  BY <1>3, <1>4

-----------------------------------------------------------------------------
(***************************************************************************)
(* The list of a strip.                                                    *)
(***************************************************************************)
\* add_led_to_strip() adds l, and keeps what was on the list, once each.
LEMMA SortedKeepsList ==
  ASSUME NEW seq \in Seq(Leds), NEW l \in Leds,
         \A i, j \in DOMAIN seq : seq[i] = seq[j] => i = j,
         \A i \in DOMAIN seq : seq[i] # l
  PROVE  /\ Sorted(seq, l) \in Seq(Leds)
         /\ \A i \in DOMAIN Sorted(seq, l) :
              Sorted(seq, l)[i] = l \/ \E j \in DOMAIN seq : Sorted(seq, l)[i] = seq[j]
         /\ \A i \in DOMAIN seq : \E j \in DOMAIN Sorted(seq, l) : Sorted(seq, l)[j] = seq[i]
         /\ \A i, j \in DOMAIN Sorted(seq, l) :
              Sorted(seq, l)[i] = Sorted(seq, l)[j] => i = j
<1> DEFINE Before(i) == \A j \in 1..i : Position[seq[j]] <= Position[l]
           N == Len(seq)
           new == Sorted(seq, l)
<1>1. N \in Nat /\ DOMAIN seq = 1..N /\ \A i \in 1..N : seq[i] \in Leds
  OBVIOUS
<1>2. new = [i \in 1..(N + 1) |->
               IF i <= N /\ Before(i) THEN seq[i]
               ELSE IF Before(i - 1) THEN l ELSE seq[i - 1]]
  BY DEF Sorted
<1>3. \A i, j \in Nat : i <= j /\ Before(j) => Before(i)
  OBVIOUS
<1>4. Before(0)
  OBVIOUS
<1> HIDE DEF Before, new, N
<1>5. ASSUME NEW i \in 1..(N + 1)
      PROVE  \/ i <= N /\ Before(i) /\ new[i] = seq[i]
             \/ ~(i <= N /\ Before(i)) /\ Before(i - 1) /\ new[i] = l
             \/ i > 1 /\ i - 1 \in 1..N /\ ~Before(i - 1) /\ new[i] = seq[i - 1]
  <2>1. i = 1 \/ i - 1 \in 1..N
    BY <1>1
  <2>2. CASE i <= N /\ Before(i)
    BY <1>2, <2>2
  <2>3. CASE ~(i <= N /\ Before(i)) /\ Before(i - 1)
    BY <1>2, <2>3
  <2>4. CASE ~(i <= N /\ Before(i)) /\ ~Before(i - 1)
    <3>1. i # 1
      BY <1>4, <2>4
    <3> QED  BY <1>2, <2>1, <2>4, <3>1
  <2> QED  BY <2>2, <2>3, <2>4
<1>6. DOMAIN new = 1..(N + 1)
  BY <1>2
<1>7. new \in Seq(Leds)
  <2>1. \A i \in 1..(N + 1) : new[i] \in Leds
    BY <1>1, <1>5
  <2>2. new \in [1..(N + 1) -> Leds]
    BY <1>2, <1>6, <2>1
  <2> QED  BY <1>1, <2>2
<1>8. \A i \in DOMAIN new : new[i] = l \/ \E j \in DOMAIN seq : new[i] = seq[j]
  BY <1>1, <1>5, <1>6
<1>9. ASSUME NEW i \in DOMAIN seq
      PROVE  \E j \in DOMAIN new : new[j] = seq[i]
  <2>1. CASE Before(i)
    <3>1. i \in 1..(N + 1) /\ i <= N
      BY <1>1
    <3> QED  BY <1>2, <1>6, <2>1, <3>1
  <2>2. CASE ~Before(i)
    <3>1. i + 1 \in 1..(N + 1) /\ (i + 1) - 1 = i /\ i <= i + 1 /\ i \in Nat
      BY <1>1
    <3>2. ~Before(i + 1)
      BY <1>3, <2>2, <3>1
    <3>3. new[i + 1] = seq[i]
      BY <1>2, <2>2, <3>1, <3>2
    <3> QED  BY <1>6, <3>1, <3>3
  <2> QED  BY <2>1, <2>2
<1>10. ASSUME NEW i \in 1..(N + 1), NEW j \in 1..(N + 1), i < j
       PROVE  new[i] # new[j]
  <2>1. i <= N /\ i <= j - 1 /\ i \in Nat /\ j \in Nat /\ j - 1 \in 1..N
    BY <1>1, <1>10
  <2>2. \A k \in 1..N : seq[k] # l
    BY <1>1
  <2>3. ~Before(i) => ~Before(j - 1)
    BY <1>3, <2>1
  <2>4. CASE Before(i)
    <3>1. new[i] = seq[i]
      BY <1>2, <2>1, <2>4
    <3>2. CASE j <= N /\ Before(j)
      BY <1>1, <1>2, <1>10, <2>1, <3>1, <3>2
    <3>3. CASE ~(j <= N /\ Before(j)) /\ Before(j - 1)
      <4>1. new[j] = l
        BY <1>2, <3>3
      <4> QED  BY <2>1, <2>2, <3>1, <4>1
    <3>4. CASE ~(j <= N /\ Before(j)) /\ ~Before(j - 1)
      <4>1. new[j] = seq[j - 1]
        BY <1>2, <3>4
      <4>2. i # j - 1
        BY <2>4, <3>4
      <4> QED  BY <1>1, <2>1, <3>1, <4>1, <4>2
    <3> QED  BY <3>2, <3>3, <3>4
  <2>5. CASE ~Before(i)
    <3>1. ~Before(j - 1) /\ ~Before(j)
      <4>1. i <= j
        BY <1>10, <2>1
      <4> QED  BY <1>3, <2>1, <2>3, <2>5, <4>1
    <3>2. new[j] = seq[j - 1]
      BY <1>2, <3>1
    <3>3. new[i] = l \/ (i > 1 /\ i - 1 \in 1..N /\ new[i] = seq[i - 1])
      BY <1>5, <2>5
    <3>4. i - 1 # j - 1
      BY <1>10
    <3> QED  BY <1>1, <2>1, <2>2, <3>2, <3>3, <3>4
  <2> QED  BY <2>4, <2>5
<1>11. \A i, j \in DOMAIN new : new[i] = new[j] => i = j
  BY <1>1, <1>6, <1>10
<1> QED  BY <1>7, <1>8, <1>9, <1>11 DEF new

\* The task goes on to an LED of the same list, right after the one it was at.
LEMMA NextIsOnList ==
  ASSUME NEW seq \in Seq(Leds), NEW k \in DOMAIN seq,
         \A i, j \in DOMAIN seq : seq[i] = seq[j] => i = j
  PROVE  /\ k = Len(seq) => NextOf(seq, seq[k]) = NoLed
         /\ k # Len(seq) => k + 1 \in DOMAIN seq /\ NextOf(seq, seq[k]) = seq[k + 1]
<1> DEFINE at == CHOOSE i \in DOMAIN seq : seq[i] = seq[k]
<1>1. at \in DOMAIN seq /\ seq[at] = seq[k]
  OBVIOUS
<1>2. at = k
  BY <1>1
<1>3. NextOf(seq, seq[k]) = IF at = Len(seq) THEN NoLed ELSE seq[at + 1]
  BY DEF NextOf
<1> HIDE DEF at
<1> QED  BY <1>2, <1>3

-----------------------------------------------------------------------------
(***************************************************************************)
(* LedInv: what a step does not touch stays.                               *)
(***************************************************************************)
LEMMA MachinesKept ==
  ASSUME Machines, UNCHANGED <<machines, torn>>
  PROVE  Machines'
BY DEF Machines, machines

LEMMA WritesKept ==
  ASSUME WholeWrites, UNCHANGED <<colour, cur, writes>>
  PROVE  WholeWrites'
BY DEF WholeWrites, Halfway

LEMMA ListsKept ==
  ASSUME StripLists, UNCHANGED <<setup, torn, cur>>
  PROVE  StripLists'
BY DEF StripLists, setup

LEMMA TaskKept ==
  ASSUME Task, UNCHANGED <<task, leds, torn, colour>>,
         \A l \in Leds : Halfway(l)' => Halfway(l)
  PROVE  Task'
BY DEF Task, task

LEMMA MixturesKept ==
  ASSUME Mixtures, UNCHANGED <<pixels, leds, torn, task>>
  PROVE  Mixtures'
BY DEF Mixtures, Passed, task

LEMMA BlackIsWhole == Black \in Pixel /\ Whole(Black)
<1>1. 0 \in Byte
  BY DEF Byte
<1>2. Black \in Pixel
  BY <1>1 DEF Black, Pixel
<1>3. InitialMax \in Maxima
  BY DEF Maxima
<1>4. [r |-> Black.r, g |-> Black.g, b |-> Black.b] = Colour("black", UInt8(InitialMax))
  BY DEF Black, Colour
<1> QED  BY <1>2, <1>3, <1>4 DEF Whole

\* A strip that is sent black has no mixtures.
LEMMA ResetKeepsMixtures ==
  ASSUME Mixtures, NEW s \in Strips,
         pixels' = [pixels EXCEPT ![s] = [i \in 0..(NumPixels - 1) |-> Black]],
         UNCHANGED torn,
         \A t \in Strips \ {s} : \A l \in Leds : Passed(t, l) => Passed(t, l)'
  PROVE  Mixtures'
<1>1. pixels' \in [Strips -> Frame]
  BY BlackIsWhole DEF Mixtures, Frame
<1>2. \A i \in 0..(NumPixels - 1) : Whole(pixels'[s][i])
  BY BlackIsWhole DEF Mixtures
<1>3. \A t \in Strips \ {s} : pixels'[t] = pixels[t]
  BY DEF Mixtures
<1>4. ASSUME NEW t \in Strips \ {s}, NEW i \in 0..(NumPixels - 1)
      PROVE  \/ Whole(pixels'[t][i])
             \/ \E l \in Leds : Strip[l] = t /\ Position[l] = i /\ torn'[l] /\ Passed(t, l)'
  BY <1>3 DEF Mixtures
<1> QED  BY <1>1, <1>2, <1>4 DEF Mixtures

-----------------------------------------------------------------------------
(***************************************************************************)
(* The processing task.                                                    *)
(***************************************************************************)
\* A colour has values of the machines, and a whole colour stays one as bytes.
LEMMA ColourValues ==
  ASSUME NEW c, NEW m \in Maxima
  PROVE  Colour(c, m) \in Channels
BY DEF Colour, Channels, Values, Maxima

LEMMA RunActionWrites ==
  ASSUME Machines, NEW l \in Leds, actions[l] # <<>>, RunAction(l)
  PROVE  /\ cur' = l /\ actions' \in [Leds -> Seq(Actions)]
         /\ \A k \in Leds \ {l} : actions'[k] = actions[k]
         /\ \/ writes' = <<>>
            \/ \E c \in Colours, m \in Maxima :
                 LET v == Colour(c, m)
                 IN  writes' = <<<<"r", v.r>>, <<"g", v.g>>, <<"b", v.b>>>>
<1>1. actions[l] \in Seq(Actions) /\ backup_max[l] \in Maxima
  BY DEF Machines
<1>2. Tail(actions[l]) \in Seq(Actions) /\ Head(actions[l]) \in Actions
  BY <1>1, TailIs
<1>3. /\ actions' \in [Leds -> Seq(Actions)]
      /\ \A k \in Leds \ {l} : actions'[k] = actions[k]
  BY <1>2 DEF RunAction, Machines
<1>4. writes' = Writes(Head(actions[l]), backup_max[l]) /\ cur' = l
  BY DEF RunAction
<1>5. CASE Head(actions[l]) = "INIT"
  BY <1>3, <1>4, <1>5 DEF Writes
<1>6. CASE Head(actions[l]) # "INIT"
  <2>1. Head(actions[l]) \in Colours
    BY <1>2, <1>6 DEF Actions
  <2> QED  BY <1>1, <1>3, <1>4, <1>6, <2>1 DEF Writes
<1> QED  BY <1>5, <1>6

\* What the LED task makes of a value, and of a colour.
LEMMA ByteOfValue ==
  ASSUME NEW v \in Values
  PROVE  UInt8(v) \in Byte
BY LedsAssumption DEF Values, Maxima, UInt8, Byte

LEMMA BytesOfColour ==
  ASSUME NEW c, NEW m, NEW v, v = Colour(c, m)
  PROVE  [r |-> UInt8(v.r), g |-> UInt8(v.g), b |-> UInt8(v.b)] = Colour(c, UInt8(m))
<1>1. UInt8(0) = 0
  BY DEF UInt8
<1> HIDE DEF UInt8
<1> QED  BY <1>1 DEF Colour

\* An action starts with nothing written: nothing is halfway before or after.
LEMMA StartKeepsInv ==
  ASSUME LedInv, NEW l \in Leds, actions[l] # <<>>, RunAction(l), writes = <<>>,
         todo = <<>>, pending' \subseteq Leds, handling' = handling,
         UNCHANGED <<driver, setup, colour, max, backup_max, messages, task, torn>>
  PROVE  LedInv'
<1>1. /\ cur' = l /\ actions' \in [Leds -> Seq(Actions)]
      /\ \/ writes' = <<>>
         \/ \E c \in Colours, m \in Maxima :
              LET v == Colour(c, m)
              IN  writes' = <<<<"r", v.r>>, <<"g", v.g>>, <<"b", v.b>>>>
  BY RunActionWrites DEF LedInv
<1>2. Machines'
  BY <1>1 DEF LedInv, Machines
<1>3. Len(writes) \notin 1..2 /\ Len(writes') \notin 1..2
  <2>1. \A x, y, z : Len(<<x, y, z>>) = 3
    OBVIOUS
  <2>2. writes' = <<>> \/ \E x, y, z : writes' = <<x, y, z>>
    BY ONLY <1>1
  <2>3. Len(writes') = 0 \/ Len(writes') = 3
    BY ONLY <2>1, <2>2
  <2> QED  BY <2>3
<1>4. \A k \in Leds : ~Halfway(k) /\ ~Halfway(k)'
  BY <1>3 DEF Halfway
<1>5. WholeWrites'
  <2>1. cur' # NoLed
    BY <1>1, LedsAssumption
  <2>2. \A k \in Leds : \E c \in Colours \cup {"black"}, m \in Maxima :
                         colour'[k] = Colour(c, m)
    BY <1>4 DEF LedInv, WholeWrites
  <2>3. \/ writes' = <<>>
        \/ \E c \in Colours, m \in Maxima :
             LET v == Colour(c, m)
             IN  \/ writes' = <<<<"r", v.r>>, <<"g", v.g>>, <<"b", v.b>>>>
                 \/ /\ writes' = <<<<"g", v.g>>, <<"b", v.b>>>>
                    /\ colour'[cur'].r = v.r
                 \/ /\ writes' = <<<<"b", v.b>>>>
                    /\ colour'[cur'].r = v.r /\ colour'[cur'].g = v.g
    BY <1>1, Zenon
  <2> QED  BY <2>1, <2>2, <2>3 DEF WholeWrites
<1>6. StripLists'
  BY DEF LedInv, StripLists, setup
<1>7. Task'
  BY <1>4, TaskKept DEF LedInv, setup
<1>8. Mixtures'
  BY MixturesKept DEF LedInv, setup, driver
<1> QED  BY <1>2, <1>5, <1>6, <1>7, <1>8 DEF LedInv

LEMMA ExecuteKeepsInv ==
  ASSUME LedInv, NEW l \in Leds, todo = <<>>, Execute(l)
  PROVE  LedInv'
<1>1. writes = <<>>
  BY DEF Execute, LedInv, WholeWrites
<1>2. pending' \subseteq Leds
  BY DEF Execute, LedInv, Machines
<1> QED  BY <1>1, <1>2, StartKeepsInv DEF Execute

LEMMA FinishActionKeepsInv ==
  ASSUME LedInv, todo = <<>>, FinishAction
  PROVE  LedInv'
<1>1. cur \in Leds /\ writes = <<>>
  BY DEF FinishAction, LedInv, Machines
<1>2. CASE actions[cur] # <<>>
  <2>1. RunAction(cur) /\ UNCHANGED pending
    BY <1>2 DEF FinishAction
  <2>2. pending' \subseteq Leds
    BY <2>1 DEF LedInv, Machines
  <2>3. UNCHANGED <<driver, setup, colour, max, backup_max, messages, handling, task, torn>>
    BY DEF FinishAction
  <2> QED  BY <1>1, <1>2, <2>1, <2>2, <2>3, StartKeepsInv
<1>3. CASE actions[cur] = <<>>
  <2>1. /\ cur' = NoLed /\ pending' = pending \cup {cur} /\ writes' = writes
        /\ actions' = actions
        /\ UNCHANGED <<driver, setup, colour, max, backup_max, messages, handling, task,
                       torn>>
    BY <1>3 DEF FinishAction
  <2>2. Machines'
    BY <1>1, <2>1 DEF LedInv, Machines
  <2>3. \A k \in Leds : ~Halfway(k) /\ ~Halfway(k)'
    BY <1>1, <2>1 DEF Halfway
  <2>4. WholeWrites'
    BY <1>1, <2>1, <2>3 DEF LedInv, WholeWrites
  <2>5. StripLists'
    BY <2>1 DEF LedInv, StripLists, setup
  <2>6. Task'
    BY <2>1, <2>3, TaskKept DEF LedInv, setup
  <2>7. Mixtures'
    BY <2>1, MixturesKept DEF LedInv, setup, driver
  <2> QED  BY <2>2, <2>4, <2>5, <2>6, <2>7 DEF LedInv
<1> QED  BY <1>2, <1>3

\* The steps that write no colour and run no action.
LEMMA MessagesKeepInv ==
  ASSUME LedInv, Machines',
         UNCHANGED <<driver, setup, colour, cur, writes, task, torn>>
  PROVE  LedInv'
<1>1. WholeWrites' /\ StripLists'
  BY WritesKept, ListsKept DEF LedInv
<1>2. \A l \in Leds : Halfway(l)' => Halfway(l)
  BY DEF Halfway
<1>3. Task' /\ Mixtures'
  BY <1>2, TaskKept, MixturesKept DEF LedInv, setup, driver
<1> QED  BY <1>1, <1>3 DEF LedInv

LEMMA HandleMessageKeepsInv ==
  ASSUME LedInv, NEW l \in Leds, HandleMessage(l)
  PROVE  LedInv'
<1>1. messages[l] \in Seq(Messages) /\ messages[l] # <<>>
  BY DEF LedInv, Machines, HandleMessage, TakeMessage
<1>2. Tail(messages[l]) \in Seq(Messages) /\ Head(messages[l]) \in Messages
  BY <1>1, TailIs
<1> DEFINE new == IF Head(messages[l]) \in Colours THEN <<Head(messages[l])>> ELSE <<>>
<1>3. new \in Seq(Actions)
  BY DEF Actions
<1> HIDE DEF new
<1>4. actions[l] \o new \in Seq(Actions)
  BY <1>3 DEF LedInv, Machines
<1>5. actions' = [actions EXCEPT ![l] = @ \o new] /\ pending' = pending \cup {l}
  BY DEF HandleMessage, MachineActions_add, new
<1>6. actions' \in [Leds -> Seq(Actions)] /\ pending' \subseteq Leds
  BY <1>4, <1>5 DEF LedInv, Machines
<1>7. messages' \in [Leds -> Seq(Messages)] /\ handling' \in Leds \cup {NoLed}
  BY <1>2 DEF LedInv, Machines, HandleMessage, TakeMessage
<1>8. Machines'
  BY <1>6, <1>7 DEF LedInv, Machines, HandleMessage, TakeMessage
<1> QED  BY <1>8, MessagesKeepInv DEF HandleMessage, TakeMessage

LEMMA CheckStateKeepsInv ==
  ASSUME LedInv, NEW l \in Leds, CheckState(l)
  PROVE  LedInv'
<1>1. Machines'
  BY DEF CheckState, backup_Vars, LedInv, Machines
<1> QED  BY <1>1, MessagesKeepInv DEF CheckState

LEMMA SendKeepsInv ==
  ASSUME LedInv, NEW l \in Leds, NEW msg \in Messages, Send(l, msg),
         max' \in [Leds -> Maxima]
  PROVE  LedInv'
<1>1. messages' \in [Leds -> Seq(Messages)]
  BY DEF Send, LedInv, Machines
<1>2. Machines'
  BY <1>1 DEF Send, LedInv, Machines
<1> QED  BY <1>2, MessagesKeepInv DEF Send

LEMMA ProgramKeepsInv ==
  ASSUME LedInv, Program
  PROVE  LedInv'
<1>1. ASSUME NEW l \in Used, NEW c \in Colours, SendColour(l, c)
      PROVE  LedInv'
  <2>1. l \in Leds /\ c \in Messages /\ max' \in [Leds -> Maxima]
    BY <1>1, LedsAssumption DEF SendColour, LedInv, Machines, Messages
  <2> QED  BY <1>1, <2>1, SendKeepsInv DEF SendColour
<1>2. ASSUME NEW l \in Used, NEW v \in MaxValues, SetMax(l, v)
      PROVE  LedInv'
  <2>1. l \in Leds /\ "property_change" \in Messages
    BY LedsAssumption DEF Messages
  <2>2. max' \in [Leds -> Maxima]
    <3>1. v \in Maxima
      BY DEF Maxima
    <3> QED  BY <1>2, <3>1 DEF SetMax, LedInv, Machines
  <2> QED  BY <1>2, <2>1, <2>2, SendKeepsInv DEF SetMax
<1> QED  BY <1>1, <1>2 DEF Program

\* One of the three writes of an action.
LEMMA SetColourWrites ==
  ASSUME LedInv, SetColour
  PROVE  /\ colour' \in [Leds -> Channels] /\ cur \in Leds
         /\ \A l \in Leds \ {cur} : colour'[l] = colour[l]
         /\ WholeWrites'
<1>1. cur \in Leds /\ cur # NoLed /\ writes # <<>> /\ colour[cur] \in Channels
  BY DEF SetColour, LedInv, Machines
<1>2. PICK c \in Colours, m \in Maxima :
        LET v == Colour(c, m)
        IN  \/ writes = <<<<"r", v.r>>, <<"g", v.g>>, <<"b", v.b>>>>
            \/ /\ writes = <<<<"g", v.g>>, <<"b", v.b>>>>
               /\ colour[cur].r = v.r
            \/ /\ writes = <<<<"b", v.b>>>>
               /\ colour[cur].r = v.r /\ colour[cur].g = v.g
  BY <1>1 DEF LedInv, WholeWrites
<1> DEFINE v == Colour(c, m)
<1>3. v \in Channels /\ v = Colour(c, m)
  BY ColourValues
<1>4. \/ writes = <<<<"r", v.r>>, <<"g", v.g>>, <<"b", v.b>>>>
      \/ /\ writes = <<<<"g", v.g>>, <<"b", v.b>>>>
         /\ colour[cur].r = v.r
      \/ /\ writes = <<<<"b", v.b>>>>
         /\ colour[cur].r = v.r /\ colour[cur].g = v.g
  BY <1>2
<1> HIDE DEF v
<1>5. /\ colour' = [colour EXCEPT ![cur][Head(writes)[1]] = Head(writes)[2]]
      /\ writes' = Tail(writes) /\ cur' = cur
  BY DEF SetColour
<1>6. \A l \in Leds \ {cur} : colour'[l] = colour[l]
  BY <1>5 DEF LedInv, Machines
<1>7. colour'[cur] = [colour[cur] EXCEPT ![Head(writes)[1]] = Head(writes)[2]]
  BY <1>1, <1>5 DEF LedInv, Machines
<1>8. ASSUME NEW l \in Leds \ {cur}
      PROVE  \E d \in Colours \cup {"black"}, n \in Maxima : colour'[l] = Colour(d, n)
  <2>1. ~Halfway(l)
    BY DEF Halfway
  <2> QED  BY <1>6, <2>1 DEF LedInv, WholeWrites
<1>9. colour \in [Leds -> Channels]
  BY DEF LedInv, Machines
<1>10. \A new : new \in Channels /\ colour'[cur] = new => colour' \in [Leds -> Channels]
  BY <1>1, <1>5, <1>9
<1>11. v.r \in Values /\ v.g \in Values /\ v.b \in Values
  BY <1>3 DEF Channels
<1>12. CASE writes = <<<<"r", v.r>>, <<"g", v.g>>, <<"b", v.b>>>>
  <2>1. Head(writes) = <<"r", v.r>> /\ Tail(writes) = <<<<"g", v.g>>, <<"b", v.b>>>>
    BY <1>12
  <2>2. colour'[cur] = [colour[cur] EXCEPT !.r = v.r]
    BY <1>7, <2>1
  <2>3. colour'[cur] \in Channels /\ colour'[cur].r = v.r
    BY <1>1, <1>11, <2>2 DEF Channels
  <2>4. Len(writes') = 2 /\ Halfway(cur)' /\ Len(writes) = 3
    BY <1>5, <1>12, <2>1 DEF Halfway
  <2>5. WholeWrites'
    BY <1>1, <1>3, <1>5, <1>6, <1>8, <2>1, <2>3, <2>4 DEF LedInv, WholeWrites
  <2> QED  BY <1>1, <1>6, <1>10, <2>3, <2>5
<1>13. CASE writes = <<<<"g", v.g>>, <<"b", v.b>>>> /\ colour[cur].r = v.r
  <2>1. Head(writes) = <<"g", v.g>> /\ Tail(writes) = <<<<"b", v.b>>>>
    BY <1>13
  <2>2. colour'[cur] = [colour[cur] EXCEPT !.g = v.g]
    BY <1>7, <2>1
  <2>3. colour'[cur] \in Channels /\ colour'[cur].r = v.r /\ colour'[cur].g = v.g
    BY <1>1, <1>11, <1>13, <2>2 DEF Channels
  <2>4. \A x : Len(<<x>>) = 1
    OBVIOUS
  <2>5. Halfway(cur)'
    <3>1. writes' = <<<<"b", v.b>>>> /\ cur' = cur
      BY ONLY <1>5, <2>1
    <3>2. Len(writes') = 1
      BY ONLY <2>4, <3>1
    <3> QED  BY <3>2 DEF Halfway
  <2>6. /\ cur' # NoLed /\ writes' = <<<<"b", v.b>>>>
        /\ colour'[cur'].r = v.r /\ colour'[cur'].g = v.g
    BY <1>1, <1>5, <2>1, <2>3
  <2>7. \A l \in Leds : ~Halfway(l)' =>
          \E d \in Colours \cup {"black"}, n \in Maxima : colour'[l] = Colour(d, n)
    BY <1>5, <1>8, <2>5
  <2>8. WholeWrites'
    BY <1>3, <2>6, <2>7 DEF WholeWrites
  <2> QED  BY <1>1, <1>6, <1>10, <2>3, <2>8
<1>14. CASE /\ writes = <<<<"b", v.b>>>>
            /\ colour[cur].r = v.r /\ colour[cur].g = v.g
  <2>1. Head(writes) = <<"b", v.b>> /\ Tail(writes) = <<>>
    BY <1>14
  <2>2. colour'[cur] = [colour[cur] EXCEPT !.b = v.b]
    BY <1>7, <2>1
  <2>3. /\ colour'[cur] \in Channels
        /\ colour'[cur].r = v.r /\ colour'[cur].g = v.g /\ colour'[cur].b = v.b
    BY <1>1, <1>11, <1>14, <2>2 DEF Channels
  <2>4. colour'[cur] = v
    BY <1>3, <2>3 DEF Channels
  <2>5. WholeWrites'
    BY <1>1, <1>3, <1>5, <1>6, <1>8, <2>1, <2>4 DEF LedInv, WholeWrites
  <2> QED  BY <1>1, <1>6, <1>10, <2>3, <2>5
<1> QED  BY <1>4, <1>12, <1>13, <1>14

LEMMA SetColourKeepsInv ==
  ASSUME LedInv, todo = <<>>, SetColour
  PROVE  LedInv'
<1>1. /\ colour' \in [Leds -> Channels] /\ cur \in Leds
      /\ \A l \in Leds \ {cur} : colour'[l] = colour[l]
      /\ WholeWrites'
  BY SetColourWrites
<1>2. /\ torn' = [torn EXCEPT ![cur] = @ \/ (item = cur /\ led_pc \in {"green", "blue"})]
      /\ torn \in [Leds -> BOOLEAN] /\ cur' = cur
  BY DEF SetColour, LedInv, Machines
<1>3. /\ torn' \in [Leds -> BOOLEAN]
      /\ \A l \in Leds \ {cur} : torn'[l] = torn[l]
      /\ torn[cur] => torn'[cur]
      /\ item = cur /\ led_pc \in {"green", "blue"} => torn'[cur]
  BY <1>1, <1>2
<1>4. Machines'
  <2>1. messages' \in [Leds -> Seq(Messages)]
    BY <1>1 DEF SetColour, LedInv, Machines, Messages
  <2>2. pending' \subseteq Leds
    BY <1>1 DEF SetColour, LedInv, Machines
  <2> QED  BY <1>1, <1>3, <2>1, <2>2 DEF SetColour, LedInv, Machines
<1>5. StripLists'
  BY DEF SetColour, LedInv, StripLists, setup
<1>6. Task'
  <2>1. UNCHANGED <<led_pc, sli, item, rgb, leds>>
    BY DEF SetColour, task, setup
  <2>2. ASSUME led_pc \in {"green", "blue"}, ~torn'[item]
        PROVE  /\ ~Halfway(item)' /\ rgb.r = UInt8(colour'[item].r)
               /\ led_pc = "blue" => rgb.g = UInt8(colour'[item].g)
    <3>1. item \in Leds /\ item # cur
      BY <1>3, <2>2 DEF LedInv, Task
    <3>2. colour'[item] = colour[item] /\ ~torn[item]
      BY <1>1, <1>3, <2>2, <3>1
    <3>3. ~Halfway(item)'
      BY <1>2, <2>1, <3>1 DEF Halfway
    <3>4. /\ rgb.r = UInt8(colour[item].r)
          /\ led_pc = "blue" => rgb.g = UInt8(colour[item].g)
      BY <2>2, <3>2 DEF LedInv, Task
    <3> QED  BY <3>2, <3>3, <3>4
  <2> QED  BY <2>1, <2>2 DEF LedInv, Task
<1>7. Mixtures'
  <2>1. UNCHANGED <<led_pc, sli, item, pixels, leds>>
    BY DEF SetColour, task, setup, driver
  <2>2. \A s \in Strips : \A l \in Leds : (torn[l] => torn'[l])
                                          /\ (Passed(s, l) => Passed(s, l)')
    BY <1>3, <2>1 DEF Passed
  <2> QED  BY <2>1, <2>2 DEF LedInv, Mixtures
<1> QED  BY <1>1, <1>4, <1>5, <1>6, <1>7 DEF LedInv

-----------------------------------------------------------------------------
(***************************************************************************)
(* cwrt_setup.                                                             *)
(***************************************************************************)
\* A new LED starts with an action, and nothing else runs yet.
LEMMA InitLedKeepsInv ==
  ASSUME LedInv, NEW l \in Leds, InitLed(l)
  PROVE  LedInv'
<1>1. /\ todo # <<>> /\ Head(todo) = l /\ todo' = Tail(todo)
      /\ todo \in Seq(Strips \cup Leds) /\ 1 \in DOMAIN todo /\ todo[1] = l
  BY TailIs DEF InitLed, LedInv, StripLists
<1> DEFINE s == Strip[l]
<1>2. /\ s \in Strips /\ leds' = [leds EXCEPT ![s] = Sorted(@, l)]
      /\ leds \in [Strips -> Seq(Leds)]
  BY LedsAssumption DEF InitLed, LedInv, StripLists
<1>3. /\ \A i, j \in DOMAIN leds[s] : leds[s][i] = leds[s][j] => i = j
      /\ \A i \in DOMAIN leds[s] : leds[s][i] # l
  BY <1>1, <1>2 DEF LedInv, StripLists
<1> HIDE DEF s
<1>4. /\ leds'[s] \in Seq(Leds)
      /\ \A i \in DOMAIN leds'[s] :
           leds'[s][i] = l \/ \E j \in DOMAIN leds[s] : leds'[s][i] = leds[s][j]
      /\ \A i \in DOMAIN leds[s] : \E j \in DOMAIN leds'[s] : leds'[s][j] = leds[s][i]
      /\ \A i, j \in DOMAIN leds'[s] : leds'[s][i] = leds'[s][j] => i = j
  <2>1. leds'[s] = Sorted(leds[s], l) /\ leds[s] \in Seq(Leds)
    BY <1>2
  <2> QED  BY <1>3, <2>1, SortedKeepsList
<1>5. leds' \in [Strips -> Seq(Leds)] /\ \A t \in Strips \ {s} : leds'[t] = leds[t]
  BY <1>2, <1>4
<1>6. cur = NoLed /\ (\A k \in Leds : ~torn[k]) /\ stage = "init"
  BY <1>1, LedsAssumption DEF LedInv, StripLists
<1>7. UNCHANGED <<driver, stage, led_strands, colour, max, backup_max, messages,
                  handling, cur, writes, task, torn>>
  BY DEF InitLed
<1>8. Machines'
  <2>1. "INIT" \in Actions /\ actions' = [actions EXCEPT ![l] = @ \o <<"INIT">>]
        /\ pending' = pending \cup {l}
    BY DEF Actions, InitLed, MachineActions_add
  <2>2. actions' \in [Leds -> Seq(Actions)] /\ pending' \subseteq Leds
    BY <2>1 DEF LedInv, Machines
  <2> QED  BY <1>7, <2>2 DEF LedInv, Machines
<1>9. WholeWrites'
  BY <1>7, WritesKept DEF LedInv
<1>10. StripLists'
  <2>1. /\ todo' \in Seq(Strips \cup Leds)
        /\ \A i, j \in DOMAIN todo' : todo'[i] = todo'[j] => i = j
        /\ \A i \in DOMAIN todo' : todo'[i] # l /\ \E j \in DOMAIN todo : todo'[i] = todo[j]
    BY <1>1, TailIs, TailDistinct DEF LedInv, StripLists
  <2>2. ASSUME NEW t \in Strips, NEW i \in DOMAIN leds'[t]
        PROVE  /\ Strip[leds'[t][i]] = t
               /\ \A j \in DOMAIN leds'[t] : leds'[t][i] = leds'[t][j] => i = j
               /\ \A j \in DOMAIN todo' : todo'[j] # leds'[t][i]
    <3>1. CASE t # s
      BY <1>5, <2>1, <2>2, <3>1 DEF LedInv, StripLists
    <3>2. CASE t = s /\ leds'[s][i] = l
      BY <1>4, <2>1, <2>2, <3>2 DEF s
    <3>3. CASE t = s /\ leds'[s][i] # l
      <4>1. PICK j \in DOMAIN leds[s] : leds'[s][i] = leds[s][j]
        BY <1>4, <2>2, <3>3
      <4>2. /\ Strip[leds[s][j]] = s
            /\ \A k \in DOMAIN todo : todo[k] # leds[s][j]
        BY <1>2, <4>1 DEF LedInv, StripLists
      <4> QED  BY <1>4, <2>1, <2>2, <3>3, <4>1, <4>2
    <3> QED  BY <3>1, <3>2, <3>3
  <2> QED  BY <1>5, <1>6, <1>7, <2>1, <2>2 DEF LedInv, StripLists
<1>11. Task'
  <2>1. UNCHANGED <<led_pc, sli, item, rgb, colour, torn, cur, writes>>
    BY <1>7 DEF task
  <2>2. \A t \in Strips : \A i \in DOMAIN leds[t] :
          \E j \in DOMAIN leds'[t] : leds'[t][j] = leds[t][i]
    BY <1>4, <1>5
  <2>3. led_pc \in {"copy", "green", "blue"} => Head(sli) \in Strips
    BY TailIs DEF LedInv, Task
  <2>4. led_pc \in {"copy", "green", "blue"} /\ item # NoLed =>
          \E k \in DOMAIN leds'[Head(sli)] : leds'[Head(sli)][k] = item
    BY <2>2, <2>3 DEF LedInv, Task
  <2>5. \A k \in Leds : Halfway(k)' <=> Halfway(k)
    BY <2>1 DEF Halfway
  <2> QED  BY <2>1, <2>4, <2>5 DEF LedInv, Task
<1>12. Mixtures'
  BY <1>6, <1>7 DEF LedInv, Mixtures, driver
<1> QED  BY <1>8, <1>9, <1>10, <1>11, <1>12 DEF LedInv

\* What the driver's operations do to the pixels.
LEMMA DriverPixels ==
  ASSUME NEW s
  PROVE  /\ Driver!digitalLeds_initStrands(s) =>
              pixels' = [pixels EXCEPT ![s] = [i \in 0..(NumPixels - 1) |-> Black]]
         /\ Driver!digitalLeds_resetPixels(s) =>
              pixels' = [pixels EXCEPT ![s] = [i \in 0..(NumPixels - 1) |-> Black]]
         /\ Driver!digitalLeds_updatePixels(s) => pixels' = pixels
         /\ Driver!UpdateReturns(s) => pixels' = pixels
         /\ Driver!Send => pixels' = pixels
         /\ Driver!handleInterrupt => pixels' = pixels
BY DEF Driver!digitalLeds_initStrands, Driver!digitalLeds_resetPixels, Driver!Black, Black,
       Driver!digitalLeds_updatePixels, Driver!UpdateReturns, Driver!Send, Driver!SendHalf,
       Driver!SendRest, Driver!handleInterrupt, Driver!HandleThreshold, Driver!HandleEnd

\* A strip's calls of the driver touch the pixels at most.
LEMMA StripCallKeepsInv ==
  ASSUME LedInv, NEW s \in Strips, InitStrip(s) \/ StripReset(s) \/ UpdateStrip(s)
  PROVE  LedInv'
<1>1. UNCHANGED <<todo, led_strands, leds, machines, task, torn>>
  BY DEF InitStrip, StripReset, UpdateStrip
<1>2. stage' \in {"reset", "update", "push"} /\ todo # <<>> /\ Head(todo) \in Strips
  <2>1. stage # "init" => todo # <<>> /\ Head(todo) \in Strips
    BY DEF LedInv, StripLists
  <2> QED  BY <2>1 DEF InitStrip, StripReset, UpdateStrip
<1>3. Machines' /\ WholeWrites'
  BY <1>1, MachinesKept, WritesKept DEF LedInv, machines
<1>4. StripLists'
  BY <1>1, <1>2 DEF LedInv, StripLists, machines
<1>5. \A l \in Leds : Halfway(l)' => Halfway(l)
  BY <1>1 DEF Halfway, machines
<1>6. Task'
  BY <1>1, <1>5, TaskKept DEF LedInv, machines
<1>7. Mixtures'
  <2>1. CASE pixels' = pixels
    BY <1>1, <2>1, MixturesKept DEF LedInv
  <2>2. CASE pixels' = [pixels EXCEPT ![s] = [i \in 0..(NumPixels - 1) |-> Black]]
    <3>1. \A t \in Strips : \A l \in Leds : Passed(t, l) => Passed(t, l)'
      BY <1>1 DEF Passed, task
    <3> QED  BY <1>1, <2>2, <3>1, ResetKeepsMixtures DEF LedInv
  <2> QED  BY <2>1, <2>2, DriverPixels DEF InitStrip, StripReset, UpdateStrip
<1> QED  BY <1>3, <1>4, <1>6, <1>7 DEF LedInv

LEMMA PushKeepsInv ==
  ASSUME LedInv, NEW s \in Strips, push_strip(s)
  PROVE  LedInv'
<1>1. UNCHANGED <<leds, machines, task, torn, pixels>> /\ todo # <<>>
  BY DriverPixels DEF push_strip, LedInv, StripLists
<1>2. todo' = Tail(todo) /\ led_strands' = <<s>> \o led_strands /\ stage' = "init"
  BY DEF push_strip
<1>3. Machines' /\ WholeWrites' /\ Mixtures'
  BY <1>1, MachinesKept, WritesKept, MixturesKept DEF LedInv, machines
<1>4. StripLists'
  <2>1. /\ todo' \in Seq(Strips \cup Leds)
        /\ \A i, j \in DOMAIN todo' : todo'[i] = todo'[j] => i = j
        /\ \A i \in DOMAIN todo' : \E j \in DOMAIN todo : todo'[i] = todo[j]
    BY <1>1, <1>2, TailIs, TailDistinct DEF LedInv, StripLists
  <2>2. led_strands' \in Seq(Strips)
    BY <1>2 DEF LedInv, StripLists
  <2> QED  BY <1>1, <1>2, <2>1, <2>2 DEF LedInv, StripLists, machines
<1>5. \A l \in Leds : Halfway(l)' => Halfway(l)
  BY <1>1 DEF Halfway, machines
<1>6. Task'
  BY <1>1, <1>5, TaskKept DEF LedInv, machines
<1> QED  BY <1>3, <1>4, <1>6 DEF LedInv

-----------------------------------------------------------------------------
(***************************************************************************)
(* The LED task.  It changes the pixels, its own variables and torn.       *)
(***************************************************************************)
\* Between strips.
LEMMA BetweenStripsKeepsInv ==
  ASSUME LedInv, Wake \/ PassDone \/ NextStrip
  PROVE  LedInv'
<1>1. UNCHANGED <<pixels, setup, machines, item, rgb, torn>>
  BY DriverPixels DEF Wake, PassDone, NextStrip, driver
<1>2. led_pc' \in {"delay", "strip"} /\ sli' \in Seq(Strips)
  <2>1. sli \in Seq(Strips) /\ led_strands \in Seq(Strips)
    BY DEF LedInv, StripLists, Task
  <2>2. NextStrip => sli # <<>>
    BY DEF NextStrip, LedInv, Task
  <2>3. NextStrip => Tail(sli) \in Seq(Strips)
    BY <2>1, <2>2, TailIs
  <2> QED  BY <2>1, <2>3 DEF Wake, PassDone, NextStrip
<1>3. Machines' /\ WholeWrites' /\ StripLists'
  BY <1>1, MachinesKept, WritesKept, ListsKept DEF LedInv, machines
<1>4. Task'
  BY <1>1, <1>2 DEF LedInv, Task
<1>5. Mixtures'
  BY <1>1, <1>2 DEF LedInv, Mixtures, Passed, setup
<1> QED  BY <1>3, <1>4, <1>5 DEF LedInv

LEMMA ResetStripKeepsInv ==
  ASSUME LedInv, ResetStrip
  PROVE  LedInv'
<1>1. /\ UNCHANGED <<setup, machines, sli, item, rgb, torn>>
      /\ led_pc = "strip" /\ led_pc' = "reset" /\ sli # <<>>
      /\ Head(sli) \in Strips
      /\ pixels' = [pixels EXCEPT ![Head(sli)] = [i \in 0..(NumPixels - 1) |-> Black]]
  BY DriverPixels, TailIs DEF ResetStrip, LedInv, Task
<1>2. Machines' /\ WholeWrites' /\ StripLists'
  BY <1>1, MachinesKept, WritesKept, ListsKept DEF LedInv, machines
<1>3. Task'
  BY <1>1 DEF LedInv, Task
<1>4. Mixtures'
  <2>1. \A t \in Strips \ {Head(sli)} : \A l \in Leds : Passed(t, l)'
    BY <1>1 DEF Passed
  <2> QED  BY <1>1, <2>1, ResetKeepsMixtures DEF LedInv
<1> QED  BY <1>2, <1>3, <1>4 DEF LedInv

\* The list is gone through from its first LED: no pixel of the strip was
\* mixed when the strip was black.
LEMMA FirstLedKeepsInv ==
  ASSUME LedInv, FirstLed
  PROVE  LedInv'
<1>1. /\ UNCHANGED <<pixels, setup, machines, sli, rgb, torn>>
      /\ led_pc = "reset" /\ led_pc' = "copy" /\ Head(sli) \in Strips /\ sli # <<>>
      /\ item' = FirstOf(leds[Head(sli)])
  BY DriverPixels, TailIs DEF FirstLed, LedInv, Task
<1>2. Machines' /\ WholeWrites' /\ StripLists'
  BY <1>1, MachinesKept, WritesKept, ListsKept DEF LedInv, machines
<1>3. Task'
  <2>1. leds[Head(sli)] \in Seq(Leds)
    BY <1>1 DEF LedInv, StripLists
  <2>2. item' = NoLed \/ (/\ 1 \in DOMAIN leds[Head(sli)] /\ item' = leds[Head(sli)][1]
                          /\ item' \in Leds)
    BY <1>1, <2>1, TailIs DEF FirstOf
  <2>3. leds' = leds
    BY <1>1 DEF setup
  <2> QED  BY <1>1, <2>2, <2>3 DEF LedInv, Task
<1>4. Mixtures'
  <2>1. ASSUME NEW t \in Strips, NEW l \in Leds, Passed(t, l)
        PROVE  Passed(t, l)'
    <3>1. Head(sli) # t
      BY <1>1, <2>1 DEF Passed
    <3> QED  BY <1>1, <3>1 DEF Passed
  <2> QED  BY <1>1, <2>1 DEF LedInv, Mixtures
<1> QED  BY <1>2, <1>3, <1>4 DEF LedInv

LEMMA UpdatePixelsKeepsInv ==
  ASSUME LedInv, UpdatePixels
  PROVE  LedInv'
<1>1. /\ UNCHANGED <<pixels, setup, machines, sli, item, rgb, torn>>
      /\ led_pc = "copy" /\ led_pc' = "update" /\ item = NoLed
  BY DriverPixels DEF UpdatePixels
<1>2. Machines' /\ WholeWrites' /\ StripLists'
  BY <1>1, MachinesKept, WritesKept, ListsKept DEF LedInv, machines
<1>3. Task'
  BY <1>1 DEF LedInv, Task, setup
<1>4. Mixtures'
  <2>1. \A t \in Strips : \A l \in Leds : Passed(t, l) => Passed(t, l)'
    BY <1>1 DEF Passed
  <2> QED  BY <1>1, <2>1 DEF LedInv, Mixtures
<1> QED  BY <1>2, <1>3, <1>4 DEF LedInv

\* The item is on the list of the strip at hand.
LEMMA ItemOnList ==
  ASSUME LedInv, led_pc \in {"copy", "green", "blue"}, item # NoLed
  PROVE  /\ item \in Leds /\ Head(sli) \in Strips /\ leds[Head(sli)] \in Seq(Leds)
         /\ Strip[item] = Head(sli)
         /\ \E k \in DOMAIN leds[Head(sli)] : leds[Head(sli)][k] = item
         /\ \A i, j \in DOMAIN leds[Head(sli)] :
              leds[Head(sli)][i] = leds[Head(sli)][j] => i = j
<1>1. sli \in Seq(Strips) /\ sli # <<>> /\ item \in Leds
  BY DEF LedInv, Task
<1>2. Head(sli) \in Strips
  BY <1>1, TailIs
<1>3. \E k \in DOMAIN leds[Head(sli)] : leds[Head(sli)][k] = item
  BY DEF LedInv, Task
<1> QED  BY <1>1, <1>2, <1>3 DEF LedInv, StripLists

\* The task goes on: what it had passed is passed, and so is the item.
LEMMA GoingOn ==
  ASSUME LedInv, led_pc \in {"copy", "blue"}, item # NoLed,
         item' = NextOf(leds[Head(sli)], item), led_pc' = "copy", UNCHANGED <<sli, leds>>
  PROVE  /\ item' # NoLed =>
              item' \in Leds /\ \E k \in DOMAIN leds[Head(sli)] : leds[Head(sli)][k] = item'
         /\ \A t \in Strips : \A l \in Leds : Passed(t, l) => Passed(t, l)'
         /\ \A t \in Strips : \A l \in Leds : t = Head(sli) /\ l = item => Passed(t, l)'
<1> DEFINE seq == leds[Head(sli)]
<1>1. PICK n \in DOMAIN seq : seq[n] = item
  BY ItemOnList
<1>2. seq \in Seq(Leds) /\ \A i, j \in DOMAIN seq : seq[i] = seq[j] => i = j
  BY ItemOnList
<1> HIDE DEF seq
<1>3. /\ n = Len(seq) => item' = NoLed
      /\ n # Len(seq) => n + 1 \in DOMAIN seq /\ item' = seq[n + 1]
  <2>1. item' = NextOf(seq, seq[n])
    BY <1>1 DEF seq
  <2> QED  BY <1>1, <1>2, <2>1, NextIsOnList
<1>4. item' # NoLed => item' \in Leds /\ \E k \in DOMAIN seq : seq[k] = item'
  BY <1>2, <1>3
<1>5. ASSUME item' # NoLed, NEW j \in DOMAIN seq, NEW k \in DOMAIN seq, seq[k] = item',
             j <= n
      PROVE  j < k
  <2>1. k = n + 1
    BY <1>2, <1>3, <1>5
  <2> QED  BY <1>1, <1>2, <1>5, <2>1
<1>6. item' # NoLed => \A j, k \in DOMAIN seq : seq[j] = item /\ seq[k] = item' => j < k
  <2> SUFFICES ASSUME item' # NoLed, NEW j \in DOMAIN seq, NEW k \in DOMAIN seq,
                      seq[j] = item, seq[k] = item'
               PROVE  j < k
    OBVIOUS
  <2>1. j = n /\ n <= n
    BY <1>1, <1>2
  <2> QED  BY <1>5, <2>1
<1>7. ASSUME NEW t \in Strips, NEW l \in Leds, Passed(t, l)
      PROVE  Passed(t, l)'
  <2>1. CASE Head(sli) # t
    BY <2>1 DEF Passed
  <2>2. CASE Head(sli) = t
    <3>1. leds[t] = seq
      BY <2>2 DEF seq
    <3>2. \A j, k \in DOMAIN seq : seq[j] = l /\ seq[k] = item => j < k
      BY <1>7, <2>2, <3>1 DEF Passed
    <3>3. ASSUME item' # NoLed, NEW j \in DOMAIN seq, NEW k \in DOMAIN seq,
                 seq[j] = l, seq[k] = item'
          PROVE  j < k
      <4>1. j < n
        BY <1>1, <3>2, <3>3
      <4>2. j <= n
        BY <1>1, <1>2, <4>1
      <4> QED  BY <1>5, <3>3, <4>2
    <3> QED  BY <2>2, <3>1, <3>3 DEF Passed
  <2> QED  BY <2>1, <2>2
<1>8. \A t \in Strips : \A l \in Leds : t = Head(sli) /\ l = item => Passed(t, l)'
  BY <1>6 DEF Passed, seq
<1> QED  BY <1>4, <1>7, <1>8 DEF seq

LEMMA SkipLedKeepsInv ==
  ASSUME LedInv, SkipLed
  PROVE  LedInv'
<1>1. /\ UNCHANGED <<pixels, setup, machines, led_pc, sli, rgb, torn>>
      /\ led_pc = "copy" /\ item # NoLed /\ item' = NextOf(leds[Head(sli)], item)
      /\ leds' = leds
  BY DEF SkipLed, driver, setup
<1>2. Machines' /\ WholeWrites' /\ StripLists'
  BY <1>1, MachinesKept, WritesKept, ListsKept DEF LedInv, machines
<1>3. /\ item' # NoLed =>
           item' \in Leds /\ \E k \in DOMAIN leds[Head(sli)] : leds[Head(sli)][k] = item'
      /\ \A t \in Strips : \A l \in Leds : Passed(t, l) => Passed(t, l)'
  BY <1>1, GoingOn
<1>4. Task'
  BY <1>1, <1>3 DEF LedInv, Task
<1>5. Mixtures'
  BY <1>1, <1>3 DEF LedInv, Mixtures
<1> QED  BY <1>2, <1>4, <1>5 DEF LedInv

\* The copy starts: the pixel was not mixed by an earlier copy of this LED.
LEMMA CopyRedKeepsInv ==
  ASSUME LedInv, CopyRed
  PROVE  LedInv'
<1>1. /\ UNCHANGED <<pixels, setup, machines, sli, item>>
      /\ led_pc = "copy" /\ led_pc' = "green" /\ item # NoLed /\ InRange(item)
      /\ rgb' = [rgb EXCEPT !.r = UInt8(colour[item].r)]
      /\ torn' = [torn EXCEPT ![item] = Halfway(item)]
      /\ UNCHANGED <<leds, todo, cur, writes, colour>>
  BY DEF CopyRed, driver, setup, machines, Halfway
<1>2. /\ item \in Leds /\ Strip[item] = Head(sli) /\ Head(sli) \in Strips
      /\ \E k \in DOMAIN leds[Head(sli)] : leds[Head(sli)][k] = item
  BY <1>1, ItemOnList
<1>3. /\ torn' \in [Leds -> BOOLEAN]
      /\ torn'[item] <=> Halfway(item)
      /\ \A l \in Leds \ {item} : torn'[l] = torn[l]
  <2>1. torn \in [Leds -> BOOLEAN] /\ Halfway(item) \in BOOLEAN
    BY DEF LedInv, Machines, Halfway
  <2> HIDE DEF Halfway
  <2> QED  BY <1>1, <1>2, <2>1
<1>4. Machines'
  BY <1>1, <1>3 DEF LedInv, Machines, machines
<1>5. WholeWrites'
  BY <1>1, WritesKept DEF LedInv
<1>6. StripLists'
  <2>1. todo # <<>> => \A l \in Leds : ~torn'[l]
    BY <1>1, <1>3 DEF LedInv, StripLists, Halfway
  <2> QED  BY <1>1, <2>1 DEF LedInv, StripLists, setup
<1>7. Task'
  <2>1. UInt8(colour[item].r) \in Byte
    BY <1>2, ByteOfValue DEF LedInv, Machines, Channels
  <2>2. rgb' \in Copies /\ rgb'.r = UInt8(colour[item].r)
    BY <1>1, <2>1 DEF LedInv, Task, Copies
  <2>3. ~torn'[item] => ~(item = cur /\ Len(writes) \in 1..2)
    BY <1>3 DEF Halfway
  <2> QED  BY <1>1, <1>2, <2>2, <2>3 DEF LedInv, Task, Halfway, InRange
<1>8. Mixtures'
  <2>1. ASSUME NEW t \in Strips, NEW l \in Leds, Passed(t, l), Strip[l] = t
        PROVE  l # item /\ Passed(t, l)'
    <3>1. Head(sli) = t => \A j, k \in DOMAIN leds[t] :
                             leds[t][j] = l /\ leds[t][k] = item => j < k
      BY <1>1, <2>1 DEF Passed
    <3>2. l # item
      <4> SUFFICES ASSUME l = item PROVE FALSE
        OBVIOUS
      <4>1. PICK k \in DOMAIN leds[t] : leds[t][k] = item
        BY <1>2, <2>1
      <4>2. k < k
        BY <1>2, <2>1, <3>1, <4>1
      <4>3. k \in Nat
        BY <4>1 DEF LedInv, StripLists
      <4> QED  BY <4>2, <4>3
    <3> QED  BY <1>1, <3>1, <3>2 DEF Passed
  <2>2. pixels' \in [Strips -> Frame]
    BY <1>1 DEF LedInv, Mixtures
  <2>3. ASSUME NEW t \in Strips, NEW i \in 0..(NumPixels - 1)
        PROVE  \/ Whole(pixels'[t][i])
               \/ \E l \in Leds : Strip[l] = t /\ Position[l] = i /\ torn'[l]
                                 /\ Passed(t, l)'
    <3>1. CASE Whole(pixels[t][i])
      BY <1>1, <3>1
    <3>2. CASE ~Whole(pixels[t][i])
      <4>1. PICK l \in Leds : Strip[l] = t /\ Position[l] = i /\ torn[l] /\ Passed(t, l)
        BY <3>2 DEF LedInv, Mixtures
      <4> QED  BY <1>3, <2>1, <4>1
    <3> QED  BY <3>1, <3>2
  <2> QED  BY <2>2, <2>3 DEF Mixtures
<1> QED  BY <1>4, <1>5, <1>6, <1>7, <1>8 DEF LedInv

LEMMA CopyGreenKeepsInv ==
  ASSUME LedInv, CopyGreen
  PROVE  LedInv'
<1>1. /\ UNCHANGED <<pixels, setup, machines, sli, item, torn>>
      /\ led_pc = "green" /\ led_pc' = "blue"
      /\ rgb' = [rgb EXCEPT !.g = UInt8(colour[item].g)]
      /\ UNCHANGED <<leds, cur, writes, colour>>
  BY DEF CopyGreen, driver, setup, machines
<1>2. item \in Leds /\ item # NoLed
  BY <1>1, LedsAssumption DEF LedInv, Task
<1>3. Machines' /\ WholeWrites' /\ StripLists'
  BY <1>1, MachinesKept, WritesKept, ListsKept DEF LedInv, machines
<1>4. Task'
  <2>1. UInt8(colour[item].g) \in Byte
    BY <1>2, ByteOfValue DEF LedInv, Machines, Channels
  <2>2. /\ rgb' \in Copies /\ rgb'.g = UInt8(colour[item].g)
        /\ rgb'.r = rgb.r
    BY <1>1, <2>1 DEF LedInv, Task, Copies
  <2>3. ~torn[item] => ~Halfway(item) /\ rgb.r = UInt8(colour[item].r)
    BY <1>1 DEF LedInv, Task
  <2> QED  BY <1>1, <2>2, <2>3 DEF LedInv, Task, Halfway
<1>5. Mixtures'
  <2>1. \A t \in Strips : \A l \in Leds : Passed(t, l) => Passed(t, l)'
    BY <1>1 DEF Passed
  <2> QED  BY <1>1, <2>1 DEF LedInv, Mixtures
<1> QED  BY <1>3, <1>4, <1>5 DEF LedInv

\* The pixel is written: whole if the copy is, and else its LED is torn.
LEMMA CopyBlueKeepsInv ==
  ASSUME LedInv, CopyBlue
  PROVE  LedInv'
<1> DEFINE s == Head(sli)
           n == Position[item]
           p == [r |-> rgb.r, g |-> rgb.g, b |-> UInt8(colour[item].b), w |-> 0]
<1>1. /\ UNCHANGED <<setup, machines, sli, torn>>
      /\ led_pc = "blue" /\ led_pc' = "copy" /\ item # NoLed
      /\ item' = NextOf(leds[s], item)
      /\ rgb' = [r |-> 0, g |-> 0, b |-> 0]
      /\ pixels' = [pixels EXCEPT ![s][n] = p]
      /\ leds' = leds
  BY DEF CopyBlue, setup, LedInv, Task
<1>2. /\ item \in Leds /\ Strip[item] = s /\ s \in Strips /\ n \in 0..(NumPixels - 1)
  BY <1>1, ItemOnList DEF LedInv, Task, InRange
<1>3. p \in Pixel
  <2>1. UInt8(colour[item].b) \in Byte
    BY <1>2, ByteOfValue DEF LedInv, Machines, Channels
  <2>2. rgb.r \in Byte /\ rgb.g \in Byte
    BY DEF LedInv, Task, Copies
  <2>3. 0 \in Byte
    BY DEF Byte
  <2> QED  BY <2>1, <2>2, <2>3 DEF Pixel
<1>4. ~torn[item] => Whole(p)
  <2> SUFFICES ASSUME ~torn[item] PROVE Whole(p)
    OBVIOUS
  <2>1. ~Halfway(item) /\ rgb.r = UInt8(colour[item].r) /\ rgb.g = UInt8(colour[item].g)
    BY <1>1 DEF LedInv, Task
  <2>2. PICK c \in Colours \cup {"black"}, m \in Maxima : colour[item] = Colour(c, m)
    BY <1>2, <2>1 DEF LedInv, WholeWrites
  <2>3. [r |-> p.r, g |-> p.g, b |-> p.b] = Colour(c, UInt8(m))
    BY <2>1, <2>2, BytesOfColour
  <2> QED  BY <2>3 DEF Whole
<1> HIDE DEF p, n, s
<1>5. /\ pixels' \in [Strips -> Frame] /\ pixels'[s][n] = p
      /\ \A t \in Strips : \A i \in 0..(NumPixels - 1) :
           t # s \/ i # n => pixels'[t][i] = pixels[t][i]
  <2>1. pixels \in [Strips -> Frame] /\ pixels[s] \in [0..(NumPixels - 1) -> Pixel]
    BY <1>2 DEF LedInv, Mixtures, Frame
  <2>2. pixels'[s] = [pixels[s] EXCEPT ![n] = p] /\ \A t \in Strips \ {s} : pixels'[t] = pixels[t]
    BY <1>1, <1>2, <2>1
  <2>3. pixels'[s] \in Frame
    BY <1>3, <2>1, <2>2 DEF Frame
  <2>4. pixels' \in [Strips -> Frame]
    BY <1>1, <1>2, <2>1, <2>2, <2>3
  <2> QED  BY <1>2, <2>1, <2>2, <2>4
<1>6. Machines' /\ WholeWrites' /\ StripLists'
  BY <1>1, MachinesKept, WritesKept, ListsKept DEF LedInv, machines
<1>7. /\ item' # NoLed =>
           item' \in Leds /\ \E k \in DOMAIN leds[s] : leds[s][k] = item'
      /\ \A t \in Strips : \A l \in Leds : Passed(t, l) => Passed(t, l)'
      /\ \A t \in Strips : \A l \in Leds : t = s /\ l = item => Passed(t, l)'
  BY <1>1, GoingOn DEF s
<1>8. Task'
  <2>1. rgb' \in Copies
    BY <1>1 DEF Copies, Byte
  <2> QED  BY <1>1, <1>7, <2>1 DEF LedInv, Task, s
<1>9. ASSUME NEW t \in Strips, NEW i \in 0..(NumPixels - 1)
      PROVE  \/ Whole(pixels'[t][i])
             \/ \E l \in Leds : Strip[l] = t /\ Position[l] = i /\ torn'[l]
                               /\ Passed(t, l)'
  <2>1. CASE t # s \/ i # n
    BY <1>1, <1>5, <1>7, <2>1 DEF LedInv, Mixtures
  <2>2. CASE t = s /\ i = n
    <3>1. CASE ~torn[item]
      BY <1>4, <1>5, <2>2, <3>1
    <3>2. CASE torn[item]
      <4>1. torn'[item] /\ Position[item] = i /\ Strip[item] = t
        BY <1>1, <1>2, <2>2, <3>2 DEF n
      <4>2. PICK l \in Leds : l = item
        BY <1>2
      <4>3. Passed(t, l)'
        BY <1>7, <2>2, <4>2
      <4>4. torn'[l] /\ Position[l] = i /\ Strip[l] = t
        BY <4>1, <4>2
      <4> QED  BY <4>3, <4>4
    <3> QED  BY <3>1, <3>2
  <2> QED  BY <2>1, <2>2
<1>10. Mixtures'
  BY <1>5, <1>9 DEF Mixtures
<1> QED  BY <1>6, <1>8, <1>10 DEF LedInv

-----------------------------------------------------------------------------
(***************************************************************************)
(* Types and whole colours, for any strips and LEDs.                       *)
(***************************************************************************)
\* Everything is black, and nothing runs, before cwrt_setup.
THEOREM InitLedInv == Init => LedInv
<1> SUFFICES ASSUME Init PROVE LedInv
  OBVIOUS
<1>1. 0 \in Values /\ InitialMax \in Maxima /\ 0 \in Byte
  BY DEF Values, Maxima, Byte
<1>2. Machines
  <2>1. colour \in [Leds -> Channels]
    BY <1>1 DEF Init, Channels
  <2>2. max \in [Leds -> Maxima] /\ backup_max \in [Leds -> Maxima]
    BY <1>1 DEF Init
  <2> QED  BY <2>1, <2>2 DEF Init, Machines
<1>3. WholeWrites
  <2>1. \A l \in Leds : colour[l] = Colour("black", InitialMax)
    BY DEF Init, Colour
  <2> QED  BY <1>1, <2>1 DEF Init, WholeWrites
<1>4. StripLists
  BY SetupAssumption DEF Init, StripLists
<1>5. Task
  BY <1>1 DEF Init, Task, Copies
<1>6. Mixtures
  <2>1. pixels = [s \in Strips |-> [i \in 0..(NumPixels - 1) |-> Black]]
    BY DEF Init, Driver!Init, Driver!Black, Black
  <2> QED  BY <2>1, BlackIsWhole DEF Mixtures, Frame
<1> QED  BY <1>2, <1>3, <1>4, <1>5, <1>6 DEF LedInv

\* Every step of setup, tasks and hardware keeps the invariant.
THEOREM NextLedInv == LedInv /\ [Next]_vars => LedInv'
<1> SUFFICES ASSUME LedInv, [Next]_vars PROVE LedInv'
  OBVIOUS
<1>1. CASE cwrt_setup
  BY <1>1, StripCallKeepsInv, PushKeepsInv, InitLedKeepsInv DEF cwrt_setup
<1>2. ASSUME NEW l \in Leds, Dispatch(l)
      PROVE  LedInv'
  BY <1>2, ExecuteKeepsInv, HandleMessageKeepsInv, CheckStateKeepsInv DEF Dispatch
<1>3. CASE Action
  BY <1>3, SetColourKeepsInv, FinishActionKeepsInv DEF Action
<1>4. CASE Program
  BY <1>4, ProgramKeepsInv
<1>5. CASE cwDigitalLedsTask
  BY <1>5, BetweenStripsKeepsInv, ResetStripKeepsInv, FirstLedKeepsInv, SkipLedKeepsInv,
     CopyRedKeepsInv, CopyGreenKeepsInv, CopyBlueKeepsInv, UpdatePixelsKeepsInv
     DEF cwDigitalLedsTask
<1>6. CASE Hardware \/ Interrupt \/ UNCHANGED vars
  <2>1. UNCHANGED <<pixels, setup, machines, task, torn>>
    BY <1>6, DriverPixels DEF Hardware, Interrupt, vars, driver
  <2>2. Machines' /\ WholeWrites' /\ StripLists'
    BY <2>1, MachinesKept, WritesKept, ListsKept DEF LedInv, machines
  <2>3. \A l \in Leds : Halfway(l)' => Halfway(l)
    BY <2>1 DEF Halfway, machines
  <2>4. Task' /\ Mixtures'
    BY <2>1, <2>3, TaskKept, MixturesKept DEF LedInv, machines, setup
  <2> QED  BY <2>2, <2>4 DEF LedInv
<1> QED  BY <1>1, <1>2, <1>3, <1>4, <1>5, <1>6 DEF Next

\* The invariant holds for any strips and LEDs.
THEOREM AlwaysLedInv == Spec => []LedInv
BY InitLedInv, NextLedInv, PTL DEF Spec

\* A pixel shows one of the colours of the program, unless an LED at its place
\* was written while it was copied: whatever the strips, the LEDs, their
\* positions and the order they were created in.
THEOREM PixelsAreWhole == Spec => []WholeColours
<1>1. LedInv => WholeColours
  BY DEF LedInv, Mixtures, WholeColours
<1> QED  BY <1>1, AlwaysLedInv, PTL

-----------------------------------------------------------------------------
(***************************************************************************)
(* Machines at rest.                                                       *)
(***************************************************************************)
LEMMA RestKept ==
  ASSUME AtRestIsFresh,
         UNCHANGED <<messages, actions, max, backup_max, pending, cur>>
  PROVE  AtRestIsFresh'
BY DEF AtRestIsFresh

\* A machine that gets something to do is marked.
LEMMA NextAtRest == LedInv /\ AtRestIsFresh /\ [Next]_vars => AtRestIsFresh'
<1> SUFFICES ASSUME LedInv, AtRestIsFresh, [Next]_vars PROVE AtRestIsFresh'
  OBVIOUS
<1>1. ASSUME NEW l \in Leds, InitLed(l) PROVE AtRestIsFresh'
  <2>1. /\ pending' = pending \cup {l} /\ \A k \in Leds \ {l} : actions'[k] = actions[k]
        /\ UNCHANGED <<messages, max, backup_max, cur>>
    BY <1>1 DEF InitLed, MachineActions_add, LedInv, Machines
  <2> QED  BY <2>1 DEF AtRestIsFresh
<1>2. ASSUME NEW s \in Strips, InitStrip(s) \/ StripReset(s) \/ UpdateStrip(s) \/ push_strip(s)
      PROVE  AtRestIsFresh'
  BY <1>2, RestKept DEF InitStrip, StripReset, UpdateStrip, push_strip, machines
<1>3. ASSUME NEW l \in Leds, Execute(l) PROVE AtRestIsFresh'
  <2>1. /\ pending' = pending \ {l} /\ \A k \in Leds \ {l} : actions'[k] = actions[k]
        /\ cur = NoLed /\ cur' = l /\ UNCHANGED <<messages, max, backup_max>>
    BY <1>3 DEF Execute, RunAction, LedInv, Machines
  <2>2. NoLed \notin Leds
    BY LedsAssumption
  <2> QED  BY <2>1, <2>2 DEF AtRestIsFresh
<1>4. ASSUME NEW l \in Leds, HandleMessage(l) PROVE AtRestIsFresh'
  <2>1. /\ pending' = pending \cup {l} /\ \A k \in Leds \ {l} : actions'[k] = actions[k]
        /\ \A k \in Leds \ {l} : messages'[k] = messages[k]
        /\ UNCHANGED <<max, backup_max, cur>>
    BY <1>4 DEF HandleMessage, TakeMessage, MachineActions_add, LedInv, Machines
  <2> QED  BY <2>1 DEF AtRestIsFresh
<1>5. ASSUME NEW l \in Leds, CheckState(l) PROVE AtRestIsFresh'
  <2>1. /\ pending' = pending \ {l} /\ messages[l] = <<>> /\ actions[l] = <<>>
        /\ backup_max'[l] = max[l] /\ \A k \in Leds \ {l} : backup_max'[k] = backup_max[k]
        /\ UNCHANGED <<messages, actions, max, cur>>
    BY <1>5 DEF CheckState, backup_Vars, LedInv, Machines
  <2> QED  BY <2>1 DEF AtRestIsFresh
<1>6. CASE SetColour
  <2>1. /\ pending' = pending \cup {cur} /\ \A k \in Leds \ {cur} : messages'[k] = messages[k]
        /\ UNCHANGED <<actions, max, backup_max, cur>>
    BY <1>6 DEF SetColour, LedInv, Machines
  <2> QED  BY <2>1 DEF AtRestIsFresh
<1>7. CASE FinishAction
  <2>1. /\ \A k \in Leds \ {cur} : actions'[k] = actions[k]
        /\ pending \subseteq pending' /\ (cur' = cur \/ cur \in pending')
        /\ UNCHANGED <<messages, max, backup_max>>
    BY <1>7 DEF FinishAction, RunAction, LedInv, Machines
  <2> QED  BY <2>1 DEF AtRestIsFresh
<1>8. ASSUME NEW l \in Leds, NEW msg, Send(l, msg),
             \A k \in Leds \ {l} : max'[k] = max[k]
      PROVE  AtRestIsFresh'
  <2>1. /\ pending' = pending \cup {l} /\ \A k \in Leds \ {l} : messages'[k] = messages[k]
        /\ UNCHANGED <<actions, backup_max, cur>>
    BY <1>8 DEF Send, LedInv, Machines
  <2> QED  BY <1>8, <2>1 DEF AtRestIsFresh
<1>9. CASE Program
  <2>1. ASSUME NEW l \in Used, NEW c \in Colours, SendColour(l, c) PROVE AtRestIsFresh'
    BY <1>8, <2>1, LedsAssumption DEF SendColour
  <2>2. ASSUME NEW l \in Used, NEW v \in MaxValues, SetMax(l, v) PROVE AtRestIsFresh'
    <3>1. \A k \in Leds \ {l} : max'[k] = max[k]
      BY <2>2 DEF SetMax, LedInv, Machines
    <3> QED  BY <1>8, <2>2, <3>1, LedsAssumption DEF SetMax
  <2> QED  BY <1>9, <2>1, <2>2 DEF Program
<1>10. CASE cwDigitalLedsTask
  <2>1. UNCHANGED machines
    BY <1>10 DEF cwDigitalLedsTask, Wake, ResetStrip, PassDone, FirstLed, SkipLed, CopyRed,
                 CopyGreen, CopyBlue, UpdatePixels, NextStrip
  <2> QED  BY <2>1, RestKept DEF machines
<1>11. CASE Hardware \/ Interrupt \/ UNCHANGED vars
  BY <1>11, RestKept DEF Hardware, Interrupt, vars, machines
<1> QED
  BY <1>1, <1>2, <1>3, <1>4, <1>5, <1>6, <1>7, <1>9, <1>10, <1>11
     DEF Next, cwrt_setup, Dispatch, Action

\* An LED nothing is pending for has done everything it was sent, with the max
\* it has: however many LEDs there are, and whatever they are sent.
THEOREM RestIsFresh == Spec => []AtRestIsFresh
<1>1. Init => AtRestIsFresh
  BY DEF Init, AtRestIsFresh
<1> QED  BY <1>1, NextAtRest, AlwaysLedInv, PTL DEF Spec

-----------------------------------------------------------------------------
(***************************************************************************)
(* The driver.  RmtLed_proofs states its theorems of DriverProofs!, an     *)
(* instance of the same definitions.                                       *)
(***************************************************************************)
LEMMA SameInvariant ==
  /\ Driver!TypeOK <=> DriverProofs!TypeOK
  /\ Driver!DriverInv <=> DriverProofs!DriverInv
  /\ Driver!LineCarriesFrame <=> DriverProofs!LineCarriesFrame
<1>1. Driver!TypeOK <=> DriverProofs!TypeOK
  BY DEF Driver!TypeOK, Driver!StateData, Driver!Byte, Driver!Frame, Driver!Pixel,
         Driver!FrameLength, DriverProofs!TypeOK, DriverProofs!StateData,
         DriverProofs!Byte, DriverProofs!Frame, DriverProofs!Pixel,
         DriverProofs!FrameLength
<1>2. Driver!DriverInv <=> DriverProofs!DriverInv
  BY DEF Driver!DriverInv, Driver!WaitsWhileSent, Driver!LineInv, Driver!TwoHalvesAhead,
         Driver!Piece, Driver!Upto, Driver!NoState, Driver!Byte, Driver!FrameLength,
         DriverProofs!DriverInv, DriverProofs!WaitsWhileSent, DriverProofs!LineInv,
         DriverProofs!TwoHalvesAhead, DriverProofs!Piece, DriverProofs!Upto,
         DriverProofs!NoState, DriverProofs!Byte, DriverProofs!FrameLength
<1>3. Driver!LineCarriesFrame <=> DriverProofs!LineCarriesFrame
  BY DEF Driver!LineCarriesFrame, DriverProofs!LineCarriesFrame
<1> QED  BY <1>1, <1>2, <1>3

LEMMA SameSteps ==
  /\ Driver!Init <=> DriverProofs!Init
  /\ [Driver!Next]_(Driver!vars) <=> [DriverProofs!Next]_(DriverProofs!vars)
<1>1. Driver!Init <=> DriverProofs!Init
  BY DEF Driver!Init, Driver!NoState, Driver!Black, DriverProofs!Init,
         DriverProofs!NoState, DriverProofs!Black
<1>2. Driver!Next <=> DriverProofs!Next
  BY DEF Driver!Next, Driver!Send, Driver!SendHalf, Driver!SendRest,
         Driver!handleInterrupt, Driver!HandleThreshold, Driver!HandleEnd, Driver!SetPixels,
         Driver!Quiet, Driver!Updating, Driver!Filled, Driver!Chunk, Driver!NextPos,
         Driver!Advanced, Driver!StartUpdate, Driver!Packed, Driver!UpdateReturns,
         Driver!digitalLeds_initStrands, Driver!digitalLeds_updatePixels,
         Driver!digitalLeds_resetPixels, Driver!hardware, Driver!Black,
         Driver!FrameLength, Driver!Frame, Driver!Pixel, Driver!Byte,
         DriverProofs!Next, DriverProofs!Send, DriverProofs!SendHalf, DriverProofs!SendRest,
         DriverProofs!handleInterrupt, DriverProofs!HandleThreshold,
         DriverProofs!HandleEnd, DriverProofs!SetPixels, DriverProofs!Quiet,
         DriverProofs!Updating, DriverProofs!Filled, DriverProofs!Chunk,
         DriverProofs!NextPos, DriverProofs!Advanced, DriverProofs!StartUpdate,
         DriverProofs!Packed, DriverProofs!UpdateReturns,
         DriverProofs!digitalLeds_initStrands, DriverProofs!digitalLeds_updatePixels,
         DriverProofs!digitalLeds_resetPixels, DriverProofs!hardware,
         DriverProofs!Black, DriverProofs!FrameLength, DriverProofs!Frame,
         DriverProofs!Pixel, DriverProofs!Byte
<1>3. Driver!vars = DriverProofs!vars
  BY DEF Driver!vars, Driver!hardware, DriverProofs!vars, DriverProofs!hardware
<1> QED  BY <1>1, <1>2, <1>3 DEF Driver!vars, Driver!hardware, DriverProofs!vars,
                                 DriverProofs!hardware

\* What RmtLed_proofs proves of the driver, of the driver here.
LEMMA DriverTheorems ==
  /\ Driver!Init => Driver!TypeOK /\ Driver!DriverInv
  /\ Driver!TypeOK /\ Driver!DriverInv /\ [Driver!Next]_(Driver!vars) =>
       Driver!TypeOK' /\ Driver!DriverInv'
  /\ Driver!TypeOK /\ Driver!DriverInv => Driver!LineCarriesFrame
<1>1. DriverProofs!Init => DriverProofs!TypeOK /\ DriverProofs!DriverInv
  BY DriverProofs!InitDriverInv, BytesPerPixelAssumption, FrameAssumption
<1>2. DriverProofs!TypeOK /\ DriverProofs!DriverInv
        /\ [DriverProofs!Next]_(DriverProofs!vars) =>
      DriverProofs!TypeOK' /\ DriverProofs!DriverInv'
  BY DriverProofs!NextDriverInv, BytesPerPixelAssumption, FrameAssumption
<1>3. DriverProofs!TypeOK /\ DriverProofs!DriverInv => DriverProofs!LineCarriesFrame
  BY DriverProofs!InvImpliesLineCarriesFrame, BytesPerPixelAssumption, FrameAssumption
<1>4. /\ Driver!TypeOK' <=> DriverProofs!TypeOK'
      /\ Driver!DriverInv' <=> DriverProofs!DriverInv'
  BY SameInvariant, PTL
<1> QED  BY <1>1, <1>2, <1>3, <1>4, SameInvariant, SameSteps

\* Whom the driver's steps let wait, and whom they let go on.
LEMMA Waiting ==
  ASSUME Driver!TypeOK, NEW s \in Strips
  PROVE  /\ Driver!UpdateReturns(s) => ~Driver!Updating(s)' /\ localStrands' = localStrands
         /\ Driver!Send => UNCHANGED <<state, localStrands>>
         /\ Driver!handleInterrupt =>
              (Driver!Updating(s)' => Driver!Updating(s)) /\ localStrands' = localStrands
<1>1. state \in [Strips -> Driver!StateData] /\ state[s] \in Driver!StateData
  BY DEF Driver!TypeOK
<1>2. Driver!UpdateReturns(s) => ~Driver!Updating(s)' /\ localStrands' = localStrands
  <2>1. Driver!UpdateReturns(s) => state'[s].sem = "none"
    BY <1>1 DEF Driver!UpdateReturns, Driver!StateData
  <2> QED  BY <2>1 DEF Driver!UpdateReturns, Driver!Updating
<1>3. Driver!Send => UNCHANGED <<state, localStrands>>
  BY DEF Driver!Send, Driver!SendHalf, Driver!SendRest
<1>4. ASSUME NEW t \in Strips, Driver!HandleThreshold(t)
      PROVE  (Driver!Updating(s)' => Driver!Updating(s)) /\ localStrands' = localStrands
  <2>1. state' = [state EXCEPT ![t] = Driver!Advanced(state[t])]
        /\ localStrands' = localStrands
    BY <1>4 DEF Driver!HandleThreshold
  <2>2. state[t] \in Driver!StateData
    BY <1>1
  <2>3. Driver!Advanced(state[t]).sem = state[t].sem
    BY <2>2 DEF Driver!Advanced, Driver!StateData
  <2>4. state'[s].sem = state[s].sem
    BY <1>1, <2>1, <2>3
  <2> QED  BY <2>1, <2>4 DEF Driver!Updating
<1>5. ASSUME NEW t \in Strips, Driver!HandleEnd(t)
      PROVE  (Driver!Updating(s)' => Driver!Updating(s)) /\ localStrands' = localStrands
  <2>1. /\ Driver!Updating(t) /\ localStrands' = localStrands
        /\ s # t => state'[s] = state[s]
    BY <1>1, <1>5 DEF Driver!HandleEnd
  <2> QED  BY <2>1 DEF Driver!Updating
<1> QED  BY <1>2, <1>3, <1>4, <1>5 DEF Driver!handleInterrupt

SingleStrip == \A s, t \in Strips : s = t

\* A call of the driver starts one update.
LEMMA CallUsesDriver ==
  ASSUME SingleStrip, NEW s \in Strips, localStrands \subseteq Strips,
         \/ Driver!digitalLeds_initStrands(s)
         \/ localStrands = Strips /\ Driver!digitalLeds_resetPixels(s)
         \/ localStrands = Strips /\ Driver!digitalLeds_updatePixels(s)
  PROVE  Driver!Next /\ localStrands' = Strips
<1>1. Strips = {s}
  BY DEF SingleStrip
<1>2. ~Driver!Updating(s)
  BY DEF Driver!digitalLeds_initStrands, Driver!digitalLeds_resetPixels,
         Driver!digitalLeds_updatePixels, Driver!StartUpdate
<1>3. Driver!Quiet
  BY <1>1, <1>2 DEF Driver!Quiet
<1>4. localStrands' = Strips
  BY <1>1 DEF Driver!digitalLeds_initStrands, Driver!digitalLeds_resetPixels,
              Driver!digitalLeds_updatePixels
<1> QED  BY <1>1, <1>3, <1>4 DEF Driver!Next

\* With one strip, its setup is over when the LED task has it.
LEMMA SetupUsesDriver ==
  ASSUME SingleStrip, StripInv, NEW s \in Strips,
         InitStrip(s) \/ StripReset(s) \/ UpdateStrip(s) \/ push_strip(s)
  PROVE  Driver!Next /\ OneUser'
<1>1. /\ localStrands \subseteq Strips /\ Driver!TypeOK /\ LedInv /\ OneUser
      /\ UNCHANGED <<led_pc, sli, item>>
  BY DEF StripInv, Driver!TypeOK, InitStrip, StripReset, UpdateStrip, push_strip, task
<1>2. led_pc = "delay" /\ led_strands = <<>>
  <2>1. todo # <<>> /\ todo \in Seq(Strips \cup Leds) /\ Head(todo) = s
    BY <1>1 DEF LedInv, StripLists, InitStrip, StripReset, UpdateStrip, push_strip
  <2>2. 1 \in DOMAIN todo /\ todo[1] = s
    BY <2>1, TailIs
  <2> QED  BY <1>1, <2>2 DEF OneUser
<1>3. CASE InitStrip(s)
  <2>1. Driver!Next /\ localStrands' = Strips
    BY <1>1, <1>3, CallUsesDriver DEF InitStrip
  <2> QED  BY <1>1, <1>2, <1>3, <2>1 DEF InitStrip, OneUser
<1>4. CASE StripReset(s)
  <2>1. Driver!UpdateReturns(s) /\ stage = "reset" /\ UNCHANGED <<todo, led_strands>>
    BY <1>4 DEF StripReset
  <2>2. Driver!Next
    BY <2>1 DEF Driver!Next
  <2>3. localStrands' = Strips /\ \A t \in Strips : ~Driver!Updating(t)'
    BY <1>1, <2>1, Waiting DEF SingleStrip, OneUser
  <2> QED  BY <1>1, <1>2, <2>1, <2>2, <2>3 DEF OneUser
<1>5. CASE UpdateStrip(s)
  <2>1. localStrands = Strips
    BY <1>1, <1>5 DEF UpdateStrip, OneUser
  <2>2. Driver!Next /\ localStrands' = Strips
    BY <1>1, <1>5, <2>1, CallUsesDriver DEF UpdateStrip
  <2> QED  BY <1>1, <1>2, <1>5, <2>2 DEF UpdateStrip, OneUser
<1>6. CASE push_strip(s)
  <2>1. /\ Driver!UpdateReturns(s) /\ stage = "push"
        /\ todo' = Tail(todo) /\ Head(todo) = s
    BY <1>6 DEF push_strip
  <2>2. Driver!Next
    BY <2>1 DEF Driver!Next
  <2>3. localStrands' = Strips /\ \A t \in Strips : ~Driver!Updating(t)'
    BY <1>1, <2>1, Waiting DEF SingleStrip, OneUser
  <2>4. \A i \in DOMAIN todo' : todo'[i] \notin Strips
    <3>1. /\ todo # <<>> /\ todo \in Seq(Strips \cup Leds)
          /\ \A i, j \in DOMAIN todo : todo[i] = todo[j] => i = j
      BY <1>1, <2>1 DEF LedInv, StripLists
    <3>2. \A i \in DOMAIN todo' : todo'[i] # s
      BY <2>1, <3>1, TailDistinct
    <3> QED  BY <3>2 DEF SingleStrip
  <2> QED  BY <1>1, <1>2, <2>2, <2>3, <2>4 DEF OneUser
<1> QED  BY <1>3, <1>4, <1>5, <1>6

\* The LED task uses the driver alone.
LEMMA TaskUsesDriver ==
  ASSUME SingleStrip, StripInv, LedInv', cwDigitalLedsTask
  PROVE  [Driver!Next]_(Driver!vars) /\ OneUser'
<1>1. /\ localStrands \subseteq Strips /\ Driver!TypeOK /\ LedInv /\ OneUser
      /\ UNCHANGED <<todo, stage, led_strands>>
  BY DEF StripInv, Driver!TypeOK, cwDigitalLedsTask, Wake, ResetStrip, PassDone, FirstLed,
         SkipLed, CopyRed, CopyGreen, CopyBlue, UpdatePixels, NextStrip, setup
<1>2. led_strands # <<>> => localStrands = Strips /\ stage = "init"
  <2>1. stage # "init" => 1 \in DOMAIN todo /\ todo[1] \in Strips
    BY <1>1, TailIs DEF LedInv, StripLists
  <2> QED  BY <1>1, <2>1 DEF OneUser
<1>3. led_pc # "delay" => led_strands # <<>>
  BY <1>1 DEF OneUser
<1>4. sli # <<>> => Head(sli) \in Strips
  BY <1>1, TailIs DEF LedInv, Task
<1>5. led_pc \notin {"delay", "strip"} => sli # <<>>
  BY <1>1 DEF LedInv, Task
<1>6. CASE Wake \/ PassDone \/ SkipLed \/ CopyRed \/ CopyGreen
  <2>1. UNCHANGED <<driver, todo, stage, led_strands>>
    BY <1>1, <1>6 DEF Wake, PassDone, SkipLed, CopyRed, CopyGreen
  <2>2. UNCHANGED (Driver!vars)
    BY <2>1 DEF driver, Driver!vars, Driver!hardware
  <2>3. /\ led_pc \notin {"reset", "update"}
        /\ led_pc' # "delay" => led_strands # <<>>
    BY <1>3, <1>6 DEF Wake, PassDone, SkipLed, CopyRed, CopyGreen
  <2>4. UNCHANGED <<state, localStrands>>
    BY <2>1 DEF driver
  <2> QED  BY <1>1, <2>1, <2>2, <2>3, <2>4 DEF OneUser, Driver!Updating
<1>7. CASE ResetStrip \/ UpdatePixels
  <2>1. localStrands = Strips /\ Head(sli) \in Strips /\ led_strands # <<>>
    BY <1>2, <1>3, <1>4, <1>5, <1>7 DEF ResetStrip, UpdatePixels
  <2>2. Driver!Next /\ localStrands' = Strips
    BY <1>1, <1>7, <2>1, CallUsesDriver DEF ResetStrip, UpdatePixels
  <2>3. led_pc' \in {"reset", "update"}
    BY <1>7 DEF ResetStrip, UpdatePixels
  <2> QED  BY <1>1, <2>1, <2>2, <2>3 DEF OneUser
<1>8. CASE FirstLed \/ NextStrip
  <2>1. localStrands = Strips /\ Head(sli) \in Strips /\ led_strands # <<>>
    BY <1>2, <1>3, <1>4, <1>5, <1>8 DEF FirstLed, NextStrip
  <2>2. Driver!UpdateReturns(Head(sli))
    BY <1>8 DEF FirstLed, NextStrip
  <2>3. Driver!Next
    BY <2>1, <2>2 DEF Driver!Next
  <2>4. \A s \in Strips : s = Head(sli)
    BY <2>1 DEF SingleStrip
  <2>5. localStrands' = Strips /\ \A s \in Strips : ~Driver!Updating(s)'
    BY <1>1, <2>1, <2>2, <2>4, Waiting
  <2> QED  BY <1>1, <2>1, <2>3, <2>5 DEF OneUser
<1>9. CASE CopyBlue
  <2>1. localStrands = Strips /\ Head(sli) \in Strips /\ led_strands # <<>>
        /\ stage = "init" /\ led_pc = "blue"
    BY <1>2, <1>3, <1>4, <1>5, <1>9 DEF CopyBlue
  <2>2. \A s \in Strips : ~Driver!Updating(s)
    BY <1>1, <2>1 DEF OneUser
  <2>3. pixels' \in [Strips -> Driver!Frame]
    BY DEF LedInv, Mixtures, Frame, Pixel, Byte, Driver!Frame, Driver!Pixel, Driver!Byte
  <2>4. UNCHANGED <<state, localStrands, block, rd_half, sending, thr_event, tx_end, line,
                    late>>
    BY <1>9 DEF CopyBlue
  <2>5. PICK s \in Strips : s = Head(sli)
    BY <2>1
  <2>6. Driver!SetPixels(s)
    BY <2>2, <2>3, <2>4, <2>5 DEF Driver!SetPixels, Driver!hardware, SingleStrip
  <2>7. Driver!Next
    BY <2>6 DEF Driver!Next
  <2>8. \A t \in Strips : ~Driver!Updating(t)'
    BY <2>2, <2>4 DEF Driver!Updating
  <2> QED  BY <1>1, <2>1, <2>4, <2>7, <2>8 DEF OneUser
<1> QED  BY <1>6, <1>7, <1>8, <1>9 DEF cwDigitalLedsTask

-----------------------------------------------------------------------------
(***************************************************************************)
(* One strip: the driver is used as its module assumes, and what is proved *)
(* of it holds here.                                                       *)
(***************************************************************************)
\* Nobody uses the driver before the strip is set up.
LEMMA InitStripInv == Init => Driver!Init /\ StripInv
<1> SUFFICES ASSUME Init PROVE Driver!Init /\ StripInv
  OBVIOUS
<1>1. Driver!Init
  BY DEF Init
<1>2. OneUser
  <2>1. \A s \in Strips : ~Driver!Updating(s)
    BY <1>1 DEF Driver!Init, Driver!NoState, Driver!Updating
  <2> QED  BY <2>1 DEF Init, OneUser
<1> QED  BY <1>1, <1>2, DriverTheorems, InitLedInv DEF StripInv

\* A step is a step of the driver, or leaves it alone; and the invariant holds
\* after it.
LEMMA StepUsesDriver ==
  SingleStrip /\ StripInv /\ [Next]_vars => [Driver!Next]_(Driver!vars) /\ StripInv'
<1> SUFFICES ASSUME SingleStrip, StripInv, [Next]_vars
             PROVE  [Driver!Next]_(Driver!vars) /\ StripInv'
  OBVIOUS
<1>1. LedInv' /\ LedInv /\ OneUser /\ Driver!TypeOK
  BY NextLedInv DEF StripInv
<1>2. [Driver!Next]_(Driver!vars) /\ OneUser'
  <2>1. ASSUME NEW s \in Strips,
               InitStrip(s) \/ StripReset(s) \/ UpdateStrip(s) \/ push_strip(s)
        PROVE  [Driver!Next]_(Driver!vars) /\ OneUser'
    BY <2>1, SetupUsesDriver
  <2>2. CASE cwDigitalLedsTask
    BY <1>1, <2>2, TaskUsesDriver
  <2>3. ASSUME UNCHANGED <<driver, stage, led_strands, led_pc>>,
               todo' = todo \/ (todo # <<>> /\ todo' = Tail(todo))
        PROVE  [Driver!Next]_(Driver!vars) /\ OneUser'
    <3>1. UNCHANGED (Driver!vars)
      BY <2>3 DEF driver, Driver!vars, Driver!hardware
    <3>2. UNCHANGED <<state, localStrands>>
      BY <2>3 DEF driver
    <3>3. todo # <<>> /\ todo' = Tail(todo) =>
            \A i \in DOMAIN todo' : \E j \in DOMAIN todo : todo'[i] = todo[j]
      BY <1>1, TailIs DEF LedInv, StripLists
    <3>4. led_strands # <<>> => \A i \in DOMAIN todo' : todo'[i] \notin Strips
      BY <1>1, <2>3, <3>3 DEF OneUser
    <3> QED  BY <1>1, <2>3, <3>1, <3>2, <3>4 DEF OneUser, Driver!Updating
  <2>4. ASSUME NEW l \in Leds, InitLed(l)
        PROVE  [Driver!Next]_(Driver!vars) /\ OneUser'
    BY <2>3, <2>4 DEF InitLed, task
  <2>5. CASE (\E l \in Leds : Dispatch(l)) \/ Action \/ Program \/ UNCHANGED vars
    BY <2>3, <2>5 DEF Dispatch, Execute, HandleMessage, TakeMessage, CheckState, Action,
                      SetColour, FinishAction, Program, SendColour, SetMax, Send, vars,
                      setup, task
  <2>6. CASE Hardware \/ Interrupt
    <3>1. UNCHANGED <<todo, stage, led_strands, led_pc>>
      BY <2>6 DEF Hardware, Interrupt, setup, task
    <3>2. Driver!Next
      BY <2>6 DEF Hardware, Interrupt, Driver!Next
    <3>3. \A s \in Strips : Driver!Updating(s)' => Driver!Updating(s)
      BY <1>1, <2>6, Waiting DEF Hardware, Interrupt, Driver!Updating
    <3>4. localStrands' = localStrands
      BY <2>6 DEF Hardware, Interrupt, Driver!Send, Driver!SendHalf, Driver!SendRest,
                  Driver!handleInterrupt, Driver!HandleThreshold, Driver!HandleEnd
    <3> QED  BY <1>1, <3>1, <3>2, <3>3, <3>4 DEF OneUser
  <2> QED  BY <2>1, <2>2, <2>4, <2>5, <2>6 DEF Next, cwrt_setup
<1> QED  BY <1>1, <1>2, DriverTheorems DEF StripInv

\* With one strip, setup, the LED task, hardware and interrupts together use the
\* driver as RmtLed says: LedStrip implements RmtLed.
THEOREM LedsUseDriver == SingleStrip => (Spec => UsesDriver)
<1> SUFFICES ASSUME SingleStrip PROVE Spec => UsesDriver
  OBVIOUS
<1>1. Init => Driver!Init /\ StripInv
  BY InitStripInv
<1>2. StripInv /\ [Next]_vars => [Driver!Next]_(Driver!vars) /\ StripInv'
  BY StepUsesDriver
<1> QED  BY <1>1, <1>2, PTL DEF Spec, UsesDriver, Driver!Spec

\* The types of the machines', the tasks' and the driver's data, with one strip.
THEOREM LedStripTypes == SingleStrip => (Spec => []TypeOK)
<1> SUFFICES ASSUME SingleStrip PROVE Spec => []TypeOK
  OBVIOUS
<1>1. Init => StripInv
  BY InitStripInv
<1>2. StripInv /\ [Next]_vars => StripInv'
  BY StepUsesDriver
<1>3. StripInv => TypeOK
  <2> SUFFICES ASSUME StripInv PROVE TypeOK
    OBVIOUS
  <2>1. Machines /\ WholeWrites /\ StripLists /\ Task /\ Driver!TypeOK
    BY DEF StripInv, LedInv
  <2>2. colour \in [Leds -> [r : Values, g : Values, b : Values]]
    BY <2>1 DEF Machines, Channels
  <2>3. /\ max \in [Leds -> Maxima] /\ backup_max \in [Leds -> Maxima]
        /\ pending \subseteq Leds /\ handling \in Leds \cup {NoLed}
        /\ cur \in Leds \cup {NoLed} /\ (cur = NoLed => writes = <<>>)
    BY <2>1 DEF Machines, WholeWrites
  <2>4. /\ stage \in {"init", "reset", "update", "push"}
        /\ \A s \in Strips : \A i \in DOMAIN leds[s] :
             Strip[leds[s][i]] = s
             /\ \A j \in DOMAIN leds[s] : leds[s][i] = leds[s][j] => i = j
    BY <2>1 DEF StripLists
  <2>5. /\ led_pc \in {"delay", "strip", "reset", "copy", "green", "blue", "update"}
        /\ item \in Leds \cup {NoLed}
    BY <2>1 DEF Task
  <2> QED  BY <2>1, <2>2, <2>3, <2>4, <2>5 DEF TypeOK
<1> QED  BY <1>1, <1>2, <1>3, PTL DEF Spec

\* With one strip, the frame of every pass is on the line, each byte once and in
\* order, unless the interrupt handler was a whole half late.
THEOREM FrameOnTheLine == SingleStrip => (Spec => []LineCarriesFrame)
<1> SUFFICES ASSUME SingleStrip PROVE Spec => []LineCarriesFrame
  OBVIOUS
<1>1. Init => StripInv
  BY InitStripInv
<1>2. StripInv /\ [Next]_vars => StripInv'
  BY StepUsesDriver
<1>3. StripInv => LineCarriesFrame
  BY DriverTheorems DEF StripInv, LineCarriesFrame
<1> QED  BY <1>1, <1>2, <1>3, PTL DEF Spec
=============================================================================
