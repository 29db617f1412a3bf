-------------------------------- MODULE Lists --------------------------------
(***************************************************************************)
(* The linked lists of ccan/list/list.h, link by link, and the three ways   *)
(* the runtime shares one between tasks:                                   *)
(*                                                                         *)
(*   locked    under a mutex, or by one task: every operation, and the     *)
(*             scheduler's walk, which deletes the item it is at.          *)
(*   growing   a task adds while another walks: subscribers of a broker,   *)
(*             LEDs of a strip.                                            *)
(*   commands  the MQTT task adds while the processing task pops:          *)
(*             push_command and pop_command, with no mutex.                *)
(*                                                                         *)
(* The other modules take a list for a sequence; contents is that          *)
(* sequence, and the invariants say when that is right.  What is done      *)
(* under a mutex is one step, elsewhere each access to a shared link is.   *)
(***************************************************************************)
EXTENDS Integers, SequencesExt

CONSTANTS
    Heads,          \* the list_head's
    h,              \* the one that is shared or passed through
    Nodes,          \* the memory of items
    NoNode          \* NULL

ASSUME ListsAssumption == h \in Heads /\ Heads \cap Nodes = {} /\ NoNode \notin Heads \cup Nodes

VARIABLES
    use,            \* how the list h is shared
    mem,            \* the links: mem.next and mem.prev of each head and node
    contents,       \* the items of each list
    own,            \* nodes that list_del_init has made lists of their own
    add_pc, node, place, link,  \* the task that adds: step, item, p, p->prev
    walk_pc, item, nxt,     \* the task that walks or pops: step, item, the next
    before, seen,   \* history: items at the start of a walk, and those seen
    freed,          \* nodes that are not allocated, or not any more
    overlapped      \* history: a push met the pop of a last item

adder == <<add_pc, node, place, link>>
walker == <<walk_pc, item, nxt, before, seen>>
vars == <<use, mem, contents, own, adder, walker, freed, overlapped>>

Cells == Heads \cup Nodes
Links == [next : [Cells -> Cells \cup {NoNode}], prev : [Cells -> Cells \cup {NoNode}]]
Listed == UNION {ToSet(contents[x]) : x \in Heads}

-----------------------------------------------------------------------------
(***************************************************************************)
(* The operations: what they make of the links.                            *)
(***************************************************************************)
list_node_init(m, n) == [m EXCEPT !.next[n] = n, !.prev[n] = n]

list_add_before(m, p, n) ==
    LET m1 == [m EXCEPT !.next[n] = p, !.prev[n] = m.prev[p]]
        m2 == [m1 EXCEPT !.next[m1.prev[p]] = n]
    IN  [m2 EXCEPT !.prev[p] = n]

list_add_tail(m, x, n) == list_add_before(m, x, n)

list_add_after(m, p, n) ==
    LET m1 == [m EXCEPT !.next[n] = m.next[p], !.prev[n] = p]
        m2 == [m1 EXCEPT !.prev[m1.next[p]] = n]
    IN  [m2 EXCEPT !.next[p] = n]

list_add(m, x, n) == list_add_after(m, x, n)

\* Mutated form of list_del: the links backwards are left alone.
list_del_forward(m, n) == [m EXCEPT !.next[m.prev[n]] = m.next[n]]

list_del(m, n) ==
    LET m1 == [m EXCEPT !.prev[m.next[n]] = m.prev[n]]
    IN  [m1 EXCEPT !.next[m1.prev[n]] = m1.next[n]]

\* The node should be on the list x.
list_del_from(m, x, n) == list_del(m, n)

list_del_init(m, n) == list_node_init(list_del(m, n), n)

list_swap(m, o, n) ==
    LET m1 == [m EXCEPT !.next[n] = m.next[o], !.prev[n] = m.prev[o]]
        m2 == [m1 EXCEPT !.prev[m1.next[n]] = n]
    IN  [m2 EXCEPT !.next[m2.prev[n]] = n]

list_append_list(m, to, from) ==
    LET from_tail == m.prev[from]
        to_tail == m.prev[to]
        m1 == [m EXCEPT !.prev[to] = from_tail]
        m2 == [m1 EXCEPT !.next[from_tail] = to]
        m3 == [m2 EXCEPT !.next[to_tail] = from]
        m4 == [m3 EXCEPT !.prev[from] = to_tail]
    IN  list_node_init(list_del(m4, from), from)

list_prepend_list(m, to, from) ==
    LET from_tail == m.prev[from]
        to_head == m.next[to]
        m1 == [m EXCEPT !.next[to] = from]
        m2 == [m1 EXCEPT !.prev[from] = to]
        m3 == [m2 EXCEPT !.prev[to_head] = from_tail]
        m4 == [m3 EXCEPT !.next[from_tail] = to_head]
    IN  list_node_init(list_del(m4, from), from)

list_empty(m, x) == m.next[x] = x
list_top(m, x) == IF list_empty(m, x) THEN NoNode ELSE m.next[x]
list_tail(m, x) == IF list_empty(m, x) THEN NoNode ELSE m.prev[x]
list_next(m, x, i) == IF m.next[i] = x THEN NoNode ELSE m.next[i]
list_prev(m, x, i) == IF m.prev[i] = x THEN NoNode ELSE m.prev[i]

\* The cell k links after x, round the items of seq: x itself before and after.
At(x, seq, k) == IF k \in DOMAIN seq THEN seq[k] ELSE x

\* list_for_each goes through seq, and is back at x; so does list_for_each_rev
\* from the end.
list_for_each(m, x, seq) ==
    \A k \in 0..Len(seq) : m.next[At(x, seq, k)] = At(x, seq, k + 1)

list_for_each_rev(m, x, seq) ==
    \A k \in 0..Len(seq) : m.prev[At(x, seq, k + 1)] = At(x, seq, k)

\* The check of CCAN_LIST_DEBUG: round from c to itself, through seq, each cell
\* has its link back.
list_check_node(m, c, seq) == list_for_each(m, c, seq) /\ list_for_each_rev(m, c, seq)

list_check(m, x, seq) == list_check_node(m, x, seq)

-----------------------------------------------------------------------------
Init ==
    /\ use \in {"locked", "growing", "commands"}
    /\ mem = [next |-> [c \in Cells |-> IF c \in Heads THEN c ELSE NoNode],
              prev |-> [c \in Cells |-> IF c \in Heads THEN c ELSE NoNode]]
    /\ contents = [x \in Heads |-> <<>>]
    /\ own = {}
    /\ add_pc = "idle" /\ node = NoNode /\ place = NoNode /\ link = NoNode
    /\ walk_pc = "idle" /\ item = NoNode /\ nxt = NoNode
    /\ before = <<>> /\ seen = <<>>
    /\ freed = Nodes
    /\ overlapped = FALSE

-----------------------------------------------------------------------------
(***************************************************************************)
(* A locked list.                                                          *)
(***************************************************************************)
Fresh == Nodes \ (Listed \cup own)
Position(x, i) == CHOOSE k \in DOMAIN contents[x] : contents[x][k] = i
With(x, seq) == [contents EXCEPT ![x] = seq]
Without(x, i) == With(x, RemoveAt(contents[x], Position(x, i)))

\* The memory of a node that is on no list is not looked at again.
Scrubbed(m, c, o) ==
    LET live == Heads \cup o \cup UNION {ToSet(c[x]) : x \in Heads}
        Kept(f) == [x \in Cells |-> IF x \in live THEN f[x] ELSE NoNode]
    IN  [next |-> Kept(m.next), prev |-> Kept(m.prev)]

\* An operation: the links it leaves, and the sequences it promises.
Operation(m, c, o) ==
    /\ use = "locked" /\ walk_pc = "idle"
    /\ mem' = Scrubbed(m, c, o) /\ contents' = c /\ own' = o
    /\ UNCHANGED <<use, adder, walker, freed, overlapped>>

AddEnds ==
    \E x \in Heads, n \in Fresh :
        \/ Operation(list_add(mem, x, n), With(x, <<n>> \o contents[x]), own)
        \/ Operation(list_add_tail(mem, x, n), With(x, Append(contents[x], n)), own)

AddBeside ==
    \E x \in Heads, n \in Fresh : \E p \in ToSet(contents[x]) :
        \/ Operation(list_add_before(mem, p, n),
                     With(x, InsertAt(contents[x], Position(x, p), n)), own)
        \/ Operation(list_add_after(mem, p, n),
                     With(x, InsertAt(contents[x], Position(x, p) + 1, n)), own)

Delete ==
    \E x \in Heads : \E n \in ToSet(contents[x]) :
        \/ Operation(list_del_from(mem, x, n), Without(x, n), own)
        \/ Operation(list_del_init(mem, n), Without(x, n), own \cup {n})

\* After list_del_init a node may be deleted once more.
DeleteAgain == \E n \in own : Operation(list_del(mem, n), contents, own \ {n})

Swap ==
    \E x \in Heads, n \in Fresh : \E o \in ToSet(contents[x]) :
        Operation(list_swap(mem, o, n), With(x, ReplaceAt(contents[x], Position(x, o), n)),
                  own)

list_pop(x) ==
    /\ ~list_empty(mem, x)
    /\ Operation(list_del(mem, list_top(mem, x)), With(x, Tail(contents[x])), own)

Join ==
    \E to, from \in Heads :
        LET Joined(seq) == [contents EXCEPT ![to] = seq, ![from] = <<>>]
        IN  /\ to # from
            /\ \/ Operation(list_append_list(mem, to, from),
                            Joined(contents[to] \o contents[from]), own)
               \/ Operation(list_prepend_list(mem, to, from),
                            Joined(contents[from] \o contents[to]), own)

\* list_for_each_safe as RTSchedulerTask uses it: the item may be deleted.
BeginPass ==
    /\ use = "locked" /\ walk_pc = "idle"
    /\ before' = contents[h] /\ seen' = <<>>
    /\ item' = mem.next[h] /\ nxt' = mem.next[item']
    /\ walk_pc' = "pass"
    /\ UNCHANGED <<use, mem, contents, own, adder, freed, overlapped>>

PassItem ==
    /\ walk_pc = "pass" /\ item # h
    /\ \/ UNCHANGED <<mem, contents>>
       \/ /\ contents' = Without(h, item)
          /\ mem' = Scrubbed(list_del(mem, item), contents', own)
    /\ seen' = Append(seen, item)
    /\ item' = nxt /\ nxt' = mem'.next[nxt]
    /\ UNCHANGED <<use, own, adder, walk_pc, before, freed, overlapped>>

Locked ==
    \/ AddEnds \/ AddBeside \/ Delete \/ DeleteAgain \/ Swap \/ Join
    \/ \E x \in Heads : list_pop(x)
    \/ BeginPass \/ PassItem

-----------------------------------------------------------------------------
(***************************************************************************)
(* list_add_before_ of a task that shares the list.  p is an item, or the  *)
(* head for list_add_tail_.  malloc may return memory that was freed.      *)
(***************************************************************************)
\* Mutated form of Link: the item's own link forwards is not stored.
LinkBackwards(n, p) ==
    /\ add_pc = "idle" /\ n \in freed
    /\ node' = n /\ place' = p
    /\ freed' = freed \ {n}
    /\ mem' = [mem EXCEPT !.prev[n] = mem.prev[p]]
    /\ add_pc' = "load"
    /\ UNCHANGED <<use, contents, own, link, walker>>

Link(n, p) ==
    /\ add_pc = "idle" /\ n \in freed
    /\ node' = n /\ place' = p
    /\ freed' = freed \ {n}
    /\ mem' = [mem EXCEPT !.next[n] = p, !.prev[n] = mem.prev[p]]
    /\ add_pc' = "load"
    /\ UNCHANGED <<use, contents, own, link, walker>>

\* register_subscriber, cw_LEDSTRIP_add_led.
BeginAdd(n, p) ==
    /\ use = "growing" /\ p \in {h} \cup ToSet(contents[h])
    /\ Link(n, p)
    /\ UNCHANGED overlapped

Popping == walk_pc \in {"next", "unprev", "reload", "unnext"}
PopsLast == Popping /\ mem.next[item] = h

\* After an overlap the links may be anything, and the model begins no more.
push_command(n) ==
    /\ use = "commands" /\ ~overlapped
    /\ Link(n, h)
    /\ overlapped' = (overlapped \/ PopsLast)

\* p->prev once more.
LoadPrev ==
    /\ add_pc = "load"
    /\ link' = mem.prev[place]
    /\ add_pc' = "next"
    /\ UNCHANGED <<use, mem, contents, own, node, place, walker, freed, overlapped>>

\* Mutated form of StoreNext: p is linked to, and not what was before it.
StoreNextOfPlace ==
    /\ add_pc = "next"
    /\ mem' = [mem EXCEPT !.next[place] = node]
    /\ contents' = With(h, Append(contents[h], node))
    /\ add_pc' = "prev"
    /\ UNCHANGED <<use, own, node, place, link, walker, freed, overlapped>>

\* p->prev->next = n: the item is on the list.  After an overlap contents
\* says no more.
StoreNext ==
    /\ add_pc = "next"
    /\ mem' = [mem EXCEPT !.next[link] = node]
    /\ contents' = IF overlapped THEN contents
                   ELSE With(h, IF place = h THEN Append(contents[h], node)
                                ELSE InsertAt(contents[h], Position(h, place), node))
    /\ add_pc' = "prev"
    /\ UNCHANGED <<use, own, node, place, link, walker, freed, overlapped>>

StorePrev ==
    /\ add_pc = "prev"
    /\ mem' = [mem EXCEPT !.prev[place] = node]
    /\ add_pc' = "idle"
    /\ UNCHANGED <<use, contents, own, node, place, link, walker, freed, overlapped>>

FinishAdd == LoadPrev \/ StoreNext \/ StorePrev

-----------------------------------------------------------------------------
(***************************************************************************)
(* The walk of a list that grows: list_for_each, and list_for_each_safe,   *)
(* which looks ahead.                                                      *)
(***************************************************************************)
BeginWalk ==
    /\ use = "growing" /\ walk_pc = "idle"
    /\ item' = mem.next[h]
    /\ before' = contents[h] /\ seen' = <<>>
    /\ walk_pc' \in {"each", "ahead"}
    /\ UNCHANGED <<use, mem, contents, own, adder, nxt, freed, overlapped>>

Visit ==
    /\ walk_pc = "each" /\ item # h
    /\ seen' = Append(seen, item)
    /\ item' = mem.next[item]
    /\ UNCHANGED <<use, mem, contents, own, adder, walk_pc, nxt, before, freed,
                   overlapped>>

LookAhead ==
    /\ walk_pc = "ahead"
    /\ nxt' = mem.next[item]
    /\ walk_pc' = "safe"
    /\ UNCHANGED <<use, mem, contents, own, adder, item, before, seen, freed,
                   overlapped>>

VisitSafe ==
    /\ walk_pc = "safe" /\ item # h
    /\ seen' = Append(seen, item)
    /\ item' = nxt
    /\ walk_pc' = "ahead"
    /\ UNCHANGED <<use, mem, contents, own, adder, nxt, before, freed, overlapped>>

WalkDone ==
    /\ walk_pc \in {"pass", "each", "safe"} /\ item = h
    /\ walk_pc' = "idle"
    /\ UNCHANGED <<use, mem, contents, own, adder, item, nxt, before, seen, freed,
                   overlapped>>

-----------------------------------------------------------------------------
(***************************************************************************)
(* pop_command.  The head is looked at four times, with nothing in between *)
(* that a push can make differ: once in the model.                         *)
(***************************************************************************)
\* Mutated form of have_command: a single command is taken for none.
have_commands ==
    /\ use = "commands" /\ ~overlapped /\ walk_pc = "idle" /\ mem.next[h] # mem.prev[h]
    /\ item' = mem.next[h]
    /\ walk_pc' = "next"
    /\ UNCHANGED <<use, mem, contents, own, adder, nxt, before, seen, freed, overlapped>>

have_command ==
    /\ use = "commands" /\ ~overlapped /\ walk_pc = "idle" /\ ~list_empty(mem, h)
    /\ item' = mem.next[h]
    /\ walk_pc' = "next"
    /\ UNCHANGED <<use, mem, contents, own, adder, nxt, before, seen, freed, overlapped>>

LoadNext ==
    /\ walk_pc = "next"
    /\ nxt' = mem.next[item]
    /\ walk_pc' = "unprev"
    /\ overlapped' = (overlapped \/ (add_pc # "idle" /\ nxt' = h))
    /\ UNCHANGED <<use, mem, contents, own, adder, item, before, seen, freed>>

UnlinkPrev ==
    /\ walk_pc = "unprev"
    /\ mem' = [mem EXCEPT !.prev[nxt] = mem.prev[item]]
    /\ walk_pc' = "reload"
    /\ UNCHANGED <<use, contents, own, adder, item, nxt, before, seen, freed, overlapped>>

ReloadNext ==
    /\ walk_pc = "reload"
    /\ nxt' = mem.next[item]
    /\ walk_pc' = "unnext"
    /\ UNCHANGED <<use, mem, contents, own, adder, item, before, seen, freed, overlapped>>

\* The last store of list_del, and free.
UnlinkNext ==
    /\ walk_pc = "unnext"
    /\ mem' = [mem EXCEPT !.next[mem.prev[item]] = nxt]
    /\ contents' = IF overlapped THEN contents ELSE With(h, Tail(contents[h]))
    /\ freed' = freed \cup {item}
    /\ walk_pc' = "idle"
    /\ UNCHANGED <<use, own, adder, item, nxt, before, seen, overlapped>>

pop_command == have_command \/ LoadNext \/ UnlinkPrev \/ ReloadNext \/ UnlinkNext

Next ==
    \/ Locked
    \/ \E n \in Nodes : push_command(n) \/ \E p \in Cells : BeginAdd(n, p)
    \/ FinishAdd
    \/ BeginWalk \/ Visit \/ LookAhead \/ VisitSafe \/ WalkDone
    \/ pop_command

Spec == Init /\ [][Next]_vars

\* A push that was begun goes on, and the processing task keeps popping.
FairSpec == Spec /\ WF_vars(FinishAdd) /\ WF_vars(pop_command)

-----------------------------------------------------------------------------
(***************************************************************************)
(* Properties.                                                             *)
(***************************************************************************)
Holds(x) == list_check(mem, x, contents[x])

\* Under a mutex, and between operations, a list is the sequence that the
\* operations on it promise, forwards and backwards, and passes list_check, from
\* its head and from a node on its own, whatever else they did to other lists; a
\* pass sees each item once, in order, though it deletes the one it is at
\* (list.h:177-691, list.c:20-43, rtscheduler.c:138-152).
ListsAreSequences ==
    use = "locked" =>
        /\ \A x \in Heads : Holds(x)
        /\ \A n \in own : list_check_node(mem, n, <<>>)
        /\ \A x \in Heads : contents[x] # <<>> =>
             list_top(mem, x) = Head(contents[x]) /\ list_tail(mem, x) = Last(contents[x])
        /\ \A x \in Heads : \A k \in 1..(Len(contents[x]) - 1) :
             /\ list_next(mem, x, contents[x][k]) = contents[x][k + 1]
             /\ list_prev(mem, x, contents[x][k + 1]) = contents[x][k]
        /\ walk_pc = "pass" =>
             IF item = h THEN seen = before ELSE IsPrefix(Append(seen, item), before)

\* On the list h i comes before j.
Precedes(i, j) ==
    \E k, l \in DOMAIN contents[h] : k < l /\ contents[h][k] = i /\ contents[h][l] = j

\* A task that walks a list without a lock while another adds to it stays on
\* the list, sees items in their order, none twice, and misses none that was
\* there when it began (cw_LEDSTRIP.c:40 and 127, cw_MQTTBROKER.c:83 and 221).
WalkSeesList ==
    walk_pc \in {"each", "ahead", "safe"} =>
        /\ item \in {h} \cup ToSet(contents[h])
        /\ ToSet(seen) \subseteq ToSet(contents[h])
        /\ \A i, j \in DOMAIN seen : i < j => Precedes(seen[i], seen[j])
        /\ item = h => ToSet(before) \subseteq ToSet(seen)

\* The command list has no lock, and keeps every command, in order, and no
\* link to freed memory, unless a push overlaps the pop of the last command on
\* it (runtime.c:365-380).
CommandsKept ==
    use = "commands" /\ ~overlapped =>
        /\ list_for_each(mem, h, contents[h])
        /\ add_pc = "idle" /\ walk_pc = "idle" => Holds(h)
        /\ add_pc = "next" => link \notin freed
        /\ ToSet(contents[h]) \cap freed = {}

\* Then each command is taken in the end (cwrt_process.c:122-125).
CommandsServed ==
    \A n \in Nodes :
        use = "commands" /\ n \in ToSet(contents[h])
            ~> overlapped \/ n \notin ToSet(contents[h])

-----------------------------------------------------------------------------
(***************************************************************************)
(* Why they hold: the invariant behind the three of them.                  *)
(***************************************************************************)
\* Who does what in each use of h.
Uses ==
    /\ use \in {"locked", "growing", "commands"}
    /\ ~overlapped => mem \in Links
    /\ add_pc \in {"idle", "load", "next", "prev"}
    /\ walk_pc \in {"idle"} \cup
         CASE use = "locked" -> {"pass"}
           [] use = "growing" -> {"each", "ahead", "safe"}
           [] use = "commands" -> {"next", "unprev", "reload", "unnext"}
    /\ use = "locked" => add_pc = "idle"
    /\ use # "locked" => own = {} /\ \A x \in Heads \ {h} : contents[x] = <<>>
    /\ use # "commands" => ~overlapped

\* An item is once on one list, and then not a list of its own.
Apart ==
    /\ contents \in [Heads -> Seq(Nodes)] /\ own \subseteq Nodes
    /\ \A x, y \in Heads : \A i \in DOMAIN contents[x], j \in DOMAIN contents[y] :
         contents[x][i] = contents[y][j] => x = y /\ i = j
    /\ \A x \in Heads : \A i \in DOMAIN contents[x] : contents[x][i] \notin own

\* A pass has seen what was before the item it is at, and not what is left.
Passing ==
    /\ before \in Seq(Nodes) /\ seen \in Seq(Nodes)
    /\ nxt = mem.next[item]
    /\ \E p \in 1..(Len(contents[h]) + 1) :
         /\ item = At(h, contents[h], p)
         /\ Len(before) = Len(seen) + Len(contents[h]) + 1 - p
         /\ \A j \in p..Len(contents[h]) :
              contents[h][j] = before[Len(seen) + 1 + j - p]
    /\ \A i \in DOMAIN seen : seen[i] = before[i]

LockedInv ==
    use = "locked" =>
        /\ \A x \in Heads : Holds(x)
        /\ \A n \in own : list_check_node(mem, n, <<>>)
        /\ walk_pc = "pass" => Passing

\* The cell k of h, which is h itself before the first item and after the last.
Cell(k) == At(h, contents[h], k)
Size == Len(contents[h])

\* Forwards the list is what it should be, and allocated.
Ahead ==
    /\ freed \subseteq Nodes
    /\ \A k \in 1..Size : Cell(k) \notin freed
    /\ \A k \in 0..Size : mem.next[Cell(k)] = Cell(k + 1)

\* And backwards, except at the place of an item that was just added, and after
\* one that is being popped.
LinkedBack(k) ==
    IF add_pc = "prev" /\ Cell(k) = node THEN Cell(k + 1) = place
    ELSE mem.prev[Cell(k + 1)] =
           IF walk_pc \in {"reload", "unnext"} /\ k = 1 THEN h ELSE Cell(k)

Behind == \A k \in 0..Size : LinkedBack(k)

\* An item being added is linked to its place in the list.
Adding ==
    /\ add_pc \in {"load", "next"} =>
         /\ node \in Nodes \ freed
         /\ \A k \in 1..Size : Cell(k) # node
         /\ mem.next[node] = place
         /\ \E k \in 1..(Size + 1) :
              /\ place = Cell(k) /\ mem.prev[node] = Cell(k - 1)
              /\ add_pc = "next" => link = Cell(k - 1)
    /\ add_pc = "prev" => \E k \in 1..Size : Cell(k) = node
    /\ add_pc # "idle" /\ use = "commands" => place = h

\* The last item is not popped while one is added.
PoppingFirst ==
    /\ Popping => Size > 0 /\ item = Cell(1)
    /\ walk_pc \in {"unprev", "unnext"} => nxt = Cell(2)
    /\ walk_pc \in {"unprev", "reload", "unnext"} /\ Size = 1 => add_pc = "idle"

SharedInv == use # "locked" /\ ~overlapped => Ahead /\ Behind /\ Adding /\ PoppingFirst

\* A walk with no lock: what was there when it began has been seen or is still
\* to come, and what it has seen is behind it.
Reaches(i) == i = h \/ i \in ToSet(contents[h])
UpTo(i, j) == i = j \/ Precedes(i, j)

WalkInv ==
    walk_pc \in {"each", "ahead", "safe"} =>
        /\ before \in Seq(Nodes) /\ seen \in Seq(Nodes)
        /\ Reaches(item)
        /\ \A i \in DOMAIN seen : /\ seen[i] \in ToSet(contents[h])
                                  /\ item # h => Precedes(seen[i], item)
        /\ \A i, j \in DOMAIN seen : i < j => Precedes(seen[i], seen[j])
        /\ \A i \in ToSet(before) : i \in ToSet(seen) \/ UpTo(item, i)
        /\ walk_pc = "safe" /\ item # h =>
             /\ Reaches(nxt)
             /\ nxt # h => Precedes(item, nxt)
             /\ \A i \in ToSet(before) : i \in ToSet(seen) \/ i = item \/ UpTo(nxt, i)

ListsInv == Uses /\ Apart /\ LockedInv /\ SharedInv /\ WalkInv
=============================================================================
