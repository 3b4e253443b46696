-------------------------- MODULE BSkiplistProofs ---------------------------
(***************************************************************************)
(* Locks of the OLC B-skiplist, for every number of threads, keys, levels  *)
(* and nodes: which nodes a call has locked at each place, that only the   *)
(* holder writes to a node, and that nothing stays locked when it returns. *)
(***************************************************************************)
EXTENDS BSkiplist, FiniteSetTheorems, SequenceTheorems, TLAPS

NodeFields == {"level", "slots", "next", "next_header", "ver", "writer", "retry", "readers"}
RegFields == {"level", "curr", "v", "next", "first", "prev", "left", "hold", "spare",
              "start", "out"}
Slots == [key : Nat, val : Nat \cup Seq(Threads)]

Labels == {"idle", "walk", "next", "move", "enter_child", "locked", "insert", "split_next",
           "lock_child", "child_locked", "right", "promote_next", "delete", "find_locked",
           "lock_left", "left_locked", "current_locked", "unlink", "left_moved",
           "unlink_next", "read_lock", "read_locked", "scan_right", "scan_batch", "scan_next"}

TypeOK ==
    /\ DOMAIN node = Nodes
    /\ \A n \in Nodes : DOMAIN node[n] = NodeFields
    /\ used \in Nat /\ used <= NodeCnt /\ MAX_LEVEL <= used
    /\ pc \in [Threads -> Labels]
    /\ call \in [Threads -> Calls \cup {NoCall}]
    /\ todo \in [Threads -> Seq(Calls)]
    /\ \A t \in Threads : pc[t] = "idle" <=> call[t] = NoCall
    /\ DOMAIN reg = Threads
    /\ \A t \in Threads : DOMAIN reg[t] = RegFields

Used == 1..used

----------------------------------------------------------------------------
(* Nodes.                                                                  *)

\* The nodes that registers r name as allocated and not yet in their lists.
RawOf(r) == {r.spare[i] : i \in DOMAIN r.spare}
Raw(t) == RawOf(reg[t])

\* What is written in a node, at level l, as the value of a slot.
ValOK(nd, us, l, c) ==
    IF l = 0 THEN c \in Seq(Threads) ELSE c \in 1..us /\ nd[c].level = l - 1

SlotsOK(nd, us, l, s) ==
    s \in Seq(Slots) /\ \A i \in DOMAIN s : ValOK(nd, us, l, s[i].val)

\* Links stay on a level, and children are one level below.
NodeOK(nd, us, n) ==
    /\ nd[n].level \in Nat
    /\ SlotsOK(nd, us, nd[n].level, nd[n].slots)
    /\ nd[n].next # NoNode =>
          nd[n].next \in 1..us /\ nd[nd[n].next].level = nd[n].level

\* Only a raw node is empty.
ShapeInv ==
    /\ node[Header(MAX_LEVEL - 1)].level = MAX_LEVEL - 1
    /\ \A n \in Used : NodeOK(node, used, n)
    /\ \A n \in Used : node[n].slots = << >> => \E t \in Threads : n \in Raw(t)

----------------------------------------------------------------------------
(* What a call at place p has in its registers r.                          *)

Early == {"walk", "next", "move", "enter_child", "read_lock", "read_locked",
          "scan_right", "scan_batch", "scan_next", "locked", "insert", "split_next"}
Promoting == {"lock_child", "child_locked", "right", "promote_next"}
Finding == {"delete", "find_locked"}
Unlinking == {"lock_left", "left_locked", "current_locked", "unlink", "left_moved",
              "unlink_next"}

\* The nodes it has locked.
LocksOf(p, r) ==
    (CASE p \in {"locked", "insert"} -> {r.curr}
       [] p = "split_next" -> {r.curr, r.next}
       [] p = "lock_child" -> {r.prev} \cup RawOf(r)
       [] p = "child_locked" -> {r.prev, r.curr} \cup RawOf(r)
       [] p \in {"right", "promote_next"} -> {r.curr} \cup RawOf(r)
       [] p \in Finding -> {r.prev, r.curr}
       [] p = "lock_left" -> r.hold
       [] p = "left_locked" -> r.hold \cup {r.left}
       [] p = "current_locked" -> r.hold \cup {r.left, r.curr}
       [] p \in {"unlink", "unlink_next"} -> {r.left, r.curr}
       [] p = "left_moved" -> {r.prev, r.left, r.curr}
       [] OTHER -> {})
    \ {NoNode}

\* The one it has just locked, whose readers may still be there.
DrainOf(p, r) ==
    CASE p \in {"locked", "child_locked", "find_locked", "current_locked"} -> {r.curr}
      [] p \in {"left_locked", "left_moved"} -> {r.left}
      [] OTHER -> {}

Locks(t) == LocksOf(pc[t], reg[t])
Draining(t) == DrainOf(pc[t], reg[t])

\* n is a node of level l.
At(nd, us, n, l) == n \in 1..us /\ nd[n].level = l

\* The nodes a promotion has still to put in, from the level it is at on.
SparesOK(r, nd, us) ==
    /\ r.level \in Nat
    /\ r.spare \in Seq(1..us) /\ Len(r.spare) = r.level + 1
    /\ \A i \in DOMAIN r.spare : nd[r.spare[i]].level = r.level + 1 - i
    /\ \A i, j \in DOMAIN r.spare : r.spare[i] = r.spare[j] => i = j

FoundIn(s, k) == s # << >> /\ s[Rank(s, k)].key = k

\* Without locks, or with the first ones.
EarlyOK(p, r, c, nd, us) ==
    /\ At(nd, us, r.curr, r.level)
    /\ r.prev = NoNode /\ r.spare = << >>
    /\ p = "move" => At(nd, us, r.next, r.level)
    /\ p \in {"enter_child", "read_lock", "read_locked"} => At(nd, us, r.next, r.level - 1)
    /\ p \in {"read_lock", "read_locked"} => r.level = 1
    /\ p = "locked" => c.op \in {"insert", "delete"}
    /\ p = "split_next" => At(nd, us, r.next, r.level) /\ r.next # r.curr

PromotingOK(p, r, nd, us) ==
    /\ At(nd, us, r.curr, r.level)
    /\ SparesOK(r, nd, us)
    /\ p \in {"lock_child", "child_locked"} => r.prev \in (1..us) \ RawOf(r)
    /\ p # "lock_child" => r.curr \notin RawOf(r)
    /\ p = "child_locked" => r.prev # r.curr
    /\ p = "promote_next" => r.level > 0 /\ nd[Head(r.spare)].slots # << >>

FindingOK(p, r, c, nd, us) ==
    /\ At(nd, us, r.curr, r.level)
    /\ r.spare = << >>
    /\ r.prev # NoNode => At(nd, us, r.prev, r.level) /\ r.prev # r.curr
    /\ p = "find_locked" => r.prev # NoNode
    /\ p = "delete" /\ r.prev # NoNode => FoundIn(nd[r.curr].slots, c.key)

UnlinkingOK(p, r, nd, us) ==
    /\ r.curr \in 1..us
    /\ r.spare = << >>
    /\ At(nd, us, r.left, nd[r.curr].level)
    /\ p \in {"lock_left", "left_locked", "current_locked"} => r.hold \subseteq (1..us) \cup {NoNode}
    /\ p \in {"left_locked", "current_locked"} => r.left \notin r.hold
    /\ p = "current_locked" => r.curr \notin r.hold
    /\ p \in {"current_locked", "unlink", "left_moved", "unlink_next"} => r.left # r.curr
    /\ p = "left_moved" => r.prev \in 1..us /\ r.prev # r.left /\ r.prev # r.curr
    /\ p = "unlink_next" => nd[r.curr].level > 0

RegsOK(p, r, c, nd, us) ==
    /\ p = "idle" => r.spare = << >>
    /\ p \in Early => EarlyOK(p, r, c, nd, us)
    /\ p \in Promoting => PromotingOK(p, r, nd, us)
    /\ p \in Finding => FindingOK(p, r, c, nd, us)
    /\ p \in Unlinking => UnlinkingOK(p, r, nd, us)

Registers(t) == RegsOK(pc[t], reg[t], call[t], node, used)
RegInv == \A t \in Threads : Registers(t)

----------------------------------------------------------------------------
(* Locks.                                                                  *)

\* The nodes with t's writer bit are those of its locks.
Owns(t) == \A n \in Used : node[n].writer = t <=> n \in Locks(t)

LockInv ==
    /\ \A n \in Used : node[n].writer \in Threads \cup {NoThread}
    /\ \A t \in Threads : Owns(t)

ReadersOf(n) == {t \in Threads : Reading(t, n)}
ReaderInv == \A n \in Used : node[n].readers = Cardinality(ReadersOf(n))

\* Once the readers of a locked node have gone none come.
Drains(t) == \A n \in Locks(t) \ Draining(t) : node[n].readers = 0
DrainInv == \A t \in Threads : Drains(t)

IInv == TypeOK /\ ShapeInv /\ RegInv /\ LockInv /\ ReaderInv /\ DrainInv

----------------------------------------------------------------------------
(* What follows from the registers alone.                                  *)

USE DEF Labels, Early, Promoting, Finding, Unlinking

\* The locks of a call are nodes.
LEMMA LocksUsed ==
    ASSUME NEW p \in Labels, NEW r, NEW c, NEW nd, NEW us \in Nat, RegsOK(p, r, c, nd, us)
    PROVE  LocksOf(p, r) \subseteq 1..us
<1>1. CASE p \in Promoting
  <2>1. RawOf(r) \subseteq 1..us
    <3>1. r.spare \in Seq(1..us)
      BY <1>1 DEF RegsOK, PromotingOK, SparesOK
    <3> QED  BY <3>1 DEF RawOf
  <2>2. r.curr \in 1..us /\ (p \in {"lock_child", "child_locked"} => r.prev \in 1..us)
    BY <1>1 DEF RegsOK, PromotingOK, At
  <2> QED  BY <1>1, <2>1, <2>2 DEF LocksOf
<1>2. CASE p \in Early
  BY <1>2 DEF RegsOK, EarlyOK, LocksOf, At
<1>3. CASE p \in Finding
  BY <1>3 DEF RegsOK, FindingOK, LocksOf, At
<1>4. CASE p \in Unlinking
  BY <1>4 DEF RegsOK, UnlinkingOK, LocksOf, At
<1>5. CASE p = "idle"
  BY <1>5 DEF LocksOf
<1> QED  BY <1>1, <1>2, <1>3, <1>4, <1>5

\* So are raw nodes, which are among the locks.
LEMMA RawLocked ==
    ASSUME NEW p \in Labels, NEW r, NEW c, NEW nd, NEW us \in Nat, RegsOK(p, r, c, nd, us),
           NoNode \notin Nat
    PROVE  /\ RawOf(r) \subseteq LocksOf(p, r)
           /\ p \notin Promoting => RawOf(r) = {}
<1>1. CASE p \in Promoting
  <2>1. RawOf(r) \subseteq 1..us
    <3>1. r.spare \in Seq(1..us)
      BY <1>1 DEF RegsOK, PromotingOK, SparesOK
    <3> QED  BY <3>1 DEF RawOf
  <2>2. NoNode \notin 1..us
    OBVIOUS
  <2> QED  BY <1>1, <2>1, <2>2 DEF LocksOf
<1>2. CASE p \notin Promoting
  <2>1. r.spare = << >>
    BY <1>2 DEF RegsOK, EarlyOK, FindingOK, UnlinkingOK
  <2> QED  BY <1>2, <2>1 DEF RawOf
<1> QED  BY <1>1, <1>2

\* Registers stay right while others work elsewhere.
LEMMA RegsKept ==
    ASSUME NEW p \in Labels, NEW r, NEW c, NEW nd, NEW nd2, NEW us \in Nat, NEW us2 \in Nat,
           us <= us2, RegsOK(p, r, c, nd, us), NoNode \notin Nat,
           \A n \in 1..us : nd2[n].level = nd[n].level,
           \A n \in LocksOf(p, r) : nd2[n].slots = nd[n].slots
    PROVE  RegsOK(p, r, c, nd2, us2)
<1>1. CASE p \in Promoting
  <2>1. SparesOK(r, nd, us) /\ PromotingOK(p, r, nd, us)
    BY <1>1 DEF RegsOK, PromotingOK
  <2>2. SparesOK(r, nd2, us2)
    <3>1. \A i \in DOMAIN r.spare : r.spare[i] \in 1..us
      BY <2>1 DEF SparesOK
    <3>2. r.spare \in Seq(1..us2)
      BY <2>1 DEF SparesOK
    <3> QED  BY <2>1, <3>1, <3>2 DEF SparesOK
  <2>3. p = "promote_next" => Head(r.spare) \in LocksOf(p, r)
    <3>1. SUFFICES ASSUME p = "promote_next" PROVE Head(r.spare) \in LocksOf(p, r)
      OBVIOUS
    <3>2. r.level > 0 /\ r.level \in Int
      BY <2>1, <3>1 DEF PromotingOK, SparesOK
    <3>3. 1 \in DOMAIN r.spare /\ Head(r.spare) = r.spare[1]
      BY <2>1, <3>2 DEF SparesOK
    <3>4. Head(r.spare) \in RawOf(r)
      BY <3>3 DEF RawOf
    <3> QED  BY <3>4, RawLocked
  <2>4. PromotingOK(p, r, nd2, us2)
    BY <2>1, <2>2, <2>3 DEF PromotingOK, At
  <2> QED  BY <1>1, <2>4 DEF RegsOK
<1>2. CASE p \in Early
  BY <1>2 DEF RegsOK, EarlyOK, At
<1>3. CASE p \in Finding
  <2>1. r.curr \in LocksOf(p, r)
    BY <1>3 DEF RegsOK, FindingOK, At, LocksOf
  <2> QED  BY <1>3, <2>1 DEF RegsOK, FindingOK, At
<1>4. CASE p \in Unlinking
  BY <1>4 DEF RegsOK, UnlinkingOK, At
<1>5. CASE p = "idle"
  BY <1>5 DEF RegsOK
<1> QED  BY <1>1, <1>2, <1>3, <1>4, <1>5

\* A node that is not a raw one of its holder has slots.
LEMMA NotEmpty ==
    ASSUME IInv, NEW n \in Used,
           \A t \in Threads : node[n].writer = t => n \notin Raw(t)
    PROVE  node[n].slots \in Seq(Slots) /\ Len(node[n].slots) > 0
<1>1. ASSUME NEW t \in Threads PROVE n \notin Raw(t)
  <2>1. Raw(t) \subseteq Locks(t)
    BY RawLocked, NothingAssumption DEF IInv, TypeOK, RegInv, Registers, Raw, Locks
  <2> QED  BY <2>1 DEF IInv, LockInv, Owns
<1>2. node[n].slots \in Seq(Slots) /\ node[n].slots # << >>
  BY <1>1 DEF IInv, ShapeInv, NodeOK, SlotsOK
<1> QED  BY <1>2

----------------------------------------------------------------------------
(* A step of one thread.                                                   *)

\* Other threads go on as they were.
OnlyBy(t) ==
    \A u \in Threads : u # t =>
        pc'[u] = pc[u] /\ reg'[u] = reg[u] /\ call'[u] = call[u]

SameContents(n) ==
    /\ node'[n].level = node[n].level /\ node'[n].slots = node[n].slots
    /\ node'[n].next = node[n].next /\ node'[n].next_header = node[n].next_header

\* t writes to nodes it has locked and drained, sets and clears its own writer bit, and locks what it
\* allocates.
Frame(t) ==
    /\ OnlyBy(t)
    /\ used' \in Nat /\ used <= used' /\ used' <= NodeCnt
    /\ \A n \in Used :
          /\ node'[n].level = node[n].level
          /\ SameContents(n) \/ n \in Locks(t) \ Draining(t)
          /\ \/ node'[n].writer = node[n].writer
             \/ node[n].writer \in {t, NoThread} /\ node'[n].writer \in {t, NoThread}
          /\ node[n].readers = 0 /\ node[n].writer # NoThread => node'[n].readers = 0
    /\ \A n \in (used + 1)..used' : node'[n].writer = t /\ node'[n].readers = 0

\* The node a scan counts as a reader of.
ReadsOf(p, r) ==
    CASE p \in {"scan_right", "scan_batch", "scan_next"} -> {r.curr}
      [] p = "read_locked" -> {r.next}
      [] OTHER -> {}
Reads(t) == ReadsOf(pc[t], reg[t])

ReaderStep(t) ==
    /\ Reads(t)' \subseteq Used
    /\ \A n \in Used :
          \/ (n \in Reads(t)' <=> n \in Reads(t)) /\ node'[n].readers = node[n].readers
          \/ n \in Reads(t)' \ Reads(t) /\ node'[n].readers = node[n].readers + 1
          \/ n \in Reads(t) \ Reads(t)' /\ node'[n].readers = node[n].readers - 1

LEMMA ReadingIs ==
    ASSUME NEW t \in Threads, NEW n PROVE Reading(t, n) <=> n \in Reads(t)
BY DEF Reading, Reads, ReadsOf, Curr

LEMMA ReadingIsNext ==
    ASSUME NEW t \in Threads, NEW n PROVE Reading(t, n)' <=> n \in Reads(t)'
BY DEF Reading, Reads, ReadsOf, Curr

LEMMA ThreadsFinite == IsFiniteSet(Threads)
BY SizeAssumption, FS_AddElement DEF Threads

LEMMA ReadersFinite ==
    ASSUME NEW n PROVE IsFiniteSet(ReadersOf(n)) /\ Cardinality(ReadersOf(n)) \in Nat
BY ThreadsFinite, FS_Subset, FS_CardinalityType DEF ReadersOf

\* Scans read nodes.
LEMMA ReadsUsed ==
    ASSUME NEW p \in Labels, NEW r, NEW c, NEW nd, NEW us \in Nat, RegsOK(p, r, c, nd, us)
    PROVE  ReadsOf(p, r) \subseteq 1..us
BY DEF RegsOK, EarlyOK, At, ReadsOf

LEMMA Counted ==
    ASSUME IInv, NEW t \in Threads, NEW n \in Used, n \in Reads(t)
    PROVE  node[n].readers \in Nat /\ node[n].readers > 0
<1>1. t \in ReadersOf(n)
  BY ReadingIs DEF ReadersOf
<1>2. Cardinality(ReadersOf(n)) # 0
  BY <1>1, ReadersFinite, FS_EmptySet
<1> QED  BY <1>2, ReadersFinite DEF IInv, ReaderInv

LEMMA ReadersKept ==
    ASSUME IInv, NEW t \in Threads, Frame(t), ReaderStep(t)
    PROVE  ReaderInv'
<1> SUFFICES ASSUME NEW n \in 1..used'
             PROVE  node'[n].readers = Cardinality(ReadersOf(n)')
  BY DEF ReaderInv, Used
<1>0. used \in Nat /\ used' \in Nat /\ used <= used'
  BY DEF IInv, TypeOK, Frame
<1>1. \A u \in Threads : u # t => (u \in ReadersOf(n)' <=> u \in ReadersOf(n))
  <2>1. \A u \in Threads : u \in ReadersOf(n)' <=> n \in Reads(u)'
    BY ReadingIsNext DEF ReadersOf
  <2>2. \A u \in Threads : u \in ReadersOf(n) <=> n \in Reads(u)
    BY ReadingIs DEF ReadersOf
  <2> QED  BY <2>1, <2>2 DEF Frame, OnlyBy, Reads
<1>2. t \in ReadersOf(n)' <=> n \in Reads(t)'
  BY ReadingIsNext DEF ReadersOf
<1>3. t \in ReadersOf(n) <=> n \in Reads(t)
  BY ReadingIs DEF ReadersOf
<1>4. ReadersOf(n)' \subseteq Threads /\ ReadersOf(n) \subseteq Threads
  BY DEF ReadersOf
<1>5. CASE n \in Used
  <2>1. node[n].readers = Cardinality(ReadersOf(n))
    BY <1>5 DEF IInv, ReaderInv
  <2>2. CASE (n \in Reads(t)' <=> n \in Reads(t)) /\ node'[n].readers = node[n].readers
    <3>1. ReadersOf(n)' = ReadersOf(n)
      BY <1>1, <1>2, <1>3, <1>4, <2>2
    <3> QED  BY <2>1, <2>2, <3>1
  <2>3. CASE n \in Reads(t)' \ Reads(t) /\ node'[n].readers = node[n].readers + 1
    <3>1. ReadersOf(n)' = ReadersOf(n) \cup {t} /\ t \notin ReadersOf(n)
      BY <1>1, <1>2, <1>3, <1>4, <2>3
    <3>2. Cardinality(ReadersOf(n)') = Cardinality(ReadersOf(n)) + 1
      BY <3>1, ReadersFinite, FS_AddElement
    <3> QED  BY <2>1, <2>3, <3>2
  <2>4. CASE n \in Reads(t) \ Reads(t)' /\ node'[n].readers = node[n].readers - 1
    <3>1. ReadersOf(n)' = ReadersOf(n) \ {t} /\ t \in ReadersOf(n)
      BY <1>1, <1>2, <1>3, <1>4, <2>4
    <3>2. Cardinality(ReadersOf(n)') = Cardinality(ReadersOf(n)) - 1
      BY <3>1, ReadersFinite, FS_RemoveElement
    <3> QED  BY <2>1, <2>4, <3>2
  <2> QED  BY <1>5, <2>2, <2>3, <2>4 DEF ReaderStep
<1>6. CASE n \notin Used
  <2>1. node'[n].readers = 0
    BY <1>0, <1>6 DEF Frame, Used
  <2>2. ASSUME NEW u \in Threads PROVE u \notin ReadersOf(n)
    <3>1. Reads(u) \subseteq Used
      <4>1. pc[u] \in Labels /\ RegsOK(pc[u], reg[u], call[u], node, used)
        BY DEF IInv, TypeOK, RegInv, Registers
      <4> QED  BY <1>0, <4>1, ReadsUsed DEF Reads, Used
    <3> QED  BY <1>6, <3>1, ReadingIs DEF ReadersOf
  <2>3. t \notin ReadersOf(n)'
    BY <1>2, <1>6 DEF ReaderStep
  <2>4. ReadersOf(n)' = {}
    BY <1>1, <1>4, <2>2, <2>3
  <2> QED  BY <2>1, <2>4, FS_EmptySet
<1> QED  BY <1>5, <1>6

\* What t itself sees to.
Own(t) ==
    /\ Registers(t)'
    /\ Owns(t)'
    /\ Drains(t)'

Kept(t) == IInv' /\ Frame(t)

LEMMA StepKeeps ==
    ASSUME IInv, NEW t \in Threads, Frame(t), ReaderStep(t), TypeOK', ShapeInv', Own(t)
    PROVE  Kept(t)
<1>0. used \in Nat /\ used' \in Nat /\ used <= used'
  BY DEF IInv, TypeOK, Frame
<1>1. ASSUME NEW u \in Threads, u # t
      PROVE  /\ pc'[u] = pc[u] /\ reg'[u] = reg[u] /\ call'[u] = call[u]
             /\ pc[u] \in Labels /\ RegsOK(pc[u], reg[u], call[u], node, used)
             /\ Locks(u)' = Locks(u) /\ Draining(u)' = Draining(u)
             /\ Locks(u) \subseteq 1..used
             /\ \A n \in Locks(u) : node[n].writer = u
  <2>1. pc'[u] = pc[u] /\ reg'[u] = reg[u] /\ call'[u] = call[u]
    BY <1>1 DEF Frame, OnlyBy
  <2>2. pc[u] \in Labels /\ RegsOK(pc[u], reg[u], call[u], node, used)
    BY DEF IInv, TypeOK, RegInv, Registers
  <2>3. Locks(u) \subseteq 1..used
    BY <1>0, <2>2, LocksUsed DEF Locks
  <2> QED  BY <2>1, <2>2, <2>3 DEF Locks, Draining, IInv, LockInv, Owns, Used
<1>2. ASSUME NEW u \in Threads, u # t PROVE Registers(u)'
  <2>1. \A n \in 1..used : node'[n].level = node[n].level
    BY DEF Frame, Used
  <2>2. ASSUME NEW n \in Locks(u) PROVE node'[n].slots = node[n].slots
    <3>1. node[n].writer # t /\ n \in Used
      BY <1>1, <1>2 DEF Used
    <3>2. n \notin Locks(t)
      BY <3>1 DEF IInv, LockInv, Owns
    <3> QED  BY <3>1, <3>2 DEF Frame, SameContents
  <2>3. RegsOK(pc[u], reg[u], call[u], node', used')
    BY <1>0, <1>1, <1>2, <2>1, <2>2, RegsKept, NothingAssumption DEF Locks
  <2> QED  BY <1>1, <1>2, <2>3 DEF Registers
<1>3. RegInv'
  BY <1>2 DEF RegInv, Own
<1>4. ASSUME NEW n \in 1..used' PROVE node'[n].writer \in Threads \cup {NoThread}
  <2>1. CASE n \in Used
    BY <2>1 DEF IInv, LockInv, Frame
  <2>2. CASE n \notin Used
    BY <1>0, <2>2 DEF Frame, Used
  <2> QED  BY <2>1, <2>2
<1>5. ASSUME NEW u \in Threads, u # t PROVE Owns(u)'
  <2> SUFFICES ASSUME NEW n \in 1..used' PROVE node'[n].writer = u <=> n \in Locks(u)
    BY <1>1, <1>5 DEF Owns, Used
  <2>1. CASE n \in Used
    <3>1. node'[n].writer = u <=> node[n].writer = u
      BY <1>5, <2>1, NothingAssumption DEF Frame
    <3> QED  BY <2>1, <3>1 DEF IInv, LockInv, Owns
  <2>2. CASE n \notin Used
    <3>1. node'[n].writer = t
      BY <1>0, <2>2 DEF Frame, Used
    <3> QED  BY <1>1, <1>5, <2>2, <3>1 DEF Used
  <2> QED  BY <2>1, <2>2
<1>6. LockInv'
  BY <1>4, <1>5 DEF LockInv, Own, Used
<1>7. ASSUME NEW u \in Threads, u # t PROVE Drains(u)'
  <2> SUFFICES ASSUME NEW n \in Locks(u) \ Draining(u) PROVE node'[n].readers = 0
    BY <1>1, <1>7 DEF Drains
  <2>1. node[n].readers = 0
    BY DEF IInv, DrainInv, Drains
  <2>2. n \in Used /\ node[n].writer # NoThread
    BY <1>1, <1>7, NothingAssumption DEF Used
  <2> QED  BY <2>1, <2>2 DEF Frame
<1>8. DrainInv'
  BY <1>7 DEF DrainInv, Own
<1> QED  BY <1>3, <1>6, <1>8, ReadersKept DEF IInv, Kept

----------------------------------------------------------------------------
(* Steps that write nothing but locks and registers.                       *)

\* t is at p with registers r.
Moved(t, p, r) ==
    /\ pc' = [pc EXCEPT ![t] = p]
    /\ DOMAIN reg' = Threads
    /\ \A u \in Threads : reg'[u] = IF u = t THEN r ELSE reg[u]

LEMMA MovedLocals ==
    ASSUME TypeOK, NEW t \in Threads, NEW p, NEW r, Goto(t, p), Locals(t, r)
    PROVE  Moved(t, p, r)
BY DEF TypeOK, Goto, Locals, Moved

LEMMA MovedSame ==
    ASSUME TypeOK, NEW t \in Threads, NEW p, Goto(t, p), UNCHANGED reg
    PROVE  Moved(t, p, reg[t])
BY DEF TypeOK, Goto, Moved

\* The nodes of add get t's writer bit, those of del lose theirs.
Relocked(t, add, del) ==
    /\ DOMAIN node' = Nodes
    /\ \A n \in Nodes :
          /\ DOMAIN node'[n] = NodeFields
          /\ SameContents(n)
          /\ node'[n].readers = node[n].readers
          /\ node'[n].writer = IF n \in add THEN t
                               ELSE IF n \in del THEN NoThread ELSE node[n].writer

LEMMA RelockedNone ==
    ASSUME TypeOK, NEW t \in Threads, UNCHANGED node
    PROVE  Relocked(t, {}, {})
BY DEF TypeOK, Relocked, SameContents

LEMMA RelockedAdd ==
    ASSUME TypeOK, NEW t \in Threads, NEW n, WriteLock(t, n) \/ WriteLockEvicting(t, n)
    PROVE  Relocked(t, {n}, {})
BY DEF TypeOK, Relocked, SameContents, WriteLock, WriteLockEvicting, NodeFields

\* WriteUnlocked clears the writer bit and writes no contents.
LEMMA Unlocking ==
    ASSUME NEW nd, NEW S, NEW n \in Nodes, DOMAIN nd[n] = NodeFields
    PROVE  LET w == WriteUnlocked(nd, S) IN
           /\ DOMAIN w = Nodes
           /\ DOMAIN w[n] = NodeFields
           /\ w[n].level = nd[n].level /\ w[n].slots = nd[n].slots
           /\ w[n].next = nd[n].next /\ w[n].next_header = nd[n].next_header
           /\ w[n].readers = nd[n].readers
           /\ w[n].writer = IF n \in S THEN NoThread ELSE nd[n].writer
BY DEF WriteUnlocked, NodeFields

LEMMA RelockedDel ==
    ASSUME TypeOK, NEW t \in Threads, NEW S, node' = WriteUnlocked(node, S)
    PROVE  Relocked(t, {}, S)
<1>1. DOMAIN node' = Nodes
  BY DEF WriteUnlocked
<1> QED  BY <1>1, Unlocking DEF TypeOK, Relocked, SameContents

\* A call goes on.
LEMMA GoesOn ==
    ASSUME TypeOK, NEW t \in Threads, NEW p \in Labels \ {"idle"}, NEW r,
           DOMAIN r = RegFields, Moved(t, p, r), pc[t] # "idle", UNCHANGED callVars,
           DOMAIN node' = Nodes, \A n \in Nodes : DOMAIN node'[n] = NodeFields,
           used' \in Nat, used <= used', used' <= NodeCnt
    PROVE  TypeOK' /\ OnlyBy(t) /\ pc'[t] = p /\ reg'[t] = r /\ call'[t] = call[t]
<1>1. pc' \in [Threads -> Labels] /\ pc'[t] = p /\ \A u \in Threads : u # t => pc'[u] = pc[u]
  BY DEF TypeOK, Moved
<1>2. call' = call /\ todo' = todo
  BY DEF callVars
<1>3. MAX_LEVEL <= used'
  BY SizeAssumption DEF TypeOK
<1>4. \A u \in Threads : DOMAIN reg'[u] = RegFields
  BY DEF TypeOK, Moved
<1>5. \A u \in Threads : pc'[u] = "idle" <=> call'[u] = NoCall
  BY <1>1, <1>2 DEF TypeOK
<1> QED  BY <1>1, <1>2, <1>3, <1>4, <1>5 DEF TypeOK, OnlyBy, Moved

\* A call returns.
LEMMA Returns ==
    ASSUME TypeOK, NEW t \in Threads, Return(t),
           DOMAIN node' = Nodes, \A n \in Nodes : DOMAIN node'[n] = NodeFields,
           UNCHANGED used
    PROVE  TypeOK' /\ OnlyBy(t) /\ Moved(t, "idle", NoReg)
<1>1. Moved(t, "idle", NoReg)
  BY MovedLocals DEF Return
<1>2. DOMAIN NoReg = RegFields
  BY DEF NoReg, RegFields
<1>3. pc' \in [Threads -> Labels] /\ pc'[t] = "idle"
      /\ \A u \in Threads : u # t => pc'[u] = pc[u]
  BY <1>1 DEF TypeOK, Moved
<1>4. call' \in [Threads -> Calls \cup {NoCall}] /\ call'[t] = NoCall
      /\ \A u \in Threads : u # t => call'[u] = call[u]
  BY DEF TypeOK, Return
<1>5. todo' = todo
  BY DEF Return
<1>6. \A u \in Threads : pc'[u] = "idle" <=> call'[u] = NoCall
  BY <1>3, <1>4 DEF TypeOK
<1> QED  BY <1>1, <1>2, <1>3, <1>4, <1>5, <1>6 DEF TypeOK, OnlyBy, Moved

\* Raw nodes stay raw.
LEMMA ShapeKept ==
    ASSUME IInv, NEW t \in Threads, OnlyBy(t), UNCHANGED used,
           \A n \in Used : SameContents(n), Raw(t) \subseteq Raw(t)'
    PROVE  ShapeInv'
<1>1. MAX_LEVEL \in Nat \ {0, 1} /\ Header(MAX_LEVEL - 1) \in Used
  BY SizeAssumption DEF IInv, TypeOK, Header, Used
<1>2. node'[Header(MAX_LEVEL - 1)].level = MAX_LEVEL - 1
  BY <1>1 DEF IInv, ShapeInv, SameContents
<1>3. ASSUME NEW n \in Used PROVE NodeOK(node, used, n)'
  <2>1. NodeOK(node, used, n) /\ SameContents(n)
    BY DEF IInv, ShapeInv
  <2>2. \A m \in 1..used : node'[m].level = node[m].level
    BY DEF SameContents, Used
  <2>3. SlotsOK(node, used, node[n].level, node[n].slots)'
    BY <2>1, <2>2 DEF NodeOK, SlotsOK, ValOK, SameContents
  <2> QED  BY <2>1, <2>2, <2>3 DEF NodeOK, SameContents
<1>4. ASSUME NEW n \in Used, node'[n].slots = << >> PROVE \E u \in Threads : n \in Raw(u)'
  <2>1. PICK u \in Threads : n \in Raw(u)
    BY <1>4 DEF IInv, ShapeInv, SameContents
  <2>2. u # t => Raw(u)' = Raw(u)
    BY DEF OnlyBy, Raw
  <2> QED  BY <2>1, <2>2
<1> QED  BY <1>2, <1>3, <1>4 DEF ShapeInv, Used

LEMMA PassiveStep ==
    ASSUME IInv, NEW t \in Threads, NEW p \in Labels, NEW r, NEW add, NEW del,
           TypeOK', OnlyBy(t), Moved(t, p, r), Relocked(t, add, del), UNCHANGED used,
           \A n \in add : n \in Used /\ node[n].writer = NoThread,
           del \cap Used \subseteq Locks(t), add \cap del = {},
           LocksOf(p, r) = (Locks(t) \cup add) \ del,
           RegsOK(p, r, call'[t], node, used),
           Raw(t) \subseteq RawOf(r),
           \A n \in LocksOf(p, r) \ DrainOf(p, r) : node[n].readers = 0,
           ReadsOf(p, r) = Reads(t)
    PROVE  Kept(t)
<1>1. pc'[t] = p /\ reg'[t] = r
  BY DEF Moved, IInv, TypeOK
<1>2. used \in Nat /\ used' = used /\ Used \subseteq Nodes
  BY SizeAssumption DEF IInv, TypeOK, Used, Nodes
<1>3. \A n \in Used : /\ SameContents(n) /\ node'[n].readers = node[n].readers
                      /\ node'[n].writer = IF n \in add THEN t
                               ELSE IF n \in del THEN NoThread ELSE node[n].writer
  BY <1>2 DEF Relocked
<1>4. \A n \in Used : node[n].writer = t <=> n \in Locks(t)
  BY DEF IInv, LockInv, Owns
<1>5. Frame(t)
  BY <1>2, <1>3, <1>4 DEF Frame, SameContents, IInv, TypeOK
<1>6. Reads(t)' = ReadsOf(p, r)
  BY <1>1 DEF Reads
<1>7. Reads(t) \subseteq Used
  <2>1. pc[t] \in Labels /\ RegsOK(pc[t], reg[t], call[t], node, used)
    BY DEF IInv, TypeOK, RegInv, Registers
  <2> QED  BY <1>2, <2>1, ReadsUsed DEF Reads, Used
<1>8. ReaderStep(t)
  BY <1>3, <1>6, <1>7 DEF ReaderStep
<1>9. ShapeInv'
  BY <1>1, <1>2, <1>3, ShapeKept DEF Raw
<1>10. LocksOf(p, r) \subseteq 1..used
  BY <1>2, LocksUsed
<1>11. Registers(t)'
  <2>1. RegsOK(p, r, call'[t], node', used)
    <3>1. \A n \in 1..used : node'[n].level = node[n].level /\ node'[n].slots = node[n].slots
      BY <1>3 DEF SameContents, Used
    <3>2. \A n \in LocksOf(p, r) : node'[n].slots = node[n].slots
      BY <1>10, <3>1
    <3>3. used <= used
      BY <1>2
    <3> QED  BY <1>2, <3>1, <3>2, <3>3, RegsKept, NothingAssumption
  <2> QED  BY <1>1, <1>2, <2>1 DEF Registers
<1>12. Locks(t)' = LocksOf(p, r) /\ Draining(t)' = DrainOf(p, r)
  BY <1>1 DEF Locks, Draining
<1>13. Owns(t)'
  BY <1>2, <1>3, <1>4, <1>12, NothingAssumption DEF Owns, Used
<1>14. Drains(t)'
  BY <1>3, <1>10, <1>12 DEF Drains, Used
<1> QED  BY <1>5, <1>8, <1>9, <1>11, <1>13, <1>14, StepKeeps DEF Own

LEMMA PassiveGoesOn ==
    ASSUME IInv, NEW t \in Threads, NEW p \in Labels \ {"idle"}, NEW r, NEW add, NEW del,
           DOMAIN r = RegFields, pc[t] # "idle", UNCHANGED <<used, callVars>>,
           Moved(t, p, r), Relocked(t, add, del),
           \A n \in add : n \in Used /\ node[n].writer = NoThread,
           del \cap Used \subseteq Locks(t), add \cap del = {},
           LocksOf(p, r) = (Locks(t) \cup add) \ del,
           RegsOK(p, r, call[t], node, used),
           Raw(t) \subseteq RawOf(r),
           \A n \in LocksOf(p, r) \ DrainOf(p, r) : node[n].readers = 0,
           ReadsOf(p, r) = Reads(t)
    PROVE  Kept(t)
<1>1. used' \in Nat /\ used <= used' /\ used' <= NodeCnt
  BY DEF IInv, TypeOK
<1>2. UNCHANGED callVars
  OBVIOUS
<1>3. DOMAIN node' = Nodes /\ \A n \in Nodes : DOMAIN node'[n] = NodeFields
  BY DEF Relocked
<1>4. TypeOK' /\ OnlyBy(t) /\ call'[t] = call[t]
  BY <1>1, <1>2, <1>3, GoesOn DEF IInv
<1> QED  BY <1>4, PassiveStep

\* The registers of a thread are right.
LEMMA RegsNow ==
    ASSUME IInv, NEW t \in Threads
    PROVE  /\ pc[t] \in Labels /\ DOMAIN reg[t] = RegFields
           /\ RegsOK(pc[t], reg[t], call[t], node, used)
BY DEF IInv, TypeOK, RegInv, Registers

Free == {"walk", "next", "move", "enter_child", "read_lock"}

LEMMA FreeStep ==
    ASSUME IInv, NEW t \in Threads, pc[t] \in Free, NEW p \in Free, NEW r,
           DOMAIN r = RegFields, Moved(t, p, r), UNCHANGED <<node, used, callVars>>,
           EarlyOK(p, r, call[t], node, used)
    PROVE  Kept(t)
<1>1. Relocked(t, {}, {})
  BY RelockedNone DEF IInv
<1>2. Locks(t) = {} /\ LocksOf(p, r) = {}
  BY DEF Locks, LocksOf, Free
<1>3. Reads(t) = {} /\ ReadsOf(p, r) = {}
  BY DEF Reads, ReadsOf, Free
<1>4. Raw(t) = {}
  BY RegsNow, RawLocked, NothingAssumption DEF Raw, Free, IInv, TypeOK
<1>5. RegsOK(p, r, call[t], node, used)
  BY DEF RegsOK, Free
<1>6. p \in Labels \ {"idle"} /\ pc[t] # "idle"
  BY DEF Free
<1>7. UNCHANGED <<used, callVars>>
  OBVIOUS
<1> QED  BY <1>1, <1>2, <1>3, <1>4, <1>5, <1>6, <1>7, PassiveGoesOn

LEMMA TopOK ==
    ASSUME IInv, NEW start, NEW out, NEW c
    PROVE  /\ DOMAIN AtTop(start, out) = RegFields
           /\ EarlyOK("walk", AtTop(start, out), c, node, used)
<1>1. MAX_LEVEL \in Nat \ {0, 1} /\ Header(MAX_LEVEL - 1) \in 1..used
      /\ node[Header(MAX_LEVEL - 1)].level = MAX_LEVEL - 1
  BY SizeAssumption DEF IInv, TypeOK, ShapeInv, Header
<1>2. DOMAIN NoReg = RegFields /\ NoReg.prev = NoNode /\ NoReg.spare = << >>
  BY DEF NoReg, RegFields
<1>3. LET r == AtTop(start, out)
      IN  /\ DOMAIN r = RegFields /\ r.prev = NoNode /\ r.spare = << >>
          /\ r.level = MAX_LEVEL - 1 /\ r.curr = Header(MAX_LEVEL - 1)
  BY <1>2 DEF AtTop, RegFields
<1> QED  BY <1>1, <1>3 DEF EarlyOK, At

LEMMA FreeRetry ==
    ASSUME IInv, NEW t \in Threads, pc[t] \in Free, Retry(t), UNCHANGED <<node, used, callVars>>
    PROVE  Kept(t)
<1>1. Moved(t, "walk", AtTop(reg[t].start, reg[t].out))
  BY MovedLocals DEF Retry, IInv
<1>2. "walk" \in Free
  BY DEF Free
<1> QED  BY <1>1, <1>2, TopOK, FreeStep

LEMMA EarlyNow ==
    ASSUME IInv, NEW t \in Threads, pc[t] \in Early
    PROVE  /\ EarlyOK(pc[t], reg[t], call[t], node, used)
           /\ NodeOK(node, used, Curr(t)) /\ Curr(t) \in Used
           /\ reg[t].level \in Nat
<1>1. EarlyOK(pc[t], reg[t], call[t], node, used)
  BY RegsNow DEF RegsOK
<1>2. Curr(t) \in Used /\ node[Curr(t)].level = reg[t].level
  BY <1>1 DEF EarlyOK, At, Curr, Used
<1>3. NodeOK(node, used, Curr(t))
  BY <1>2 DEF IInv, ShapeInv
<1> QED  BY <1>1, <1>2, <1>3 DEF NodeOK

\* A node becomes the current one.
LEMMA FreeEnter ==
    ASSUME IInv, NEW t \in Threads, pc[t] \in Free, NEW n, NEW l, At(node, used, n, l),
           Enter(t, n, l), UNCHANGED <<node, used, callVars>>
    PROVE  Kept(t)
<1> DEFINE r == [reg[t] EXCEPT !.curr = n, !.v = Ctrl(n), !.level = l, !.next = NoNode]
<1>1. Moved(t, "walk", r)
  BY MovedLocals DEF Enter, IInv
<1>2. "walk" \in Free /\ pc[t] \in Early
  BY DEF Free
<1>3. DOMAIN reg[t] = RegFields /\ reg[t].prev = NoNode /\ reg[t].spare = << >>
  BY <1>2, EarlyNow, RegsNow DEF EarlyOK
<1>4. /\ DOMAIN r = RegFields /\ r.prev = NoNode /\ r.spare = << >>
      /\ r.curr = n /\ r.level = l
  BY <1>3 DEF RegFields
<1>5. EarlyOK("walk", r, call[t], node, used)
  BY <1>4 DEF EarlyOK
<1> HIDE DEF r
<1> QED  BY <1>1, <1>2, <1>4, <1>5, FreeStep

LEMMA MoveRightKeeps ==
    ASSUME IInv, NEW t \in Threads, MoveRight(t) PROVE Kept(t)
<1>1. pc[t] \in Free /\ pc[t] \in Early /\ UNCHANGED <<node, used, callVars>>
  BY DEF MoveRight, Free
<1>2. CASE Retry(t)
  BY <1>1, <1>2, FreeRetry
<1>3. CASE node[Curr(t)].next # NoNode /\ Enter(t, node[Curr(t)].next, reg[t].level)
  <2>1. At(node, used, node[Curr(t)].next, reg[t].level)
    BY <1>1, <1>3, EarlyNow DEF EarlyOK, NodeOK, At, Curr
  <2> QED  BY <1>1, <1>3, <2>1, FreeEnter
<1> QED  BY <1>2, <1>3 DEF MoveRight

LEMMA ScanHeaderKeeps ==
    ASSUME IInv, NEW t \in Threads, ScanHeader(t) PROVE Kept(t)
<1>1. pc[t] \in Free /\ pc[t] \in Early /\ "next" \in Free
  BY DEF ScanHeader, Free
<1>2. UNCHANGED <<node, used, callVars>> /\ Moved(t, "next", reg[t])
  BY MovedSame DEF ScanHeader, IInv
<1>3. EarlyOK("next", reg[t], call[t], node, used)
  BY <1>1, EarlyNow DEF EarlyOK
<1> QED  BY <1>1, <1>2, <1>3, RegsNow, FreeStep

LEMMA ScanReadNextKeeps ==
    ASSUME IInv, NEW t \in Threads, ScanReadNext(t) PROVE Kept(t)
<1>1. pc[t] \in Free /\ pc[t] \in Early /\ UNCHANGED <<node, used, callVars>>
  BY DEF ScanReadNext, Free
<1>2. CASE Retry(t)
  BY <1>1, <1>2, FreeRetry
<1>3. CASE /\ node[Curr(t)].next # NoNode
           /\ Locals(t, [reg[t] EXCEPT !.next = node[Curr(t)].next]) /\ Goto(t, "move")
  <2> DEFINE r == [reg[t] EXCEPT !.next = node[Curr(t)].next]
  <2>1. Moved(t, "move", r) /\ "move" \in Free
    BY <1>3, MovedLocals DEF IInv, Free
  <2>2. At(node, used, node[Curr(t)].next, reg[t].level)
    BY <1>1, <1>3, EarlyNow DEF EarlyOK, NodeOK, At, Curr
  <2>3. /\ DOMAIN r = RegFields /\ r.prev = NoNode /\ r.spare = << >>
        /\ r.curr = reg[t].curr /\ r.level = reg[t].level /\ r.next = node[Curr(t)].next
    BY <1>1, EarlyNow, RegsNow DEF EarlyOK, RegFields
  <2>4. EarlyOK("move", r, call[t], node, used)
    BY <1>1, <2>2, <2>3, EarlyNow DEF EarlyOK
  <2> HIDE DEF r
  <2> QED  BY <1>1, <2>1, <2>3, <2>4, FreeStep
<1> QED  BY <1>2, <1>3 DEF ScanReadNext

LEMMA ScanMoveKeeps ==
    ASSUME IInv, NEW t \in Threads, ScanMove(t) PROVE Kept(t)
<1>1. pc[t] \in Free /\ pc[t] \in Early /\ UNCHANGED <<node, used, callVars>>
  BY DEF ScanMove, Free
<1>2. At(node, used, reg[t].next, reg[t].level)
  BY <1>1, EarlyNow DEF ScanMove, EarlyOK
<1>3. Retry(t) \/ Enter(t, reg[t].next, reg[t].level)
  BY DEF ScanMove
<1> QED  BY <1>1, <1>2, <1>3, FreeRetry, FreeEnter

LEMMA EnterChildKeeps ==
    ASSUME IInv, NEW t \in Threads, EnterChild(t) PROVE Kept(t)
<1>1. pc[t] \in Free /\ pc[t] \in Early /\ UNCHANGED <<node, used, callVars>>
  BY DEF EnterChild, Free
<1>2. At(node, used, reg[t].next, reg[t].level - 1)
  BY <1>1, EarlyNow DEF EnterChild, EarlyOK
<1>3. Retry(t) \/ Enter(t, reg[t].next, reg[t].level - 1)
  BY DEF EnterChild
<1> QED  BY <1>1, <1>2, <1>3, FreeRetry, FreeEnter

LEMMA RankIn ==
    ASSUME NEW s \in Seq(Slots), Len(s) > 0, NEW k
    PROVE  Rank(s, k) \in 1..Len(s)
<1> DEFINE le == {i \in DOMAIN s : s[i].key <= k}
<1>1. DOMAIN s = 1..Len(s) /\ Len(s) \in Nat
  OBVIOUS
<1>2. CASE le = {}
  BY <1>1, <1>2 DEF Rank
<1>3. CASE le # {}
  <2>1. IsFiniteSet(1..Len(s)) /\ Cardinality(1..Len(s)) = Len(s)
    BY <1>1, FS_Interval
  <2>2. le \subseteq 1..Len(s)
    BY <1>1
  <2>3. IsFiniteSet(le) /\ Cardinality(le) <= Len(s)
    BY <2>1, <2>2, FS_Subset
  <2>4. Cardinality(le) \in Nat /\ Cardinality(le) # 0
    BY <1>3, <2>3, FS_CardinalityType, FS_EmptySet
  <2>5. Rank(s, k) = Cardinality(le)
    BY <1>3 DEF Rank
  <2> HIDE DEF le
  <2> QED  BY <1>1, <2>3, <2>4, <2>5
<1> QED  BY <1>2, <1>3

LEMMA CallNow ==
    ASSUME IInv, NEW t \in Threads, pc[t] # "idle"
    PROVE  /\ call[t] \in Calls /\ Key(t) \in Keys /\ Key(t) \in Nat
           /\ Target(t) \in Nat
<1>1. call[t] \in Calls
  BY DEF IInv, TypeOK
<1>2. Key(t) \in Keys /\ Key(t) \in Nat
  BY <1>1, KeysAssumption DEF Calls, Key
<1>3. LevelOf[Key(t)] \in Nat
  BY <1>2, KeysAssumption, SizeAssumption DEF Levels
<1> QED  BY <1>1, <1>2, <1>3 DEF Target

\* A node without a writer has slots.
LEMMA UnlockedHasSlots ==
    ASSUME IInv, NEW n \in Used, node[n].writer = NoThread
    PROVE  node[n].slots \in Seq(Slots) /\ Len(node[n].slots) > 0
BY NotEmpty, NothingAssumption

LEMMA ReadChildKeeps ==
    ASSUME IInv, NEW t \in Threads, ReadChild(t) PROVE Kept(t)
<1>1. pc[t] \in Free /\ pc[t] \in Early /\ pc[t] # "idle" /\ UNCHANGED <<node, used, callVars>>
  BY DEF ReadChild, Free
<1>2. CASE Retry(t)
  BY <1>1, <1>2, FreeRetry
<1>3. CASE ~ (reg[t].v.locked \/ ~ Valid(t))
  <2> DEFINE s == node[Curr(t)].slots
             rank == IF reg[t].first THEN 1 ELSE Rank(s, Goal(t))
             r == [reg[t] EXCEPT !.next = s[rank].val]
             p == IF Op(t) = "scan" /\ reg[t].level = 1 THEN "read_lock" ELSE "enter_child"
  <2>1. Moved(t, p, r)
    <3>1. Locals(t, r) /\ Goto(t, p)
      BY <1>3 DEF ReadChild
    <3> HIDE DEF r, p
    <3> QED  BY <3>1, MovedLocals DEF IInv
  <2>2. node[Curr(t)].writer = NoThread
    <3>1. Ctrl(Curr(t)).locked = reg[t].v.locked /\ ~ reg[t].v.locked
      BY <1>3 DEF Valid
    <3>2. Ctrl(Curr(t)).locked = (node[Curr(t)].writer # NoThread)
      BY DEF Ctrl
    <3> QED  BY <3>1, <3>2
  <2>3. s \in Seq(Slots) /\ Len(s) > 0
    BY <1>1, <2>2, EarlyNow, UnlockedHasSlots
  <2>4. rank \in DOMAIN s
    BY <2>3, RankIn
  <2>5. reg[t].level \in Nat /\ reg[t].level > 0 /\ node[Curr(t)].level = reg[t].level
    BY <1>1, EarlyNow, CallNow DEF ReadChild, EarlyOK, At, Curr
  <2>6. At(node, used, s[rank].val, reg[t].level - 1)
    <3>1. NodeOK(node, used, Curr(t))
      BY <1>1, EarlyNow
    <3> HIDE DEF rank
    <3> QED  BY <3>1, <2>4, <2>5 DEF NodeOK, SlotsOK, ValOK, At
  <2>7. /\ DOMAIN r = RegFields /\ r.prev = NoNode /\ r.spare = << >>
        /\ r.curr = reg[t].curr /\ r.level = reg[t].level /\ r.next = s[rank].val
    BY <1>1, EarlyNow, RegsNow DEF EarlyOK, RegFields
  <2>8. p \in Free /\ (p = "read_lock" => reg[t].level = 1) /\ p \in {"read_lock", "enter_child"}
    BY DEF Free
  <2>9. At(node, used, reg[t].curr, reg[t].level)
    BY <1>1, EarlyNow DEF EarlyOK
  <2> HIDE DEF r, p, rank, s
  <2>10. EarlyOK(p, r, call[t], node, used)
    BY <2>6, <2>7, <2>8, <2>9 DEF EarlyOK
  <2> QED  BY <1>1, <2>1, <2>7, <2>8, <2>10, FreeStep
<1> QED  BY <1>2, <1>3 DEF ReadChild

LEMMA BeginKeeps ==
    ASSUME IInv, NEW t \in Threads, Begin(t) PROVE Kept(t)
<1> DEFINE c == Head(todo[t])
           r == AtTop(IF c.op = "scan" THEN c.key ELSE 0, << >>)
<1>1. Moved(t, "walk", r)
  <2>1. Locals(t, r) /\ Goto(t, "walk")
    BY DEF Begin
  <2> HIDE DEF r
  <2> QED  BY <2>1, MovedLocals DEF IInv
<1>2. DOMAIN r = RegFields /\ EarlyOK("walk", r, call'[t], node, used)
  BY TopOK
<1>3. r.spare = << >>
  BY <1>2 DEF EarlyOK
<1>4. c \in Calls /\ todo' \in [Threads -> Seq(Calls)] /\ c # NoCall
  <2>1. todo[t] \in Seq(Calls) /\ todo[t] # << >>
    BY DEF Begin, IInv, TypeOK
  <2>2. Head(todo[t]) \in Calls /\ Tail(todo[t]) \in Seq(Calls)
    BY <2>1
  <2> QED  BY <2>2, NothingAssumption DEF Begin, IInv, TypeOK
<1>5. call' \in [Threads -> Calls \cup {NoCall}] /\ call'[t] = c
      /\ \A u \in Threads : u # t => call'[u] = call[u]
  BY <1>4 DEF Begin, IInv, TypeOK
<1> HIDE DEF r, c
<1>6. pc' \in [Threads -> Labels] /\ pc'[t] = "walk" /\ \A u \in Threads : u # t => pc'[u] = pc[u]
  BY <1>1 DEF Moved, IInv, TypeOK
<1>7. UNCHANGED <<node, used>>
  BY DEF Begin
<1>8. \A u \in Threads : pc'[u] = "idle" <=> call'[u] = NoCall
  BY <1>4, <1>5, <1>6 DEF IInv, TypeOK
<1>9. TypeOK' /\ OnlyBy(t)
  BY <1>1, <1>2, <1>4, <1>5, <1>6, <1>7, <1>8 DEF Moved, IInv, TypeOK, OnlyBy
<1>10. Relocked(t, {}, {})
  BY <1>7, RelockedNone DEF IInv
<1>11. pc[t] = "idle" /\ Locks(t) = {} /\ LocksOf("walk", r) = {}
       /\ Reads(t) = {} /\ ReadsOf("walk", r) = {}
  BY DEF Begin, Locks, LocksOf, Reads, ReadsOf
<1>12. Raw(t) = {}
  BY <1>11, RegsNow, RawLocked, NothingAssumption DEF Raw, IInv, TypeOK
<1>13. RegsOK("walk", r, call'[t], node, used)
  BY <1>2 DEF RegsOK
<1> QED  BY <1>1, <1>7, <1>9, <1>10, <1>11, <1>12, <1>13, PassiveStep

\* A call returns and unlocks what it has locked.
LEMMA PassiveReturn ==
    ASSUME IInv, NEW t \in Threads, NEW del, Return(t), UNCHANGED used,
           Relocked(t, {}, del), Locks(t) = del \cap Used, Reads(t) = {}, Raw(t) = {}
    PROVE  Kept(t)
<1>1. DOMAIN node' = Nodes /\ \A n \in Nodes : DOMAIN node'[n] = NodeFields
  BY DEF Relocked
<1>2. TypeOK' /\ OnlyBy(t) /\ Moved(t, "idle", NoReg)
  BY <1>1, Returns DEF IInv
<1>3. LocksOf("idle", NoReg) = {} /\ ReadsOf("idle", NoReg) = {}
  BY DEF LocksOf, ReadsOf
<1>4. RegsOK("idle", NoReg, call'[t], node, used)
  BY DEF RegsOK, NoReg
<1> QED  BY <1>2, <1>3, <1>4, PassiveStep

LEMMA GetReturnKeeps ==
    ASSUME IInv, NEW t \in Threads, GetReturn(t) PROVE Kept(t)
<1>1. pc[t] \in Free /\ pc[t] = "walk" /\ UNCHANGED <<node, used>>
  BY DEF GetReturn, Free
<1>2. CASE Retry(t) /\ UNCHANGED callVars
  BY <1>1, <1>2, FreeRetry
<1>3. CASE Return(t)
  <2>1. Locks(t) = {} /\ Reads(t) = {}
    BY <1>1 DEF Locks, LocksOf, Reads, ReadsOf
  <2>2. Raw(t) = {}
    BY <1>1, RegsNow, RawLocked, NothingAssumption DEF Raw, IInv, TypeOK
  <2>3. Relocked(t, {}, {})
    BY <1>1, RelockedNone DEF IInv
  <2> QED  BY <1>1, <1>3, <2>1, <2>2, <2>3, PassiveReturn
<1> QED  BY <1>2, <1>3 DEF GetReturn, Done

----------------------------------------------------------------------------
(* Steps that lock a node, and steps that unlock some.                     *)

\* What locks are worth now.
LEMMA LocksNow ==
    ASSUME IInv, NEW t \in Threads
    PROVE  /\ Locks(t) \subseteq Used /\ NoNode \notin Locks(t) /\ NoNode \notin Used
           /\ Raw(t) \subseteq Locks(t)
           /\ \A n \in Used : node[n].writer = t <=> n \in Locks(t)
           /\ \A n \in Locks(t) \ Draining(t) : node[n].readers = 0
<1>1. used \in Nat /\ NoNode \notin Used
  BY NothingAssumption DEF IInv, TypeOK, Used
<1>2. Locks(t) \subseteq Used /\ Raw(t) \subseteq Locks(t)
  BY <1>1, RegsNow, LocksUsed, RawLocked, NothingAssumption DEF Locks, Raw, Used
<1> QED  BY <1>1, <1>2 DEF IInv, LockInv, Owns, DrainInv, Drains

LEMMA NewLock ==
    ASSUME IInv, NEW t \in Threads, NEW n \in Used, Unlocked(n)
    PROVE  node[n].writer = NoThread /\ n \notin Locks(t) /\ n \notin Raw(t)
BY LocksNow, NothingAssumption DEF Unlocked

LEMMA LockStep ==
    ASSUME IInv, NEW t \in Threads, NEW p \in Labels \ {"idle"}, NEW r, NEW n \in Used,
           WriteLock(t, n) \/ WriteLockEvicting(t, n),
           DOMAIN r = RegFields, pc[t] # "idle", UNCHANGED <<used, callVars>>,
           Moved(t, p, r),
           \A m \in Draining(t) : node[m].readers = 0,
           LocksOf(p, r) = Locks(t) \cup {n}, DrainOf(p, r) = {n},
           RegsOK(p, r, call[t], node, used),
           Raw(t) \subseteq RawOf(r), ReadsOf(p, r) = {}, Reads(t) = {}
    PROVE  Kept(t)
<1>1. Relocked(t, {n}, {})
  BY RelockedAdd DEF IInv
<1>2. node[n].writer = NoThread
  BY DEF WriteLock, WriteLockEvicting, Unlocked
<1>3. \A m \in LocksOf(p, r) \ DrainOf(p, r) : node[m].readers = 0
  BY LocksNow
<1>4. LocksOf(p, r) = (Locks(t) \cup {n}) \ {}
  OBVIOUS
<1> QED  BY <1>1, <1>2, <1>3, <1>4, PassiveGoesOn

LEMMA UnlockStep ==
    ASSUME IInv, NEW t \in Threads, NEW p \in Labels \ {"idle"}, NEW r, NEW S,
           Relocked(t, {}, S),
           DOMAIN r = RegFields, pc[t] # "idle", UNCHANGED <<used, callVars>>,
           Moved(t, p, r),
           S \cap Used \subseteq Locks(t),
           \A m \in Draining(t) : node[m].readers = 0,
           LocksOf(p, r) = Locks(t) \ S,
           RegsOK(p, r, call[t], node, used),
           Raw(t) \subseteq RawOf(r), ReadsOf(p, r) = {}, Reads(t) = {}
    PROVE  Kept(t)
<1>1. \A m \in LocksOf(p, r) \ DrainOf(p, r) : node[m].readers = 0
  BY LocksNow
<1>2. LocksOf(p, r) = (Locks(t) \cup {}) \ S
  OBVIOUS
<1> QED  BY <1>1, <1>2, PassiveGoesOn

LEMMA FoundIs ==
    ASSUME NEW n, NEW k PROVE Found(n, k) <=> FoundIn(node[n].slots, k)
BY DEF Found, FoundIn

LEMMA LockTargetKeeps ==
    ASSUME IInv, NEW t \in Threads, LockTarget(t) PROVE Kept(t)
<1>1. pc[t] = "walk" /\ pc[t] \in Early /\ UNCHANGED <<used, callVars>> /\ Op(t) \in {"insert", "delete"}
      /\ WriteLock(t, Curr(t)) /\ Moved(t, "locked", reg[t])
  BY MovedSame DEF LockTarget, IInv
<1>2. Curr(t) \in Used /\ EarlyOK(pc[t], reg[t], call[t], node, used)
  BY <1>1, EarlyNow
<1>3. EarlyOK("locked", reg[t], call[t], node, used)
  BY <1>1, <1>2 DEF EarlyOK, Op
<1>4. RegsOK("locked", reg[t], call[t], node, used)
  BY <1>3 DEF RegsOK
<1>5. Locks(t) = {} /\ Draining(t) = {} /\ Reads(t) = {} /\ ReadsOf("locked", reg[t]) = {}
      /\ DrainOf("locked", reg[t]) = {Curr(t)}
  BY <1>1 DEF Locks, LocksOf, Draining, DrainOf, Reads, ReadsOf, Curr
<1>6. LocksOf("locked", reg[t]) = {Curr(t)}
  BY <1>2, LocksNow DEF LocksOf, Curr
<1>7. Raw(t) \subseteq RawOf(reg[t]) /\ "locked" \in Labels \ {"idle"} /\ pc[t] # "idle"
  BY <1>1 DEF Raw
<1> QED  BY <1>1, <1>2, <1>4, <1>5, <1>6, <1>7, RegsNow, LockStep

LEMMA LockedKeeps ==
    ASSUME IInv, NEW t \in Threads, Locked(t) PROVE Kept(t)
<1>1. pc[t] = "locked" /\ pc[t] \in Early /\ pc[t] # "idle" /\ UNCHANGED <<used, callVars>>
      /\ node[Curr(t)].readers = 0
  BY DEF Locked, Drained
<1>2. Curr(t) \in Used /\ EarlyOK("locked", reg[t], call[t], node, used)
  BY <1>1, EarlyNow
<1>3. Op(t) \in {"insert", "delete"} /\ reg[t].prev = NoNode /\ reg[t].spare = << >>
      /\ At(node, used, reg[t].curr, reg[t].level)
  BY <1>2 DEF EarlyOK, Op
<1>4. Locks(t) = {Curr(t)} /\ Draining(t) = {Curr(t)} /\ Reads(t) = {}
  BY <1>1, <1>2, LocksNow DEF Locks, LocksOf, Draining, DrainOf, Reads, ReadsOf, Curr
<1>5. \A m \in Draining(t) : node[m].readers = 0
  BY <1>1, <1>4
<1>6. CASE Goto(t, Op(t)) /\ UNCHANGED <<node, reg>>
  <2>1. Relocked(t, {}, {}) /\ Moved(t, Op(t), reg[t])
    BY <1>6, RelockedNone, MovedSame DEF IInv
  <2>2. LocksOf(Op(t), reg[t]) = Locks(t) \ {} /\ ReadsOf(Op(t), reg[t]) = {}
    BY <1>2, <1>3, <1>4, LocksNow DEF LocksOf, ReadsOf, Curr
  <2>3. EarlyOK("insert", reg[t], call[t], node, used)
    BY <1>2 DEF EarlyOK
  <2>4. FindingOK("delete", reg[t], call[t], node, used)
    BY <1>3 DEF FindingOK
  <2>5. RegsOK(Op(t), reg[t], call[t], node, used)
    BY <1>3, <2>3, <2>4 DEF RegsOK
  <2>6. Raw(t) \subseteq RawOf(reg[t]) /\ Op(t) \in Labels \ {"idle"}
    BY <1>3 DEF Raw
  <2> QED  BY <1>1, <1>5, <1>4, <2>1, <2>2, <2>5, <2>6, RegsNow, UnlockStep
<1>7. CASE Retry(t) /\ node' = WriteUnlocked(node, {Curr(t)})
  <2> DEFINE r == AtTop(reg[t].start, reg[t].out)
  <2>1. Relocked(t, {}, {Curr(t)}) /\ Moved(t, "walk", r)
    BY <1>7, RelockedDel, MovedLocals DEF IInv, Retry
  <2>2. DOMAIN r = RegFields /\ EarlyOK("walk", r, call[t], node, used)
    BY TopOK
  <2> HIDE DEF r
  <2>3. RegsOK("walk", r, call[t], node, used)
    BY <2>2 DEF RegsOK
  <2>4. LocksOf("walk", r) = Locks(t) \ {Curr(t)} /\ ReadsOf("walk", r) = {}
    BY <1>4 DEF LocksOf, ReadsOf
  <2>5. Raw(t) \subseteq RawOf(r) /\ "walk" \in Labels \ {"idle"}
    BY <1>3 DEF Raw, RawOf
  <2>6. {Curr(t)} \cap Used \subseteq Locks(t)
    BY <1>4
  <2> QED  BY <1>1, <1>4, <1>5, <2>1, <2>2, <2>3, <2>4, <2>5, <2>6, UnlockStep
<1> QED  BY <1>6, <1>7 DEF Locked

LEMMA InsertFollowKeeps ==
    ASSUME IInv, NEW t \in Threads, InsertFollow(t) PROVE Kept(t)
<1> DEFINE s == node[Curr(t)].slots
           child == s[Rank(s, Key(t))].val
           r == [reg[t] EXCEPT !.curr = child, !.v = Ctrl(child), !.level = @ - 1,
                               !.first = TRUE]
<1>1. pc[t] = "insert" /\ pc[t] \in Early /\ pc[t] # "idle" /\ UNCHANGED <<used, callVars>>
      /\ reg[t].level > 0 /\ FoundHere(t) /\ node' = WriteUnlocked(node, {Curr(t)})
  BY DEF InsertFollow
<1>2. Moved(t, "walk", r)
  <2>1. Locals(t, r) /\ Goto(t, "walk")
    BY DEF InsertFollow
  <2> HIDE DEF r
  <2> QED  BY <2>1, MovedLocals DEF IInv
<1>3. Curr(t) \in Used /\ EarlyOK("insert", reg[t], call[t], node, used)
      /\ NodeOK(node, used, Curr(t)) /\ reg[t].level \in Nat
  BY <1>1, EarlyNow
<1>4. Locks(t) = {Curr(t)} /\ Draining(t) = {} /\ Reads(t) = {}
  BY <1>1, <1>3, LocksNow DEF Locks, LocksOf, Draining, DrainOf, Reads, ReadsOf, Curr
<1>5. Rank(s, Key(t)) \in DOMAIN s
  <2>1. s \in Seq(Slots) /\ s # << >>
    BY <1>1, <1>3 DEF FoundHere, Found, NodeOK, SlotsOK
  <2> QED  BY <2>1, RankIn
<1>6. At(node, used, child, reg[t].level - 1)
  <2>1. node[Curr(t)].level = reg[t].level
    BY <1>3 DEF EarlyOK, At, Curr
  <2> DEFINE rank == Rank(s, Key(t))
  <2> HIDE DEF rank
  <2> QED  BY <1>1, <1>3, <1>5, <2>1 DEF NodeOK, SlotsOK, ValOK, At, rank
<1>7. DOMAIN r = RegFields /\ r.prev = NoNode /\ r.spare = << >>
      /\ r.curr = child /\ r.level = reg[t].level - 1
  BY <1>3, RegsNow DEF EarlyOK, RegFields
<1> HIDE DEF r, child, s
<1>8. RegsOK("walk", r, call[t], node, used)
  BY <1>6, <1>7 DEF RegsOK, EarlyOK
<1>9. LocksOf("walk", r) = Locks(t) \ {Curr(t)} /\ ReadsOf("walk", r) = {}
  BY <1>4 DEF LocksOf, ReadsOf
<1>10. Raw(t) \subseteq RawOf(r) /\ "walk" \in Labels \ {"idle"} /\ {Curr(t)} \cap Used \subseteq Locks(t)
  BY <1>3, <1>4 DEF Raw, RawOf, EarlyOK
<1>11. Relocked(t, {}, {Curr(t)})
  BY <1>1, RelockedDel DEF IInv
<1>12. \A m \in Draining(t) : node[m].readers = 0
  BY <1>4
<1> QED  BY <1>1, <1>2, <1>4, <1>7, <1>8, <1>9, <1>10, <1>11, <1>12, UnlockStep

----------------------------------------------------------------------------
(* Promotion, from lock to lock.                                           *)

LEMMA PromotingNow ==
    ASSUME IInv, NEW t \in Threads, pc[t] \in Promoting
    PROVE  /\ PromotingOK(pc[t], reg[t], node, used) /\ SparesOK(reg[t], node, used)
           /\ Curr(t) \in Used /\ NodeOK(node, used, Curr(t))
           /\ node[Curr(t)].level = reg[t].level /\ reg[t].level \in Nat
           /\ pc[t] # "idle" /\ Reads(t) = {}
<1>1. PromotingOK(pc[t], reg[t], node, used)
  BY RegsNow DEF RegsOK
<1>2. Curr(t) \in Used /\ node[Curr(t)].level = reg[t].level
  BY <1>1 DEF PromotingOK, At, Curr, Used
<1>3. NodeOK(node, used, Curr(t))
  BY <1>2 DEF IInv, ShapeInv
<1> QED  BY <1>1, <1>2, <1>3 DEF PromotingOK, SparesOK, Reads, ReadsOf

LEMMA LockChildKeeps ==
    ASSUME IInv, NEW t \in Threads, LockChild(t) PROVE Kept(t)
<1>1. pc[t] = "lock_child" /\ pc[t] \in Promoting /\ UNCHANGED <<used, callVars>>
      /\ WriteLock(t, Curr(t)) /\ Moved(t, "child_locked", reg[t])
  BY MovedSame DEF LockChild, IInv
<1>2. PromotingOK("lock_child", reg[t], node, used) /\ Curr(t) \in Used
      /\ pc[t] # "idle" /\ Reads(t) = {}
  BY <1>1, PromotingNow
<1>3. Curr(t) \notin Locks(t) /\ Curr(t) \notin Raw(t)
  BY <1>1, <1>2, NewLock DEF WriteLock
<1>4. Locks(t) = {reg[t].prev} \cup Raw(t)
  BY <1>1, <1>2, LocksNow DEF Locks, LocksOf, Raw, PromotingOK, Used
<1>5. PromotingOK("child_locked", reg[t], node, used)
  BY <1>2, <1>3, <1>4 DEF PromotingOK, Curr, Raw
<1>6. RegsOK("child_locked", reg[t], call[t], node, used)
  BY <1>5 DEF RegsOK
<1>7. LocksOf("child_locked", reg[t]) = Locks(t) \cup {Curr(t)}
  BY <1>2, <1>4, LocksNow DEF LocksOf, Curr, Raw
<1>8. DrainOf("child_locked", reg[t]) = {Curr(t)} /\ Draining(t) = {}
      /\ ReadsOf("child_locked", reg[t]) = {}
  BY <1>1 DEF DrainOf, Draining, ReadsOf, Curr
<1>9. Raw(t) \subseteq RawOf(reg[t]) /\ "child_locked" \in Labels \ {"idle"}
      /\ \A m \in Draining(t) : node[m].readers = 0
  BY <1>8 DEF Raw
<1> QED  BY <1>1, <1>2, <1>6, <1>7, <1>8, <1>9, RegsNow, LockStep

LEMMA ChildLockedKeeps ==
    ASSUME IInv, NEW t \in Threads, ChildLocked(t) PROVE Kept(t)
<1> DEFINE r == [reg[t] EXCEPT !.prev = NoNode]
<1>1. pc[t] = "child_locked" /\ pc[t] \in Promoting /\ UNCHANGED <<used, callVars>>
      /\ node[Curr(t)].readers = 0 /\ Relocked(t, {}, {reg[t].prev}) /\ Moved(t, "right", r)
  BY MovedLocals, RelockedDel DEF ChildLocked, IInv, Drained
<1>2. PromotingOK("child_locked", reg[t], node, used) /\ Curr(t) \in Used
      /\ pc[t] # "idle" /\ Reads(t) = {}
  BY <1>1, PromotingNow
<1>3. Locks(t) = {reg[t].prev, Curr(t)} \cup Raw(t) /\ Draining(t) = {Curr(t)}
  BY <1>1, <1>2, LocksNow DEF Locks, LocksOf, Raw, PromotingOK, Used, Draining, DrainOf, Curr
<1>4. DOMAIN r = RegFields /\ r.curr = Curr(t) /\ r.level = reg[t].level /\ r.spare = reg[t].spare
  BY RegsNow DEF RegFields, Curr
<1> HIDE DEF r
<1>5. RawOf(r) = Raw(t)
  BY <1>4 DEF Raw, RawOf
<1>6. PromotingOK("right", r, node, used)
  BY <1>2, <1>4, <1>5 DEF PromotingOK, SparesOK, At, Curr, Raw
<1>7. RegsOK("right", r, call[t], node, used)
  BY <1>6 DEF RegsOK
<1>8. reg[t].prev # Curr(t) /\ reg[t].prev \notin Raw(t)
  BY <1>2 DEF PromotingOK, Curr, Raw
<1>9. LocksOf("right", r) = Locks(t) \ {reg[t].prev}
  BY <1>2, <1>3, <1>4, <1>5, <1>8, LocksNow DEF LocksOf
<1>10. ReadsOf("right", r) = {} /\ \A m \in Draining(t) : node[m].readers = 0
  BY <1>1, <1>3 DEF ReadsOf
<1>11. Raw(t) \subseteq RawOf(r) /\ "right" \in Labels \ {"idle"}
       /\ {reg[t].prev} \cap Used \subseteq Locks(t)
  BY <1>3, <1>5
<1> QED  BY <1>1, <1>2, <1>4, <1>7, <1>9, <1>10, <1>11, UnlockStep

LEMMA LockRightKeeps ==
    ASSUME IInv, NEW t \in Threads, LockRight(t) PROVE Kept(t)
<1> DEFINE n == node[Curr(t)].next
           r == [reg[t] EXCEPT !.prev = Curr(t), !.curr = n]
<1>1. pc[t] = "right" /\ pc[t] \in Promoting /\ UNCHANGED <<used, callVars>>
      /\ WriteLock(t, n) /\ Unlocked(n) /\ Moved(t, "child_locked", r)
  BY MovedLocals DEF LockRight, WriteLock, IInv
<1>2. PromotingOK("right", reg[t], node, used) /\ Curr(t) \in Used
      /\ pc[t] # "idle" /\ Reads(t) = {} /\ NodeOK(node, used, Curr(t))
      /\ node[Curr(t)].level = reg[t].level
  BY <1>1, PromotingNow
<1>3. At(node, used, n, reg[t].level) /\ n \in Used
  BY <1>1, <1>2 DEF NodeOK, Unlocked, At, Used
<1>4. DOMAIN r = RegFields /\ r.curr = n /\ r.prev = Curr(t) /\ r.level = reg[t].level
      /\ r.spare = reg[t].spare
  BY RegsNow DEF RegFields
<1> HIDE DEF r, n
<1>5. RawOf(r) = Raw(t)
  BY <1>4 DEF Raw, RawOf
<1>6. n \notin Locks(t) /\ n \notin Raw(t)
  BY <1>1, <1>3, NewLock
<1>7. Locks(t) = {Curr(t)} \cup Raw(t) /\ Draining(t) = {} /\ Curr(t) \notin Raw(t)
  BY <1>1, <1>2, LocksNow DEF Locks, LocksOf, Raw, PromotingOK, Draining, DrainOf, Curr
<1>8. PromotingOK("child_locked", r, node, used)
  BY <1>2, <1>3, <1>4, <1>5, <1>6, <1>7 DEF PromotingOK, SparesOK, Used
<1>9. RegsOK("child_locked", r, call[t], node, used)
  BY <1>8 DEF RegsOK
<1>10. LocksOf("child_locked", r) = Locks(t) \cup {n}
  BY <1>2, <1>3, <1>4, <1>5, <1>7, LocksNow DEF LocksOf
<1>11. DrainOf("child_locked", r) = {n} /\ ReadsOf("child_locked", r) = {}
  BY <1>4 DEF DrainOf, ReadsOf
<1>12. Raw(t) \subseteq RawOf(r) /\ "child_locked" \in Labels \ {"idle"}
       /\ \A m \in Draining(t) : node[m].readers = 0
  BY <1>5, <1>7
<1> QED  BY <1>1, <1>2, <1>3, <1>4, <1>9, <1>10, <1>11, <1>12, LockStep

----------------------------------------------------------------------------
(* Deletion: to the key.                                                   *)

LEMMA FindingNow ==
    ASSUME IInv, NEW t \in Threads, pc[t] \in Finding
    PROVE  /\ FindingOK(pc[t], reg[t], call[t], node, used)
           /\ Curr(t) \in Used /\ NodeOK(node, used, Curr(t))
           /\ node[Curr(t)].level = reg[t].level /\ reg[t].level \in Nat
           /\ pc[t] # "idle" /\ Reads(t) = {} /\ Raw(t) = {}
           /\ Locks(t) = {reg[t].prev, Curr(t)} \ {NoNode}
           /\ pc[t] = "delete" => Draining(t) = {}
<1>1. FindingOK(pc[t], reg[t], call[t], node, used)
  BY RegsNow DEF RegsOK
<1>2. Curr(t) \in Used /\ node[Curr(t)].level = reg[t].level
  BY <1>1 DEF FindingOK, At, Curr, Used
<1>3. NodeOK(node, used, Curr(t))
  BY <1>2 DEF IInv, ShapeInv
<1>4. Raw(t) = {}
  BY <1>1 DEF FindingOK, Raw, RawOf
<1>5. Locks(t) = {reg[t].prev, Curr(t)} \ {NoNode} /\ Reads(t) = {}
      /\ (pc[t] = "delete" => Draining(t) = {})
  BY DEF Locks, LocksOf, Reads, ReadsOf, Draining, DrainOf, Curr
<1> QED  BY <1>1, <1>2, <1>3, <1>4, <1>5 DEF NodeOK

\* A left neighbour that is locked is left of the key's node.
LEMMA NotFoundNoPrev ==
    ASSUME IInv, NEW t \in Threads, pc[t] = "delete", ~ FoundHere(t)
    PROVE  reg[t].prev = NoNode /\ Locks(t) = {Curr(t)}
<1>1. pc[t] \in Finding
  OBVIOUS
<1>2. reg[t].prev = NoNode
  BY <1>1, FindingNow, FoundIs DEF FindingOK, FoundHere, Key, Curr
<1> QED  BY <1>1, <1>2, FindingNow, LocksNow

LEMMA FindRightKeeps ==
    ASSUME IInv, NEW t \in Threads, FindRight(t) PROVE Kept(t)
<1> DEFINE n == node[Curr(t)].next
           r == [reg[t] EXCEPT !.prev = Curr(t), !.curr = n]
<1>1. pc[t] = "delete" /\ pc[t] \in Finding /\ UNCHANGED <<used, callVars>> /\ ~ FoundHere(t)
      /\ WriteLock(t, n) /\ Unlocked(n) /\ Moved(t, "find_locked", r)
  BY MovedLocals DEF FindRight, WriteLock, IInv
<1>2. FindingOK("delete", reg[t], call[t], node, used) /\ Curr(t) \in Used
      /\ pc[t] # "idle" /\ Reads(t) = {} /\ NodeOK(node, used, Curr(t)) /\ Raw(t) = {}
      /\ node[Curr(t)].level = reg[t].level /\ Draining(t) = {}
  BY <1>1, FindingNow
<1>3. At(node, used, n, reg[t].level) /\ n \in Used
  BY <1>1, <1>2 DEF NodeOK, Unlocked, At, Used
<1>4. DOMAIN r = RegFields /\ r.curr = n /\ r.prev = Curr(t) /\ r.level = reg[t].level
      /\ r.spare = reg[t].spare
  BY RegsNow DEF RegFields
<1> HIDE DEF r, n
<1>5. n \notin Locks(t) /\ Locks(t) = {Curr(t)}
  BY <1>1, <1>3, NewLock, NotFoundNoPrev
<1>6. FindingOK("find_locked", r, call[t], node, used)
  BY <1>2, <1>3, <1>4, <1>5, LocksNow DEF FindingOK, At, Used
<1>7. RegsOK("find_locked", r, call[t], node, used)
  BY <1>6 DEF RegsOK
<1>8. LocksOf("find_locked", r) = Locks(t) \cup {n}
  BY <1>2, <1>3, <1>4, <1>5, LocksNow DEF LocksOf
<1>9. DrainOf("find_locked", r) = {n} /\ ReadsOf("find_locked", r) = {}
  BY <1>4 DEF DrainOf, ReadsOf
<1>10. Raw(t) \subseteq RawOf(r) /\ "find_locked" \in Labels \ {"idle"}
       /\ \A m \in Draining(t) : node[m].readers = 0
  BY <1>2
<1> QED  BY <1>1, <1>2, <1>3, <1>4, <1>7, <1>8, <1>9, <1>10, LockStep

LEMMA FindLockedKeeps ==
    ASSUME IInv, NEW t \in Threads, FindLocked(t) PROVE Kept(t)
<1>1. pc[t] = "find_locked" /\ pc[t] \in Finding /\ UNCHANGED <<used, callVars>>
      /\ node[Curr(t)].readers = 0 /\ Goto(t, "delete")
  BY DEF FindLocked, Drained
<1>2. FindingOK("find_locked", reg[t], call[t], node, used) /\ Curr(t) \in Used
      /\ pc[t] # "idle" /\ Reads(t) = {} /\ Raw(t) = {}
      /\ Locks(t) = {reg[t].prev, Curr(t)} \ {NoNode}
  BY <1>1, FindingNow
<1>3. Draining(t) = {Curr(t)} /\ \A m \in Draining(t) : node[m].readers = 0
  BY <1>1 DEF Draining, DrainOf, Curr
<1>4. reg[t].prev \in Used /\ reg[t].prev # Curr(t)
  BY <1>2 DEF FindingOK, At, Curr, Used
<1>5. CASE FoundHere(t) /\ UNCHANGED <<node, reg>>
  <2>1. Relocked(t, {}, {}) /\ Moved(t, "delete", reg[t])
    BY <1>1, <1>5, RelockedNone, MovedSame DEF IInv
  <2>2. LocksOf("delete", reg[t]) = Locks(t) \ {} /\ ReadsOf("delete", reg[t]) = {}
    BY <1>2 DEF LocksOf, ReadsOf, Curr
  <2>3. FoundIn(node[Curr(t)].slots, Key(t))
    BY <1>5, FoundIs DEF FoundHere
  <2>4. FindingOK("delete", reg[t], call[t], node, used)
    BY <1>2, <2>3 DEF FindingOK, Key, Curr
  <2>5. RegsOK("delete", reg[t], call[t], node, used)
    BY <2>4 DEF RegsOK
  <2>6. Raw(t) \subseteq RawOf(reg[t]) /\ "delete" \in Labels \ {"idle"}
    BY DEF Raw
  <2> QED  BY <1>1, <1>2, <1>3, <2>1, <2>2, <2>5, <2>6, RegsNow, UnlockStep
<1>6. CASE /\ node' = WriteUnlocked(node, {reg[t].prev})
           /\ Locals(t, [reg[t] EXCEPT !.prev = NoNode])
  <2> DEFINE r == [reg[t] EXCEPT !.prev = NoNode]
  <2>1. Relocked(t, {}, {reg[t].prev}) /\ Moved(t, "delete", r)
    BY <1>1, <1>6, RelockedDel, MovedLocals DEF IInv
  <2>2. DOMAIN r = RegFields /\ r.curr = Curr(t) /\ r.prev = NoNode /\ r.level = reg[t].level
        /\ r.spare = reg[t].spare
    BY RegsNow DEF RegFields, Curr
  <2> HIDE DEF r
  <2>3. LocksOf("delete", r) = Locks(t) \ {reg[t].prev} /\ ReadsOf("delete", r) = {}
    BY <1>2, <1>4, <2>2, LocksNow DEF LocksOf, ReadsOf
  <2>4. FindingOK("delete", r, call[t], node, used)
    BY <1>2, <2>2 DEF FindingOK, Curr
  <2>5. RegsOK("delete", r, call[t], node, used)
    BY <2>4 DEF RegsOK
  <2>6. Raw(t) \subseteq RawOf(r) /\ "delete" \in Labels \ {"idle"}
        /\ {reg[t].prev} \cap Used \subseteq Locks(t)
    BY <1>2, LocksNow
  <2> QED  BY <1>1, <1>2, <1>3, <2>1, <2>2, <2>3, <2>5, <2>6, UnlockStep
<1> QED  BY <1>5, <1>6 DEF FindLocked

LEMMA DeleteAbsentKeeps ==
    ASSUME IInv, NEW t \in Threads, DeleteAbsent(t) PROVE Kept(t)
<1>1. pc[t] = "delete" /\ pc[t] \in Finding /\ ~ FoundHere(t) /\ UNCHANGED used /\ Return(t)
  BY DEF DeleteAbsent, Done
<1>2. Relocked(t, {}, {Curr(t)})
  BY RelockedDel DEF DeleteAbsent, IInv
<1>3. Reads(t) = {} /\ Raw(t) = {} /\ Locks(t) = {Curr(t)} \cap Used
  BY <1>1, FindingNow, NotFoundNoPrev
<1> QED  BY <1>1, <1>2, <1>3, PassiveReturn

LEMMA DeleteFirstKeeps ==
    ASSUME IInv, NEW t \in Threads, DeleteFirst(t) PROVE Kept(t)
<1> DEFINE r == [reg[t] EXCEPT !.left = reg[t].prev, !.prev = NoNode]
<1>1. pc[t] = "delete" /\ pc[t] \in Finding /\ UNCHANGED <<used, callVars>>
      /\ reg[t].prev # NoNode /\ Relocked(t, {}, {}) /\ Moved(t, "unlink", r)
  BY RelockedNone, MovedLocals DEF DeleteFirst, IInv
<1>2. FindingOK("delete", reg[t], call[t], node, used) /\ Curr(t) \in Used
      /\ pc[t] # "idle" /\ Reads(t) = {} /\ Raw(t) = {} /\ Draining(t) = {}
      /\ Locks(t) = {reg[t].prev, Curr(t)} \ {NoNode} /\ node[Curr(t)].level = reg[t].level
  BY <1>1, FindingNow
<1>3. DOMAIN r = RegFields /\ r.curr = Curr(t) /\ r.left = reg[t].prev /\ r.spare = reg[t].spare
  BY RegsNow DEF RegFields, Curr
<1> HIDE DEF r
<1>4. LocksOf("unlink", r) = Locks(t) \ {} /\ ReadsOf("unlink", r) = {}
  BY <1>2, <1>3 DEF LocksOf, ReadsOf
<1>5. UnlinkingOK("unlink", r, node, used)
  BY <1>1, <1>2, <1>3 DEF FindingOK, UnlinkingOK, Curr, At
<1>6. RegsOK("unlink", r, call[t], node, used)
  BY <1>5 DEF RegsOK
<1>7. Raw(t) \subseteq RawOf(r) /\ "unlink" \in Labels \ {"idle"} /\ {} \cap Used \subseteq Locks(t)
      /\ \A m \in Draining(t) : node[m].readers = 0
  BY <1>2
<1> QED  BY <1>1, <1>2, <1>3, <1>4, <1>6, <1>7, UnlockStep

----------------------------------------------------------------------------
(* Deletion: from lock to lock, down to the leaf.                          *)

LEMMA UnlinkingNow ==
    ASSUME IInv, NEW t \in Threads, pc[t] \in Unlinking
    PROVE  /\ UnlinkingOK(pc[t], reg[t], node, used)
           /\ Curr(t) \in Used /\ reg[t].left \in Used
           /\ NodeOK(node, used, Curr(t)) /\ NodeOK(node, used, reg[t].left)
           /\ node[reg[t].left].level = node[Curr(t)].level
           /\ pc[t] # "idle" /\ Reads(t) = {} /\ Raw(t) = {}
           /\ Locks(t) = LocksOf(pc[t], reg[t]) /\ Draining(t) = DrainOf(pc[t], reg[t])
<1>1. UnlinkingOK(pc[t], reg[t], node, used)
  BY RegsNow DEF RegsOK
<1>2. Curr(t) \in Used /\ reg[t].left \in Used /\ node[reg[t].left].level = node[Curr(t)].level
  BY <1>1 DEF UnlinkingOK, At, Curr, Used
<1>3. NodeOK(node, used, Curr(t)) /\ NodeOK(node, used, reg[t].left)
  BY <1>2 DEF IInv, ShapeInv
<1>4. Raw(t) = {}
  BY <1>1 DEF UnlinkingOK, Raw, RawOf
<1>5. Reads(t) = {} /\ pc[t] # "idle"
  BY DEF Reads, ReadsOf
<1> QED  BY <1>1, <1>2, <1>3, <1>4, <1>5 DEF Locks, Draining

LEMMA LockLeftKeeps ==
    ASSUME IInv, NEW t \in Threads, LockLeft(t) PROVE Kept(t)
<1>1. pc[t] = "lock_left" /\ pc[t] \in Unlinking /\ UNCHANGED <<used, callVars>>
      /\ WriteLock(t, reg[t].left) /\ Moved(t, "left_locked", reg[t])
  BY MovedSame DEF LockLeft, IInv
<1>2. UnlinkingOK("lock_left", reg[t], node, used) /\ reg[t].left \in Used
      /\ pc[t] # "idle" /\ Reads(t) = {} /\ Raw(t) = {}
      /\ Locks(t) = reg[t].hold \ {NoNode} /\ Draining(t) = {}
  BY <1>1, UnlinkingNow DEF LocksOf, DrainOf
<1>3. reg[t].left \notin Locks(t) /\ reg[t].left # NoNode
  BY <1>1, <1>2, NewLock, LocksNow DEF WriteLock
<1>4. UnlinkingOK("left_locked", reg[t], node, used)
  BY <1>2, <1>3 DEF UnlinkingOK
<1>5. RegsOK("left_locked", reg[t], call[t], node, used)
  BY <1>4 DEF RegsOK
<1>6. LocksOf("left_locked", reg[t]) = Locks(t) \cup {reg[t].left}
      /\ DrainOf("left_locked", reg[t]) = {reg[t].left} /\ ReadsOf("left_locked", reg[t]) = {}
  BY <1>2, <1>3 DEF LocksOf, DrainOf, ReadsOf
<1>7. Raw(t) \subseteq RawOf(reg[t]) /\ "left_locked" \in Labels \ {"idle"}
      /\ \A m \in Draining(t) : node[m].readers = 0
  BY <1>2
<1> QED  BY <1>1, <1>2, <1>5, <1>6, <1>7, RegsNow, LockStep

LEMMA LockCurrentKeeps ==
    ASSUME IInv, NEW t \in Threads, LockCurrent(t) PROVE Kept(t)
<1>1. pc[t] = "left_locked" /\ pc[t] \in Unlinking /\ UNCHANGED <<used, callVars>>
      /\ WriteLockEvicting(t, Curr(t)) /\ Moved(t, "current_locked", reg[t])
      /\ node[reg[t].left].readers = 0
  BY MovedSame DEF LockCurrent, IInv, Drained
<1>2. UnlinkingOK("left_locked", reg[t], node, used) /\ reg[t].left \in Used /\ Curr(t) \in Used
      /\ pc[t] # "idle" /\ Reads(t) = {} /\ Raw(t) = {}
      /\ Locks(t) = (reg[t].hold \cup {reg[t].left}) \ {NoNode} /\ Draining(t) = {reg[t].left}
  BY <1>1, UnlinkingNow DEF LocksOf, DrainOf
<1>3. Curr(t) \notin Locks(t) /\ Curr(t) # NoNode
  BY <1>1, <1>2, NewLock, LocksNow DEF WriteLockEvicting
<1>4. UnlinkingOK("current_locked", reg[t], node, used)
  BY <1>2, <1>3, LocksNow DEF UnlinkingOK, Curr
<1>5. RegsOK("current_locked", reg[t], call[t], node, used)
  BY <1>4 DEF RegsOK
<1>6. LocksOf("current_locked", reg[t]) = Locks(t) \cup {Curr(t)}
      /\ DrainOf("current_locked", reg[t]) = {Curr(t)} /\ ReadsOf("current_locked", reg[t]) = {}
  BY <1>2, <1>3 DEF LocksOf, DrainOf, ReadsOf, Curr
<1>7. Raw(t) \subseteq RawOf(reg[t]) /\ "current_locked" \in Labels \ {"idle"}
      /\ \A m \in Draining(t) : node[m].readers = 0
  BY <1>1, <1>2
<1> QED  BY <1>1, <1>2, <1>5, <1>6, <1>7, RegsNow, LockStep

LEMMA CurrentLockedKeeps ==
    ASSUME IInv, NEW t \in Threads, CurrentLocked(t) PROVE Kept(t)
<1> DEFINE r == [reg[t] EXCEPT !.hold = {}]
<1>1. pc[t] = "current_locked" /\ pc[t] \in Unlinking /\ UNCHANGED <<used, callVars>>
      /\ node[Curr(t)].readers = 0 /\ Relocked(t, {}, reg[t].hold) /\ Moved(t, "unlink", r)
  BY RelockedDel, MovedLocals DEF CurrentLocked, IInv, Drained
<1>2. UnlinkingOK("current_locked", reg[t], node, used) /\ reg[t].left \in Used /\ Curr(t) \in Used
      /\ pc[t] # "idle" /\ Reads(t) = {} /\ Raw(t) = {}
      /\ Locks(t) = (reg[t].hold \cup {reg[t].left, Curr(t)}) \ {NoNode}
      /\ Draining(t) = {Curr(t)}
  BY <1>1, UnlinkingNow DEF LocksOf, DrainOf, Curr
<1>3. DOMAIN r = RegFields /\ r.curr = Curr(t) /\ r.left = reg[t].left /\ r.spare = reg[t].spare
  BY RegsNow DEF RegFields, Curr
<1> HIDE DEF r
<1>4. UnlinkingOK("unlink", r, node, used)
  BY <1>2, <1>3 DEF UnlinkingOK, Curr
<1>5. RegsOK("unlink", r, call[t], node, used)
  BY <1>4 DEF RegsOK
<1>6. reg[t].left \notin reg[t].hold /\ Curr(t) \notin reg[t].hold
  BY <1>2 DEF UnlinkingOK, Curr
<1>7. LocksOf("unlink", r) = Locks(t) \ reg[t].hold /\ ReadsOf("unlink", r) = {}
  BY <1>2, <1>3, <1>6, LocksNow DEF LocksOf, ReadsOf
<1>8. Raw(t) \subseteq RawOf(r) /\ "unlink" \in Labels \ {"idle"}
      /\ reg[t].hold \cap Used \subseteq Locks(t) /\ \A m \in Draining(t) : node[m].readers = 0
  BY <1>1, <1>2, LocksNow
<1> QED  BY <1>1, <1>2, <1>3, <1>5, <1>7, <1>8, UnlockStep

LEMMA LockLeftNextKeeps ==
    ASSUME IInv, NEW t \in Threads, LockLeftNext(t) PROVE Kept(t)
<1> DEFINE n == node[reg[t].left].next
           r == [reg[t] EXCEPT !.prev = reg[t].left, !.left = n]
<1>1. pc[t] = "unlink" /\ pc[t] \in Unlinking /\ UNCHANGED <<used, callVars>>
      /\ WriteLock(t, n) /\ Unlocked(n) /\ Moved(t, "left_moved", r)
  BY MovedLocals DEF LockLeftNext, WriteLock, IInv
<1>2. UnlinkingOK("unlink", reg[t], node, used) /\ reg[t].left \in Used /\ Curr(t) \in Used
      /\ pc[t] # "idle" /\ Reads(t) = {} /\ Raw(t) = {} /\ NodeOK(node, used, reg[t].left)
      /\ node[reg[t].left].level = node[Curr(t)].level
      /\ Locks(t) = {reg[t].left, Curr(t)} \ {NoNode} /\ Draining(t) = {}
  BY <1>1, UnlinkingNow DEF LocksOf, DrainOf, Curr
<1>3. At(node, used, n, node[Curr(t)].level) /\ n \in Used
  BY <1>1, <1>2 DEF NodeOK, Unlocked, At, Used
<1>4. DOMAIN r = RegFields /\ r.curr = Curr(t) /\ r.left = n /\ r.prev = reg[t].left
      /\ r.spare = reg[t].spare
  BY RegsNow DEF RegFields, Curr
<1> HIDE DEF r, n
<1>5. n \notin Locks(t) /\ n # NoNode /\ Curr(t) # NoNode /\ reg[t].left # NoNode
  BY <1>1, <1>2, <1>3, NewLock, LocksNow
<1>6. UnlinkingOK("left_moved", r, node, used)
  BY <1>2, <1>3, <1>4, <1>5 DEF UnlinkingOK, Curr, Used
<1>7. RegsOK("left_moved", r, call[t], node, used)
  BY <1>6 DEF RegsOK
<1>8. LocksOf("left_moved", r) = Locks(t) \cup {n}
      /\ DrainOf("left_moved", r) = {n} /\ ReadsOf("left_moved", r) = {}
  BY <1>2, <1>4, <1>5 DEF LocksOf, DrainOf, ReadsOf
<1>9. Raw(t) \subseteq RawOf(r) /\ "left_moved" \in Labels \ {"idle"}
      /\ \A m \in Draining(t) : node[m].readers = 0
  BY <1>2
<1> QED  BY <1>1, <1>2, <1>3, <1>4, <1>7, <1>8, <1>9, LockStep

LEMMA LeftMovedKeeps ==
    ASSUME IInv, NEW t \in Threads, LeftMoved(t) PROVE Kept(t)
<1> DEFINE r == [reg[t] EXCEPT !.prev = NoNode]
<1>1. pc[t] = "left_moved" /\ pc[t] \in Unlinking /\ UNCHANGED <<used, callVars>>
      /\ node[reg[t].left].readers = 0 /\ Relocked(t, {}, {reg[t].prev}) /\ Moved(t, "unlink", r)
  BY RelockedDel, MovedLocals DEF LeftMoved, IInv, Drained
<1>2. UnlinkingOK("left_moved", reg[t], node, used) /\ reg[t].left \in Used /\ Curr(t) \in Used
      /\ pc[t] # "idle" /\ Reads(t) = {} /\ Raw(t) = {}
      /\ Locks(t) = {reg[t].prev, reg[t].left, Curr(t)} \ {NoNode}
      /\ Draining(t) = {reg[t].left}
  BY <1>1, UnlinkingNow DEF LocksOf, DrainOf, Curr
<1>3. DOMAIN r = RegFields /\ r.curr = Curr(t) /\ r.left = reg[t].left /\ r.spare = reg[t].spare
  BY RegsNow DEF RegFields, Curr
<1> HIDE DEF r
<1>4. UnlinkingOK("unlink", r, node, used)
  BY <1>2, <1>3 DEF UnlinkingOK, Curr
<1>5. RegsOK("unlink", r, call[t], node, used)
  BY <1>4 DEF RegsOK
<1>6. reg[t].prev \notin {reg[t].left, Curr(t)} /\ reg[t].prev \in Used
  BY <1>2 DEF UnlinkingOK, Curr, Used
<1>7. LocksOf("unlink", r) = Locks(t) \ {reg[t].prev} /\ ReadsOf("unlink", r) = {}
  BY <1>2, <1>3, <1>6 DEF LocksOf, ReadsOf
<1>8. Raw(t) \subseteq RawOf(r) /\ "unlink" \in Labels \ {"idle"}
      /\ {reg[t].prev} \cap Used \subseteq Locks(t) /\ \A m \in Draining(t) : node[m].readers = 0
  BY <1>1, <1>2, <1>6, LocksNow
<1> QED  BY <1>1, <1>2, <1>3, <1>5, <1>7, <1>8, UnlockStep

----------------------------------------------------------------------------
(* Scans: steps that change who reads a node.                              *)

\* A scan that read the nodes of old reads those of new.
Reread(old, new) ==
    /\ DOMAIN node' = Nodes
    /\ \A n \in Nodes :
          /\ DOMAIN node'[n] = NodeFields
          /\ SameContents(n)
          /\ node'[n].writer = node[n].writer
          /\ node'[n].readers = IF n \in new \ old THEN node[n].readers + 1
                                ELSE IF n \in old \ new THEN node[n].readers - 1
                                ELSE node[n].readers

LEMMA ReadersNat == ASSUME IInv, NEW n \in Used PROVE node[n].readers \in Nat
BY ReadersFinite DEF IInv, ReaderInv

LEMMA UsedNodes == ASSUME TypeOK PROVE Used \subseteq Nodes
BY SizeAssumption DEF TypeOK, Used, Nodes

LEMMA RereadSame ==
    ASSUME TypeOK, NEW S, UNCHANGED node PROVE Reread(S, S)
BY DEF TypeOK, Reread, SameContents

LEMMA RereadEnter ==
    ASSUME IInv, NEW n \in Used, node' = Readers(node, n, 1) PROVE Reread({}, {n})
<1>1. n \in Nodes /\ TypeOK
  BY UsedNodes DEF IInv
<1> QED  BY <1>1 DEF TypeOK, Reread, SameContents, Readers, NodeFields

LEMMA RereadLeave ==
    ASSUME IInv, NEW n \in Used, node' = Readers(node, n, -1) PROVE Reread({n}, {})
<1>1. n \in Nodes /\ TypeOK /\ node[n].readers + (-1) = node[n].readers - 1
  BY UsedNodes, ReadersNat DEF IInv
<1> QED  BY <1>1 DEF TypeOK, Reread, SameContents, Readers, NodeFields

LEMMA RereadMove ==
    ASSUME IInv, NEW n \in Used, NEW m \in Used,
           node' = Readers(Readers(node, n, 1), m, -1)
    PROVE  Reread({m}, {n})
<1>1. n \in Nodes /\ m \in Nodes /\ TypeOK
  BY UsedNodes DEF IInv
<1>2. node[m].readers + (-1) = node[m].readers - 1
      /\ (node[m].readers + 1) + (-1) = node[m].readers
  BY ReadersNat
<1> DEFINE nd == Readers(node, n, 1)
<1>3. /\ DOMAIN nd = Nodes
      /\ \A x \in Nodes :
            /\ DOMAIN nd[x] = NodeFields
            /\ nd[x].level = node[x].level /\ nd[x].slots = node[x].slots
            /\ nd[x].next = node[x].next /\ nd[x].next_header = node[x].next_header
            /\ nd[x].writer = node[x].writer
            /\ nd[x].readers = IF x = n THEN node[x].readers + 1 ELSE node[x].readers
  BY <1>1 DEF TypeOK, Readers, NodeFields
<1> HIDE DEF nd
<1>4. /\ DOMAIN node' = Nodes
      /\ \A x \in Nodes :
            /\ DOMAIN node'[x] = NodeFields
            /\ node'[x].level = nd[x].level /\ node'[x].slots = nd[x].slots
            /\ node'[x].next = nd[x].next /\ node'[x].next_header = nd[x].next_header
            /\ node'[x].writer = nd[x].writer
            /\ node'[x].readers = IF x = m THEN nd[x].readers + (-1) ELSE nd[x].readers
  <2>1. node' = Readers(nd, m, -1)
    BY DEF nd
  <2> QED  BY <1>1, <1>3, <2>1 DEF Readers, NodeFields
<1> QED  BY <1>2, <1>3, <1>4 DEF Reread, SameContents

LEMMA ReadStep ==
    ASSUME IInv, NEW t \in Threads, NEW p \in Labels, NEW r,
           TypeOK', OnlyBy(t), Moved(t, p, r), UNCHANGED used,
           Reread(Reads(t), ReadsOf(p, r)),
           ReadsOf(p, r) \subseteq Used,
           \A n \in ReadsOf(p, r) \ Reads(t) : node[n].writer = NoThread,
           Locks(t) = {}, LocksOf(p, r) = {}, Raw(t) = {},
           RegsOK(p, r, call'[t], node, used)
    PROVE  Kept(t)
<1>1. pc'[t] = p /\ reg'[t] = r /\ used \in Nat /\ Used \subseteq Nodes
  BY UsedNodes DEF Moved, IInv, TypeOK
<1>2. Reads(t)' = ReadsOf(p, r) /\ Locks(t)' = {}
  BY <1>1 DEF Reads, Locks
<1>3. ASSUME NEW n \in Used
      PROVE  /\ SameContents(n) /\ node'[n].writer = node[n].writer
             /\ node[n].readers = 0 /\ node[n].writer # NoThread => node'[n].readers = 0
  <2>1. n \in Reads(t) => node[n].readers > 0
    BY Counted
  <2> QED  BY <1>1, <2>1 DEF Reread
<1>4. ReaderStep(t)
  BY <1>1, <1>2 DEF ReaderStep, Reread
<1>5. Frame(t)
  BY <1>1, <1>3 DEF Frame, SameContents, IInv, TypeOK
<1>6. ShapeInv'
  BY <1>3, ShapeKept
<1>7. Registers(t)'
  <2>1. \A n \in 1..used : node'[n].level = node[n].level
    BY <1>3 DEF SameContents, Used
  <2>2. RegsOK(p, r, call'[t], node', used)
    BY <1>1, <2>1, RegsKept, NothingAssumption
  <2> QED  BY <1>1, <2>2 DEF Registers
<1>8. Owns(t)' /\ Drains(t)'
  BY <1>1, <1>2, <1>3, LocksNow DEF Owns, Drains, Used
<1> QED  BY <1>4, <1>5, <1>6, <1>7, <1>8, StepKeeps DEF Own

LEMMA ReadGoesOn ==
    ASSUME IInv, NEW t \in Threads, NEW p \in Labels \ {"idle"}, NEW r,
           DOMAIN r = RegFields, pc[t] \in Early, Moved(t, p, r), UNCHANGED <<used, callVars>>,
           Reread(Reads(t), ReadsOf(p, r)),
           ReadsOf(p, r) \subseteq Used,
           \A n \in ReadsOf(p, r) \ Reads(t) : node[n].writer = NoThread,
           Locks(t) = {}, LocksOf(p, r) = {},
           p \in Early, EarlyOK(p, r, call[t], node, used)
    PROVE  Kept(t)
<1>1. used' \in Nat /\ used <= used' /\ used' <= NodeCnt
  BY DEF IInv, TypeOK
<1>2. DOMAIN node' = Nodes /\ \A n \in Nodes : DOMAIN node'[n] = NodeFields
  BY DEF Reread
<1>3. UNCHANGED callVars /\ pc[t] # "idle" /\ UNCHANGED used
  OBVIOUS
<1>4. TypeOK' /\ OnlyBy(t) /\ call'[t] = call[t]
  BY <1>1, <1>2, <1>3, GoesOn DEF IInv
<1>5. Raw(t) = {}
  BY EarlyNow DEF EarlyOK, Raw, RawOf
<1>6. RegsOK(p, r, call'[t], node, used)
  BY <1>4 DEF RegsOK
<1> QED  BY <1>3, <1>4, <1>5, <1>6, ReadStep

\* A scan goes back to the top.
LEMMA ReadRetry ==
    ASSUME IInv, NEW t \in Threads, pc[t] \in {"read_locked", "scan_next"},
           Retry(t), UNCHANGED <<used, callVars>>, Reread(Reads(t), {})
    PROVE  Kept(t)
<1> DEFINE r == AtTop(reg[t].start, reg[t].out)
<1>1. Moved(t, "walk", r) /\ DOMAIN r = RegFields /\ EarlyOK("walk", r, call[t], node, used)
  BY MovedLocals, TopOK DEF Retry, IInv
<1> HIDE DEF r
<1>2. ReadsOf("walk", r) = {} /\ LocksOf("walk", r) = {} /\ Locks(t) = {}
  BY DEF ReadsOf, LocksOf, Locks
<1>3. pc[t] \in Early /\ "walk" \in Labels \ {"idle"} /\ "walk" \in Early
  OBVIOUS
<1> QED  BY <1>1, <1>2, <1>3, ReadGoesOn

LEMMA ReadLockKeeps ==
    ASSUME IInv, NEW t \in Threads, ReadLock(t) PROVE Kept(t)
<1>1. pc[t] = "read_lock" /\ pc[t] \in Early /\ UNCHANGED <<used, callVars>>
      /\ Unlocked(reg[t].next) /\ Moved(t, "read_locked", reg[t])
  BY MovedSame DEF ReadLock, IInv
<1>2. EarlyOK("read_lock", reg[t], call[t], node, used)
  BY <1>1, EarlyNow
<1>3. reg[t].next \in Used
  BY <1>2 DEF EarlyOK, At, Used
<1>4. Reread({}, {reg[t].next})
  BY <1>3, RereadEnter DEF ReadLock
<1>5. Reads(t) = {} /\ Locks(t) = {} /\ LocksOf("read_locked", reg[t]) = {}
      /\ ReadsOf("read_locked", reg[t]) = {reg[t].next}
  BY <1>1 DEF Reads, ReadsOf, Locks, LocksOf
<1>6. EarlyOK("read_locked", reg[t], call[t], node, used)
  BY <1>2 DEF EarlyOK
<1>7. node[reg[t].next].writer = NoThread /\ "read_locked" \in Labels \ {"idle"}
      /\ "read_locked" \in Early
  BY <1>1 DEF Unlocked
<1> QED  BY <1>1, <1>3, <1>4, <1>5, <1>6, <1>7, RegsNow, ReadGoesOn

LEMMA ReadLockedKeeps ==
    ASSUME IInv, NEW t \in Threads, ReadLocked(t) PROVE Kept(t)
<1>1. pc[t] = "read_locked" /\ pc[t] \in Early /\ UNCHANGED <<used, callVars>>
  BY DEF ReadLocked
<1>2. EarlyOK("read_locked", reg[t], call[t], node, used) /\ reg[t].level = 1
  BY <1>1, EarlyNow DEF EarlyOK
<1>3. reg[t].next \in Used /\ At(node, used, reg[t].next, 0)
  BY <1>2 DEF EarlyOK, At, Used
<1>4. Reads(t) = {reg[t].next} /\ Locks(t) = {}
  BY <1>1 DEF Reads, ReadsOf, Locks, LocksOf
<1>5. CASE Retry(t) /\ node' = Readers(node, reg[t].next, -1)
  <2>1. Reread({reg[t].next}, {})
    BY <1>3, <1>5, RereadLeave
  <2> QED  BY <1>1, <1>4, <1>5, <2>1, ReadRetry
<1>6. CASE /\ Locals(t, [reg[t] EXCEPT !.curr = reg[t].next, !.next = NoNode, !.level = 0])
           /\ Goto(t, "scan_right")
           /\ UNCHANGED node
  <2> DEFINE r == [reg[t] EXCEPT !.curr = reg[t].next, !.next = NoNode, !.level = 0]
  <2>1. Moved(t, "scan_right", r) /\ Reread({reg[t].next}, {reg[t].next})
    BY <1>6, MovedLocals, RereadSame DEF IInv
  <2>2. DOMAIN r = RegFields /\ r.curr = reg[t].next /\ r.level = 0 /\ r.prev = NoNode
        /\ r.spare = << >>
    BY <1>2, RegsNow DEF EarlyOK, RegFields
  <2> HIDE DEF r
  <2>3. EarlyOK("scan_right", r, call[t], node, used)
    BY <1>3, <2>2 DEF EarlyOK
  <2>4. ReadsOf("scan_right", r) = {reg[t].next} /\ LocksOf("scan_right", r) = {}
    BY <2>2 DEF ReadsOf, LocksOf
  <2>5. "scan_right" \in Labels \ {"idle"} /\ "scan_right" \in Early
    OBVIOUS
  <2> QED  BY <1>1, <1>3, <1>4, <2>1, <2>2, <2>3, <2>4, <2>5, ReadGoesOn
<1> QED  BY <1>5, <1>6 DEF ReadLocked

Scanning == {"scan_right", "scan_batch", "scan_next"}

LEMMA ScanningNow ==
    ASSUME IInv, NEW t \in Threads, pc[t] \in Scanning
    PROVE  /\ pc[t] \in Early /\ EarlyOK(pc[t], reg[t], call[t], node, used)
           /\ Curr(t) \in Used /\ NodeOK(node, used, Curr(t))
           /\ node[Curr(t)].level = reg[t].level
           /\ Reads(t) = {Curr(t)} /\ Locks(t) = {} /\ Raw(t) = {}
<1>1. pc[t] \in Early
  BY DEF Scanning
<1>2. EarlyOK(pc[t], reg[t], call[t], node, used) /\ Curr(t) \in Used
      /\ NodeOK(node, used, Curr(t))
  BY <1>1, EarlyNow
<1> QED  BY <1>1, <1>2 DEF EarlyOK, At, Curr, Reads, ReadsOf, Locks, LocksOf, Raw, RawOf,
                           Scanning

\* A scan goes on to the next leaf.
LEMMA ScanEnters ==
    ASSUME IInv, NEW t \in Threads, pc[t] \in Scanning, NEW p \in Scanning,
           UNCHANGED <<used, callVars>>, Unlocked(node[Curr(t)].next), Goto(t, p),
           node' = Readers(Readers(node, node[Curr(t)].next, 1), Curr(t), -1),
           Locals(t, [reg[t] EXCEPT !.curr = node[Curr(t)].next])
    PROVE  Kept(t)
<1> DEFINE n == node[Curr(t)].next
           r == [reg[t] EXCEPT !.curr = n]
<1>1. Moved(t, p, r)
  BY MovedLocals DEF IInv
<1>2. n \in Used /\ At(node, used, n, reg[t].level) /\ node[n].writer = NoThread
  BY ScanningNow DEF NodeOK, Unlocked, At, Used
<1>3. Reread({Curr(t)}, {n})
  BY <1>2, ScanningNow, RereadMove
<1>4. DOMAIN r = RegFields /\ r.curr = n /\ r.level = reg[t].level /\ r.prev = NoNode
      /\ r.spare = << >>
  BY ScanningNow, RegsNow DEF EarlyOK, RegFields
<1> HIDE DEF r, n
<1>5. EarlyOK(p, r, call[t], node, used)
  BY <1>2, <1>4 DEF EarlyOK, Scanning
<1>6. ReadsOf(p, r) = {n} /\ LocksOf(p, r) = {} /\ p \in Labels \ {"idle"} /\ p \in Early
  BY <1>4 DEF ReadsOf, LocksOf, Scanning
<1> QED  BY <1>1, <1>2, <1>3, <1>4, <1>5, <1>6, ScanningNow, ReadGoesOn

LEMMA ScanRightKeeps ==
    ASSUME IInv, NEW t \in Threads, ScanRight(t) PROVE Kept(t)
<1>1. pc[t] = "scan_right" /\ pc[t] \in Scanning /\ UNCHANGED <<used, callVars>>
      /\ Unlocked(node[Curr(t)].next)
      /\ node' = Readers(Readers(node, node[Curr(t)].next, 1), Curr(t), -1)
      /\ Locals(t, [reg[t] EXCEPT !.curr = node[Curr(t)].next])
  BY DEF ScanRight, Scanning
<1>2. Goto(t, "scan_right")
  BY <1>1 DEF ScanRight, Goto, IInv, TypeOK
<1> QED  BY <1>1, <1>2, ScanEnters

LEMMA ScanNextKeeps ==
    ASSUME IInv, NEW t \in Threads, ScanNext(t) PROVE Kept(t)
<1>1. pc[t] = "scan_next" /\ pc[t] \in Scanning /\ UNCHANGED <<used, callVars>>
      /\ "scan_batch" \in Scanning
  BY DEF ScanNext, Scanning
<1>2. CASE node' = Readers(node, Curr(t), -1) /\ Retry(t)
  <2>1. Reread(Reads(t), {})
    BY <1>1, <1>2, ScanningNow, RereadLeave
  <2> QED  BY <1>1, <1>2, <2>1, ReadRetry
<1>3. CASE /\ Unlocked(node[Curr(t)].next)
           /\ node' = Readers(Readers(node, node[Curr(t)].next, 1), Curr(t), -1)
           /\ Locals(t, [reg[t] EXCEPT !.curr = node[Curr(t)].next])
           /\ Goto(t, "scan_batch")
  BY <1>1, <1>3, ScanEnters
<1> QED  BY <1>2, <1>3 DEF ScanNext

LEMMA ScanBatchKeeps ==
    ASSUME IInv, NEW t \in Threads, ScanBatch(t) PROVE Kept(t)
<1>1. pc[t] \in Scanning /\ UNCHANGED used
  BY DEF ScanBatch, Scanning
<1>2. CASE node' = Readers(node, Curr(t), -1) /\ Return(t)
  <2>1. Reread(Reads(t), {}) /\ Reread({Curr(t)}, {})
    BY <1>1, <1>2, ScanningNow, RereadLeave
  <2>2. DOMAIN node' = Nodes /\ \A n \in Nodes : DOMAIN node'[n] = NodeFields
    BY <2>1 DEF Reread
  <2>3. TypeOK' /\ OnlyBy(t) /\ Moved(t, "idle", NoReg)
    BY <1>1, <1>2, <2>2, Returns DEF IInv
  <2>4. LocksOf("idle", NoReg) = {} /\ ReadsOf("idle", NoReg) = {}
    BY DEF LocksOf, ReadsOf
  <2>5. RegsOK("idle", NoReg, call'[t], node, used)
    BY DEF RegsOK, NoReg
  <2> QED  BY <1>1, <2>1, <2>3, <2>4, <2>5, ScanningNow, ReadStep
<1>3. ASSUME NEW out, NEW start,
             Locals(t, [reg[t] EXCEPT !.out = out, !.start = start]),
             Goto(t, "scan_next"), UNCHANGED <<node, callVars>>
      PROVE  Kept(t)
  <2> DEFINE r == [reg[t] EXCEPT !.out = out, !.start = start]
  <2>1. Moved(t, "scan_next", r) /\ Reread({Curr(t)}, {Curr(t)})
    BY <1>3, MovedLocals, RereadSame DEF IInv
  <2>2. DOMAIN r = RegFields /\ r.curr = Curr(t) /\ r.level = reg[t].level /\ r.prev = NoNode
        /\ r.spare = << >>
    BY <1>1, ScanningNow, RegsNow DEF EarlyOK, RegFields, Curr
  <2> HIDE DEF r
  <2>3. EarlyOK("scan_next", r, call[t], node, used)
    BY <1>1, <2>2, ScanningNow DEF EarlyOK, Curr
  <2>4. ReadsOf("scan_next", r) = {Curr(t)} /\ LocksOf("scan_next", r) = {}
        /\ "scan_next" \in Labels \ {"idle"} /\ "scan_next" \in Early
    BY <2>2 DEF ReadsOf, LocksOf
  <2> QED  BY <1>1, <1>3, <2>1, <2>2, <2>3, <2>4, ScanningNow, ReadGoesOn
<1>4. \/ node' = Readers(node, Curr(t), -1) /\ Return(t)
      \/ \E out, start :
            /\ Locals(t, [reg[t] EXCEPT !.out = out, !.start = start])
            /\ Goto(t, "scan_next") /\ UNCHANGED <<node, callVars>>
  BY Zenon DEF ScanBatch, ScanReturns
<1> QED  BY <1>2, <1>3, <1>4

----------------------------------------------------------------------------
(* Steps that write to nodes.                                              *)

\* node' is nd with the nodes of S unlocked.
Rewrote(nd, S) ==
    /\ DOMAIN node' = Nodes
    /\ \A n \in Nodes :
          /\ DOMAIN node'[n] = NodeFields
          /\ node'[n].level = nd[n].level /\ node'[n].slots = nd[n].slots
          /\ node'[n].next = nd[n].next /\ node'[n].next_header = nd[n].next_header
          /\ node'[n].readers = nd[n].readers
          /\ node'[n].writer = IF n \in S THEN NoThread ELSE nd[n].writer

LEMMA RewroteUnlock ==
    ASSUME NEW nd, NEW S, \A n \in Nodes : DOMAIN nd[n] = NodeFields,
           node' = WriteUnlocked(nd, S)
    PROVE  Rewrote(nd, S)
<1>1. DOMAIN node' = Nodes
  BY DEF WriteUnlocked
<1> QED  BY <1>1, Unlocking DEF Rewrote

LEMMA RewroteSame ==
    ASSUME NEW nd, DOMAIN nd = Nodes, \A n \in Nodes : DOMAIN nd[n] = NodeFields, node' = nd
    PROVE  Rewrote(nd, {})
BY DEF Rewrote

\* nd is node after t has written to nodes it has locked and has allocated
\* nodes up to us.
Edited(t, nd, us) ==
    /\ us \in Nat /\ used <= us /\ us <= NodeCnt
    /\ \A n \in Nodes : DOMAIN nd[n] = NodeFields
    /\ \A n \in Used :
          /\ nd[n].level = node[n].level
          /\ nd[n].writer = node[n].writer /\ nd[n].readers = node[n].readers
    /\ \A n \in Used \ Locks(t) :
          nd[n].slots = node[n].slots /\ nd[n].next = node[n].next
          /\ nd[n].next_header = node[n].next_header
    /\ \A n \in (used + 1)..us : nd[n].writer = t /\ nd[n].readers = 0
    /\ \A n \in 1..us : NodeOK(nd, us, n)

\* Whatever is empty in nd is raw: for t, or for whom it was before.
RawKept(t, nd, us, r) ==
    \A n \in 1..us : nd[n].slots = << >> =>
        n \in RawOf(r) \/ (n \in Used \ Raw(t) /\ node[n].slots = << >>)

LEMMA WriteStep ==
    ASSUME IInv, NEW t \in Threads, NEW p \in Labels, NEW r, NEW nd, NEW S,
           TypeOK', OnlyBy(t), Moved(t, p, r), Rewrote(nd, S), Edited(t, nd, used'),
           Draining(t) = {}, Reads(t) = {}, ReadsOf(p, r) = {},
           S \cap (1..used') \subseteq Locks(t),
           RawKept(t, nd, used', r),
           LocksOf(p, r) = (Locks(t) \cup ((used + 1)..used')) \ S,
           RegsOK(p, r, call'[t], nd, used')
    PROVE  Kept(t)
<1>1. pc'[t] = p /\ reg'[t] = r
  BY DEF Moved, IInv, TypeOK
<1>2. used \in Nat /\ used' \in Nat /\ used <= used' /\ used' <= NodeCnt
      /\ NodeCnt \in Nat /\ 1..used' \subseteq Nodes /\ Used \subseteq 1..used'
  BY SizeAssumption DEF IInv, TypeOK, Used, Nodes, Edited
<1>3. Locks(t)' = LocksOf(p, r) /\ Reads(t)' = {}
  BY <1>1 DEF Locks, Reads
<1>4. ASSUME NEW n \in Used
      PROVE  /\ node'[n].level = node[n].level
             /\ SameContents(n) \/ n \in Locks(t)
             /\ node'[n].readers = node[n].readers
             /\ node'[n].writer = IF n \in S THEN NoThread ELSE node[n].writer
  BY <1>2 DEF Rewrote, Edited, SameContents
<1>5. ASSUME NEW n \in 1..used', n \notin Used
      PROVE  node'[n].writer = t /\ node'[n].readers = 0
  <2>1. n \in (used + 1)..used'
    BY <1>2, <1>5 DEF Used
  <2>2. n \notin S
    BY <1>5, LocksNow
  <2> QED  BY <1>2, <2>1, <2>2 DEF Rewrote, Edited
<1>6. Frame(t)
  <2>1. \A n \in (used + 1)..used' : node'[n].writer = t /\ node'[n].readers = 0
    BY <1>2, <1>5 DEF Used
  <2>2. \A n \in Used : n \in S => node[n].writer = t
    BY <1>2, LocksNow
  <2> QED  BY <1>2, <1>4, <2>1, <2>2 DEF Frame
<1>7. ReaderStep(t)
  BY <1>3, <1>4 DEF ReaderStep
<1>8. ShapeInv'
  <2>1. MAX_LEVEL \in Nat \ {0, 1} /\ Header(MAX_LEVEL - 1) \in Used
    BY SizeAssumption DEF IInv, TypeOK, Header, Used
  <2>2. node'[Header(MAX_LEVEL - 1)].level = MAX_LEVEL - 1
    BY <1>4, <2>1 DEF IInv, ShapeInv
  <2>3. ASSUME NEW n \in 1..used' PROVE NodeOK(node, used, n)'
    <3>1. NodeOK(nd, used', n)
      BY DEF Edited
    <3>2. \A m \in 1..used' : node'[m].level = nd[m].level /\ node'[m].slots = nd[m].slots
                              /\ node'[m].next = nd[m].next
      BY <1>2 DEF Rewrote
    <3>3. SlotsOK(node', used', nd[n].level, nd[n].slots)
      BY <3>1, <3>2 DEF NodeOK, SlotsOK, ValOK
    <3> QED  BY <3>1, <3>2, <3>3 DEF NodeOK
  <2>4. ASSUME NEW n \in 1..used', node'[n].slots = << >> PROVE \E u \in Threads : n \in Raw(u)'
    <3>1. nd[n].slots = << >>
      BY <1>2, <2>4 DEF Rewrote
    <3>2. CASE n \in RawOf(r)
      BY <1>1, <3>2 DEF Raw
    <3>3. CASE n \in Used \ Raw(t) /\ node[n].slots = << >>
      <4>1. PICK u \in Threads : n \in Raw(u)
        BY <3>3 DEF IInv, ShapeInv
      <4>2. u # t /\ Raw(u)' = Raw(u)
        BY <3>3, <4>1 DEF OnlyBy, Raw
      <4> QED  BY <4>1, <4>2
    <3> QED  BY <3>1, <3>2, <3>3 DEF RawKept
  <2> QED  BY <2>2, <2>3, <2>4 DEF ShapeInv, Used
<1>9. LocksOf(p, r) \subseteq 1..used'
  BY <1>2, LocksUsed
<1>10. Registers(t)'
  <2>1. \A n \in 1..used' : node'[n].level = nd[n].level /\ node'[n].slots = nd[n].slots
    BY <1>2 DEF Rewrote
  <2>2. \A n \in LocksOf(p, r) : node'[n].slots = nd[n].slots
    BY <1>9, <2>1
  <2>3. used' <= used'
    BY <1>2
  <2>4. RegsOK(p, r, call'[t], node', used')
    BY <1>2, <2>1, <2>2, <2>3, RegsKept, NothingAssumption
  <2> QED  BY <1>1, <2>4 DEF Registers
<1>11. Owns(t)'
  <2> SUFFICES ASSUME NEW n \in 1..used' PROVE node'[n].writer = t <=> n \in LocksOf(p, r)
    BY <1>3 DEF Owns, Used
  <2>1. CASE n \in Used
    <3>1. n \notin (used + 1)..used'
      BY <1>2, <2>1 DEF Used
    <3>2. node[n].writer = t <=> n \in Locks(t)
      BY <2>1, LocksNow
    <3> QED  BY <1>4, <2>1, <3>1, <3>2, NothingAssumption
  <2>2. CASE n \notin Used
    <3>1. n \in (used + 1)..used' /\ n \notin S
      BY <1>2, <2>2, LocksNow DEF Used
    <3> QED  BY <1>5, <2>2, <3>1
  <2> QED  BY <2>1, <2>2
<1>12. Drains(t)'
  <2> SUFFICES ASSUME NEW n \in LocksOf(p, r) PROVE node'[n].readers = 0
    BY <1>3 DEF Drains
  <2>1. CASE n \in Locks(t)
    BY <1>4, <2>1, LocksNow
  <2>2. CASE n \in (used + 1)..used'
    BY <1>2, <1>5, <2>2 DEF Used
  <2> QED  BY <2>1, <2>2
<1> QED  BY <1>6, <1>7, <1>8, <1>10, <1>11, <1>12, StepKeeps DEF Own

LEMMA WriteGoesOn ==
    ASSUME IInv, NEW t \in Threads, NEW p \in Labels \ {"idle"}, NEW r, NEW nd, NEW S,
           DOMAIN r = RegFields, pc[t] # "idle", UNCHANGED callVars,
           Moved(t, p, r), Rewrote(nd, S), Edited(t, nd, used'),
           Draining(t) = {}, Reads(t) = {}, ReadsOf(p, r) = {},
           S \cap (1..used') \subseteq Locks(t),
           RawKept(t, nd, used', r),
           LocksOf(p, r) = (Locks(t) \cup ((used + 1)..used')) \ S,
           RegsOK(p, r, call[t], nd, used')
    PROVE  Kept(t)
<1>1. used' \in Nat /\ used <= used' /\ used' <= NodeCnt
  BY DEF Edited
<1>2. DOMAIN node' = Nodes /\ \A n \in Nodes : DOMAIN node'[n] = NodeFields
  BY DEF Rewrote
<1>3. TypeOK' /\ OnlyBy(t) /\ call'[t] = call[t]
  BY <1>1, <1>2, GoesOn DEF IInv
<1> QED  BY <1>3, WriteStep

LEMMA WriteReturn ==
    ASSUME IInv, NEW t \in Threads, NEW nd, NEW S, Return(t), UNCHANGED used,
           Rewrote(nd, S), Edited(t, nd, used), Draining(t) = {}, Reads(t) = {},
           S \cap Used = Locks(t),
           \A n \in Used : nd[n].slots = << >> => n \notin Raw(t) /\ node[n].slots = << >>
    PROVE  Kept(t)
<1>1. DOMAIN node' = Nodes /\ \A n \in Nodes : DOMAIN node'[n] = NodeFields
  BY DEF Rewrote
<1>2. TypeOK' /\ OnlyBy(t) /\ Moved(t, "idle", NoReg)
  BY <1>1, Returns DEF IInv
<1>3. LocksOf("idle", NoReg) = {} /\ ReadsOf("idle", NoReg) = {}
  BY DEF LocksOf, ReadsOf
<1>4. RegsOK("idle", NoReg, call'[t], nd, used')
  BY DEF RegsOK, NoReg
<1>5. Edited(t, nd, used') /\ used' = used /\ used \in Nat
  BY DEF Edited, IInv, TypeOK
<1>6. RawKept(t, nd, used', NoReg)
  BY <1>5 DEF RawKept, Used
<1>7. (used + 1)..used' = {} /\ S \cap (1..used') = Locks(t)
  BY <1>5 DEF Used
<1>8. LocksOf("idle", NoReg) = (Locks(t) \cup ((used + 1)..used')) \ S
  BY <1>3, <1>7
<1> QED  BY <1>2, <1>3, <1>4, <1>5, <1>6, <1>7, <1>8, WriteStep

----------------------------------------------------------------------------
(* What is written: parts of what was there, and one new slot.             *)

LEMMA SlotsMoved ==
    ASSUME NEW nd, NEW us \in Nat, NEW nd2, NEW us2 \in Nat, us <= us2, NEW l, NEW s,
           \A n \in 1..us : nd2[n].level = nd[n].level, SlotsOK(nd, us, l, s)
    PROVE  SlotsOK(nd2, us2, l, s)
BY DEF SlotsOK, ValOK

LEMMA NodeMoved ==
    ASSUME NEW nd, NEW us \in Nat, NEW nd2, NEW us2 \in Nat, us <= us2, NEW n \in 1..us,
           \A m \in 1..us : nd2[m].level = nd[m].level,
           nd2[n].slots = nd[n].slots, nd2[n].next = nd[n].next, NodeOK(nd, us, n)
    PROVE  NodeOK(nd2, us2, n)
<1> DEFINE l == nd[n].level
           s == nd[n].slots
<1>1. SlotsOK(nd2, us2, l, s)
  <2>1. SlotsOK(nd, us, l, s)
    BY DEF NodeOK
  <2> HIDE DEF l, s
  <2> QED  BY <2>1, SlotsMoved
<1> QED  BY <1>1 DEF NodeOK

LEMMA SlotsPart ==
    ASSUME NEW nd, NEW us, NEW l, NEW s, SlotsOK(nd, us, l, s),
           NEW i \in Nat, NEW j \in Nat, 1 <= i, i <= j + 1, j <= Len(s)
    PROVE  /\ SlotsOK(nd, us, l, SubSeq(s, i, j))
           /\ Len(SubSeq(s, i, j)) = j + 1 - i
<1>1. s \in Seq(Slots) /\ \A k \in 1..Len(s) : s[k] \in Slots /\ ValOK(nd, us, l, s[k].val)
  BY DEF SlotsOK
<1> DEFINE q == SubSeq(s, i, j)
<1>2. \A k \in i..j : s[k] \in Slots
  BY <1>1
<1>3. q \in Seq(Slots) /\ Len(q) = j + 1 - i /\ \A k \in 1..(j - i + 1) : q[k] = s[i + k - 1]
  BY <1>2, SubSeqProperties
<1>4. \A k \in DOMAIN q : k \in 1..(j - i + 1) /\ i + k - 1 \in 1..Len(s)
  BY <1>1, <1>3
<1> QED  BY <1>1, <1>3, <1>4 DEF SlotsOK

LEMMA SlotsJoin ==
    ASSUME NEW nd, NEW us, NEW l, NEW s1, NEW s2, SlotsOK(nd, us, l, s1), SlotsOK(nd, us, l, s2)
    PROVE  SlotsOK(nd, us, l, s1 \o s2) /\ Len(s1 \o s2) = Len(s1) + Len(s2)
<1>1. s1 \in Seq(Slots) /\ s2 \in Seq(Slots)
      /\ (\A k \in 1..Len(s1) : ValOK(nd, us, l, s1[k].val))
      /\ (\A k \in 1..Len(s2) : ValOK(nd, us, l, s2[k].val))
  BY DEF SlotsOK
<1> DEFINE q == s1 \o s2
<1>2. q \in Seq(Slots) /\ Len(q) = Len(s1) + Len(s2)
      /\ \A i \in 1..(Len(s1) + Len(s2)) : q[i] = IF i <= Len(s1) THEN s1[i] ELSE s2[i - Len(s1)]
  BY <1>1, ConcatProperties
<1> HIDE DEF q
<1>3. ASSUME NEW i \in DOMAIN q PROVE ValOK(nd, us, l, q[i].val)
  <2>1. i \in 1..(Len(s1) + Len(s2)) /\ Len(s1) \in Nat /\ Len(s2) \in Nat
    BY <1>1, <1>2
  <2>2. CASE i <= Len(s1)
    <3>1. i \in 1..Len(s1) /\ q[i] = s1[i]
      BY <1>2, <2>1, <2>2
    <3> QED  BY <1>1, <3>1
  <2>3. CASE ~ (i <= Len(s1))
    <3>1. i - Len(s1) \in 1..Len(s2) /\ q[i] = s2[i - Len(s1)]
      BY <1>2, <2>1, <2>3
    <3> QED  BY <1>1, <3>1
  <2> QED  BY <2>2, <2>3
<1>4. SlotsOK(nd, us, l, q)
  BY <1>2, <1>3 DEF SlotsOK
<1> QED  BY <1>2, <1>4 DEF q

LEMMA SlotsOne ==
    ASSUME NEW nd, NEW us, NEW l, NEW k \in Nat, NEW v, ValOK(nd, us, l, v), us \in Nat
    PROVE  SlotsOK(nd, us, l, <<Slot(k, v)>>) /\ Len(<<Slot(k, v)>>) = 1
<1>1. v \in Nat \cup Seq(Threads)
  BY DEF ValOK
<1>2. Slot(k, v) \in Slots /\ Slot(k, v).val = v
  BY <1>1 DEF Slot, Slots
<1> DEFINE e == Slot(k, v)
<1> HIDE DEF e
<1>3. <<e>> \in Seq(Slots) /\ DOMAIN <<e>> = {1} /\ <<e>>[1] = e /\ Len(<<e>>) = 1
  BY <1>2 DEF e
<1>4. SlotsOK(nd, us, l, <<e>>)
  BY <1>2, <1>3 DEF SlotsOK, e
<1> QED  BY <1>3, <1>4 DEF e

\* A slot more.
LEMMA SlotsInserted ==
    ASSUME NEW nd, NEW us \in Nat, NEW l, NEW s, SlotsOK(nd, us, l, s), Len(s) > 0,
           NEW k \in Nat, NEW v, ValOK(nd, us, l, v)
    PROVE  SlotsOK(nd, us, l, Inserted(s, k, v)) /\ Len(Inserted(s, k, v)) > 0
<1>1. s \in Seq(Slots) /\ Len(s) \in Nat /\ Rank(s, k) \in 1..Len(s)
  BY RankIn DEF SlotsOK
<1> DEFINE i == Rank(s, k)
           a == SubSeq(s, 1, i)
           b == SubSeq(s, i + 1, Len(s))
           e == <<Slot(k, v)>>
<1>2. SlotsOK(nd, us, l, a) /\ Len(a) = i
  <2> HIDE DEF i
  <2>1. i \in Nat /\ 1 <= i + 1 /\ i <= Len(s)
    BY <1>1 DEF i
  <2>2. Len(a) = i + 1 - 1 /\ SlotsOK(nd, us, l, a)
    BY <2>1, SlotsPart
  <2> QED  BY <2>1, <2>2
<1>3. SlotsOK(nd, us, l, b) /\ Len(b) = Len(s) - i
  <2> HIDE DEF i
  <2>1. i \in Nat /\ i + 1 \in Nat /\ 1 <= i + 1 /\ i + 1 <= Len(s) + 1 /\ Len(s) <= Len(s)
    BY <1>1 DEF i
  <2>2. SlotsOK(nd, us, l, b) /\ Len(b) = Len(s) + 1 - (i + 1)
    BY <1>1, <2>1, SlotsPart
  <2> HIDE DEF b
  <2> QED  BY <1>1, <2>1, <2>2
<1>4. SlotsOK(nd, us, l, e) /\ Len(e) = 1
  BY SlotsOne
<1>5. Inserted(s, k, v) = (a \o e) \o b
  <2>1. (i + 1) - 1 = i
    BY <1>1
  <2> QED  BY <2>1, Zenon DEF Inserted, InsertAt
<1> HIDE DEF a, b, e, i
<1>6. SlotsOK(nd, us, l, a \o e) /\ Len(a \o e) = Len(a) + Len(e)
  <2>1. SlotsOK(nd, us, l, a)
    BY <1>2
  <2>2. SlotsOK(nd, us, l, e)
    BY <1>4
  <2> QED  BY <2>1, <2>2, SlotsJoin
<1>7. SlotsOK(nd, us, l, (a \o e) \o b) /\ Len((a \o e) \o b) = Len(a \o e) + Len(b)
  BY <1>3, <1>6, SlotsJoin
<1> DEFINE q == (a \o e) \o b
<1>8. Len(q) = (Len(a) + 1) + Len(b) /\ SlotsOK(nd, us, l, q)
  BY <1>4, <1>6, <1>7
<1>9. Inserted(s, k, v) = q
  BY <1>5
<1> HIDE DEF q
<1>10. i \in 1..Len(s)
  BY <1>1 DEF i
<1> QED  BY <1>1, <1>2, <1>3, <1>8, <1>9, <1>10

\* A slot less.
LEMMA SlotsRemoved ==
    ASSUME NEW nd, NEW us \in Nat, NEW l, NEW s, SlotsOK(nd, us, l, s), NEW i \in 2..Len(s)
    PROVE  SlotsOK(nd, us, l, RemoveAt(s, i)) /\ Len(RemoveAt(s, i)) > 0
<1>1. s \in Seq(Slots) /\ Len(s) \in Nat /\ i \in Nat /\ i - 1 \in Nat /\ i > 1 /\ i <= Len(s)
  BY DEF SlotsOK
<1> DEFINE a == SubSeq(s, 1, i - 1)
           b == SubSeq(s, i + 1, Len(s))
<1>2. SlotsOK(nd, us, l, a) /\ Len(a) = (i - 1) + 1 - 1
  BY <1>1, SlotsPart
<1>3. SlotsOK(nd, us, l, b) /\ Len(b) = Len(s) + 1 - (i + 1)
  <2>1. i + 1 \in Nat /\ 1 <= i + 1 /\ i + 1 <= Len(s) + 1 /\ Len(s) <= Len(s)
    BY <1>1
  <2> QED  BY <1>1, <2>1, SlotsPart
<1>4. RemoveAt(s, i) = a \o b
  BY DEF RemoveAt
<1> HIDE DEF a, b
<1> QED  BY <1>1, <1>2, <1>3, <1>4, SlotsJoin

LEMMA SlotsTail ==
    ASSUME NEW nd, NEW us \in Nat, NEW l, NEW s, SlotsOK(nd, us, l, s), Len(s) > 1
    PROVE  SlotsOK(nd, us, l, Tail(s)) /\ Len(Tail(s)) > 0
<1>1. s \in Seq(Slots) /\ Len(s) \in Nat /\ s # << >>
  BY DEF SlotsOK
<1>2. Tail(s) = SubSeq(s, 2, Len(s))
  BY <1>1, TailIsSubSeq
<1> DEFINE q == SubSeq(s, 2, Len(s))
<1>3. SlotsOK(nd, us, l, q) /\ Len(q) = Len(s) + 1 - 2
  BY <1>1, SlotsPart
<1>4. Tail(s) = q
  BY <1>2
<1> HIDE DEF q
<1>5. Len(q) > 0
  BY <1>1, <1>3
<1> QED  BY <1>3, <1>4, <1>5, Zenon

----------------------------------------------------------------------------
(* Writing without allocating.                                             *)

\* nd differs from node in the contents of the nodes of W.
Touches(nd, W) ==
    /\ DOMAIN nd = Nodes
    /\ \A n \in Nodes :
          /\ DOMAIN nd[n] = NodeFields /\ nd[n].level = node[n].level
          /\ nd[n].writer = node[n].writer /\ nd[n].readers = node[n].readers
          /\ n \notin W => /\ nd[n].slots = node[n].slots /\ nd[n].next = node[n].next
                           /\ nd[n].next_header = node[n].next_header

\* What is written in node n: slots and a link of its level.
NodeWritten(nd, n) ==
    /\ SlotsOK(node, used, node[n].level, nd[n].slots)
    /\ nd[n].next # NoNode => At(node, used, nd[n].next, node[n].level)

LEMMA EditedBy ==
    ASSUME IInv, NEW t \in Threads, NEW nd, NEW W, W \subseteq Locks(t), Touches(nd, W),
           \A n \in W : NodeWritten(nd, n)
    PROVE  Edited(t, nd, used)
<1>1. used \in Nat /\ used <= NodeCnt /\ Used \subseteq Nodes /\ Used = 1..used /\ used <= used
  BY UsedNodes DEF IInv, TypeOK, Used
<1>2. \A n \in 1..used : nd[n].level = node[n].level
  BY <1>1 DEF Touches
<1>3. ASSUME NEW n \in 1..used PROVE NodeOK(nd, used, n)
  <2>1. NodeOK(node, used, n)
    BY <1>1 DEF IInv, ShapeInv
  <2>2. CASE n \notin W
    <3>1. nd[n].slots = node[n].slots /\ nd[n].next = node[n].next
      BY <1>1, <2>2 DEF Touches
    <3> QED  BY <1>1, <1>2, <2>1, <3>1, NodeMoved
  <2>3. CASE n \in W
    <3> DEFINE l == node[n].level
               s == nd[n].slots
    <3>1. SlotsOK(node, used, l, s) /\ nd[n].level = l /\ l \in Nat
      BY <1>2, <2>1, <2>3 DEF NodeWritten, NodeOK
    <3>2. SlotsOK(nd, used, l, s)
      <4> HIDE DEF l, s
      <4> QED  BY <1>1, <1>2, <3>1, SlotsMoved
    <3> QED  BY <1>2, <2>3, <3>1, <3>2 DEF NodeOK, NodeWritten, At
  <2> QED  BY <2>2, <2>3
<1>4. (used + 1)..used = {}
  BY <1>1
<1>5. \A n \in Nodes : DOMAIN nd[n] = NodeFields
  BY DEF Touches
<1>6. \A n \in Used : /\ nd[n].level = node[n].level
                      /\ nd[n].writer = node[n].writer /\ nd[n].readers = node[n].readers
  BY <1>1 DEF Touches
<1>7. \A n \in Used \ Locks(t) : nd[n].slots = node[n].slots /\ nd[n].next = node[n].next
                                 /\ nd[n].next_header = node[n].next_header
  BY <1>1 DEF Touches
<1> QED  BY <1>1, <1>3, <1>4, <1>5, <1>6, <1>7 DEF Edited

\* A node that t has locked, and that is not raw, is there with its slots.
LEMMA Held ==
    ASSUME IInv, NEW t \in Threads, NEW n \in Locks(t), n \notin Raw(t)
    PROVE  /\ n \in Used /\ n \in Nodes /\ NodeOK(node, used, n)
           /\ SlotsOK(node, used, node[n].level, node[n].slots)
           /\ node[n].slots \in Seq(Slots) /\ Len(node[n].slots) > 0
           /\ node[n].level \in Nat
<1>1. n \in Used /\ node[n].writer = t
  BY LocksNow
<1>2. n \in Nodes /\ NodeOK(node, used, n)
  BY <1>1, UsedNodes DEF IInv, ShapeInv
<1>3. \A u \in Threads : node[n].writer = u => n \notin Raw(u)
  BY <1>1
<1> QED  BY <1>1, <1>2, <1>3, NotEmpty DEF NodeOK

\* A slot's value is a child, or a chain.
LEMMA ValAt ==
    ASSUME NEW nd, NEW us, NEW l, NEW s, SlotsOK(nd, us, l, s), NEW i \in DOMAIN s
    PROVE  /\ s[i] \in Slots /\ ValOK(nd, us, l, s[i].val)
           /\ l # 0 => At(nd, us, s[i].val, l - 1)
BY DEF SlotsOK, ValOK, At

LEMMA TouchSlots ==
    ASSUME IInv, NEW n \in Nodes, NEW q
    PROVE  LET nd == [node EXCEPT ![n].slots = q]
           IN  Touches(nd, {n}) /\ nd[n].slots = q /\ nd[n].next = node[n].next
BY DEF Touches, IInv, TypeOK, NodeFields

\* At "insert" the node of the target level is locked.
LEMMA InsertNow ==
    ASSUME IInv, NEW t \in Threads, pc[t] = "insert"
    PROVE  /\ EarlyOK("insert", reg[t], call[t], node, used)
           /\ node[Curr(t)].level = reg[t].level
           /\ Locks(t) = {Curr(t)} /\ Draining(t) = {} /\ Reads(t) = {} /\ Raw(t) = {}
           /\ Curr(t) \in Used
<1>1. EarlyOK("insert", reg[t], call[t], node, used) /\ Curr(t) \in Used
  BY EarlyNow
<1>2. Curr(t) # NoNode
  BY <1>1, LocksNow
<1>3. Locks(t) = {Curr(t)} /\ Draining(t) = {} /\ Reads(t) = {}
  BY <1>2 DEF Locks, LocksOf, Draining, DrainOf, Reads, ReadsOf, Curr
<1> QED  BY <1>1, <1>3 DEF EarlyOK, At, Curr, Raw, RawOf

LEMMA InsertDuplicateKeeps ==
    ASSUME IInv, NEW t \in Threads, InsertDuplicate(t) PROVE Kept(t)
<1> DEFINE n == Curr(t)
           s == node[n].slots
           i == IF reg[t].first THEN 1 ELSE Rank(s, Key(t))
           v == <<t>> \o s[i].val
           e == [s[i] EXCEPT !.val = v]
           nd == [node EXCEPT ![n].slots[i].val = <<t>> \o @]
<1>1. pc[t] = "insert" /\ pc[t] \in Early /\ reg[t].level = 0 /\ Return(t) /\ UNCHANGED used
      /\ node' = WriteUnlocked(nd, {n})
  BY DEF InsertDuplicate, Done
<1>2. EarlyOK("insert", reg[t], call[t], node, used)
  BY <1>1, EarlyNow
<1>3. Locks(t) = {n} /\ Draining(t) = {} /\ Reads(t) = {} /\ Raw(t) = {} /\ n \in Used
  BY <1>1, InsertNow
<1>4. n \in Nodes /\ NodeOK(node, used, n) /\ s \in Seq(Slots) /\ Len(s) > 0
      /\ SlotsOK(node, used, node[n].level, s)
  BY <1>3, Held
<1>5. node[n].level = 0
  BY <1>1, <1>2 DEF EarlyOK, At, Curr
<1>6. i \in DOMAIN s
  BY <1>4, RankIn
<1> HIDE DEF i
<1>7. s[i] \in Slots /\ s[i].val \in Seq(Threads) /\ s[i].key \in Nat
  BY <1>4, <1>5, <1>6, ValAt DEF ValOK, Slots
<1>8. v \in Seq(Threads)
  <2>1. <<t>> \in Seq(Threads)
    OBVIOUS
  <2> QED  BY <1>7, <2>1, ConcatProperties
<1> DEFINE q == [s EXCEPT ![i] = e]
<1>9. nd = [node EXCEPT ![n].slots = q]
  OBVIOUS
<1> HIDE DEF v, nd
<1>10. e \in Slots /\ e.val = v
  BY <1>7, <1>8 DEF Slots
<1> HIDE DEF e
<1>11. q \in Seq(Slots) /\ Len(q) = Len(s) /\ \A j \in 1..Len(s) : q[j] = IF j = i THEN e ELSE s[j]
  <2>1. i \in 1..Len(s)
    BY <1>4, <1>6
  <2> HIDE DEF s
  <2> QED  BY <1>4, <1>10, <2>1, ExceptSeq
<1>12. SlotsOK(node, used, 0, q)
  <2>1. \A j \in 1..Len(s) : s[j].val \in Seq(Threads)
    BY <1>4, <1>5 DEF SlotsOK, ValOK
  <2>2. \A j \in 1..Len(s) : q[j].val \in Seq(Threads)
    BY <1>8, <1>10, <1>11, <2>1
  <2>3. DOMAIN q = 1..Len(s)
    BY <1>4, <1>11
  <2> HIDE DEF q, s
  <2> QED  BY <1>11, <2>2, <2>3 DEF SlotsOK, ValOK
<1>13. Touches(nd, {n}) /\ nd[n].slots = q /\ nd[n].next = node[n].next
  <2> HIDE DEF q, n
  <2> QED  BY <1>4, <1>9, TouchSlots
<1> HIDE DEF q
<1>14. NodeWritten(nd, n)
  BY <1>4, <1>5, <1>12, <1>13 DEF NodeWritten, NodeOK, At
<1>15. Edited(t, nd, used)
  BY <1>3, <1>13, <1>14, EditedBy
<1>16. Rewrote(nd, {n})
  BY <1>1, <1>13, RewroteUnlock DEF Touches
<1>17. \A m \in Used : nd[m].slots = << >> => m \notin Raw(t) /\ node[m].slots = << >>
  <2>1. q # << >>
    BY <1>4, <1>11
  <2> QED  BY <1>3, <1>13, <2>1, UsedNodes DEF Touches, IInv
<1>18. {n} \cap Used = Locks(t)
  BY <1>3
<1> QED  BY <1>1, <1>3, <1>15, <1>16, <1>17, <1>18, WriteReturn

----------------------------------------------------------------------------
(* Deletion writes.                                                        *)

\* A slot that is not the first goes.
LEMMA RemoveNow ==
    ASSUME IInv, NEW t \in Threads, pc[t] = "delete", CurrRank(t) > 1
    PROVE  LET n == Curr(t)
               nd == [node EXCEPT ![n].slots = RemoveAt(@, CurrRank(t))]
           IN  /\ Touches(nd, {n}) /\ Edited(t, nd, used) /\ nd[n].slots # << >>
               /\ CurrRank(t) \in 2..Len(node[n].slots)
               /\ n \in Locks(t) /\ Draining(t) = {} /\ Reads(t) = {} /\ Raw(t) = {}
               /\ SlotsOK(node, used, node[n].level, node[n].slots)
<1> DEFINE n == Curr(t)
           s == node[n].slots
           q == RemoveAt(s, CurrRank(t))
           nd == [node EXCEPT ![n].slots = RemoveAt(@, CurrRank(t))]
<1>1. pc[t] \in Finding
  OBVIOUS
<1>2. Draining(t) = {} /\ Reads(t) = {} /\ Raw(t) = {} /\ n \in Locks(t)
  BY <1>1, FindingNow, LocksNow
<1>3. n \in Nodes /\ s \in Seq(Slots) /\ Len(s) > 0 /\ SlotsOK(node, used, node[n].level, s)
      /\ NodeOK(node, used, n) /\ used \in Nat
  BY <1>2, Held DEF IInv, TypeOK
<1>4. CurrRank(t) \in 2..Len(s)
  <2>1. Rank(s, Key(t)) \in 1..Len(s) /\ CurrRank(t) = Rank(s, Key(t))
    BY <1>3, RankIn DEF CurrRank
  <2> QED  BY <2>1
<1>5. SlotsOK(node, used, node[n].level, q) /\ Len(q) > 0
  BY <1>3, <1>4, SlotsRemoved
<1>6. q # << >>
  BY <1>5
<1>7. nd = [node EXCEPT ![n].slots = q]
  OBVIOUS
<1> HIDE DEF q, nd
<1>8. Touches(nd, {n}) /\ nd[n].slots = q /\ nd[n].next = node[n].next
  BY <1>3, <1>7, TouchSlots
<1>9. NodeWritten(nd, n)
  BY <1>3, <1>5, <1>8 DEF NodeWritten, NodeOK, At
<1>10. Edited(t, nd, used)
  BY <1>2, <1>8, <1>9, EditedBy
<1> QED  BY <1>2, <1>3, <1>4, <1>6, <1>8, <1>10 DEF nd

LEMMA DeleteSlotKeeps ==
    ASSUME IInv, NEW t \in Threads, DeleteSlot(t) PROVE Kept(t)
<1> DEFINE n == Curr(t)
           nd == [node EXCEPT ![n].slots = RemoveAt(@, CurrRank(t))]
<1>1. pc[t] = "delete" /\ pc[t] \in Finding /\ CurrRank(t) > 1 /\ Return(t) /\ UNCHANGED used
      /\ node' = WriteUnlocked(nd, {n, reg[t].prev})
  BY DEF DeleteSlot, Done
<1>2. Touches(nd, {n}) /\ Edited(t, nd, used) /\ nd[n].slots # << >>
      /\ n \in Locks(t) /\ Draining(t) = {} /\ Reads(t) = {} /\ Raw(t) = {}
  BY <1>1, RemoveNow
<1> HIDE DEF nd
<1>3. Locks(t) = {reg[t].prev, n} \ {NoNode}
  BY <1>1, FindingNow
<1>4. {n, reg[t].prev} \cap Used = Locks(t)
  BY <1>3, LocksNow
<1>5. Rewrote(nd, {n, reg[t].prev})
  BY <1>1, <1>2, RewroteUnlock DEF Touches
<1>6. \A m \in Used : nd[m].slots = << >> => m \notin Raw(t) /\ node[m].slots = << >>
  BY <1>2, UsedNodes DEF Touches, IInv
<1> QED  BY <1>1, <1>2, <1>4, <1>5, <1>6, WriteReturn

LEMMA RawKeptNow ==
    ASSUME IInv, NEW t \in Threads, NEW nd, NEW W, Touches(nd, W),
           \A n \in W : nd[n].slots # << >>, NEW r,
           \A n \in Raw(t) \ W : n \in RawOf(r)
    PROVE  RawKept(t, nd, used, r)
<1> SUFFICES ASSUME NEW n \in Used, nd[n].slots = << >>
             PROVE  n \in RawOf(r) \/ (n \in Used \ Raw(t) /\ node[n].slots = << >>)
  BY DEF RawKept, Used
<1>1. n \notin W /\ node[n].slots = << >>
  BY UsedNodes DEF Touches, IInv
<1> QED  BY <1>1

\* A step that writes to the nodes of W and goes on.
LEMMA TouchStep ==
    ASSUME IInv, NEW t \in Threads, NEW p \in Labels \ {"idle"}, NEW r, NEW nd, NEW W, NEW S,
           DOMAIN r = RegFields, pc[t] # "idle", UNCHANGED <<used, callVars>>,
           Moved(t, p, r), Rewrote(nd, S), W \subseteq Locks(t), Touches(nd, W),
           \A n \in W : NodeWritten(nd, n) /\ nd[n].slots # << >>,
           \A n \in Raw(t) \ W : n \in RawOf(r),
           Draining(t) = {}, Reads(t) = {}, ReadsOf(p, r) = {},
           S \subseteq Locks(t), LocksOf(p, r) = Locks(t) \ S,
           RegsOK(p, r, call[t], nd, used)
    PROVE  Kept(t)
<1>1. Edited(t, nd, used)
  BY EditedBy
<1>2. RawKept(t, nd, used, r)
  BY RawKeptNow
<1>3. used' = used /\ used \in Nat /\ UNCHANGED callVars
  BY DEF IInv, TypeOK
<1>4. (used + 1)..used' = {}
  BY <1>3
<1>5. LocksOf(p, r) = (Locks(t) \cup ((used + 1)..used')) \ S /\ S \cap (1..used') \subseteq Locks(t)
  BY <1>4
<1> QED  BY <1>1, <1>2, <1>3, <1>5, WriteGoesOn

\* Registers that are right for node are right for what it becomes.
LEMMA RegsTouched ==
    ASSUME IInv, NEW nd, NEW W, Touches(nd, W), NEW p \in Labels, NEW r, NEW c,
           LocksOf(p, r) \cap W = {}, RegsOK(p, r, c, node, used)
    PROVE  RegsOK(p, r, c, nd, used)
<1>1. used \in Nat /\ used <= used /\ Used \subseteq Nodes /\ Used = 1..used
  BY UsedNodes DEF IInv, TypeOK, Used
<1>2. \A n \in 1..used : nd[n].level = node[n].level
  BY <1>1 DEF Touches
<1>3. LocksOf(p, r) \subseteq 1..used
  BY <1>1, LocksUsed
<1>4. \A n \in LocksOf(p, r) : nd[n].slots = node[n].slots
  BY <1>1, <1>3 DEF Touches
<1> QED  BY <1>1, <1>2, <1>4, RegsKept, NothingAssumption

LEMMA DeleteIndexKeeps ==
    ASSUME IInv, NEW t \in Threads, DeleteIndex(t) PROVE Kept(t)
<1> DEFINE n == Curr(t)
           s == node[n].slots
           k == CurrRank(t)
           nd == [node EXCEPT ![n].slots = RemoveAt(@, k)]
           r == [reg[t] EXCEPT !.hold = {n, reg[t].prev}, !.prev = NoNode,
                               !.curr = s[k].val, !.left = s[k - 1].val]
<1>1. pc[t] = "delete" /\ pc[t] \in Finding /\ k > 1 /\ UNCHANGED <<used, callVars>>
      /\ reg[t].level > 0 /\ node' = nd
  BY DEF DeleteIndex
<1>2. Moved(t, "lock_left", r)
  <2>1. Locals(t, r) /\ Goto(t, "lock_left")
    BY DEF DeleteIndex
  <2> HIDE DEF r
  <2> QED  BY <2>1, MovedLocals DEF IInv
<1>3. Touches(nd, {n}) /\ Edited(t, nd, used) /\ nd[n].slots # << >> /\ k \in 2..Len(s)
      /\ n \in Locks(t) /\ Draining(t) = {} /\ Reads(t) = {} /\ Raw(t) = {}
      /\ SlotsOK(node, used, node[n].level, s)
  BY <1>1, RemoveNow
<1>4. FindingOK("delete", reg[t], call[t], node, used) /\ node[n].level = reg[t].level
      /\ reg[t].level \in Nat /\ pc[t] # "idle" /\ Locks(t) = {reg[t].prev, n} \ {NoNode}
  BY <1>1, FindingNow
<1>5. k \in DOMAIN s /\ k - 1 \in DOMAIN s
  BY <1>3 DEF SlotsOK
<1> HIDE DEF k, nd
<1>6. At(node, used, s[k].val, reg[t].level - 1) /\ At(node, used, s[k - 1].val, reg[t].level - 1)
  BY <1>1, <1>3, <1>4, <1>5, ValAt
<1>7. DOMAIN r = RegFields /\ r.hold = {n, reg[t].prev} /\ r.curr = s[k].val
      /\ r.left = s[k - 1].val /\ r.spare = << >>
  BY <1>4, RegsNow DEF FindingOK, RegFields
<1> HIDE DEF r, s
<1>8. r.hold \subseteq (1..used) \cup {NoNode}
  BY <1>3, <1>4, <1>7, LocksNow DEF Used
<1>9. UnlinkingOK("lock_left", r, node, used)
  BY <1>6, <1>7, <1>8 DEF UnlinkingOK, At
<1>10. LocksOf("lock_left", r) = Locks(t) \ {} /\ ReadsOf("lock_left", r) = {}
  BY <1>4, <1>7 DEF LocksOf, ReadsOf
<1>11. UnlinkingOK("lock_left", r, nd, used)
  <2>1. \A m \in 1..used : nd[m].level = node[m].level
    BY <1>3 DEF Edited, Used
  <2> QED  BY <1>9, <2>1 DEF UnlinkingOK, At
<1>12. RegsOK("lock_left", r, call[t], nd, used)
  BY <1>11 DEF RegsOK
<1>13. Rewrote(nd, {})
  BY <1>1, <1>3, RewroteSame DEF Touches
<1>14. RawKept(t, nd, used, r)
  BY <1>3, RawKeptNow
<1>15. used' = used /\ used \in Nat /\ UNCHANGED callVars /\ "lock_left" \in Labels \ {"idle"}
  BY <1>1 DEF IInv, TypeOK
<1>16. LocksOf("lock_left", r) = (Locks(t) \cup ((used + 1)..used')) \ {}
       /\ {} \cap (1..used') \subseteq Locks(t)
  BY <1>10, <1>15
<1>17. Edited(t, nd, used') /\ RawKept(t, nd, used', r) /\ RegsOK("lock_left", r, call[t], nd, used')
  BY <1>3, <1>12, <1>14, <1>15
<1> QED  BY <1>2, <1>3, <1>4, <1>7, <1>10, <1>13, <1>15, <1>16, <1>17, WriteGoesOn

\* At "unlink" the key's node and the one left of it are locked.
LEMMA UnlinkNow ==
    ASSUME IInv, NEW t \in Threads, pc[t] \in {"unlink", "unlink_next"}
    PROVE  LET n == Curr(t)
               m == reg[t].left
           IN  /\ Locks(t) = {m, n} /\ m # n /\ m # NoNode /\ n # NoNode
               /\ Draining(t) = {} /\ Reads(t) = {} /\ Raw(t) = {} /\ pc[t] # "idle"
               /\ node[m].level = node[n].level /\ node[n].level \in Nat
               /\ n \in Nodes /\ m \in Nodes /\ n \in Used /\ m \in Used
               /\ NodeOK(node, used, n) /\ NodeOK(node, used, m)
               /\ SlotsOK(node, used, node[n].level, node[n].slots) /\ Len(node[n].slots) > 0
               /\ SlotsOK(node, used, node[n].level, node[m].slots) /\ Len(node[m].slots) > 0
               /\ node[n].slots \in Seq(Slots) /\ node[m].slots \in Seq(Slots)
<1> DEFINE n == Curr(t)
           m == reg[t].left
<1>1. pc[t] \in Unlinking
  OBVIOUS
<1>2. /\ UnlinkingOK(pc[t], reg[t], node, used) /\ n \in Used /\ m \in Used
      /\ node[m].level = node[n].level /\ Reads(t) = {} /\ Raw(t) = {}
      /\ Locks(t) = {m, n} \ {NoNode} /\ Draining(t) = {}
  BY <1>1, UnlinkingNow DEF LocksOf, DrainOf, Curr
<1>3. n # NoNode /\ m # NoNode /\ m # n
  BY <1>2, LocksNow DEF UnlinkingOK, Curr
<1>4. Locks(t) = {m, n} /\ n \in Locks(t) /\ m \in Locks(t) /\ n \notin Raw(t) /\ m \notin Raw(t)
  BY <1>2, <1>3
<1>5. /\ n \in Nodes /\ NodeOK(node, used, n) /\ node[n].level \in Nat
      /\ SlotsOK(node, used, node[n].level, node[n].slots) /\ Len(node[n].slots) > 0
      /\ node[n].slots \in Seq(Slots)
  BY <1>4, Held
<1>6. /\ m \in Nodes /\ NodeOK(node, used, m)
      /\ SlotsOK(node, used, node[m].level, node[m].slots) /\ Len(node[m].slots) > 0
      /\ node[m].slots \in Seq(Slots)
  BY <1>4, Held
<1> QED  BY <1>2, <1>3, <1>4, <1>5, <1>6

\* What is written in both is right.
BothWritten(t, nd) ==
    /\ Touches(nd, {reg[t].left, Curr(t)})
    /\ \A n \in {reg[t].left, Curr(t)} : NodeWritten(nd, n) /\ nd[n].slots # << >>

LEMMA HeaderWritten ==
    ASSUME IInv, NEW t \in Threads, pc[t] = "unlink"
    PROVE  BothWritten(t, UnlinkedHeader(t))
<1> DEFINE n == Curr(t)
           m == reg[t].left
           nd == UnlinkedHeader(t)
<1>1. /\ m # n /\ node[m].level = node[n].level /\ n \in Nodes /\ m \in Nodes
      /\ NodeOK(node, used, n) /\ NodeOK(node, used, m)
      /\ SlotsOK(node, used, node[n].level, node[n].slots) /\ Len(node[n].slots) > 0
      /\ SlotsOK(node, used, node[n].level, node[m].slots) /\ Len(node[m].slots) > 0
      /\ node[n].slots \in Seq(Slots) /\ node[m].slots \in Seq(Slots)
  BY UnlinkNow
<1>2. TypeOK /\ used \in Nat
  BY DEF IInv, TypeOK
<1>3. /\ Touches(nd, {m, n}) /\ nd[n].next = node[n].next /\ nd[m].next = node[m].next
      /\ nd[m].slots = node[m].slots
      /\ nd[n].slots = IF Single(t) THEN node[n].slots ELSE Tail(node[n].slots)
  <2>1. CASE Single(t)
    <3>1. nd = [node EXCEPT ![m].next_header = node[n].next_header]
      BY <2>1 DEF UnlinkedHeader
    <3> HIDE DEF n, m, nd
    <3> QED  BY <1>1, <1>2, <2>1, <3>1 DEF Touches, TypeOK, NodeFields
  <2>2. CASE ~ Single(t)
    <3>1. nd = [node EXCEPT ![m].next_header = node[n].slots[2].key, ![n].slots = Tail(@)]
      BY <2>2 DEF UnlinkedHeader
    <3> DEFINE x == node[n].slots[2].key
               q == Tail(node[n].slots)
               nd1 == [node EXCEPT ![m].next_header = x]
    <3>2. nd = [nd1 EXCEPT ![n].slots = q]
      BY <1>1, <3>1
    <3>3. Touches(nd1, {m}) /\ nd1[n].next = node[n].next /\ nd1[m].next = node[m].next
          /\ nd1[m].slots = node[m].slots
      <4> HIDE DEF n, m, x
      <4> QED  BY <1>1, <1>2 DEF Touches, TypeOK, NodeFields
    <3> HIDE DEF n, m, nd, nd1, q
    <3>4. Touches(nd, {m, n}) /\ nd[n].next = nd1[n].next /\ nd[m].next = nd1[m].next
          /\ nd[m].slots = nd1[m].slots /\ nd[n].slots = q
      BY <1>1, <3>2, <3>3 DEF Touches, NodeFields
    <3> QED  BY <2>2, <3>3, <3>4 DEF q
  <2> QED  BY <2>1, <2>2
<1> HIDE DEF nd
<1>4. SlotsOK(node, used, node[n].level, nd[n].slots) /\ nd[n].slots # << >>
  <2>1. CASE Single(t)
    <3>1. nd[n].slots = node[n].slots /\ node[n].slots # << >>
      BY <1>1, <1>3, <2>1
    <3> QED  BY <1>1, <3>1
  <2>2. CASE ~ Single(t)
    <3>1. Len(node[n].slots) > 1
      <4> DEFINE x == Len(node[n].slots)
      <4>1. x # 1
        BY <2>2 DEF Single
      <4>2. x \in Nat /\ x > 0
        BY <1>1
      <4> HIDE DEF x
      <4>3. x > 1
        BY <4>1, <4>2
      <4> QED  BY <4>3 DEF x
    <3> DEFINE l == node[n].level
               s == node[n].slots
    <3>2. SlotsOK(node, used, l, s)
      BY <1>1
    <3>3. nd[n].slots = Tail(s)
      BY <1>3, <2>2
    <3> HIDE DEF l
    <3>4. SlotsOK(node, used, l, Tail(s)) /\ Len(Tail(s)) > 0
      BY <1>2, <3>1, <3>2, SlotsTail
    <3> DEFINE q == Tail(s)
    <3>5. nd[n].slots = q /\ SlotsOK(node, used, l, q) /\ Len(q) > 0
      BY <3>3, <3>4, Zenon
    <3> HIDE DEF q
    <3>6. q # << >>
      BY <3>5
    <3> QED  BY <3>5, <3>6 DEF l
  <2> QED  BY <2>1, <2>2
<1>5. NodeWritten(nd, n)
  BY <1>1, <1>3, <1>4 DEF NodeWritten, NodeOK, At
<1>6. NodeWritten(nd, m) /\ nd[m].slots # << >>
  BY <1>1, <1>3 DEF NodeWritten, NodeOK, At
<1> QED  BY <1>3, <1>4, <1>5, <1>6 DEF BothWritten, nd

LEMMA NextWritten ==
    ASSUME IInv, NEW t \in Threads, pc[t] \in {"unlink", "unlink_next"}, NEW nd,
           BothWritten(t, nd)
    PROVE  BothWritten(t, UnlinkedNext(t, nd))
<1> DEFINE n == Curr(t)
           m == reg[t].left
           w == UnlinkedNext(t, nd)
<1>1. m # n /\ node[m].level = node[n].level /\ m \in Nodes /\ NodeOK(node, used, n)
  BY UnlinkNow
<1>2. w = [nd EXCEPT ![m].next = node[n].next]
  BY DEF UnlinkedNext
<1>3. Touches(nd, {m, n}) /\ NodeWritten(nd, m) /\ NodeWritten(nd, n)
      /\ nd[m].slots # << >> /\ nd[n].slots # << >>
  BY DEF BothWritten
<1> HIDE DEF n, m, w
<1>4. Touches(w, {m, n}) /\ w[m].slots = nd[m].slots /\ w[n].slots = nd[n].slots
      /\ w[m].next = node[n].next /\ w[n].next = nd[n].next
  BY <1>1, <1>2, <1>3 DEF Touches, NodeFields
<1>5. NodeWritten(w, m)
  BY <1>1, <1>3, <1>4 DEF NodeWritten, NodeOK, At
<1>6. NodeWritten(w, n)
  BY <1>3, <1>4 DEF NodeWritten
<1> QED  BY <1>3, <1>4, <1>5, <1>6 DEF BothWritten, n, m, w

LEMMA NodeWrittenNow ==
    ASSUME IInv, NEW t \in Threads, pc[t] \in {"unlink", "unlink_next"}
    PROVE  BothWritten(t, node)
<1>1. Touches(node, {reg[t].left, Curr(t)})
  BY DEF Touches, IInv, TypeOK
<1>2. NodeWritten(node, reg[t].left) /\ NodeWritten(node, Curr(t))
  BY UnlinkNow DEF NodeWritten, NodeOK, At
<1>3. node[reg[t].left].slots # << >> /\ node[Curr(t)].slots # << >>
  BY UnlinkNow
<1> QED  BY <1>1, <1>2, <1>3 DEF BothWritten

\* One level down.
LEMMA DescendKeeps ==
    ASSUME IInv, NEW t \in Threads, pc[t] \in {"unlink", "unlink_next"}, Level(t) > 0,
           NEW nd, BothWritten(t, nd), Descend(t, nd), UNCHANGED <<used, callVars>>
    PROVE  Kept(t)
<1> DEFINE n == Curr(t)
           m == reg[t].left
           a == Head(node[n].slots).val
           b == Last(node[m].slots).val
           r == [reg[t] EXCEPT !.hold = {m}, !.curr = a, !.left = b]
<1>1. Moved(t, "lock_left", r) /\ node' = WriteUnlocked(nd, {n})
  <2>1. Locals(t, r) /\ Goto(t, "lock_left") /\ node' = WriteUnlocked(nd, {n})
    BY DEF Descend
  <2> HIDE DEF r
  <2> QED  BY <2>1, MovedLocals DEF IInv
<1>2. /\ Locks(t) = {m, n} /\ m # n /\ m # NoNode /\ n # NoNode /\ m \in Used
      /\ Draining(t) = {} /\ Reads(t) = {} /\ Raw(t) = {} /\ pc[t] # "idle"
      /\ node[n].level \in Nat
      /\ SlotsOK(node, used, node[n].level, node[n].slots) /\ Len(node[n].slots) > 0
      /\ SlotsOK(node, used, node[n].level, node[m].slots) /\ Len(node[m].slots) > 0
      /\ node[n].slots \in Seq(Slots) /\ node[m].slots \in Seq(Slots)
  BY UnlinkNow
<1>3. At(node, used, a, node[n].level - 1) /\ At(node, used, b, node[n].level - 1)
  <2>1. node[n].level # 0
    BY DEF Level
  <2>2. 1 \in DOMAIN node[n].slots /\ Head(node[n].slots) = node[n].slots[1]
    BY <1>2
  <2>3. Len(node[m].slots) \in DOMAIN node[m].slots
    BY <1>2
  <2>4. At(node, used, node[n].slots[1].val, node[n].level - 1)
    BY <1>2, <2>1, <2>2, ValAt
  <2>5. At(node, used, node[m].slots[Len(node[m].slots)].val, node[n].level - 1)
    BY <1>2, <2>1, <2>3, ValAt
  <2> QED  BY <2>2, <2>4, <2>5 DEF Last
<1>4. DOMAIN r = RegFields /\ r.hold = {m} /\ r.curr = a /\ r.left = b /\ r.spare = << >>
  BY RegsNow, UnlinkingNow DEF UnlinkingOK, RegFields
<1>5. Touches(nd, {m, n}) /\ \A x \in {m, n} : NodeWritten(nd, x) /\ nd[x].slots # << >>
  BY DEF BothWritten
<1> HIDE DEF r, a, b, n, m
<1>6. \A x \in 1..used : nd[x].level = node[x].level
  BY <1>5, UsedNodes DEF Touches, IInv, Used
<1>7. UnlinkingOK("lock_left", r, nd, used)
  BY <1>2, <1>3, <1>4, <1>6 DEF UnlinkingOK, At, Used
<1>8. RegsOK("lock_left", r, call[t], nd, used)
  BY <1>7 DEF RegsOK
<1>9. LocksOf("lock_left", r) = Locks(t) \ {n} /\ ReadsOf("lock_left", r) = {}
  BY <1>2, <1>4 DEF LocksOf, ReadsOf
<1>10. Rewrote(nd, {n})
  BY <1>1, <1>5, RewroteUnlock DEF Touches
<1>11. {n} \subseteq Locks(t) /\ {m, n} \subseteq Locks(t) /\ "lock_left" \in Labels \ {"idle"}
       /\ \A x \in Raw(t) \ {m, n} : x \in RawOf(r)
  BY <1>2
<1> QED  BY <1>1, <1>2, <1>4, <1>5, <1>8, <1>9, <1>10, <1>11, TouchStep

LEMMA UnlinkSlotKeeps ==
    ASSUME IInv, NEW t \in Threads, UnlinkSlot(t) PROVE Kept(t)
BY HeaderWritten, DescendKeeps DEF UnlinkSlot

LEMMA UnlinkNextKeeps ==
    ASSUME IInv, NEW t \in Threads, UnlinkNext(t) PROVE Kept(t)
<1>1. pc[t] = "unlink_next" /\ pc[t] \in Unlinking /\ UNCHANGED <<used, callVars>>
      /\ Descend(t, UnlinkedNext(t, node))
  BY DEF UnlinkNext
<1>2. Level(t) > 0
  BY <1>1, UnlinkingNow DEF UnlinkingOK, Level, Curr
<1>3. BothWritten(t, UnlinkedNext(t, node))
  BY <1>1, NodeWrittenNow, NextWritten
<1> QED  BY <1>1, <1>2, <1>3, DescendKeeps

LEMMA UnlinkNodeKeeps ==
    ASSUME IInv, NEW t \in Threads, UnlinkNode(t) PROVE Kept(t)
<1> DEFINE nd == UnlinkedHeader(t)
           W == {reg[t].left, Curr(t)}
<1>1. pc[t] = "unlink" /\ pc[t] \in Unlinking /\ UNCHANGED <<used, callVars>> /\ Level(t) > 0
      /\ node' = nd /\ Moved(t, "unlink_next", reg[t])
  BY MovedSame DEF UnlinkNode, IInv
<1>2. Touches(nd, W) /\ \A x \in W : NodeWritten(nd, x) /\ nd[x].slots # << >>
  BY <1>1, HeaderWritten DEF BothWritten
<1>3. /\ Locks(t) = W /\ Draining(t) = {} /\ Reads(t) = {} /\ Raw(t) = {} /\ pc[t] # "idle"
      /\ reg[t].left # NoNode /\ Curr(t) # NoNode /\ Curr(t) \in Used
  BY <1>1, UnlinkNow
<1>4. UnlinkingOK("unlink", reg[t], node, used)
  BY <1>1, UnlinkingNow
<1> HIDE DEF nd
<1>5. \A x \in 1..used : nd[x].level = node[x].level
  BY <1>2, UsedNodes DEF Touches, IInv, Used
<1>6. UnlinkingOK("unlink_next", reg[t], nd, used)
  BY <1>1, <1>4, <1>5 DEF UnlinkingOK, At, Level, Curr
<1>7. RegsOK("unlink_next", reg[t], call[t], nd, used)
  BY <1>6 DEF RegsOK
<1>8. LocksOf("unlink_next", reg[t]) = Locks(t) \ {} /\ ReadsOf("unlink_next", reg[t]) = {}
  BY <1>3 DEF LocksOf, ReadsOf, Curr
<1>9. Rewrote(nd, {})
  BY <1>1, <1>2, RewroteSame DEF Touches
<1>10. {} \subseteq Locks(t) /\ W \subseteq Locks(t) /\ "unlink_next" \in Labels \ {"idle"}
       /\ \A x \in Raw(t) \ W : x \in RawOf(reg[t])
  BY <1>3
<1> HIDE DEF W
<1> QED  BY <1>1, <1>2, <1>3, <1>7, <1>8, <1>9, <1>10, RegsNow, TouchStep

LEMMA UnlinkLeafKeeps ==
    ASSUME IInv, NEW t \in Threads, UnlinkLeaf(t) PROVE Kept(t)
<1> DEFINE nd == IF Single(t) THEN UnlinkedNext(t, UnlinkedHeader(t)) ELSE UnlinkedHeader(t)
           W == {reg[t].left, Curr(t)}
           S == {Curr(t), reg[t].left}
<1>1. pc[t] = "unlink" /\ UNCHANGED used /\ Return(t) /\ node' = WriteUnlocked(nd, S)
  BY DEF UnlinkLeaf, Done
<1>2. BothWritten(t, nd)
  BY <1>1, HeaderWritten, NextWritten
<1> HIDE DEF nd
<1>3. Touches(nd, W) /\ \A x \in W : NodeWritten(nd, x) /\ nd[x].slots # << >>
  BY <1>2 DEF BothWritten
<1>4. Locks(t) = W /\ Draining(t) = {} /\ Reads(t) = {} /\ Raw(t) = {}
  BY <1>1, UnlinkNow
<1>5. Edited(t, nd, used)
  BY <1>3, <1>4, EditedBy
<1>6. Rewrote(nd, S)
  <2>1. \A n \in Nodes : DOMAIN nd[n] = NodeFields
    BY <1>3 DEF Touches
  <2>2. node' = WriteUnlocked(nd, S)
    BY <1>1
  <2> HIDE DEF S
  <2> QED  BY <2>1, <2>2, RewroteUnlock
<1>7. S \cap Used = Locks(t)
  BY <1>4, LocksNow
<1>8. \A x \in Used : nd[x].slots = << >> => x \notin Raw(t) /\ node[x].slots = << >>
  BY <1>3, <1>4, UsedNodes DEF Touches, IInv
<1> QED  BY <1>1, <1>4, <1>5, <1>6, <1>7, <1>8, WriteReturn

----------------------------------------------------------------------------
(* Promotion writes.                                                       *)

\* The nodes that are still to be put in.
LEMMA SparesNow ==
    ASSUME IInv, NEW t \in Threads, pc[t] \in Promoting
    PROVE  LET sp == reg[t].spare
           IN  /\ sp \in Seq(Used) /\ sp # << >> /\ Head(sp) = sp[1] /\ 1 \in DOMAIN sp
               /\ Head(sp) \in Raw(t) /\ Head(sp) \in Used /\ node[Head(sp)].level = reg[t].level
               /\ Tail(sp) \in Seq(Used) /\ Len(Tail(sp)) = reg[t].level
               /\ \A i \in 1..reg[t].level : i + 1 \in DOMAIN sp /\ Tail(sp)[i] = sp[i + 1]
               /\ \A i \in 1..reg[t].level : node[Tail(sp)[i]].level = reg[t].level - i
<1> DEFINE sp == reg[t].spare
           l == reg[t].level
<1>1. l \in Nat /\ sp \in Seq(Used) /\ Len(sp) = l + 1
      /\ \A i \in DOMAIN sp : node[sp[i]].level = l + 1 - i
  BY PromotingNow DEF SparesOK, Used
<1> HIDE DEF sp, l
<1>2. DOMAIN sp = 1..(l + 1) /\ sp # << >> /\ 1 \in DOMAIN sp
  BY <1>1
<1>3. Head(sp) = sp[1] /\ sp[1] \in Used
  BY <1>1, <1>2
<1>4. node[sp[1]].level = l
  BY <1>1, <1>2
<1>5. Head(sp) \in Raw(t)
  BY <1>2, <1>3 DEF Raw, RawOf, sp
<1>6. Tail(sp) \in Seq(Used) /\ Len(Tail(sp)) = Len(sp) - 1
      /\ \A i \in 1..Len(Tail(sp)) : Tail(sp)[i] = sp[i + 1]
  BY <1>1, <1>2, HeadTailProperties
<1> DEFINE q == Tail(sp)
<1>7. q \in Seq(Used) /\ Len(q) = l /\ \A i \in 1..l : q[i] = sp[i + 1]
  <2>1. q \in Seq(Used) /\ Len(q) = Len(sp) - 1 /\ \A i \in 1..Len(q) : q[i] = sp[i + 1]
    BY <1>6
  <2> HIDE DEF q
  <2> QED  BY <1>1, <2>1
<1> HIDE DEF q
<1>8. \A i \in 1..l : i + 1 \in DOMAIN sp /\ node[q[i]].level = l - i
  <2> TAKE i \in 1..l
  <2>1. i + 1 \in DOMAIN sp /\ l + 1 - (i + 1) = l - i
    BY <1>1, <1>2
  <2>2. node[sp[i + 1]].level = l + 1 - (i + 1)
    BY <1>1, <2>1
  <2> QED  BY <1>7, <2>1, <2>2
<1> QED  BY <1>1, <1>2, <1>3, <1>4, <1>5, <1>7, <1>8 DEF q, sp, l

\* The current node is locked and has slots; the first of the others is raw.
LEMMA PromoteNow ==
    ASSUME IInv, NEW t \in Threads, pc[t] \in {"right", "promote_next"}
    PROVE  LET n == Curr(t)
               m == Head(reg[t].spare)
           IN  /\ Locks(t) = {n} \cup Raw(t) /\ n \notin Raw(t) /\ n # m /\ m \in Raw(t)
               /\ Draining(t) = {} /\ Reads(t) = {} /\ pc[t] # "idle"
               /\ n \in Used /\ m \in Used /\ n \in Nodes /\ m \in Nodes
               /\ node[n].level = reg[t].level /\ node[m].level = reg[t].level
               /\ reg[t].level \in Nat
               /\ NodeOK(node, used, n) /\ SlotsOK(node, used, reg[t].level, node[n].slots)
               /\ node[n].slots \in Seq(Slots) /\ Len(node[n].slots) > 0
               /\ m # NoNode /\ n # NoNode
<1> DEFINE n == Curr(t)
           m == Head(reg[t].spare)
<1>1. pc[t] \in Promoting
  OBVIOUS
<1>2. m \in Raw(t) /\ m \in Used /\ node[m].level = reg[t].level
  BY <1>1, SparesNow
<1>3. PromotingOK(pc[t], reg[t], node, used) /\ n \in Used /\ node[n].level = reg[t].level
      /\ reg[t].level \in Nat /\ Reads(t) = {}
  BY <1>1, PromotingNow
<1>4. n \notin Raw(t)
  BY <1>3 DEF PromotingOK, Curr, Raw
<1>5. Locks(t) = {n} \cup Raw(t) /\ Draining(t) = {}
  BY <1>3, LocksNow DEF Locks, LocksOf, Raw, Draining, DrainOf, Curr
<1>6. n \in Locks(t)
  BY <1>5
<1>7. n \in Nodes /\ NodeOK(node, used, n) /\ SlotsOK(node, used, node[n].level, node[n].slots)
      /\ node[n].slots \in Seq(Slots) /\ Len(node[n].slots) > 0
  BY <1>4, <1>6, Held
<1>8. m \in Nodes /\ m # NoNode /\ n # NoNode
  BY <1>2, <1>3, UsedNodes, LocksNow DEF IInv
<1> QED  BY <1>2, <1>3, <1>4, <1>5, <1>7, <1>8

\* The value of the key's slot: a chain at the leaf, else the node below.
LEMMA NewValOK ==
    ASSUME IInv, NEW t \in Threads, pc[t] \in Promoting
    PROVE  ValOK(node, used, reg[t].level, NewVal(t, Tail(reg[t].spare)))
<1> DEFINE l == reg[t].level
           q == Tail(reg[t].spare)
<1>1. l \in Nat /\ q \in Seq(Used) /\ Len(q) = l /\ \A i \in 1..l : node[q[i]].level = l - i
  BY PromotingNow, SparesNow
<1> HIDE DEF q, l
<1>2. CASE l = 0
  <2>1. q = << >>
    BY <1>1, <1>2
  <2>2. NewVal(t, q) = <<t>> /\ <<t>> \in Seq(Threads)
    BY <2>1 DEF NewVal
  <2> QED  BY <1>2, <2>2 DEF ValOK, q, l
<1>3. CASE l # 0
  <2>1. q # << >> /\ Head(q) = q[1] /\ q[1] \in Used /\ 1 \in 1..l
    BY <1>1, <1>3
  <2>2. node[q[1]].level = l - 1
    BY <1>1, <2>1
  <2>3. NewVal(t, q) = q[1]
    BY <2>1 DEF NewVal
  <2> QED  BY <1>3, <2>1, <2>2, <2>3 DEF ValOK, q, l, Used
<1> QED  BY <1>2, <1>3

LEMMA PromotedNow ==
    ASSUME IInv, NEW t \in Threads, pc[t] = "right"
    PROVE  LET n == Curr(t)
               m == Head(reg[t].spare)
               nd == Promoted(t)
           IN  /\ Touches(nd, {m, n}) /\ NodeWritten(nd, m) /\ NodeWritten(nd, n)
               /\ nd[m].slots # << >> /\ nd[n].slots # << >>
<1> DEFINE n == Curr(t)
           m == Head(reg[t].spare)
           s == node[n].slots
           k == Rank(s, Key(t))
           v == NewVal(t, Tail(reg[t].spare))
           l == reg[t].level
           a == SubSeq(s, 1, k)
           b == SubSeq(s, k + 1, Len(s))
           e == <<Slot(Key(t), v)>>
           c == e \o b
           nd == Promoted(t)
<1>1. /\ n # m /\ n \in Nodes /\ m \in Nodes
      /\ node[n].level = l /\ node[m].level = l /\ l \in Nat
      /\ NodeOK(node, used, n) /\ SlotsOK(node, used, l, s)
      /\ s \in Seq(Slots) /\ Len(s) > 0
  BY PromoteNow
<1>2. used \in Nat /\ Key(t) \in Nat /\ pc[t] \in Promoting
  BY CallNow DEF IInv, TypeOK
<1>3. k \in 1..Len(s)
  BY <1>1, RankIn
<1>4. ValOK(node, used, l, v)
  BY <1>2, NewValOK
<1>5. nd = [node EXCEPT ![m].slots = c, ![m].next = node[n].next,
                        ![m].next_header = node[n].next_header,
                        ![n].slots = a, ![n].next_header = Key(t)]
  BY DEF Promoted
<1> HIDE DEF nd, n, m, v, l, k
<1>6. SlotsOK(node, used, l, a) /\ a # << >>
  <2>1. k \in Nat /\ 1 <= k + 1 /\ k <= Len(s) /\ k > 0
    BY <1>1, <1>3
  <2>2. SlotsOK(node, used, l, a) /\ Len(a) = k + 1 - 1
    BY <1>1, <2>1, SlotsPart
  <2> HIDE DEF a
  <2> QED  BY <2>1, <2>2
<1>7. SlotsOK(node, used, l, b)
  <2>1. k + 1 \in Nat /\ 1 <= k + 1 /\ k + 1 <= Len(s) + 1 /\ Len(s) <= Len(s) /\ Len(s) \in Nat
    BY <1>1, <1>3
  <2> QED  BY <1>1, <2>1, SlotsPart
<1>8. SlotsOK(node, used, l, c) /\ c # << >>
  <2>1. SlotsOK(node, used, l, e) /\ Len(e) = 1
    BY <1>2, <1>4, SlotsOne
  <2> HIDE DEF e, b
  <2>2. SlotsOK(node, used, l, c) /\ Len(c) = Len(e) + Len(b)
    <3>1. SlotsOK(node, used, l, e)
      BY <2>1
    <3>2. SlotsOK(node, used, l, b)
      BY <1>7
    <3> QED  BY <3>1, <3>2, SlotsJoin
  <2>3. Len(b) \in Nat
    BY <1>7 DEF SlotsOK
  <2> HIDE DEF c
  <2> QED  BY <2>1, <2>2, <2>3
<1> HIDE DEF a, c
<1>9. Touches(nd, {m, n}) /\ nd[m].slots = c /\ nd[n].slots = a
      /\ nd[m].next = node[n].next /\ nd[n].next = node[n].next
  <2> DEFINE nd1 == [node EXCEPT ![m].slots = c, ![m].next = node[n].next,
                                 ![m].next_header = node[n].next_header]
             k2 == Key(t)
             nd2 == [nd1 EXCEPT ![n].slots = a, ![n].next_header = k2]
  <2>1. nd = nd2
    BY <1>5
  <2> HIDE DEF k2
  <2>2. Touches(nd1, {m}) /\ nd1[m].slots = c /\ nd1[m].next = node[n].next
    BY <1>1 DEF Touches, IInv, TypeOK, NodeFields
  <2> HIDE DEF nd1
  <2>3. Touches(nd2, {m, n}) /\ nd2[m].slots = c /\ nd2[m].next = node[n].next
        /\ nd2[n].slots = a /\ nd2[n].next = nd1[n].next
    BY <1>1, <2>2 DEF Touches, NodeFields
  <2>4. nd1[n].next = node[n].next
    BY <1>1, <2>2 DEF Touches
  <2> QED  BY <2>1, <2>3, <2>4
<1>10. NodeWritten(nd, m) /\ NodeWritten(nd, n)
  BY <1>1, <1>6, <1>8, <1>9 DEF NodeWritten, NodeOK, At
<1> QED  BY <1>6, <1>8, <1>9, <1>10 DEF nd, n, m

LEMMA SparesMoved ==
    ASSUME NEW r, NEW nd, NEW nd2, NEW us \in Nat, SparesOK(r, nd, us),
           \A n \in 1..us : nd2[n].level = nd[n].level
    PROVE  SparesOK(r, nd2, us)
<1>1. \A i \in DOMAIN r.spare : r.spare[i] \in 1..us
  BY DEF SparesOK
<1> QED  BY <1>1 DEF SparesOK

LEMMA PromoteLeafKeeps ==
    ASSUME IInv, NEW t \in Threads, PromoteLeaf(t) PROVE Kept(t)
<1> DEFINE n == Curr(t)
           m == Head(reg[t].spare)
           nd1 == Promoted(t)
           nd == [nd1 EXCEPT ![n].next = m]
<1>1. pc[t] = "right" /\ reg[t].level = 0 /\ UNCHANGED used /\ Return(t)
      /\ node' = WriteUnlocked(nd, {m, n}) /\ pc[t] \in Promoting
  BY DEF PromoteLeaf, Done
<1>2. /\ Touches(nd1, {m, n}) /\ NodeWritten(nd1, m) /\ NodeWritten(nd1, n)
      /\ nd1[m].slots # << >> /\ nd1[n].slots # << >>
  BY <1>1, PromotedNow
<1>3. /\ Locks(t) = {n} \cup Raw(t) /\ n # m /\ m \in Raw(t) /\ Draining(t) = {} /\ Reads(t) = {}
      /\ n \in Used /\ m \in Used /\ n \in Nodes /\ m \in Nodes
      /\ node[n].level = reg[t].level /\ node[m].level = reg[t].level
  BY <1>1, PromoteNow
<1>4. Raw(t) = {m}
  <2>1. m = reg[t].spare[1] /\ reg[t].spare \in Seq(Used)
    BY <1>1, SparesNow
  <2>3. Len(reg[t].spare) = 1
    <3>1. SparesOK(reg[t], node, used)
      BY <1>1, PromotingNow
    <3>2. Len(reg[t].spare) = reg[t].level + 1
      BY <3>1 DEF SparesOK
    <3> QED  BY <1>1, <3>2
  <2>2. DOMAIN reg[t].spare = {1}
    BY <2>1, <2>3
  <2> QED  BY <2>1, <2>2 DEF Raw, RawOf
<1> HIDE DEF n, m, nd1
<1>5. Touches(nd, {m, n}) /\ nd[m].slots = nd1[m].slots /\ nd[n].slots = nd1[n].slots
      /\ nd[m].next = nd1[m].next /\ nd[n].next = m
  BY <1>2, <1>3 DEF Touches, NodeFields
<1> HIDE DEF nd
<1>6. NodeWritten(nd, m) /\ NodeWritten(nd, n)
  BY <1>2, <1>3, <1>5 DEF NodeWritten, At, Used
<1>7. Edited(t, nd, used)
  <2>1. {m, n} \subseteq Locks(t)
    BY <1>3
  <2> QED  BY <1>5, <1>6, <2>1, EditedBy
<1>8. Rewrote(nd, {m, n})
  BY <1>1, <1>5, RewroteUnlock DEF Touches
<1>9. {m, n} \cap Used = Locks(t)
  BY <1>3, <1>4
<1>10. \A x \in Used : nd[x].slots = << >> => x \notin Raw(t) /\ node[x].slots = << >>
  BY <1>2, <1>4, <1>5, UsedNodes DEF Touches, IInv
<1> QED  BY <1>1, <1>3, <1>7, <1>8, <1>9, <1>10, WriteReturn

LEMMA PromoteKeeps ==
    ASSUME IInv, NEW t \in Threads, Promote(t) PROVE Kept(t)
<1> DEFINE n == Curr(t)
           m == Head(reg[t].spare)
           nd == Promoted(t)
<1>1. pc[t] = "right" /\ reg[t].level > 0 /\ UNCHANGED <<used, callVars>> /\ node' = nd
      /\ Moved(t, "promote_next", reg[t]) /\ pc[t] \in Promoting
  BY MovedSame DEF Promote, IInv
<1>2. /\ Touches(nd, {m, n}) /\ NodeWritten(nd, m) /\ NodeWritten(nd, n)
      /\ nd[m].slots # << >> /\ nd[n].slots # << >>
  BY <1>1, PromotedNow
<1>3. /\ Locks(t) = {n} \cup Raw(t) /\ m \in Raw(t) /\ Draining(t) = {} /\ Reads(t) = {}
      /\ n \in Used /\ pc[t] # "idle" /\ n # NoNode
  BY <1>1, PromoteNow
<1>4. PromotingOK("right", reg[t], node, used) /\ SparesOK(reg[t], node, used)
  BY <1>1, PromotingNow
<1> HIDE DEF nd
<1>5. \A x \in 1..used : nd[x].level = node[x].level
  BY <1>2, UsedNodes DEF Touches, IInv, Used
<1>6. SparesOK(reg[t], nd, used)
  <2> DEFINE r == reg[t]
  <2>1. SparesOK(r, node, used) /\ used \in Nat
    BY <1>4 DEF IInv, TypeOK
  <2> HIDE DEF r
  <2>2. SparesOK(r, nd, used)
    BY <1>5, <2>1, SparesMoved
  <2> QED  BY <2>2 DEF r
<1>7. PromotingOK("promote_next", reg[t], nd, used)
  BY <1>1, <1>2, <1>4, <1>5, <1>6 DEF PromotingOK, At
<1>8. RegsOK("promote_next", reg[t], call[t], nd, used)
  BY <1>7 DEF RegsOK
<1>9. LocksOf("promote_next", reg[t]) = Locks(t) \ {} /\ ReadsOf("promote_next", reg[t]) = {}
  BY <1>3, LocksNow DEF LocksOf, ReadsOf, Curr, Raw
<1>10. Rewrote(nd, {})
  BY <1>1, <1>2, RewroteSame DEF Touches
<1>11. {} \subseteq Locks(t) /\ {m, n} \subseteq Locks(t) /\ "promote_next" \in Labels \ {"idle"}
       /\ \A x \in Raw(t) \ {m, n} : x \in RawOf(reg[t])
  BY <1>3 DEF Raw
<1>12. \A x \in {m, n} : NodeWritten(nd, x) /\ nd[x].slots # << >>
  BY <1>2
<1> HIDE DEF n, m
<1> QED  BY <1>1, <1>2, <1>3, <1>8, <1>9, <1>10, <1>11, <1>12, RegsNow, TouchStep

LEMMA PromoteNextKeeps ==
    ASSUME IInv, NEW t \in Threads, PromoteNext(t) PROVE Kept(t)
<1> DEFINE n == Curr(t)
           m == Head(reg[t].spare)
           nd == [node EXCEPT ![n].next = m]
           l == reg[t].level
           child == Last(node[n].slots).val
           q == Tail(reg[t].spare)
           r == [reg[t] EXCEPT !.prev = n, !.curr = child, !.spare = q, !.level = l - 1]
<1>1. pc[t] = "promote_next" /\ UNCHANGED <<used, callVars>> /\ pc[t] \in Promoting
      /\ node' = WriteUnlocked(nd, {m})
  BY DEF PromoteNext
<1>2. Moved(t, "lock_child", r)
  <2>1. Locals(t, r) /\ Goto(t, "lock_child")
    BY DEF PromoteNext
  <2> HIDE DEF r
  <2> QED  BY <2>1, MovedLocals DEF IInv
<1>3. /\ Locks(t) = {n} \cup Raw(t) /\ n \notin Raw(t) /\ n # m /\ m \in Raw(t)
      /\ Draining(t) = {} /\ Reads(t) = {} /\ pc[t] # "idle"
      /\ n \in Used /\ m \in Used /\ n \in Nodes /\ m \in Nodes
      /\ node[n].level = l /\ node[m].level = l /\ l \in Nat
      /\ NodeOK(node, used, n) /\ SlotsOK(node, used, l, node[n].slots)
      /\ node[n].slots \in Seq(Slots) /\ Len(node[n].slots) > 0
      /\ m # NoNode /\ n # NoNode
  BY <1>1, PromoteNow
<1>4. /\ reg[t].spare \in Seq(Used) /\ m = reg[t].spare[1] /\ 1 \in DOMAIN reg[t].spare
      /\ q \in Seq(Used) /\ Len(q) = l
      /\ (\A i \in 1..l : i + 1 \in DOMAIN reg[t].spare /\ q[i] = reg[t].spare[i + 1])
      /\ (\A i \in 1..l : node[q[i]].level = l - i)
  BY <1>1, SparesNow
<1>5. l > 0 /\ node[m].slots # << >> /\ PromotingOK("promote_next", reg[t], node, used)
  BY <1>1, PromotingNow DEF PromotingOK
<1>6. \A i, j \in DOMAIN reg[t].spare : reg[t].spare[i] = reg[t].spare[j] => i = j
  BY <1>5 DEF PromotingOK, SparesOK
<1>7. At(node, used, child, l - 1)
  <2>1. Len(node[n].slots) \in DOMAIN node[n].slots /\ l # 0
    BY <1>3, <1>5
  <2>2. At(node, used, node[n].slots[Len(node[n].slots)].val, l - 1)
    BY <1>3, <2>1, ValAt
  <2> QED  BY <2>2 DEF Last
<1>8. DOMAIN r = RegFields /\ r.prev = n /\ r.curr = child /\ r.spare = q /\ r.level = l - 1
  BY RegsNow DEF RegFields
<1>9. Touches(nd, {m, n}) /\ nd[m].slots = node[m].slots /\ nd[n].slots = node[n].slots
      /\ nd[m].next = node[m].next /\ nd[n].next = m
  <2> HIDE DEF n, m
  <2> QED  BY <1>3 DEF Touches, NodeFields, IInv, TypeOK
<1>10. Raw(t) = {m} \cup RawOf(r) /\ m \notin RawOf(r) /\ RawOf(r) = {q[i] : i \in 1..l}
  <2> DEFINE sp == reg[t].spare
  <2>1. DOMAIN q = 1..l
    BY <1>3, <1>4
  <2>2. RawOf(r) = {q[i] : i \in 1..l}
    BY <1>8, <2>1 DEF RawOf
  <2>3. DOMAIN sp = 1..(l + 1)
    BY <1>1, <1>3, PromotingNow DEF SparesOK
  <2> HIDE DEF q, r, m, sp, l
  <2>4. Raw(t) = {sp[i] : i \in 1..(l + 1)}
    BY <2>3 DEF Raw, RawOf, sp
  <2>5. m = sp[1] /\ (\A i \in 1..l : q[i] = sp[i + 1])
    BY <1>4 DEF sp
  <2>6. \A j \in 2..(l + 1) : j - 1 \in 1..l /\ sp[j] = q[j - 1]
    <3> TAKE j \in 2..(l + 1)
    <3>1. j - 1 \in 1..l /\ (j - 1) + 1 = j
      BY <1>3
    <3> QED  BY <2>5, <3>1
  <2>7. \A i \in 1..l : i + 1 \in 1..(l + 1) /\ i + 1 # 1
    BY <1>3
  <2>8. Raw(t) \subseteq {m} \cup RawOf(r)
    BY <1>3, <2>2, <2>4, <2>5, <2>6
  <2>9. {m} \cup RawOf(r) \subseteq Raw(t)
    BY <1>3, <2>2, <2>4, <2>5, <2>7
  <2>10. m \notin RawOf(r)
    <3> SUFFICES ASSUME NEW i \in 1..l, m = q[i] PROVE FALSE
      BY <2>2
    <3>1. sp[1] = sp[i + 1] /\ 1 \in DOMAIN sp /\ i + 1 \in DOMAIN sp /\ i + 1 # 1
      <4>1. 1 \in 1..(l + 1)
        BY <1>3 DEF l
      <4> QED  BY <2>3, <2>5, <2>7, <4>1
    <3> QED  BY <1>6, <3>1 DEF sp
  <2> QED  BY <2>2, <2>8, <2>9, <2>10
<1>11. SparesOK(r, node, used)
  <2>1. r.spare \in Seq(1..used) /\ Len(r.spare) = r.level + 1 /\ r.level \in Nat
    BY <1>3, <1>4, <1>5, <1>8 DEF Used
  <2>2. DOMAIN q = 1..l
    BY <1>3, <1>4
  <2>3. \A i \in DOMAIN q : node[q[i]].level = (l - 1) + 1 - i
    <3>1. l \in Nat /\ DOMAIN q = 1..l /\ (\A i \in 1..l : node[q[i]].level = l - i)
      BY <1>3, <1>4, <2>2
    <3> HIDE DEF l, q
    <3>2. \A i \in 1..l : (l - 1) + 1 - i = l - i
      BY <3>1
    <3> QED  BY <3>1, <3>2
  <2>4. \A i, j \in DOMAIN q : q[i] = q[j] => i = j
    <3> DEFINE sp == reg[t].spare
    <3> HIDE DEF q, l
    <3>1. SUFFICES ASSUME NEW i \in 1..l, NEW j \in 1..l, q[i] = q[j] PROVE i = j
      BY <2>2
    <3>2. i + 1 \in DOMAIN sp /\ j + 1 \in DOMAIN sp /\ sp[i + 1] = sp[j + 1]
      BY <1>4, <3>1
    <3>3. i + 1 = j + 1
      BY <1>6, <3>2
    <3> QED  BY <1>3, <3>3
  <2> HIDE DEF r, q
  <2> QED  BY <1>8, <2>1, <2>3, <2>4 DEF SparesOK
<1>12. n \notin RawOf(r)
  BY <1>3, <1>10
<1> HIDE DEF r, q, child, n, m, l
<1>13. PromotingOK("lock_child", r, node, used)
  BY <1>3, <1>7, <1>8, <1>11, <1>12 DEF PromotingOK, Used
<1>14. LocksOf("lock_child", r) = Locks(t) \ {m} /\ ReadsOf("lock_child", r) = {}
  BY <1>3, <1>8, <1>10, LocksNow DEF LocksOf, ReadsOf
<1>15. RegsOK("lock_child", r, call[t], nd, used)
  <2>1. \A x \in 1..used : nd[x].level = node[x].level
    BY <1>9, UsedNodes DEF Touches, IInv, Used
  <2>2. SparesOK(r, nd, used)
    <3>1. used \in Nat
      BY DEF IInv, TypeOK
    <3> QED  BY <1>11, <2>1, <3>1, SparesMoved
  <2>3. PromotingOK("lock_child", r, nd, used)
    BY <1>13, <2>1, <2>2 DEF PromotingOK, At
  <2> QED  BY <2>3 DEF RegsOK
<1> HIDE DEF nd
<1>16. NodeWritten(nd, m) /\ NodeWritten(nd, n)
  <2>1. NodeOK(node, used, m)
    BY <1>3 DEF IInv, ShapeInv
  <2> QED  BY <1>3, <1>9, <2>1 DEF NodeWritten, NodeOK, At, Used
<1>17. \A x \in {m, n} : NodeWritten(nd, x) /\ nd[x].slots # << >>
  BY <1>3, <1>5, <1>9, <1>16
<1>18. Rewrote(nd, {m})
  BY <1>1, <1>9, RewroteUnlock DEF Touches
<1>19. {m} \subseteq Locks(t) /\ {m, n} \subseteq Locks(t) /\ "lock_child" \in Labels \ {"idle"}
       /\ \A x \in Raw(t) \ {m, n} : x \in RawOf(r)
  BY <1>3, <1>10
<1> QED  BY <1>1, <1>2, <1>3, <1>8, <1>9, <1>14, <1>15, <1>17, <1>18, <1>19, TouchStep

----------------------------------------------------------------------------
(* Insertion writes: a slot, and the nodes it needs below.                 *)

LEMMA NewNodesSeq ==
    ASSUME used \in Nat, NEW l \in Nat
    PROVE  /\ NewNodes(l) \in Seq((used + 1)..(used + l)) /\ Len(NewNodes(l)) = l
           /\ DOMAIN NewNodes(l) = 1..l /\ \A i \in 1..l : NewNodes(l)[i] = used + i
<1>1. \A i \in 1..l : used + i \in (used + 1)..(used + l)
  OBVIOUS
<1>2. NewNodes(l) \in [1..l -> (used + 1)..(used + l)]
  BY <1>1 DEF NewNodes
<1>3. NewNodes(l) \in Seq((used + 1)..(used + l))
  BY <1>2, SeqDef
<1>4. DOMAIN NewNodes(l) = 1..l /\ \A i \in 1..l : NewNodes(l)[i] = used + i
  BY DEF NewNodes
<1>5. Len(NewNodes(l)) = l
  BY <1>3, <1>4
<1> QED  BY <1>3, <1>4, <1>5

\* nd has l new nodes, and the slots that node has.
Grown(t, l, nd) ==
    /\ DOMAIN nd = Nodes
    /\ Edited(t, nd, used + l)
    /\ \A n \in Used : nd[n].slots = node[n].slots
    /\ \A n \in (used + 1)..(used + l) : nd[n].level = l - (n - used)

LEMMA EmptyFields ==
    ASSUME NEW l, NEW t
    PROVE  LET e == [EmptyNode(l) EXCEPT !.writer = t]
           IN  /\ DOMAIN e = NodeFields /\ e.level = l /\ e.slots = << >> /\ e.next = NoNode
               /\ e.writer = t /\ e.readers = 0
BY DEF EmptyNode, NodeFields

LEMMA GrownNow ==
    ASSUME IInv, NEW t \in Threads, NEW l \in Nat, used + l <= NodeCnt
    PROVE  Grown(t, l, WithNewNodes(t, l))
<1> DEFINE nd == WithNewNodes(t, l)
           us == used + l
<1>1. used \in Nat /\ us \in Nat /\ used <= us /\ us <= NodeCnt /\ NodeCnt \in Nat
      /\ 1..us \subseteq Nodes /\ Used \subseteq Nodes
  BY SizeAssumption, UsedNodes DEF IInv, TypeOK, Nodes
<1>2. DOMAIN nd = Nodes
  BY DEF WithNewNodes
<1>3. ASSUME NEW n \in Nodes, n \notin (used + 1)..us PROVE nd[n] = node[n]
  BY <1>3 DEF WithNewNodes
<1>4. ASSUME NEW n \in (used + 1)..us
      PROVE  /\ DOMAIN nd[n] = NodeFields /\ nd[n].level = l - (n - used)
             /\ nd[n].slots = << >> /\ nd[n].next = NoNode
             /\ nd[n].writer = t /\ nd[n].readers = 0
  <2>1. n \in Nodes
    BY <1>1
  <2>2. nd[n] = [EmptyNode(l - (n - used)) EXCEPT !.writer = t]
    BY <1>4, <2>1 DEF WithNewNodes
  <2> QED  BY <2>2, EmptyFields
<1>5. \A n \in Used : n \in Nodes /\ n \notin (used + 1)..us
  BY <1>1 DEF Used
<1>6. \A n \in Used : nd[n] = node[n]
  BY <1>3, <1>5
<1>7. \A n \in Nodes : DOMAIN nd[n] = NodeFields
  BY <1>3, <1>4 DEF IInv, TypeOK
<1> HIDE DEF nd
<1>8. ASSUME NEW n \in 1..us PROVE NodeOK(nd, us, n)
  <2>1. CASE n \in Used
    <3>1. \A m \in 1..used : nd[m].level = node[m].level
      BY <1>6 DEF Used
    <3>2. NodeOK(node, used, n) /\ nd[n].slots = node[n].slots /\ nd[n].next = node[n].next
      BY <1>6, <2>1 DEF IInv, ShapeInv
    <3> QED  BY <1>1, <2>1, <3>1, <3>2, NodeMoved DEF Used
  <2>2. CASE n \notin Used
    <3>1. n \in (used + 1)..us
      BY <1>1, <2>2 DEF Used
    <3>2. nd[n].level \in Nat
      BY <1>1, <1>4, <3>1
    <3>3. SlotsOK(nd, us, nd[n].level, << >>)
      BY DEF SlotsOK
    <3> QED  BY <1>4, <3>1, <3>2, <3>3 DEF NodeOK
  <2> QED  BY <2>1, <2>2
<1>9. Edited(t, nd, us)
  BY <1>1, <1>4, <1>6, <1>7, <1>8 DEF Edited
<1> QED  BY <1>2, <1>4, <1>6, <1>9 DEF Grown, nd

\* The link to the new right half.
LEMMA GrownLinked ==
    ASSUME IInv, NEW t \in Threads, NEW l \in Nat, NEW nd0, Grown(t, l, nd0),
           NEW n \in Locks(t), NEW m \in Used, node[m].level = node[n].level
    PROVE  Grown(t, l, [nd0 EXCEPT ![n].next = m])
<1> DEFINE nd == [nd0 EXCEPT ![n].next = m]
           us == used + l
<1>1. n \in Used /\ n \in Nodes /\ used \in Nat /\ us \in Nat /\ used <= us
  BY LocksNow, UsedNodes DEF IInv, TypeOK
<1>2. DOMAIN nd0 = Nodes /\ Edited(t, nd0, us) /\ (\A x \in Nodes : DOMAIN nd0[x] = NodeFields)
      /\ 1..us \subseteq Nodes
  BY SizeAssumption DEF Grown, Edited, Nodes
<1>3. /\ DOMAIN nd = Nodes
      /\ \A x \in Nodes :
            /\ DOMAIN nd[x] = NodeFields /\ nd[x].level = nd0[x].level
            /\ nd[x].slots = nd0[x].slots /\ nd[x].next_header = nd0[x].next_header
            /\ nd[x].writer = nd0[x].writer /\ nd[x].readers = nd0[x].readers
            /\ nd[x].next = IF x = n THEN m ELSE nd0[x].next
  BY <1>1, <1>2 DEF NodeFields
<1> HIDE DEF nd
<1>4. \A x \in 1..us : nd[x].level = nd0[x].level /\ nd[x].slots = nd0[x].slots
  BY <1>2, <1>3
<1>5. nd0[n].level = node[n].level /\ nd0[m].level = node[m].level /\ m \in 1..us /\ n \in 1..us
  BY <1>1, <1>2 DEF Edited, Used
<1>6. ASSUME NEW x \in 1..us PROVE NodeOK(nd, us, x)
  <2>1. NodeOK(nd0, us, x)
    BY <1>2 DEF Edited
  <2>2. CASE x # n
    <3>1. nd[x].slots = nd0[x].slots /\ nd[x].next = nd0[x].next /\ us <= us
      BY <1>1, <1>2, <1>3, <2>2
    <3> QED  BY <1>1, <1>4, <2>1, <3>1, NodeMoved
  <2>3. CASE x = n
    <3> DEFINE q == nd0[n].slots
               k == nd0[n].level
    <3>1. SlotsOK(nd0, us, k, q) /\ k \in Nat /\ us <= us
      BY <1>1, <2>1, <2>3 DEF NodeOK
    <3>2. SlotsOK(nd, us, k, q)
      <4> HIDE DEF k, q
      <4> QED  BY <1>1, <1>4, <3>1, SlotsMoved
    <3>3. nd[n].level = k /\ nd[n].slots = q /\ nd[n].next = m /\ nd[m].level = k
      BY <1>1, <1>3, <1>4, <1>5
    <3> QED  BY <1>5, <2>3, <3>1, <3>2, <3>3 DEF NodeOK
  <2> QED  BY <2>2, <2>3
<1>7. \A x \in Used : x \in Nodes
  BY UsedNodes DEF IInv
<1>8. Edited(t, nd, us)
  <2>1. \A x \in Nodes : DOMAIN nd[x] = NodeFields
    BY <1>3
  <2>2. \A x \in Used : /\ nd[x].level = node[x].level
                        /\ nd[x].writer = node[x].writer /\ nd[x].readers = node[x].readers
    BY <1>2, <1>3, <1>7 DEF Edited
  <2>3. \A x \in Used \ Locks(t) : nd[x].slots = node[x].slots /\ nd[x].next = node[x].next
                                   /\ nd[x].next_header = node[x].next_header
    BY <1>2, <1>3, <1>7 DEF Edited
  <2>4. \A x \in (used + 1)..us : nd[x].writer = t /\ nd[x].readers = 0
    <3>1. \A x \in (used + 1)..us : x \in Nodes
      BY <1>1, <1>2
    <3> QED  BY <1>2, <1>3, <3>1 DEF Edited
  <2> QED  BY <1>1, <1>2, <1>6, <2>1, <2>2, <2>3, <2>4 DEF Edited
<1>9. \A x \in Used : nd[x].slots = node[x].slots
  BY <1>3, <1>7 DEF Grown
<1>10. \A x \in (used + 1)..us : nd[x].level = l - (x - used)
  <2>1. \A x \in (used + 1)..us : x \in Nodes
    BY <1>1, <1>2
  <2> QED  BY <1>3, <2>1 DEF Grown
<1> QED  BY <1>3, <1>8, <1>9, <1>10 DEF Grown, nd

\* The slot itself.
WithSlot(t, n, l, nd) ==
    [nd EXCEPT ![n].slots = Inserted(nd[n].slots, Key(t), NewVal(t, NewNodes(l)))]

LEMMA GrownSlot ==
    ASSUME IInv, NEW t \in Threads, pc[t] # "idle", NEW l \in Nat, NEW nd, Grown(t, l, nd),
           NEW n \in Locks(t), n \notin Raw(t), node[n].level = l
    PROVE  /\ Edited(t, WithSlot(t, n, l, nd), used + l)
           /\ \A x \in Nodes : DOMAIN WithSlot(t, n, l, nd)[x] = NodeFields
           /\ \A x \in 1..(used + l) : WithSlot(t, n, l, nd)[x].level = nd[x].level
           /\ WithSlot(t, n, l, nd)[n].slots # << >>
           /\ \A x \in Used : x # n => WithSlot(t, n, l, nd)[x].slots = node[x].slots
<1> DEFINE us == used + l
           s == nd[n].slots
           v == NewVal(t, NewNodes(l))
           q == Inserted(s, Key(t), v)
           with == [nd EXCEPT ![n].slots = q]
<1>1. used \in Nat /\ us \in Nat /\ used <= us /\ n \in Used /\ n \in Nodes /\ Key(t) \in Nat
  BY LocksNow, UsedNodes, CallNow DEF IInv, TypeOK
<1>2. DOMAIN nd = Nodes /\ Edited(t, nd, us) /\ (\A x \in Nodes : DOMAIN nd[x] = NodeFields)
      /\ 1..us \subseteq Nodes /\ n \in 1..us
  BY <1>1, SizeAssumption DEF Grown, Edited, Nodes, Used
<1>3. s = node[n].slots /\ Len(s) > 0 /\ nd[n].level = l
  BY <1>1, <1>2, Held DEF Grown, Edited
<1>4. NodeOK(nd, us, n)
  BY <1>2 DEF Edited
<1>5. SlotsOK(nd, us, l, s)
  BY <1>3, <1>4 DEF NodeOK
<1>6. ValOK(nd, us, l, v)
  <2> DEFINE sp == NewNodes(l)
  <2>1. sp \in Seq((used + 1)..us) /\ Len(sp) = l /\ \A i \in 1..l : sp[i] = used + i
    BY <1>1, NewNodesSeq
  <2> HIDE DEF sp
  <2>2. CASE l = 0
    <3>1. sp = << >>
      BY <2>1, <2>2
    <3>2. NewVal(t, sp) = <<t>> /\ <<t>> \in Seq(Threads)
      BY <3>1 DEF NewVal
    <3> QED  BY <2>2, <3>2 DEF ValOK, sp
  <2>3. CASE l # 0
    <3>1. sp # << >> /\ Head(sp) = used + 1
      BY <2>1, <2>3
    <3>2. NewVal(t, sp) = used + 1
      BY <3>1 DEF NewVal
    <3>3. used + 1 \in (used + 1)..us /\ used + 1 \in 1..us /\ l - ((used + 1) - used) = l - 1
      BY <1>1, <2>3
    <3>4. nd[used + 1].level = l - 1
      BY <3>3 DEF Grown
    <3> QED  BY <2>3, <3>2, <3>3, <3>4 DEF ValOK, sp
  <2> QED  BY <2>2, <2>3
<1> HIDE DEF v
<1>7. SlotsOK(nd, us, l, q) /\ Len(q) > 0
  <2> HIDE DEF s, us
  <2> QED  BY <1>1, <1>3, <1>5, <1>6, SlotsInserted
<1>8. q # << >>
  <2> HIDE DEF q
  <2> QED  BY <1>7
<1> HIDE DEF q, s
<1>9. /\ DOMAIN with = Nodes
      /\ \A x \in Nodes :
            /\ DOMAIN with[x] = NodeFields /\ with[x].level = nd[x].level
            /\ with[x].next = nd[x].next /\ with[x].next_header = nd[x].next_header
            /\ with[x].writer = nd[x].writer /\ with[x].readers = nd[x].readers
            /\ with[x].slots = IF x = n THEN q ELSE nd[x].slots
  BY <1>1, <1>2 DEF NodeFields
<1> HIDE DEF with
<1>10. \A x \in 1..us : with[x].level = nd[x].level
  BY <1>2, <1>9
<1>11. ASSUME NEW x \in 1..us PROVE NodeOK(with, us, x)
  <2>1. NodeOK(nd, us, x)
    BY <1>2 DEF Edited
  <2>2. CASE x # n
    <3>1. with[x].slots = nd[x].slots /\ with[x].next = nd[x].next /\ us <= us
      BY <1>1, <1>2, <1>9, <2>2
    <3> QED  BY <1>1, <1>10, <2>1, <3>1, NodeMoved
  <2>3. CASE x = n
    <3>1. SlotsOK(with, us, l, q)
      <4>1. us <= us
        BY <1>1
      <4> HIDE DEF us
      <4> QED  BY <1>1, <1>7, <1>10, <4>1, SlotsMoved
    <3>2. with[n].level = l /\ with[n].slots = q /\ with[n].next = nd[n].next
      BY <1>1, <1>3, <1>9
    <3> QED  BY <1>3, <1>4, <1>10, <2>3, <3>1, <3>2 DEF NodeOK
  <2> QED  BY <2>2, <2>3
<1>12. \A x \in Used : x \in Nodes
  BY UsedNodes DEF IInv
<1>13. Edited(t, with, us)
  <2>1. \A x \in Nodes : DOMAIN with[x] = NodeFields
    BY <1>9
  <2>2. \A x \in Used : /\ with[x].level = node[x].level
                        /\ with[x].writer = node[x].writer /\ with[x].readers = node[x].readers
    BY <1>2, <1>9, <1>12 DEF Edited
  <2>3. \A x \in Used \ Locks(t) : with[x].slots = node[x].slots /\ with[x].next = node[x].next
                                   /\ with[x].next_header = node[x].next_header
    BY <1>2, <1>9, <1>12 DEF Edited
  <2>4. \A x \in (used + 1)..us : with[x].writer = t /\ with[x].readers = 0
    <3>1. \A x \in (used + 1)..us : x \in Nodes
      BY <1>1, <1>2
    <3> QED  BY <1>2, <1>9, <3>1 DEF Edited
  <2> QED  BY <1>1, <1>2, <1>11, <2>1, <2>2, <2>3, <2>4 DEF Edited
<1>14. with[n].slots # << >> /\ \A x \in Used : x # n => with[x].slots = node[x].slots
  BY <1>1, <1>8, <1>9, <1>12 DEF Grown
<1>15. \A x \in Nodes : DOMAIN with[x] = NodeFields
  BY <1>9
<1>16. with = WithSlot(t, n, l, nd)
  BY DEF with, q, s, v, WithSlot
<1> QED  BY <1>10, <1>13, <1>14, <1>15, <1>16

LEMMA EnterSlotKeeps ==
    ASSUME IInv, NEW t \in Threads, pc[t] # "idle", NEW nd, Grown(t, reg[t].level, nd),
           NEW n, NEW others, Locks(t) = {n} \cup others, n \notin others, Raw(t) = {},
           Draining(t) = {}, Reads(t) = {}, reg[t].level \in Nat, node[n].level = reg[t].level,
           used' = used + reg[t].level,
           EnterSlot(t, n, others, NewNodes(reg[t].level), nd)
    PROVE  Kept(t)
<1> DEFINE l == reg[t].level
           us == used + l
           s == nd[n].slots
           with == WithSlot(t, n, l, nd)
           sp == NewNodes(l)
<1>1. used \in Nat /\ n \in Locks(t) /\ n \in Used /\ NoNode \notin Locks(t) /\ others \subseteq Used
  BY LocksNow DEF IInv, TypeOK
<1>2. /\ Edited(t, with, us) /\ (\A x \in Nodes : DOMAIN with[x] = NodeFields)
      /\ (\A x \in 1..us : with[x].level = nd[x].level)
      /\ with[n].slots # << >> /\ (\A x \in Used : x # n => with[x].slots = node[x].slots)
  <2>1. l \in Nat /\ Grown(t, l, nd) /\ n \in Locks(t) /\ n \notin Raw(t) /\ node[n].level = l
    BY <1>1
  <2> HIDE DEF l
  <2> QED  BY <2>1, GrownSlot
<1>3. CASE l = 0
  <2>1. node' = WriteUnlocked(with, others \cup {n}) /\ Return(t)
    BY <1>3 DEF EnterSlot, Done, WithSlot
  <2> HIDE DEF with
  <2>2. us = used /\ UNCHANGED used
    BY <1>1, <1>3
  <2>3. Rewrote(with, others \cup {n})
    BY <1>2, <2>1, RewroteUnlock
  <2>4. (others \cup {n}) \cap Used = Locks(t)
    BY <1>1
  <2>5. \A x \in Used : with[x].slots = << >> => x \notin Raw(t) /\ node[x].slots = << >>
    BY <1>2
  <2>6. Edited(t, with, used)
    BY <1>2, <2>2
  <2> QED  BY <2>1, <2>2, <2>3, <2>4, <2>5, <2>6, WriteReturn
<1>4. CASE l # 0
  <2> DEFINE child == s[Rank(s, Key(t))].val
             r == [reg[t] EXCEPT !.curr = child, !.prev = n, !.spare = sp, !.next = NoNode,
                                 !.level = l - 1]
  <2>1. node' = WriteUnlocked(with, others) /\ UNCHANGED callVars
    BY <1>4 DEF EnterSlot, WithSlot
  <2>2. Moved(t, "lock_child", r)
    <3>1. Locals(t, r) /\ Goto(t, "lock_child")
      BY <1>4 DEF EnterSlot
    <3> HIDE DEF r
    <3> QED  BY <3>1, MovedLocals DEF IInv
  <2>3. sp \in Seq((used + 1)..us) /\ Len(sp) = l /\ DOMAIN sp = 1..l
        /\ \A i \in 1..l : sp[i] = used + i
    BY <1>1, NewNodesSeq
  <2>4. DOMAIN r = RegFields /\ r.curr = child /\ r.prev = n /\ r.spare = sp /\ r.level = l - 1
    BY RegsNow DEF RegFields
  <2>5. At(node, used, child, l - 1)
    <3>1. s = node[n].slots
      BY <1>1 DEF Grown
    <3>2. SlotsOK(node, used, l, s) /\ s \in Seq(Slots) /\ Len(s) > 0
      BY <1>1, <3>1, Held
    <3>3. Rank(s, Key(t)) \in DOMAIN s
      BY <3>2, RankIn
    <3> HIDE DEF s
    <3> QED  BY <1>4, <3>2, <3>3, ValAt
  <2> HIDE DEF with, r, child, sp, us, l
  <2>6. RawOf(r) = (used + 1)..us
    <3>1. RawOf(r) = {sp[i] : i \in 1..l}
      BY <2>3, <2>4 DEF RawOf
    <3>2. \A x \in (used + 1)..us : x - used \in 1..l /\ used + (x - used) = x
      BY <1>1 DEF us, l
    <3>3. \A i \in 1..l : used + i \in (used + 1)..us
      BY <1>1 DEF us, l
    <3> QED  BY <2>3, <3>1, <3>2, <3>3
  <2>7. us \in Nat /\ used <= us /\ l \in Nat /\ used' = us
    BY <1>1 DEF us, l
  <2>8. SparesOK(r, with, us)
    <3>1. r.level \in Nat /\ Len(r.spare) = r.level + 1 /\ r.spare \in Seq(1..us)
      <4>1. sp \in Seq(1..us)
        BY <1>1, <2>3, <2>7
      <4> QED  BY <1>4, <2>3, <2>4, <2>7, <4>1
    <3>2. \A i \in DOMAIN r.spare : with[r.spare[i]].level = r.level + 1 - i
      <4> SUFFICES ASSUME NEW i \in 1..l PROVE with[sp[i]].level = (l - 1) + 1 - i
        BY <2>3, <2>4
      <4>1. used + i \in (used + 1)..us /\ used + i \in 1..us /\ l - ((used + i) - used) = (l - 1) + 1 - i
        BY <1>1, <2>7 DEF us, l
      <4>2. nd[used + i].level = l - ((used + i) - used)
        BY <4>1 DEF Grown, us, l
      <4> QED  BY <1>2, <2>3, <4>1, <4>2
    <3>3. \A i, j \in DOMAIN r.spare : r.spare[i] = r.spare[j] => i = j
      <4> SUFFICES ASSUME NEW i \in 1..l, NEW j \in 1..l, used + i = used + j PROVE i = j
        BY <2>3, <2>4
      <4> QED  BY <1>1, <2>7
    <3> QED  BY <3>1, <3>2, <3>3 DEF SparesOK
  <2>9. PromotingOK("lock_child", r, with, us)
    <3>1. At(with, us, child, l - 1)
      <4>1. child \in Used /\ child \in 1..us /\ node[child].level = l - 1
        BY <1>1, <2>5, <2>7 DEF At, Used
      <4>2. with[child].level = node[child].level
        BY <1>2, <4>1 DEF Edited
      <4> QED  BY <4>1, <4>2 DEF At
    <3>2. n \in 1..us /\ n \notin (used + 1)..us
      BY <1>1, <2>7 DEF Used
    <3> QED  BY <2>4, <2>6, <2>8, <3>1, <3>2 DEF PromotingOK
  <2>10. RegsOK("lock_child", r, call[t], with, us)
    BY <2>9 DEF RegsOK
  <2>11. (used + 1)..us \cap Used = {} /\ NoNode \notin (used + 1)..us
    BY <1>1, <2>7, NothingAssumption DEF Used
  <2>12. LocksOf("lock_child", r) = (Locks(t) \cup ((used + 1)..us)) \ others
         /\ ReadsOf("lock_child", r) = {}
    BY <1>1, <2>4, <2>6, <2>11 DEF LocksOf, ReadsOf
  <2>13. RawKept(t, with, us, r)
    <3> SUFFICES ASSUME NEW x \in 1..us, with[x].slots = << >>
                 PROVE  x \in RawOf(r) \/ (x \in Used \ Raw(t) /\ node[x].slots = << >>)
      BY DEF RawKept
    <3>1. x \in Used \/ x \in (used + 1)..us
      BY <1>1, <2>7 DEF Used
    <3> QED  BY <1>2, <2>6, <3>1
  <2>14. Rewrote(with, others)
    BY <1>2, <2>1, RewroteUnlock
  <2>15. others \cap (1..us) \subseteq Locks(t) /\ "lock_child" \in Labels \ {"idle"}
    OBVIOUS
  <2>16. Edited(t, with, used') /\ RawKept(t, with, used', r)
         /\ RegsOK("lock_child", r, call[t], with, used')
         /\ others \cap (1..used') \subseteq Locks(t)
         /\ LocksOf("lock_child", r) = (Locks(t) \cup ((used + 1)..used')) \ others
    BY <1>2, <2>7, <2>10, <2>12, <2>13, <2>15
  <2> QED  BY <2>1, <2>2, <2>4, <2>12, <2>14, <2>15, <2>16, WriteGoesOn
<1> QED  BY <1>3, <1>4

LEMMA InsertSlotKeeps ==
    ASSUME IInv, NEW t \in Threads, InsertSlot(t) PROVE Kept(t)
<1> DEFINE l == reg[t].level
<1>1. pc[t] = "insert" /\ pc[t] \in Early /\ pc[t] # "idle" /\ used + l <= NodeCnt /\ used' = used + l
      /\ EnterSlot(t, Curr(t), {}, NewNodes(l), WithNewNodes(t, l))
  BY DEF InsertSlot
<1>2. l \in Nat
  BY <1>1, EarlyNow
<1>3. Grown(t, l, WithNewNodes(t, l))
  BY <1>1, <1>2, GrownNow
<1>4. node[Curr(t)].level = l /\ Locks(t) = {Curr(t)} \cup {} /\ Draining(t) = {}
      /\ Reads(t) = {} /\ Raw(t) = {} /\ Curr(t) \notin {}
  BY <1>1, InsertNow
<1> QED  BY <1>1, <1>2, <1>3, <1>4, EnterSlotKeeps

LEMMA SplitNow ==
    ASSUME IInv, NEW t \in Threads, pc[t] = "split_next"
    PROVE  LET n == Curr(t)
               m == reg[t].next
           IN  /\ Locks(t) = {n, m} /\ n # m /\ n \in Used /\ m \in Used
               /\ node[n].level = reg[t].level /\ node[m].level = reg[t].level
               /\ Draining(t) = {} /\ Reads(t) = {} /\ Raw(t) = {} /\ reg[t].level \in Nat
<1>1. pc[t] \in Early
  OBVIOUS
<1>2. EarlyOK("split_next", reg[t], call[t], node, used) /\ reg[t].level \in Nat
  BY <1>1, EarlyNow
<1>3. Curr(t) \in Used /\ reg[t].next \in Used /\ Curr(t) # reg[t].next
      /\ node[Curr(t)].level = reg[t].level /\ node[reg[t].next].level = reg[t].level
  BY <1>2 DEF EarlyOK, At, Curr, Used
<1>4. Curr(t) # NoNode /\ reg[t].next # NoNode
  BY <1>3, LocksNow
<1>5. Locks(t) = {Curr(t), reg[t].next} /\ Draining(t) = {} /\ Reads(t) = {}
  BY <1>4 DEF Locks, LocksOf, Draining, DrainOf, Reads, ReadsOf, Curr
<1>6. Raw(t) = {}
  BY <1>2 DEF EarlyOK, Raw, RawOf
<1> QED  BY <1>2, <1>3, <1>5, <1>6

LEMMA SplitNextKeeps ==
    ASSUME IInv, NEW t \in Threads, SplitNext(t) PROVE Kept(t)
<1> DEFINE n == Curr(t)
           m == reg[t].next
           l == reg[t].level
           nd == [WithNewNodes(t, l) EXCEPT ![n].next = m]
<1>1. pc[t] = "split_next" /\ pc[t] # "idle" /\ used + l <= NodeCnt /\ used' = used + l
      /\ (EnterSlot(t, n, {m}, NewNodes(l), nd) \/ EnterSlot(t, m, {n}, NewNodes(l), nd))
  BY DEF SplitNext
<1>2. /\ Locks(t) = {n, m} /\ n # m /\ n \in Used /\ m \in Used
      /\ node[n].level = l /\ node[m].level = l
      /\ Draining(t) = {} /\ Reads(t) = {} /\ Raw(t) = {} /\ l \in Nat
  BY <1>1, SplitNow
<1>3. Grown(t, l, WithNewNodes(t, l))
  BY <1>1, <1>2, GrownNow
<1>4. Grown(t, l, nd)
  <2> DEFINE nd0 == WithNewNodes(t, l)
  <2>1. n \in Locks(t) /\ node[m].level = node[n].level /\ Grown(t, l, nd0)
    BY <1>2, <1>3
  <2> HIDE DEF nd0, n, m, l
  <2>2. Grown(t, l, [nd0 EXCEPT ![n].next = m])
    BY <1>2, <2>1, GrownLinked
  <2> QED  BY <2>2 DEF nd0, n, m, l
<1> HIDE DEF nd
<1>5. Locks(t) = {n} \cup {m} /\ Locks(t) = {m} \cup {n} /\ n \notin {m} /\ m \notin {n}
  BY <1>2
<1>6. CASE EnterSlot(t, n, {m}, NewNodes(l), nd)
  BY <1>1, <1>2, <1>4, <1>5, <1>6, EnterSlotKeeps
<1>7. CASE EnterSlot(t, m, {n}, NewNodes(l), nd)
  BY <1>1, <1>2, <1>4, <1>5, <1>7, EnterSlotKeeps
<1> QED  BY <1>1, <1>6, <1>7

LEMMA Halves == B \in Nat /\ B \div 2 \in Nat /\ 1 <= B \div 2 /\ B \div 2 < B
BY SizeAssumption

LEMMA SplitKeeps ==
    ASSUME IInv, NEW t \in Threads, Split(t) PROVE Kept(t)
<1> DEFINE n == Curr(t)
           m == used + 1
           l == reg[t].level
           s == node[n].slots
           h == B \div 2
           lower == SubSeq(s, 1, h)
           upper == SubSeq(s, h + 1, B)
           x == Head(upper).key
           new == [EmptyNode(l) EXCEPT !.slots = upper, !.writer = t, !.next = node[n].next,
                                       !.next_header = node[n].next_header]
           nd1 == [node EXCEPT ![m] = new]
           nd == [nd1 EXCEPT ![n].slots = lower, ![n].next_header = x]
           r == [reg[t] EXCEPT !.next = m]
<1>1. pc[t] = "insert" /\ pc[t] \in Early /\ pc[t] # "idle" /\ Len(s) = B /\ used < NodeCnt
      /\ used' = m /\ UNCHANGED callVars /\ node' = nd
  BY DEF Split
<1>2. Moved(t, "split_next", r)
  <2>1. Locals(t, r) /\ Goto(t, "split_next")
    BY DEF Split
  <2> HIDE DEF r
  <2> QED  BY <2>1, MovedLocals DEF IInv
<1>3. /\ node[n].level = l /\ Locks(t) = {n} /\ Draining(t) = {} /\ Reads(t) = {}
      /\ Raw(t) = {} /\ n \in Used /\ n \in Locks(t) /\ n \notin Raw(t)
      /\ EarlyOK("insert", reg[t], call[t], node, used)
  BY <1>1, InsertNow
<1>4. n \in Nodes /\ NodeOK(node, used, n) /\ SlotsOK(node, used, l, s) /\ l \in Nat
  BY <1>3, Held
<1>5. used \in Nat /\ m \in Nat /\ m \in Nodes /\ n # m /\ used <= m /\ m <= NodeCnt
      /\ Used \subseteq Nodes /\ 1..m = Used \cup {m} /\ m \notin Used /\ (used + 1)..m = {m}
  BY <1>1, <1>3, UsedNodes, SizeAssumption DEF IInv, TypeOK, Nodes, Used
<1>6. SlotsOK(node, used, l, lower) /\ lower # << >> /\ SlotsOK(node, used, l, upper) /\ upper # << >>
  <2>1. h \in Nat /\ 1 <= h /\ h < B /\ B \in Nat
    BY Halves
  <2> HIDE DEF h, s, l
  <2>0. SlotsOK(node, used, l, s) /\ 1 \in Nat /\ 1 <= 1 /\ 1 <= h + 1 /\ h <= Len(s)
    BY <1>1, <1>4, <2>1
  <2>2. SlotsOK(node, used, l, lower) /\ Len(lower) = h + 1 - 1
    BY <2>0, <2>1, SlotsPart
  <2>3. h + 1 \in Nat /\ 1 <= h + 1 /\ h + 1 <= B + 1 /\ B <= Len(s)
    BY <1>1, <2>1
  <2>4. SlotsOK(node, used, l, upper) /\ Len(upper) = B + 1 - (h + 1)
    BY <1>4, <2>1, <2>3, SlotsPart
  <2> HIDE DEF lower, upper
  <2> QED  BY <2>1, <2>2, <2>4
<1>7. /\ DOMAIN new = NodeFields /\ new.level = l /\ new.slots = upper /\ new.next = node[n].next
      /\ new.writer = t /\ new.readers = 0
  BY DEF EmptyNode, NodeFields
<1> HIDE DEF new, lower, upper, x, l, n, s
<1>8. DOMAIN nd1 = Nodes /\ nd1[m] = new /\ \A y \in Nodes : y # m => nd1[y] = node[y]
  <2> HIDE DEF m
  <2> QED  BY <1>5 DEF IInv, TypeOK
<1> HIDE DEF nd1
<1>9. /\ DOMAIN nd = Nodes
      /\ \A y \in Nodes :
            /\ y # n => nd[y] = nd1[y]
            /\ y = n => /\ DOMAIN nd[y] = NodeFields /\ nd[y].level = node[y].level
                        /\ nd[y].slots = lower /\ nd[y].next = node[y].next
                        /\ nd[y].writer = node[y].writer /\ nd[y].readers = node[y].readers
  <2>1. nd1[n] = node[n] /\ DOMAIN node[n] = NodeFields
    BY <1>4, <1>5, <1>8 DEF IInv, TypeOK
  <2> QED  BY <1>4, <1>8, <2>1 DEF NodeFields
<1> HIDE DEF nd
<1>10. nd[m] = new /\ (\A y \in Used : y # n => nd[y] = node[y])
       /\ nd[n].level = node[n].level /\ nd[n].slots = lower /\ nd[n].next = node[n].next
       /\ nd[n].writer = node[n].writer /\ nd[n].readers = node[n].readers
  BY <1>4, <1>5, <1>8, <1>9
<1>11. \A y \in Nodes : DOMAIN nd[y] = NodeFields
  <2>1. \A y \in Nodes : DOMAIN nd1[y] = NodeFields
    BY <1>7, <1>8 DEF IInv, TypeOK
  <2> QED  BY <1>9, <2>1
<1>12. \A y \in 1..used : nd[y].level = node[y].level
  BY <1>10 DEF Used
<1> HIDE DEF m
<1>13. NodeOK(nd, m, n)
  <2>1. SlotsOK(nd, m, l, lower)
    BY <1>5, <1>6, <1>12, SlotsMoved
  <2>2. node[n].next # NoNode => node[n].next \in 1..used /\ node[node[n].next].level = l
    BY <1>3, <1>4 DEF NodeOK
  <2> QED  BY <1>3, <1>4, <1>5, <1>10, <1>12, <2>1, <2>2 DEF NodeOK, Used
<1>14. NodeOK(nd, m, m)
  <2>1. SlotsOK(nd, m, l, upper)
    BY <1>5, <1>6, <1>12, SlotsMoved
  <2>2. node[n].next # NoNode => node[n].next \in 1..used /\ node[node[n].next].level = l
    BY <1>3, <1>4 DEF NodeOK
  <2> QED  BY <1>4, <1>5, <1>7, <1>10, <1>12, <2>1, <2>2 DEF NodeOK, Used
<1>15. ASSUME NEW y \in Used, y # n PROVE NodeOK(nd, m, y)
  <2>1. NodeOK(node, used, y) /\ nd[y].slots = node[y].slots /\ nd[y].next = node[y].next
        /\ y \in 1..used
    BY <1>10, <1>15 DEF IInv, ShapeInv, Used
  <2> QED  BY <1>5, <1>12, <2>1, NodeMoved
<1>16. \A y \in 1..m : NodeOK(nd, m, y)
  BY <1>5, <1>13, <1>14, <1>15
<1>17. Edited(t, nd, m)
  <2>1. \A y \in Used : /\ nd[y].level = node[y].level
                        /\ nd[y].writer = node[y].writer /\ nd[y].readers = node[y].readers
    BY <1>10
  <2>2. \A y \in Used \ Locks(t) : nd[y].slots = node[y].slots /\ nd[y].next = node[y].next
                                   /\ nd[y].next_header = node[y].next_header
    BY <1>3, <1>10
  <2>3. \A y \in (used + 1)..m : nd[y].writer = t /\ nd[y].readers = 0
    BY <1>5, <1>7, <1>10
  <2> QED  BY <1>5, <1>11, <1>16, <2>1, <2>2, <2>3 DEF Edited
<1>18. Rewrote(nd, {})
  BY <1>1, <1>9, <1>11, RewroteSame
<1>19. DOMAIN r = RegFields /\ r.curr = n /\ r.next = m /\ r.level = l /\ r.prev = NoNode
       /\ r.spare = << >>
  BY <1>3, RegsNow DEF RegFields, EarlyOK, n, l, Curr
<1> HIDE DEF r
<1>20. RawKept(t, nd, m, r)
  <2> SUFFICES ASSUME NEW y \in 1..m, nd[y].slots = << >>
               PROVE  y \in Used \ Raw(t) /\ node[y].slots = << >>
    BY DEF RawKept
  <2> QED  BY <1>3, <1>5, <1>6, <1>7, <1>10
<1>21. EarlyOK("split_next", r, call[t], nd, m)
  <2>1. At(nd, m, n, l) /\ At(nd, m, m, l)
    BY <1>3, <1>5, <1>7, <1>10 DEF At
  <2> QED  BY <1>5, <1>19, <2>1 DEF EarlyOK
<1>22. RegsOK("split_next", r, call[t], nd, m)
  BY <1>21 DEF RegsOK
<1>23. NoNode # n /\ NoNode # m
  BY <1>3, <1>5, LocksNow, NothingAssumption
<1>24. LocksOf("split_next", r) = (Locks(t) \cup ((used + 1)..m)) \ {} /\ ReadsOf("split_next", r) = {}
  BY <1>3, <1>5, <1>19, <1>23 DEF LocksOf, ReadsOf
<1>25. {} \cap (1..used') \subseteq Locks(t) /\ "split_next" \in Labels \ {"idle"} /\ used' = m
  BY <1>1
<1>26. Edited(t, nd, used') /\ RawKept(t, nd, used', r) /\ RegsOK("split_next", r, call[t], nd, used')
       /\ LocksOf("split_next", r) = (Locks(t) \cup ((used + 1)..used')) \ {}
  BY <1>17, <1>20, <1>22, <1>24, <1>25
<1> QED  BY <1>1, <1>2, <1>3, <1>18, <1>19, <1>24, <1>25, <1>26, WriteGoesOn

----------------------------------------------------------------------------
(* The invariant, and what follows from it.                                *)

LEMMA InitIInv == ASSUME Init PROVE IInv
<1>1. /\ DOMAIN node = Nodes /\ used = MAX_LEVEL /\ Used = 1..MAX_LEVEL /\ Used \subseteq Nodes
      /\ pc = [t \in Threads |-> "idle"] /\ call = [t \in Threads |-> NoCall]
      /\ reg = [t \in Threads |-> NoReg] /\ todo \in Plans
      /\ MAX_LEVEL \in Nat /\ 1 < MAX_LEVEL /\ MAX_LEVEL <= NodeCnt /\ NodeCnt \in Nat
  <2>1. DOMAIN node = Nodes
    BY Zenon DEF Init
  <2>2. /\ used = MAX_LEVEL
        /\ pc = [t \in Threads |-> "idle"] /\ call = [t \in Threads |-> NoCall]
        /\ reg = [t \in Threads |-> NoReg] /\ todo \in Plans
    BY Zenon DEF Init
  <2> QED  BY <2>1, <2>2, SizeAssumption DEF Used, Nodes
<1>2. ASSUME NEW n \in Nodes PROVE DOMAIN node[n] = NodeFields
  BY DEF Init, EmptyNode, NodeFields
<1>3. ASSUME NEW n \in Used
      PROVE  /\ n \in Nat /\ node[n].level = n - 1 /\ node[n].next = NoNode
             /\ node[n].slots = <<Slot(BSL_KEY_MIN, IF n = 1 THEN << >> ELSE n - 1)>>
             /\ node[n].writer = NoThread /\ node[n].readers = 0
  <2>1. n \in Nodes /\ ~ (n > MAX_LEVEL) /\ n \in Nat
    BY <1>1
  <2> DEFINE s == <<Slot(BSL_KEY_MIN, IF n = 1 THEN << >> ELSE n - 1)>>
  <2>2. node[n] = [EmptyNode(n - 1) EXCEPT !.slots = s, !.next_header = BSL_KEY_MAX]
    BY <2>1 DEF Init
  <2> HIDE DEF s
  <2>3. /\ node[n].level = n - 1 /\ node[n].next = NoNode /\ node[n].slots = s
        /\ node[n].writer = NoThread /\ node[n].readers = 0
    BY <2>2 DEF EmptyNode
  <2> QED  BY <2>1, <2>3 DEF s
<1>4. ASSUME NEW t \in Threads
      PROVE  pc[t] = "idle" /\ call[t] = NoCall /\ reg[t] = NoReg /\ reg[t].spare = << >>
             /\ DOMAIN reg[t] = RegFields
  BY <1>1 DEF NoReg, RegFields
<1>5. TypeOK
  BY <1>1, <1>2, <1>4, PlansAssumption DEF TypeOK
<1>6. ASSUME NEW n \in Used PROVE NodeOK(node, used, n) /\ node[n].slots # << >>
  <2> DEFINE c == IF n = 1 THEN << >> ELSE n - 1
  <2>1. n \in Nat /\ 1 <= n /\ n - 1 \in Nat /\ n <= used /\ used \in Nat
    BY <1>1, <1>3
  <2>2. ValOK(node, used, n - 1, c) /\ c \in Nat \cup Seq(Threads)
    <3>1. CASE n = 1
      BY <2>1, <3>1 DEF ValOK
    <3>2. CASE n # 1
      <4>1. n - 1 \in Used /\ n - 1 \in 1..used /\ n - 1 # 0
        BY <1>1, <2>1, <3>2
      <4>2. node[n - 1].level = (n - 1) - 1
        BY <1>3, <4>1
      <4> QED  BY <2>1, <3>2, <4>1, <4>2 DEF ValOK
    <3> QED  BY <3>1, <3>2
  <2> HIDE DEF c
  <2>3. Slot(BSL_KEY_MIN, c) \in Slots /\ Slot(BSL_KEY_MIN, c).val = c
    BY <2>2 DEF Slot, Slots, BSL_KEY_MIN
  <2>4. node[n].slots = <<Slot(BSL_KEY_MIN, c)>>
    BY <1>3 DEF c
  <2> DEFINE x == Slot(BSL_KEY_MIN, c)
  <2>5. x \in Slots /\ x.val = c /\ node[n].slots = <<x>>
    BY <2>3, <2>4
  <2> HIDE DEF x
  <2>6. SlotsOK(node, used, n - 1, <<x>>) /\ <<x>> # << >>
    BY <2>2, <2>5 DEF SlotsOK
  <2> QED  BY <1>3, <2>1, <2>5, <2>6 DEF NodeOK
<1>7. ShapeInv
  <2>1. MAX_LEVEL \in Used /\ Header(MAX_LEVEL - 1) = MAX_LEVEL
    BY <1>1 DEF Header
  <2> QED  BY <1>3, <1>6, <2>1 DEF ShapeInv
<1>8. RegInv
  BY <1>4 DEF RegInv, Registers, RegsOK
<1>9. ASSUME NEW t \in Threads PROVE Locks(t) = {} /\ Reads(t) = {}
  BY <1>4 DEF Locks, LocksOf, Reads, ReadsOf
<1>10. LockInv /\ DrainInv
  BY <1>3, <1>9, NothingAssumption DEF LockInv, Owns, DrainInv, Drains
<1>11. ReaderInv
  <2>1. \A n \in Used : ReadersOf(n) = {}
    BY <1>9, ReadingIs DEF ReadersOf
  <2> QED  BY <1>3, <2>1, FS_EmptySet DEF ReaderInv
<1> QED  BY <1>5, <1>7, <1>8, <1>10, <1>11 DEF IInv

LEMMA StepIInv == ASSUME IInv, NEW t \in Threads, Step(t) PROVE Kept(t)
<1>1. CASE Begin(t) \/ MoveRight(t) \/ ScanHeader(t) \/ ScanReadNext(t) \/ ScanMove(t)
           \/ ReadChild(t) \/ EnterChild(t) \/ GetReturn(t)
  BY <1>1, BeginKeeps, MoveRightKeeps, ScanHeaderKeeps, ScanReadNextKeeps, ScanMoveKeeps,
     ReadChildKeeps, EnterChildKeeps, GetReturnKeeps
<1>2. CASE LockTarget(t) \/ Locked(t) \/ InsertDuplicate(t) \/ InsertFollow(t)
           \/ InsertSlot(t) \/ Split(t) \/ SplitNext(t)
  BY <1>2, LockTargetKeeps, LockedKeeps, InsertDuplicateKeeps, InsertFollowKeeps,
     InsertSlotKeeps, SplitKeeps, SplitNextKeeps
<1>3. CASE LockChild(t) \/ ChildLocked(t) \/ LockRight(t) \/ PromoteLeaf(t) \/ Promote(t)
           \/ PromoteNext(t)
  BY <1>3, LockChildKeeps, ChildLockedKeeps, LockRightKeeps, PromoteLeafKeeps, PromoteKeeps,
     PromoteNextKeeps
<1>4. CASE FindRight(t) \/ FindLocked(t) \/ DeleteAbsent(t) \/ DeleteSlot(t)
           \/ DeleteIndex(t) \/ DeleteFirst(t)
  BY <1>4, FindRightKeeps, FindLockedKeeps, DeleteAbsentKeeps, DeleteSlotKeeps,
     DeleteIndexKeeps, DeleteFirstKeeps
<1>5. CASE LockLeft(t) \/ LockCurrent(t) \/ CurrentLocked(t) \/ LockLeftNext(t)
           \/ LeftMoved(t) \/ UnlinkSlot(t) \/ UnlinkNode(t) \/ UnlinkNext(t)
           \/ UnlinkLeaf(t)
  BY <1>5, LockLeftKeeps, LockCurrentKeeps, CurrentLockedKeeps, LockLeftNextKeeps,
     LeftMovedKeeps, UnlinkSlotKeeps, UnlinkNodeKeeps, UnlinkNextKeeps, UnlinkLeafKeeps
<1>6. CASE ReadLock(t) \/ ReadLocked(t) \/ ScanRight(t) \/ ScanBatch(t) \/ ScanNext(t)
  BY <1>6, ReadLockKeeps, ReadLockedKeeps, ScanRightKeeps, ScanBatchKeeps, ScanNextKeeps
<1> QED  BY <1>1, <1>2, <1>3, <1>4, <1>5, <1>6 DEF Step

LEMMA Unchanged == ASSUME IInv, UNCHANGED vars PROVE IInv'
<1> USE DEF vars, callVars
<1>1. TypeOK'
  BY DEF IInv, TypeOK
<1>2. ShapeInv'
  BY DEF IInv, ShapeInv, NodeOK, SlotsOK, ValOK, Used, Raw, RawOf
<1>3. RegInv' /\ LockInv' /\ DrainInv'
  BY DEF IInv, RegInv, Registers, LockInv, Owns, DrainInv, Drains, Locks, Draining, Used
<1>4. ReaderInv'
  BY DEF IInv, ReaderInv, ReadersOf, Reading, Curr, Used
<1> QED  BY <1>1, <1>2, <1>3, <1>4 DEF IInv

\* The places where each call stands, the nodes it has locked there and the
\* shape of what hangs from the headers agree, in every state.
THEOREM Invariance == Spec => []IInv
<1>1. Init => IInv
  BY InitIInv
<1>2. IInv /\ [Next]_vars => IInv'
  <2> SUFFICES ASSUME IInv, [Next]_vars PROVE IInv'
    OBVIOUS
  <2>1. ASSUME NEW t \in Threads, Step(t) PROVE IInv'
    BY <2>1, StepIInv DEF Kept
  <2>2. CASE UNCHANGED vars
    BY <2>2, Unchanged
  <2> QED  BY <2>1, <2>2 DEF Next, Terminated
<1> QED  BY <1>1, <1>2, PTL DEF Spec

\* Whoever is not in a call holds nothing, and the readers a node counts are
\* the scans that stand on it: on every path through bsl_insert.c, bsl_delete.c
\* and bsl_scan.c each lock that is taken is given back.
THEOREM NoLockLeftTheorem == Spec => []NoLockLeft
<1>1. IInv => NoLockLeft
  <2> SUFFICES ASSUME IInv, NEW n \in 1..used
               PROVE  /\ node[n].writer # NoThread => call[node[n].writer] # NoCall
                      /\ node[n].readers = Cardinality({t \in Threads : Reading(t, n)})
    BY DEF NoLockLeft
  <2>1. n \in Used
    BY DEF Used
  <2>2. ASSUME NEW t \in Threads, node[n].writer = t PROVE call[t] # NoCall
    <3>1. n \in Locks(t)
      BY <2>1, <2>2 DEF IInv, LockInv, Owns
    <3>2. pc[t] # "idle"
      BY <3>1 DEF Locks, LocksOf
    <3> QED  BY <3>2 DEF IInv, TypeOK
  <2>3. node[n].readers = Cardinality({t \in Threads : Reading(t, n)})
    BY <2>1 DEF IInv, ReaderInv, ReadersOf
  <2> QED  BY <2>1, <2>2, <2>3 DEF IInv, LockInv
<1> QED  BY <1>1, Invariance, PTL

\* What a node holds changes only under its writer bit and when its readers have
\* gone: every store of bsl_insert.c and bsl_delete.c to the slots and links of a
\* node comes after its hocc_write_lock has returned and before the unlock.
THEOREM WritesExclusiveTheorem == Spec => WritesExclusive
<1> DEFINE Excl == \A n \in 1..used : Contents(n)' # Contents(n) => ~ Unlocked(n) /\ Drained(n)
<1>1. IInv /\ [Next]_vars => [Excl]_vars
  <2> SUFFICES ASSUME IInv, Next, NEW n \in 1..used, Contents(n)' # Contents(n)
               PROVE  ~ Unlocked(n) /\ Drained(n)
    OBVIOUS
  <2>1. PICK t \in Threads : Step(t)
    <3>1. ~ UNCHANGED vars
      BY DEF Contents, vars
    <3> QED  BY <3>1 DEF Next, Terminated
  <2>2. Frame(t) /\ n \in Used
    BY <2>1, StepIInv DEF Kept, Used
  <2>3. n \in Locks(t) \ Draining(t)
    BY <2>2 DEF Frame, SameContents, Contents
  <2>4. node[n].writer = t /\ node[n].readers = 0
    BY <2>2, <2>3 DEF IInv, LockInv, Owns, DrainInv, Drains
  <2> QED  BY <2>4, NothingAssumption DEF Unlocked, Drained
<1>2. []IInv /\ [][Next]_vars => [][Excl]_vars
  BY <1>1, PTL
<1> QED  BY <1>2, Invariance, PTL DEF Spec, WritesExclusive
=============================================================================
