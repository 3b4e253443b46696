----------------------------- MODULE BSkiplist ------------------------------
(***************************************************************************)
(* The OLC B-skiplist: bsl_insert, bsl_delete, bsl_get and bsl_scan_n over *)
(* nodes that are locked and versioned by a HOCC64 word.  A call descends  *)
(* without locks, validating the version of every node it leaves; insert   *)
(* and delete lock the node at the level the key's hash gives, and go on   *)
(* below with locks, from left to right and from top to bottom; scan locks *)
(* the leaves it reads, for reading.                                       *)
(*                                                                         *)
(* A node's slots are read in one step: a read counts only if the version  *)
(* is validated afterwards.  The two words of a node that scan follows     *)
(* without asking for the writer bit, next_header and next, are written in *)
(* separate steps above the leaves.                                        *)
(***************************************************************************)
EXTENDS FiniteSets, IndexMap

CONSTANTS
    Workers, Loader,
    Keys,           \* positive; 0 is BSL_KEY_MIN
    LevelOf,        \* bsl_level_for_key: the top level of each key
    MAX_LEVEL,
    B,              \* B_LEAF and B_INTERNAL: slots of a node
    NodeCnt,        \* nodes that can be allocated in a run
    Plans,          \* the calls of each thread, in order; the loader's come first
    ScanLen,        \* length of a scan
    NoNode, NoThread, NoCall

Threads == Workers \cup {Loader}
Nodes == 1..NodeCnt
Levels == 0..(MAX_LEVEL - 1)

ASSUME KeysAssumption ==
    /\ Keys \subseteq Nat \ {0}
    /\ IsFiniteSet(Keys)
    /\ LevelOf \in [Keys -> Levels]

Calls == [op : {"insert", "delete", "get", "scan"}, key : Keys]

ASSUME PlansAssumption ==
    /\ Plans \subseteq [Threads -> Seq(Calls)]
    /\ \A p \in Plans : p[Loader] \in Seq([op : {"insert"}, key : Keys])

ASSUME SizeAssumption ==
    /\ MAX_LEVEL \in Nat \ {0, 1}
    /\ B \in Nat \ {0, 1}
    /\ ScanLen \in Nat \ {0}
    /\ NodeCnt \in Nat /\ NodeCnt >= MAX_LEVEL
    /\ IsFiniteSet(Workers) /\ Loader \notin Workers

ASSUME NothingAssumption ==
    NoNode \notin Nat /\ NoThread \notin Threads /\ NoCall \notin Calls

BSL_KEY_MIN == 0
BSL_KEY_MAX == 1 + (CHOOSE k \in Keys : \A l \in Keys : l <= k)

VARIABLES
    node,       \* the nodes: slots, links and the HOCC word
    used,       \* nodes allocated so far: 1..used
    retired,    \* nodes given to ebr_retire
    pc, call,
    todo,       \* the calls a thread has still to make
    loaded,     \* the keys the loader has put in
    log, since, \* history: the calls on each key in the order of their
                \* returns, and how many there were when a call began
    reg,        \* the local variables of a call
    scanned,    \* the keys the last scan reported
    stay, torn  \* history of a scan: the keys that have been there since it
                \* began, and whether it has left a node that was locked

callVars == <<call, todo, loaded, log, since>>
vars == <<node, used, retired, pc, callVars, reg, scanned, stay, torn>>
scanVars == <<scanned, stay, torn>>

----------------------------------------------------------------------------
(* Nodes and their locks (node.h, hocc64.h).                               *)

\* slots: sequence of [key, val], val a child or a chain of items.  A new node
\* is all zeros until it is put in.  It has its level from the start: the zero
\* that stands there only makes an insert that comes by wait for the writer,
\* before it is sent back as here.
EmptyNode(l) ==
    [level |-> l, slots |-> << >>, next |-> NoNode, next_header |-> BSL_KEY_MIN,
     ver |-> 0, writer |-> NoThread, retry |-> FALSE, readers |-> 0]

Slot(k, v) == [key |-> k, val |-> v]

\* headers[l] is node l + 1.
Header(l) == l + 1

\* What hocc_validate compares of the word.
Ctrl(n) == [ver |-> node[n].ver, locked |-> node[n].writer # NoThread]
\* Through a null pointer there is no lock to take.
Unlocked(n) == n # NoNode /\ node[n].writer = NoThread
Drained(n) == node[n].readers = 0

\* The bit is set; the lock is there when the readers have gone.
WriteLock(t, n) ==
    /\ Unlocked(n)
    /\ node' = [node EXCEPT ![n].writer = t]

WriteLockEvicting(t, n) ==
    /\ Unlocked(n)
    /\ node' = [node EXCEPT ![n].writer = t, ![n].retry = TRUE]

\* The version of an unlocked node is one that no call remembers: versions
\* are compared for equality only, and 48 bits are not counted through while
\* a call holds on to one.
Remembered(n) ==
    {reg[t].v.ver : t \in {u \in Threads : reg[u].curr = n}}

NewVersion(n) ==
    Min((0..(Cardinality(Threads) + 1)) \ (Remembered(n) \cup {node[n].ver}))

\* nd with the nodes of S unlocked.
WriteUnlocked(nd, S) ==
    [n \in Nodes |-> IF n \notin S THEN nd[n]
                     ELSE [nd[n] EXCEPT !.writer = NoThread, !.retry = FALSE,
                                        !.ver = NewVersion(n)]]

\* find_rank: the last slot whose key is at most k, or the first.
Rank(slots, k) ==
    LET le == {i \in DOMAIN slots : slots[i].key <= k}
    IN  IF le = {} THEN 1 ELSE Cardinality(le)

Found(n, k) ==
    LET s == node[n].slots IN s # << >> /\ s[Rank(s, k)].key = k

Inserted(slots, k, v) == InsertAt(slots, Rank(slots, k) + 1, Slot(k, v))

\* The items of k, in whichever leaf k is.
Items(k) ==
    LET here == {n \in (1..used) \ retired :
                   node[n].level = 0 /\ \E i \in DOMAIN node[n].slots : node[n].slots[i].key = k}
    IN  IF here = {} THEN << >>
        ELSE LET s == node[CHOOSE n \in here : TRUE].slots IN s[Rank(s, k)].val

Present == {k \in Keys : Items(k) # << >>}

----------------------------------------------------------------------------
Key(t) == call[t].key
Op(t) == call[t].op
Curr(t) == reg[t].curr
FoundHere(t) == Found(Curr(t), Key(t))

NoReg == [level |-> 0, curr |-> NoNode, v |-> [ver |-> 0, locked |-> FALSE],
          next |-> NoNode, first |-> FALSE, prev |-> NoNode, left |-> NoNode, hold |-> {},
          spare |-> << >>, start |-> 0, out |-> << >>]

Goto(t, label) == pc' = [pc EXCEPT ![t] = label]
Locals(t, r) == reg' = [reg EXCEPT ![t] = r]

\* At the head of the top level; a scan remembers how far it is.
AtTop(start, out) ==
    LET top == Header(MAX_LEVEL - 1)
    IN  [NoReg EXCEPT !.level = MAX_LEVEL - 1, !.curr = top, !.v = Ctrl(top),
                      !.start = start, !.out = out]

\* goto top_retry
Retry(t) ==
    /\ Goto(t, "walk")
    /\ Locals(t, AtTop(reg[t].start, reg[t].out))

\* The call returns.
Return(t) ==
    /\ Goto(t, "idle")
    /\ call' = [call EXCEPT ![t] = NoCall]
    /\ since' = [since EXCEPT ![t] = 0]
    /\ Locals(t, NoReg)
    /\ UNCHANGED todo

Done(t, found, items) ==
    /\ Return(t)
    /\ log' = IF t = Loader THEN log
              ELSE [log EXCEPT ![Key(t)] =
                      Append(@, Entry(t, Op(t), found, items, since[t]))]
    /\ loaded' = IF t = Loader THEN loaded \cup {Key(t)} ELSE loaded

Init ==
    /\ node = [n \in Nodes |->
                 IF n > MAX_LEVEL THEN EmptyNode(0)
                 ELSE [EmptyNode(n - 1) EXCEPT
                         !.slots = <<Slot(BSL_KEY_MIN, IF n = 1 THEN << >> ELSE n - 1)>>,
                         !.next_header = BSL_KEY_MAX]]
    /\ used = MAX_LEVEL
    /\ retired = {}
    /\ pc = [t \in Threads |-> "idle"]
    /\ call = [t \in Threads |-> NoCall]
    /\ todo \in Plans
    /\ loaded = {}
    /\ log = [k \in Keys |-> << >>]
    /\ since = [t \in Threads |-> 0]
    /\ reg = [t \in Threads |-> NoReg]
    /\ scanned = [t \in Threads |-> << >>]
    /\ stay = [t \in Threads |-> {}]
    /\ torn = [t \in Threads |-> FALSE]

\* The table is loaded before the workers start.
Begin(t) ==
    /\ pc[t] = "idle"
    /\ todo[t] # << >>
    /\ t \in Workers => todo[Loader] = << >> /\ call[Loader] = NoCall
    /\ LET c == Head(todo[t])
       IN  /\ call' = [call EXCEPT ![t] = c]
           /\ since' = [since EXCEPT ![t] = Len(log[c.key])]
           /\ Locals(t, AtTop(IF c.op = "scan" THEN c.key ELSE 0, << >>))
           /\ stay' = [stay EXCEPT ![t] =
                         IF c.op = "scan" THEN {k \in Present : c.key <= k} ELSE {}]
    /\ todo' = [todo EXCEPT ![t] = Tail(@)]
    /\ torn' = [torn EXCEPT ![t] = FALSE]
    /\ scanned' = [scanned EXCEPT ![t] = << >>]
    /\ Goto(t, "walk")
    /\ UNCHANGED <<node, used, retired, loaded, log>>

----------------------------------------------------------------------------
(* The descent all calls share.                                            *)

\* The level at which the descent ends; insert goes on to the leaf (first)
\* when it finds its key above.
Target(t) ==
    IF Op(t) \in {"get", "scan"} \/ reg[t].first THEN 0 ELSE LevelOf[Key(t)]

Goal(t) == IF Op(t) = "scan" THEN reg[t].start ELSE Key(t)

\* delete does not move right at its target level before it has a lock.
MovesRight(t) ==
    /\ node[Curr(t)].next_header <= Goal(t)
    /\ ~ reg[t].first
    /\ Op(t) # "delete" \/ reg[t].level > Target(t)

Valid(t) == Ctrl(Curr(t)) = reg[t].v

\* n becomes the current node, with the version it has now.
Enter(t, n, l) ==
    /\ Locals(t, [reg[t] EXCEPT !.curr = n, !.v = Ctrl(n), !.level = l,
                                !.next = NoNode])
    /\ Goto(t, "walk")

\* Mutant: a node that is being written is left without a retry.
MoveRight_locked(t) ==
    /\ pc[t] = "walk"
    /\ Op(t) # "scan" /\ MovesRight(t)
    /\ LET n == node[Curr(t)].next
       IN  IF n = NoNode \/ ~ Valid(t) THEN Retry(t)
           ELSE Enter(t, n, reg[t].level)
    /\ UNCHANGED <<node, used, retired, callVars, scanVars>>

\* next_header, next and the next node's version count only if the node left
\* is still as it was, and unlocked.
MoveRight(t) ==
    /\ pc[t] = "walk"
    /\ Op(t) # "scan" /\ MovesRight(t)
    /\ LET n == node[Curr(t)].next
       IN  IF n = NoNode \/ reg[t].v.locked \/ ~ Valid(t) THEN Retry(t)
           ELSE Enter(t, n, reg[t].level)
    /\ UNCHANGED <<node, used, retired, callVars, scanVars>>

\* scan does not ask whether the node it leaves was locked: what it has read
\* may be older than what the writer has written meanwhile.
ScanHeader(t) ==
    /\ pc[t] = "walk"
    /\ Op(t) = "scan" /\ MovesRight(t)
    /\ Goto(t, "next")
    /\ UNCHANGED <<node, used, retired, callVars, reg, scanVars>>

ScanReadNext(t) ==
    /\ pc[t] = "next"
    /\ LET n == node[Curr(t)].next
       IN  IF n = NoNode THEN Retry(t)
           ELSE Locals(t, [reg[t] EXCEPT !.next = n]) /\ Goto(t, "move")
    /\ UNCHANGED <<node, used, retired, callVars, scanVars>>

ScanMove(t) ==
    /\ pc[t] = "move"
    /\ IF Valid(t) THEN Enter(t, reg[t].next, reg[t].level) ELSE Retry(t)
    /\ torn' = [torn EXCEPT ![t] = @ \/ (Valid(t) /\ reg[t].v.locked)]
    /\ UNCHANGED <<node, used, retired, callVars, scanned, stay>>

\* Phase 1: the pointer is legitimate.
ReadChild(t) ==
    /\ pc[t] = "walk"
    /\ ~ MovesRight(t)
    /\ reg[t].level > Target(t)
    /\ IF reg[t].v.locked \/ ~ Valid(t) THEN Retry(t)
       ELSE /\ LET s == node[Curr(t)].slots
                   rank == IF reg[t].first THEN 1 ELSE Rank(s, Goal(t))
               IN  Locals(t, [reg[t] EXCEPT !.next = s[rank].val])
            /\ Goto(t, IF Op(t) = "scan" /\ reg[t].level = 1 THEN "read_lock"
                       ELSE "enter_child")
    /\ UNCHANGED <<node, used, retired, callVars, scanVars>>

\* Phase 2: the child's version is read while it is this node's child.
EnterChild(t) ==
    /\ pc[t] = "enter_child"
    /\ IF Valid(t) THEN Enter(t, reg[t].next, reg[t].level - 1) ELSE Retry(t)
    /\ UNCHANGED <<node, used, retired, callVars, scanVars>>

----------------------------------------------------------------------------
(* bsl_get at the leaf.                                                    *)

Value(t) ==
    LET s == node[Curr(t)].slots
    IN  IF FoundHere(t) THEN s[Rank(s, Key(t))].val ELSE << >>

GetReturn(t) ==
    /\ pc[t] = "walk"
    /\ Op(t) = "get" /\ ~ MovesRight(t) /\ reg[t].level = 0
    /\ IF ~ reg[t].v.locked /\ Valid(t) THEN Done(t, Value(t) # << >>, Value(t))
       ELSE Retry(t) /\ UNCHANGED callVars
    /\ UNCHANGED <<node, used, retired, scanVars>>

----------------------------------------------------------------------------
(* The lock at the target level.                                           *)

LockTarget(t) ==
    /\ pc[t] = "walk"
    /\ Op(t) \in {"insert", "delete"} /\ ~ MovesRight(t)
    /\ reg[t].level = Target(t)
    /\ WriteLock(t, Curr(t))
    /\ Goto(t, "locked")
    /\ UNCHANGED <<used, retired, callVars, reg, scanVars>>

\* Mutant: the node is written while it is still being read.
Locked_early(t) ==
    /\ pc[t] = "locked"
    /\ IF ~ reg[t].v.locked /\ node[Curr(t)].ver = reg[t].v.ver
       THEN Goto(t, Op(t)) /\ UNCHANGED <<node, reg>>
       ELSE Retry(t) /\ node' = WriteUnlocked(node, {Curr(t)})
    /\ UNCHANGED <<used, retired, callVars, scanVars>>

\* It must be as it was when the descent reached it.
Locked(t) ==
    /\ pc[t] = "locked"
    /\ Drained(Curr(t))
    /\ IF ~ reg[t].v.locked /\ node[Curr(t)].ver = reg[t].v.ver
       THEN Goto(t, Op(t)) /\ UNCHANGED <<node, reg>>
       ELSE Retry(t) /\ node' = WriteUnlocked(node, {Curr(t)})
    /\ UNCHANGED <<used, retired, callVars, scanVars>>

----------------------------------------------------------------------------
(* bsl_insert from there on.                                               *)

\* The key is there: its item goes in front of the others.  After a descent
\* along first children the leaf's first slot is taken, unseen.
InsertDuplicate(t) ==
    /\ pc[t] = "insert"
    /\ reg[t].level = 0 /\ (reg[t].first \/ FoundHere(t))
    /\ LET n == Curr(t)
           i == IF reg[t].first THEN 1 ELSE Rank(node[n].slots, Key(t))
       IN  node' = WriteUnlocked([node EXCEPT ![n].slots[i].val = <<t>> \o @], {n})
    /\ Done(t, TRUE, << >>)
    /\ UNCHANGED <<used, retired, scanVars>>

\* The key is there, above the leaves.
InsertFollow(t) ==
    /\ pc[t] = "insert"
    /\ reg[t].level > 0 /\ FoundHere(t)
    /\ LET n == Curr(t)
           child == node[n].slots[Rank(node[n].slots, Key(t))].val
       IN  /\ Locals(t, [reg[t] EXCEPT !.curr = child, !.v = Ctrl(child),
                                       !.level = @ - 1, !.first = TRUE])
           /\ node' = WriteUnlocked(node, {n})
    /\ Goto(t, "walk")
    /\ UNCHANGED <<used, retired, callVars, scanVars>>

\* The nodes a key of level l gets below, locked by t; they are linked one
\* by one, the topmost first.
NewNodes(l) == [i \in 1..l |-> used + i]
WithNewNodes(t, l) ==
    [n \in Nodes |->
        IF n \in (used + 1)..(used + l)
        THEN [EmptyNode(l - (n - used)) EXCEPT !.writer = t] ELSE node[n]]

\* The value of t's new slot at level l, in a node of nd.
NewVal(t, spare) == IF spare = << >> THEN <<t>> ELSE Head(spare)

\* The slot of the key in node n, then down to the child left of it.
EnterSlot(t, n, others, spare, nd) ==
    LET s == nd[n].slots
        with == [nd EXCEPT ![n].slots = Inserted(s, Key(t), NewVal(t, spare))]
    IN  IF reg[t].level = 0
        THEN /\ node' = WriteUnlocked(with, others \cup {n})
             /\ Done(t, TRUE, << >>)
        ELSE /\ node' = WriteUnlocked(with, others)
             /\ Locals(t, [reg[t] EXCEPT !.curr = s[Rank(s, Key(t))].val,
                                         !.prev = n, !.spare = spare,
                                         !.next = NoNode,
                                         !.level = @ - 1])
             /\ Goto(t, "lock_child")
             /\ UNCHANGED callVars

InsertSlot(t) ==
    /\ pc[t] = "insert"
    /\ ~ reg[t].first /\ ~ FoundHere(t)
    /\ Len(node[Curr(t)].slots) < B
    /\ used + reg[t].level <= NodeCnt
    /\ LET l == reg[t].level
       IN  EnterSlot(t, Curr(t), {}, NewNodes(l), WithNewNodes(t, l))
    /\ used' = used + reg[t].level
    /\ UNCHANGED <<retired, scanVars>>

\* A full node gives its upper half to a new one ...
Split(t) ==
    /\ pc[t] = "insert"
    /\ ~ reg[t].first /\ ~ FoundHere(t)
    /\ Len(node[Curr(t)].slots) = B
    /\ used < NodeCnt
    /\ LET n == Curr(t)
           m == used + 1
           lower == SubSeq(node[n].slots, 1, B \div 2)
           upper == SubSeq(node[n].slots, B \div 2 + 1, B)
       IN  /\ node' = [node EXCEPT
                         ![m] = [EmptyNode(reg[t].level) EXCEPT
                                   !.slots = upper, !.writer = t,
                                   !.next = node[n].next,
                                   !.next_header = node[n].next_header],
                         ![n].slots = lower,
                         ![n].next_header = Head(upper).key]
           /\ Locals(t, [reg[t] EXCEPT !.next = m])
    /\ used' = used + 1
    /\ Goto(t, "split_next")
    /\ UNCHANGED <<retired, callVars, scanVars>>

\* ... and the key goes to the half its rank is in.
SplitNext(t) ==
    /\ pc[t] = "split_next"
    /\ used + reg[t].level <= NodeCnt
    /\ LET n == Curr(t)
           m == reg[t].next
           l == reg[t].level
           nd == [WithNewNodes(t, l) EXCEPT ![n].next = m]
       IN  IF Key(t) < node[n].next_header
           THEN EnterSlot(t, n, {m}, NewNodes(l), nd)
           ELSE EnterSlot(t, m, {n}, NewNodes(l), nd)
    /\ used' = used + reg[t].level
    /\ UNCHANGED <<retired, scanVars>>

LockChild(t) ==
    /\ pc[t] = "lock_child"
    /\ WriteLock(t, Curr(t))
    /\ Goto(t, "child_locked")
    /\ UNCHANGED <<used, retired, callVars, reg, scanVars>>

\* The node locked before, parent or left neighbour, is unlocked.
ChildLocked(t) ==
    /\ pc[t] = "child_locked"
    /\ Drained(Curr(t))
    /\ node' = WriteUnlocked(node, {reg[t].prev})
    /\ Locals(t, [reg[t] EXCEPT !.prev = NoNode])
    /\ Goto(t, "right")
    /\ UNCHANGED <<used, retired, callVars, scanVars>>

LockRight(t) ==
    /\ pc[t] = "right"
    /\ node[Curr(t)].next_header <= Key(t)
    /\ LET n == node[Curr(t)].next
       IN  /\ WriteLock(t, n)
           /\ Locals(t, [reg[t] EXCEPT !.prev = Curr(t), !.curr = n])
    /\ Goto(t, "child_locked")
    /\ UNCHANGED <<used, retired, callVars, scanVars>>

\* The key heads a new node, with what is right of it in the current one.
Promoted(t) ==
    LET n == Curr(t)
        m == Head(reg[t].spare)
        s == node[n].slots
        r == Rank(s, Key(t))
        slot == Slot(Key(t), NewVal(t, Tail(reg[t].spare)))
    IN  [node EXCEPT
           ![m].slots = <<slot>> \o SubSeq(s, r + 1, Len(s)),
           ![m].next = node[n].next,
           ![m].next_header = node[n].next_header,
           ![n].slots = SubSeq(s, 1, r),
           ![n].next_header = Key(t)]

PromoteLeaf(t) ==
    /\ pc[t] = "right"
    /\ Key(t) < node[Curr(t)].next_header
    /\ reg[t].level = 0
    /\ LET n == Curr(t)
           m == Head(reg[t].spare)
       IN  node' = WriteUnlocked([Promoted(t) EXCEPT ![n].next = m], {m, n})
    /\ Done(t, TRUE, << >>)
    /\ UNCHANGED <<used, retired, scanVars>>

Promote(t) ==
    /\ pc[t] = "right"
    /\ Key(t) < node[Curr(t)].next_header
    /\ reg[t].level > 0
    /\ node' = Promoted(t)
    /\ Goto(t, "promote_next")
    /\ UNCHANGED <<used, retired, callVars, reg, scanVars>>

PromoteNext(t) ==
    /\ pc[t] = "promote_next"
    /\ LET n == Curr(t)
           m == Head(reg[t].spare)
       IN  /\ node' = WriteUnlocked([node EXCEPT ![n].next = m], {m})
           /\ Locals(t, [reg[t] EXCEPT !.prev = n, !.curr = Last(node[n].slots).val,
                                       !.spare = Tail(@), !.level = @ - 1])
    /\ Goto(t, "lock_child")
    /\ UNCHANGED <<used, retired, callVars, scanVars>>

----------------------------------------------------------------------------
(* bsl_delete from the lock at the target level on.                        *)

\* Right to where the key should be; the left neighbour stays locked if the
\* key is found.
FindRight(t) ==
    /\ pc[t] = "delete"
    /\ ~ FoundHere(t)
    /\ node[Curr(t)].next_header <= Key(t)
    /\ LET n == node[Curr(t)].next
       IN  /\ WriteLock(t, n)
           /\ Locals(t, [reg[t] EXCEPT !.prev = Curr(t), !.curr = n])
    /\ Goto(t, "find_locked")
    /\ UNCHANGED <<used, retired, callVars, scanVars>>

FindLocked(t) ==
    /\ pc[t] = "find_locked"
    /\ Drained(Curr(t))
    /\ IF FoundHere(t) THEN UNCHANGED <<node, reg>>
       ELSE /\ node' = WriteUnlocked(node, {reg[t].prev})
            /\ Locals(t, [reg[t] EXCEPT !.prev = NoNode])
    /\ Goto(t, "delete")
    /\ UNCHANGED <<used, retired, callVars, scanVars>>

DeleteAbsent(t) ==
    /\ pc[t] = "delete"
    /\ ~ FoundHere(t)
    /\ Key(t) < node[Curr(t)].next_header
    /\ node' = WriteUnlocked(node, {Curr(t)})
    /\ Done(t, FALSE, << >>)
    /\ UNCHANGED <<used, retired, scanVars>>

\* The key leaves the map: scans need not report it.
Gone(t) == stay' = [u \in Threads |-> stay[u] \ {Key(t)}] /\ UNCHANGED <<scanned, torn>>

CurrRank(t) == Rank(node[Curr(t)].slots, Key(t))

\* Mutant: the left neighbour stays locked.
DeleteSlot_keep(t) ==
    /\ pc[t] = "delete"
    /\ FoundHere(t) /\ CurrRank(t) > 1
    /\ reg[t].level = 0
    /\ node' = WriteUnlocked([node EXCEPT ![Curr(t)].slots = RemoveAt(@, CurrRank(t))],
                             {Curr(t)})
    /\ Done(t, TRUE, << >>)
    /\ Gone(t)
    /\ UNCHANGED <<used, retired>>

DeleteSlot(t) ==
    /\ pc[t] = "delete"
    /\ FoundHere(t) /\ CurrRank(t) > 1
    /\ reg[t].level = 0
    /\ node' = WriteUnlocked([node EXCEPT ![Curr(t)].slots = RemoveAt(@, CurrRank(t))],
                             {Curr(t), reg[t].prev})
    /\ Done(t, TRUE, << >>)
    /\ Gone(t)
    /\ UNCHANGED <<used, retired>>

\* From here on curr heads with the key and left is somewhere left of it.
DeleteIndex(t) ==
    /\ pc[t] = "delete"
    /\ FoundHere(t) /\ CurrRank(t) > 1
    /\ reg[t].level > 0
    /\ LET n == Curr(t)
           s == node[n].slots
           r == CurrRank(t)
       IN  /\ node' = [node EXCEPT ![n].slots = RemoveAt(@, r)]
           /\ Locals(t, [reg[t] EXCEPT !.hold = {n, reg[t].prev}, !.prev = NoNode,
                                       !.curr = s[r].val, !.left = s[r - 1].val])
    /\ Goto(t, "lock_left")
    /\ UNCHANGED <<used, retired, callVars, scanVars>>

\* assert(prev): the delete has come from the left.
DeleteFirst(t) ==
    /\ pc[t] = "delete"
    /\ FoundHere(t) /\ CurrRank(t) = 1
    /\ reg[t].prev # NoNode
    /\ Locals(t, [reg[t] EXCEPT !.left = reg[t].prev, !.prev = NoNode])
    /\ Goto(t, "unlink")
    /\ UNCHANGED <<node, used, retired, callVars, scanVars>>

LockLeft(t) ==
    /\ pc[t] = "lock_left"
    /\ WriteLock(t, reg[t].left)
    /\ Goto(t, "left_locked")
    /\ UNCHANGED <<used, retired, callVars, reg, scanVars>>

LockCurrent(t) ==
    /\ pc[t] = "left_locked"
    /\ Drained(reg[t].left)
    /\ WriteLockEvicting(t, Curr(t))
    /\ Goto(t, "current_locked")
    /\ UNCHANGED <<used, retired, callVars, reg, scanVars>>

CurrentLocked(t) ==
    /\ pc[t] = "current_locked"
    /\ Drained(Curr(t))
    /\ node' = WriteUnlocked(node, reg[t].hold)
    /\ Locals(t, [reg[t] EXCEPT !.hold = {}])
    /\ Goto(t, "unlink")
    /\ UNCHANGED <<used, retired, callVars, scanVars>>

Adjacent(t) == node[reg[t].left].next = Curr(t)

LockLeftNext(t) ==
    /\ pc[t] = "unlink"
    /\ ~ Adjacent(t)
    /\ LET n == node[reg[t].left].next
       IN  /\ WriteLock(t, n)
           /\ Locals(t, [reg[t] EXCEPT !.prev = reg[t].left, !.left = n])
    /\ Goto(t, "left_moved")
    /\ UNCHANGED <<used, retired, callVars, scanVars>>

LeftMoved(t) ==
    /\ pc[t] = "left_moved"
    /\ Drained(reg[t].left)
    /\ node' = WriteUnlocked(node, {reg[t].prev})
    /\ Locals(t, [reg[t] EXCEPT !.prev = NoNode])
    /\ Goto(t, "unlink")
    /\ UNCHANGED <<used, retired, callVars, scanVars>>

Level(t) == node[Curr(t)].level
Single(t) == Len(node[Curr(t)].slots) = 1

\* Mutant: next_header is not written when the node stays.
UnlinkedHeader_stale(t) ==
    IF Single(t) THEN [node EXCEPT ![reg[t].left].next_header = node[Curr(t)].next_header]
    ELSE [node EXCEPT ![Curr(t)].slots = Tail(@)]

\* The key's slot is the only one of its node, or the first of several.
UnlinkedHeader(t) ==
    IF Single(t) THEN [node EXCEPT ![reg[t].left].next_header = node[Curr(t)].next_header]
    ELSE [node EXCEPT ![reg[t].left].next_header = node[Curr(t)].slots[2].key,
                      ![Curr(t)].slots = Tail(@)]

\* Mutant: the node is retired and stays linked.
UnlinkedNext_linked(t, nd) == nd

\* num_elts becomes 0 (Elts); the slot stays in memory, where only a call that
\* has the node already can see it.
UnlinkedNext(t, nd) ==
    [nd EXCEPT ![reg[t].left].next = node[Curr(t)].next]

\* One level down: the left neighbour stays locked until both children are.
Descend(t, nd) ==
    /\ node' = WriteUnlocked(nd, {Curr(t)})
    /\ Locals(t, [reg[t] EXCEPT !.hold = {reg[t].left},
                                !.curr = Head(node[Curr(t)].slots).val,
                                !.left = Last(node[reg[t].left].slots).val])
    /\ Goto(t, "lock_left")

UnlinkSlot(t) ==
    /\ pc[t] = "unlink"
    /\ Adjacent(t) /\ Level(t) > 0 /\ ~ Single(t)
    /\ Descend(t, UnlinkedHeader(t))
    /\ UNCHANGED <<used, retired, callVars, scanVars>>

UnlinkNode(t) ==
    /\ pc[t] = "unlink"
    /\ Adjacent(t) /\ Level(t) > 0 /\ Single(t)
    /\ node' = UnlinkedHeader(t)
    /\ Goto(t, "unlink_next")
    /\ UNCHANGED <<used, retired, callVars, reg, scanVars>>

UnlinkNext(t) ==
    /\ pc[t] = "unlink_next"
    /\ Descend(t, UnlinkedNext(t, node))
    /\ retired' = retired \cup {Curr(t)}
    /\ UNCHANGED <<used, callVars, scanVars>>

UnlinkLeaf(t) ==
    /\ pc[t] = "unlink"
    /\ Adjacent(t) /\ Level(t) = 0
    /\ LET nd == UnlinkedHeader(t)
       IN  node' = WriteUnlocked(IF Single(t) THEN UnlinkedNext(t, nd) ELSE nd,
                                 {Curr(t), reg[t].left})
    /\ retired' = IF Single(t) THEN retired \cup {Curr(t)} ELSE retired
    /\ Done(t, TRUE, << >>)
    /\ Gone(t)
    /\ UNCHANGED <<used>>

----------------------------------------------------------------------------
(* bsl_scan_n at the leaves, which it locks for reading.                   *)

Readers(nd, n, d) == [nd EXCEPT ![n].readers = @ + d]

ReadLock(t) ==
    /\ pc[t] = "read_lock"
    /\ Unlocked(reg[t].next)
    /\ node' = Readers(node, reg[t].next, 1)
    /\ Goto(t, "read_locked")
    /\ UNCHANGED <<used, retired, callVars, reg, scanVars>>

\* Mutant: the parent is not validated again.
ReadLocked_unchecked(t) ==
    /\ pc[t] = "read_locked"
    /\ Locals(t, [reg[t] EXCEPT !.curr = reg[t].next, !.next = NoNode, !.level = 0])
    /\ Goto(t, "scan_right")
    /\ UNCHANGED <<node, used, retired, callVars, scanVars>>

ReadLocked(t) ==
    /\ pc[t] = "read_locked"
    /\ IF Valid(t)
       THEN /\ Locals(t, [reg[t] EXCEPT !.curr = reg[t].next, !.next = NoNode,
                                        !.level = 0])
            /\ Goto(t, "scan_right")
            /\ UNCHANGED node
       ELSE Retry(t) /\ node' = Readers(node, reg[t].next, -1)
    /\ UNCHANGED <<used, retired, callVars, scanVars>>

ScanRight(t) ==
    /\ pc[t] = "scan_right"
    /\ node[Curr(t)].next_header <= reg[t].start
    /\ LET n == node[Curr(t)].next
       IN  /\ Unlocked(n)
           /\ node' = Readers(Readers(node, n, 1), Curr(t), -1)
           /\ Locals(t, [reg[t] EXCEPT !.curr = n])
    /\ UNCHANGED <<used, retired, pc, callVars, scanVars>>

\* Where the scan goes on if it is sent back to the top.
NextStart_same(out, start) == IF out = << >> THEN start ELSE Last(out)
NextStart(out, start) == IF out = << >> THEN start ELSE Last(out) + 1

ScanReturns(t, out) ==
    /\ node' = Readers(node, Curr(t), -1)
    /\ scanned' = [scanned EXCEPT ![t] = out]
    /\ Return(t) /\ UNCHANGED <<loaded, log>>

\* num_elts, which the delete that empties a node sets to 0; its slot stays in
\* memory.
Elts(n) == IF n \in retired THEN 0 ELSE Len(node[n].slots)

\* The first leaf is read from the slot of start or the one after it, the
\* others from their first slot.
FirstSlot(t) ==
    LET s == node[Curr(t)].slots
        rank == Rank(s, reg[t].start)
    IN  IF pc[t] = "scan_batch" THEN 1
        ELSE IF s[rank].key = reg[t].start THEN rank ELSE rank + 1

\* In an emptied leaf, where only a torn scan comes, the slot after start's is
\* past num_elts: batch_size wraps, and the scan ends with what is in memory.
ScanBatch(t) ==
    /\ \/ pc[t] = "scan_right" /\ reg[t].start < node[Curr(t)].next_header
       \/ pc[t] = "scan_batch"
    /\ LET n == Curr(t)
           first == FirstSlot(t)
           room == ScanLen - Len(reg[t].out)
           batch == SubSeq(node[n].slots, first, Min({Elts(n), first + room - 1}))
           out == reg[t].out \o [i \in DOMAIN batch |-> batch[i].key]
       IN  IF first > Elts(n) + 1
           THEN \E stale \in [1..room -> Keys \cup {BSL_KEY_MIN}] :
                   ScanReturns(t, reg[t].out \o stale)
           ELSE IF node[n].next = NoNode \/ Len(out) = ScanLen THEN ScanReturns(t, out)
           ELSE /\ Locals(t, [reg[t] EXCEPT !.out = out,
                                            !.start = NextStart(out, @)])
                /\ Goto(t, "scan_next")
                /\ UNCHANGED <<node, callVars, scanned>>
    /\ UNCHANGED <<used, retired, stay, torn>>

\* Mutant: a node that asks for a retry ends the scan.
ScanNext_stop(t) ==
    /\ pc[t] = "scan_next"
    /\ LET m == node[Curr(t)].next
       IN  \/ node[m].retry /\ ScanReturns(t, reg[t].out)
           \/ /\ ~ node[m].retry /\ Unlocked(m)
              /\ node' = Readers(Readers(node, m, 1), Curr(t), -1)
              /\ Locals(t, [reg[t] EXCEPT !.curr = m])
              /\ Goto(t, "scan_batch")
              /\ UNCHANGED <<callVars, scanned>>
    /\ UNCHANGED <<used, retired, stay, torn>>

\* hocc_read_trylock: a node being emptied or unlinked sends the scan back.
ScanNext(t) ==
    /\ pc[t] = "scan_next"
    /\ LET m == node[Curr(t)].next
       IN  \/ /\ node[m].retry
              /\ node' = Readers(node, Curr(t), -1)
              /\ Retry(t)
           \/ /\ ~ node[m].retry /\ Unlocked(m)
              /\ node' = Readers(Readers(node, m, 1), Curr(t), -1)
              /\ Locals(t, [reg[t] EXCEPT !.curr = m])
              /\ Goto(t, "scan_batch")
    /\ UNCHANGED <<used, retired, callVars, scanVars>>

----------------------------------------------------------------------------
Step(t) ==
    \/ Begin(t) \/ MoveRight(t) \/ ScanHeader(t) \/ ScanReadNext(t)
    \/ ScanMove(t) \/ ReadChild(t)
    \/ EnterChild(t) \/ GetReturn(t) \/ LockTarget(t) \/ Locked(t)
    \/ InsertDuplicate(t) \/ InsertFollow(t) \/ InsertSlot(t) \/ Split(t)
    \/ SplitNext(t) \/ LockChild(t) \/ ChildLocked(t) \/ LockRight(t)
    \/ PromoteLeaf(t) \/ Promote(t) \/ PromoteNext(t)
    \/ FindRight(t) \/ FindLocked(t) \/ DeleteAbsent(t) \/ DeleteSlot(t)
    \/ DeleteIndex(t) \/ DeleteFirst(t) \/ LockLeft(t) \/ LockCurrent(t)
    \/ CurrentLocked(t) \/ LockLeftNext(t) \/ LeftMoved(t) \/ UnlinkSlot(t)
    \/ UnlinkNode(t) \/ UnlinkNext(t) \/ UnlinkLeaf(t)
    \/ ReadLock(t) \/ ReadLocked(t) \/ ScanRight(t) \/ ScanBatch(t) \/ ScanNext(t)

\* Every worker has made its calls.
Terminated ==
    /\ \A t \in Threads : pc[t] = "idle"
    /\ \A t \in Threads : todo[t] = << >>
    /\ UNCHANGED vars

Next == (\E t \in Threads : Step(t)) \/ Terminated

Spec == Init /\ [][Next]_vars

----------------------------------------------------------------------------
(* Properties.                                                             *)

\* Linearizability: bsl_insert, bsl_delete and bsl_get each take effect at
\* one moment between call and return, whatever splits, promotions and
\* unlinkings happen around them.  Which moment that is can depend on what
\* happens later (a delete is seen to have removed its key before the leaf
\* is reached), so the calls are judged when all have returned.
Linearizable ==
    (\A t \in Workers : pc[t] = "idle") =>
        \A k \in Keys :
            LinearizableHistory(log[k], IF k \in loaded THEN <<Loader>> ELSE << >>,
                                Items(k))

\* Whoever is not in a call holds nothing: no retry, early return or
\* hand-over leaves a node locked, and the readers a node counts are the
\* scans that stand on it.
Reading(t, n) ==
    \/ pc[t] \in {"scan_right", "scan_batch", "scan_next"} /\ Curr(t) = n
    \/ pc[t] = "read_locked" /\ reg[t].next = n

NoLockLeft ==
    \A n \in 1..used :
        /\ node[n].writer # NoThread => call[node[n].writer] # NoCall
        /\ node[n].readers = Cardinality({t \in Threads : Reading(t, n)})

\* What a node holds changes only under its writer bit and when its readers have
\* gone, whichever of the calls that meet there splits it, promotes a key from it
\* or unlinks its neighbour: what HOCC64 promises those who read under it.
Contents(n) ==
    <<node[n].level, node[n].slots, node[n].next, node[n].next_header>>

WritesExclusive ==
    [][\A n \in 1..used : Contents(n)' # Contents(n) => ~ Unlocked(n) /\ Drained(n)]_vars

\* A node that nobody has locked is in order: its keys ascend, it ends where
\* its right neighbour begins, and each child begins with its slot's key.
Begins(n, k) == node[n].slots # << >> /\ Head(node[n].slots).key = k

InOrder ==
    \A n \in (1..used) \ retired : Unlocked(n) =>
        LET s == node[n].slots
        IN  /\ s # << >>
            /\ \A i \in 1..(Len(s) - 1) : s[i].key < s[i + 1].key
            /\ Last(s).key < node[n].next_header
            /\ node[n].next_header =
                 IF node[n].next = NoNode THEN BSL_KEY_MAX
                 ELSE Head(node[node[n].next].slots).key
            /\ node[n].level > 0 =>
                 \A i \in DOMAIN s :
                    LET c == s[i].val
                    IN  /\ node[c].level = node[n].level - 1
                        /\ Unlocked(c) => Begins(c, s[i].key)

\* What ebr_retire is promised: a node is retired once no node that is still
\* in the list points to it, so that only calls that have come across it
\* before can reach it.
RetiredUnreachable ==
    \A n \in (1..used) \ retired :
        /\ node[n].next \notin retired
        /\ node[n].level > 0 =>
             \A i \in DOMAIN node[n].slots : node[n].slots[i].val \notin retired

\* What a scan must have reported when it returns: every key from its start on
\* that was there all the time, as far as the scan goes.
Reported(t) ==
    \A k \in stay[t] :
        \/ \E i \in DOMAIN scanned[t] : scanned[t][i] = k
        \/ Len(scanned[t]) = ScanLen /\ Last(scanned[t]) < k

\* A scan misses no key that was there from its call to its return, by the
\* two-phase validation of bsl_get.c that bsl_scan.c refers to.
ScanComplete == \A t \in Threads : pc[t] = "idle" => Reported(t)

\* The same for scans that have not moved on from a node while it was being
\* written: whatever is split, promoted or unlinked under the scan and however
\* often it is sent back to the top.
ScanCompleteUntorn ==
    \A t \in Threads : pc[t] = "idle" /\ ~ torn[t] => Reported(t)

\* A scan that has not moved on from a node while it was being written reports
\* keys in ascending order, none of them twice, also when it is sent back to the
\* top between two leaves.
Ascends(s) == \A i \in 1..(Len(s) - 1) : s[i] < s[i + 1]

ScanAscending ==
    \A t \in Threads : ~ torn[t] => Ascends(reg[t].out) /\ Ascends(scanned[t])

\* A scan stands on leaves that are in the list: it reads no slots of a leaf
\* that has been emptied, whose num_elts of 0 its loop would take below 0.
ScanLeafLive ==
    \A t \in Threads :
        pc[t] \in {"scan_right", "scan_batch", "scan_next"} /\ ~ torn[t]
            => Curr(t) \notin retired
=============================================================================
